------------------------- MODULE VirtualDevicesProofs -------------------------
(***************************************************************************)
(* Proofs, for any number of players and any set of devices, of the        *)
(* properties that MCVirtualDevices checks on a small instance.            *)
(***************************************************************************)
EXTENDS BindLoop, FiniteSetTheorems, SequenceTheorems,
        WellFoundedInduction, TLAPS

(* A set of naturals that is not empty has a least element.                *)
LEMMA LeastElement ==
  ASSUME NEW T \in SUBSET Nat, T # {}
  PROVE  \E x \in T : \A y \in T : x <= y
  <1>1. PICK x \in T : \A y \in T : ~ (<<y, x>> \in OpToRel(<, Nat))
    BY NatLessThanWellFounded, WFMin
  <1>2. ASSUME NEW y \in T PROVE x <= y
    <2>1. x \in Nat /\ y \in Nat
      OBVIOUS
    <2>2. ~ (y < x)
      BY <1>1, <2>1 DEF OpToRel
    <2>3. QED
      BY <2>1, <2>2
  <1>3. QED
    BY <1>2

(* A set of indices of a sequence that is not empty has a greatest element. *)
LEMMA GreatestIndex ==
  ASSUME NEW n \in Nat, NEW T \in SUBSET (1..n), T # {}
  PROVE  \E x \in T : \A y \in T : y <= x
  <1> DEFINE M == {n - t : t \in T}
  <1>1. M \in SUBSET Nat /\ M # {}
    <2>1. \A t \in T : t \in 1..n
      OBVIOUS
    <2>2. \A t \in T : n - t \in Nat
      BY <2>1
    <2>3. QED
      BY <2>2
  <1>2. PICK m \in M : \A y \in M : m <= y
    BY <1>1, LeastElement
  <1>3. PICK x \in T : m = n - x
    OBVIOUS
  <1>4. ASSUME NEW y \in T PROVE y <= x
    <2>1. n - y \in M
      OBVIOUS
    <2>2. m <= n - y
      BY <1>2, <2>1
    <2>3. x \in Int /\ y \in Int
      OBVIOUS
    <2>4. QED
      BY <1>3, <2>2, <2>3
  <1>5. QED
    BY <1>4

-----------------------------------------------------------------------------
(* The parts of the inductive invariant, stated of any pair of tables so   *)
(* that they can be used of the tables between two calls of one operation. *)
Typed(V, R) ==
  /\ V \in [VirtualDeviceId -> VirtualDeviceState]
  /\ R \in Seq(RealDeviceState)

UniqueIds(R) == \A i, j \in DOMAIN R : R[i].id = R[j].id => i = j

VirtualAgrees(V, R) ==
  \A v \in VirtualDeviceId :
    V[v].binding # None =>
      \E i \in DOMAIN R : R[i].id = V[v].binding /\ R[i].binding = v

RealAgrees(V, R) ==
  \A i \in DOMAIN R :
    R[i].binding # None => V[R[i].binding].binding = R[i].id

Agree(V, R) == UniqueIds(R) /\ VirtualAgrees(V, R) /\ RealAgrees(V, R)

Neutral(V) ==
  \A v \in VirtualDeviceId :
    V[v].binding = None => V[v].inputs = DefaultInputs

(* At most one pair can be bound: one player is free, or one device waits. *)
AtMostOnePair(V, R) ==
  \/ \A v, w \in UnboundVirtual(V) : v = w
  \/ \A r, s \in UnboundReal(R) : r = s

(* The tables with player v given to the device at index r.                *)
BindVirtual(V, R, v, r) == [V EXCEPT ![v].binding = R[r].id]
BindReal(R, v, r)       == [R EXCEPT ![r].binding = v]

(* The inductive invariant: the four invariants of the module together.    *)
IInv == TypeOK /\ BindingsAgree /\ NoIdlePair /\ UnboundNeutral

LEMMA IInvParts ==
  IInv <=> /\ Typed(virtual_devices, real_devices)
           /\ Agree(virtual_devices, real_devices)
           /\ NoIdlePair
           /\ Neutral(virtual_devices)
  BY DEF IInv, TypeOK, BindingsAgree, UnboundNeutral, Typed, Agree, UniqueIds,
         VirtualAgrees, RealAgrees, Neutral

-----------------------------------------------------------------------------
(* What bind_devices does to tables in which no pair can be bound: nothing. *)
LEMMA BindNothing ==
  ASSUME NEW V, NEW R, Typed(V, R),
         UnboundVirtual(V) = {} \/ UnboundReal(R) = {}
  PROVE  bind_devices(V, R) = [virtual |-> V, real |-> R]
  <1>1. \A v, r : ~ Paired(V, R, v, r)
    BY DEF Paired
  <1>2. V = [v \in VirtualDeviceId |-> V[v]]
    BY DEF Typed
  <1>3. R = [r \in DOMAIN R |-> R[r]]
    BY DEF Typed
  <1>4. QED
    BY <1>1, <1>2, <1>3 DEF bind_devices

LEMMA TypedDomains ==
  ASSUME NEW V, NEW R, Typed(V, R)
  PROVE  /\ Len(R) \in Nat /\ DOMAIN R = 1..Len(R)
         /\ UnboundVirtual(V) \in SUBSET Nat
         /\ UnboundReal(R) \in SUBSET (1..Len(R))
         /\ \A r \in DOMAIN R : R[r] \in RealDeviceState
         /\ \A v \in VirtualDeviceId : V[v] \in VirtualDeviceState
         /\ IsFiniteSet(UnboundVirtual(V))
         /\ IsFiniteSet(UnboundReal(R))
  <1>1. Len(R) \in Nat /\ DOMAIN R = 1..Len(R)
    BY DEF Typed
  <1>2. VirtualDeviceId \subseteq Nat /\ IsFiniteSet(VirtualDeviceId)
    BY VirtualDevicesAssumption, FS_Interval DEF VirtualDeviceId
  <1>3. IsFiniteSet(UnboundVirtual(V))
    BY <1>2, FS_Subset DEF UnboundVirtual
  <1>4. IsFiniteSet(DOMAIN R)
    BY <1>1, FS_Interval
  <1>5. IsFiniteSet(UnboundReal(R))
    BY <1>4, FS_Subset DEF UnboundReal
  <1>6. \A r \in DOMAIN R : R[r] \in RealDeviceState
    BY <1>1, ElementOfSeq DEF Typed
  <1>7. QED
    BY <1>1, <1>2, <1>3, <1>5, <1>6 DEF Typed, UnboundVirtual, UnboundReal

(* When at most one pair can be bound, Paired holds of exactly one: the    *)
(* first free player and the newest device that waits.                     *)
LEMMA OnePaired ==
  ASSUME NEW V, NEW R, Typed(V, R), AtMostOnePair(V, R),
         UnboundVirtual(V) # {}, UnboundReal(R) # {}
  PROVE  \E v \in UnboundVirtual(V), r \in UnboundReal(R) :
           /\ \A w, s : Paired(V, R, w, s) <=> (w = v /\ s = r)
           /\ \A s \in UnboundReal(R) : s <= r
  <1> DEFINE UV == UnboundVirtual(V)
             UR == UnboundReal(R)
  <1>1. PICK v \in UV : \A w \in UV : v <= w
    BY TypedDomains, LeastElement
  <1>2. PICK r \in UR : \A s \in UR : s <= r
    BY TypedDomains, GreatestIndex
  <1>3. UV \subseteq Nat /\ UR \subseteq Nat
    BY TypedDomains
  <1>4. ASSUME NEW w \in UV
        PROVE  /\ IsFiniteSet({u \in UV : u < w})
               /\ Cardinality({u \in UV : u < w}) = 0 <=> w = v
    <2>1. {u \in UV : u < w} \in SUBSET UV
      OBVIOUS
    <2>2. IsFiniteSet({u \in UV : u < w})
      BY <2>1, TypedDomains, FS_Subset
    <2>3. {u \in UV : u < w} = {} <=> w = v
      BY <1>1, <1>3
    <2>4. QED
      BY <2>2, <2>3, FS_EmptySet
  <1>5. ASSUME NEW s \in UR
        PROVE  /\ IsFiniteSet({t \in UR : t > s})
               /\ Cardinality({t \in UR : t > s}) = 0 <=> s = r
    <2>1. {t \in UR : t > s} \in SUBSET UR
      OBVIOUS
    <2>2. IsFiniteSet({t \in UR : t > s})
      BY <2>1, TypedDomains, FS_Subset
    <2>3. {t \in UR : t > s} = {} <=> s = r
      BY <1>2, <1>3
    <2>4. QED
      BY <2>2, <2>3, FS_EmptySet
  <1>6. (\A w \in UV : w = v) \/ (\A s \in UR : s = r)
    BY <1>1, <1>2 DEF AtMostOnePair
  <1>7. ASSUME NEW w, NEW s
        PROVE  Paired(V, R, w, s) <=> (w = v /\ s = r)
    <2>1. CASE w \in UV /\ s \in UR
      BY <1>4, <1>5, <1>6, <2>1 DEF Paired
    <2>2. CASE ~ (w \in UV /\ s \in UR)
      BY <1>1, <1>2, <2>2 DEF Paired
    <2>3. QED
      BY <2>1, <2>2
  <1>8. QED
    BY <1>1, <1>2, <1>7

(* What bind_devices does when at most one pair can be bound.              *)
LEMMA BindOne ==
  ASSUME NEW V, NEW R, Typed(V, R), AtMostOnePair(V, R),
         UnboundVirtual(V) # {}, UnboundReal(R) # {}
  PROVE  \E v \in UnboundVirtual(V), r \in UnboundReal(R) :
           /\ bind_devices(V, R) =
                [virtual |-> BindVirtual(V, R, v, r), real |-> BindReal(R, v, r)]
           /\ \A s \in UnboundReal(R) : s <= r
  <1>1. PICK v \in UnboundVirtual(V), r \in UnboundReal(R) :
          /\ \A w, s : Paired(V, R, w, s) <=> (w = v /\ s = r)
          /\ \A s \in UnboundReal(R) : s <= r
    BY OnePaired
  <1>2. v \in VirtualDeviceId /\ r \in DOMAIN R
    BY DEF UnboundVirtual, UnboundReal
  <1>3. (CHOOSE s \in DOMAIN R : Paired(V, R, v, s)) = r
    BY <1>1, <1>2
  <1>4. (CHOOSE w \in VirtualDeviceId : Paired(V, R, w, r)) = v
    BY <1>1, <1>2
  <1>5. bind_devices(V, R).virtual =
          [w \in VirtualDeviceId |->
             IF w = v THEN [V[w] EXCEPT !.binding = R[r].id] ELSE V[w]]
    BY <1>1, <1>2, <1>3 DEF bind_devices
  <1>6. bind_devices(V, R).real =
          [s \in DOMAIN R |->
             IF s = r THEN [R[s] EXCEPT !.binding = v] ELSE R[s]]
    BY <1>1, <1>2, <1>4 DEF bind_devices
  <1>7. bind_devices(V, R).virtual = BindVirtual(V, R, v, r)
    BY <1>2, <1>5 DEF BindVirtual, Typed
  <1>8. bind_devices(V, R).real = BindReal(R, v, r)
    BY <1>2, <1>6 DEF BindReal, Typed
  <1>9. bind_devices(V, R) = [virtual |-> bind_devices(V, R).virtual,
                              real |-> bind_devices(V, R).real]
    BY DEF bind_devices
  <1>10. QED
    BY <1>1, <1>7, <1>8, <1>9

(* One binding, entry by entry.                                            *)
LEMMA BindEntries ==
  ASSUME NEW V, NEW R, Typed(V, R),
         NEW v \in UnboundVirtual(V), NEW r \in UnboundReal(R)
  PROVE  LET V2 == BindVirtual(V, R, v, r)
             R2 == BindReal(R, v, r)
         IN  /\ Typed(V2, R2)
             /\ DOMAIN R2 = DOMAIN R
             /\ \A s \in DOMAIN R : R2[s].id = R[s].id
             /\ \A s \in DOMAIN R : s # r => R2[s] = R[s]
             /\ R2[r].binding = v
             /\ \A w \in VirtualDeviceId : w # v => V2[w] = V[w]
             /\ V2[v].binding = R[r].id
             /\ V2[v].inputs = V[v].inputs
  <1> DEFINE V2 == BindVirtual(V, R, v, r)
             R2 == BindReal(R, v, r)
  <1>1. v \in VirtualDeviceId /\ r \in DOMAIN R /\ r \in 1..Len(R)
    BY TypedDomains DEF UnboundVirtual, UnboundReal
  <1>2. R[r] \in RealDeviceState /\ V[v] \in VirtualDeviceState
    BY <1>1, TypedDomains
  <1>3. R[r].id \in DeviceIds /\ R[r].id # None
    BY <1>2, VirtualDevicesAssumption DEF RealDeviceState
  <1>4. [R[r] EXCEPT !.binding = v] \in RealDeviceState
    BY <1>1, <1>2 DEF RealDeviceState
  <1>5. [V[v] EXCEPT !.binding = R[r].id] \in VirtualDeviceState
    BY <1>2, <1>3 DEF VirtualDeviceState
  <1>6. V2 \in [VirtualDeviceId -> VirtualDeviceState]
    BY <1>1, <1>5 DEF BindVirtual, Typed
  <1>7. R2 \in Seq(RealDeviceState)
    BY <1>1, <1>4, ExceptSeq DEF BindReal, Typed
  <1>8. DOMAIN R2 = DOMAIN R
    BY DEF BindReal
  <1>9. \A s \in DOMAIN R : s # r => R2[s] = R[s]
    BY DEF BindReal
  <1>10. R2[r] = [R[r] EXCEPT !.binding = v]
    BY <1>1 DEF BindReal
  <1>11. R2[r].id = R[r].id /\ R2[r].binding = v
    BY <1>2, <1>10 DEF RealDeviceState
  <1>12. \A w \in VirtualDeviceId : w # v => V2[w] = V[w]
    BY DEF BindVirtual, Typed
  <1>13. V2[v] = [V[v] EXCEPT !.binding = R[r].id]
    BY <1>1 DEF BindVirtual, Typed
  <1>14. V2[v].binding = R[r].id /\ V2[v].inputs = V[v].inputs
    BY <1>2, <1>13 DEF VirtualDeviceState
  <1>15. \A s \in DOMAIN R : R2[s].id = R[s].id
    BY <1>9, <1>11
  <1> HIDE DEF V2, R2
  <1>16. QED
    BY <1>6, <1>7, <1>8, <1>9, <1>11, <1>12, <1>14, <1>15 DEF Typed, V2, R2

(* bind_devices keeps the tables in agreement, changes no inputs, and      *)
(* leaves no pair to bind.                                                 *)
LEMMA BindPreserves ==
  ASSUME NEW V, NEW R, Typed(V, R), Agree(V, R), Neutral(V), AtMostOnePair(V, R)
  PROVE  LET B == bind_devices(V, R)
         IN  /\ Typed(B.virtual, B.real)
             /\ Agree(B.virtual, B.real)
             /\ Neutral(B.virtual)
             /\ UnboundVirtual(B.virtual) = {} \/ UnboundReal(B.real) = {}
  <1>1. CASE UnboundVirtual(V) = {} \/ UnboundReal(R) = {}
    BY <1>1, BindNothing
  <1>2. CASE UnboundVirtual(V) # {} /\ UnboundReal(R) # {}
    <2>1. PICK v \in UnboundVirtual(V), r \in UnboundReal(R) :
            bind_devices(V, R) =
              [virtual |-> BindVirtual(V, R, v, r), real |-> BindReal(R, v, r)]
      BY <1>2, BindOne
    <2> DEFINE V2 == BindVirtual(V, R, v, r)
               R2 == BindReal(R, v, r)
    <2>2. /\ Typed(V2, R2)
          /\ DOMAIN R2 = DOMAIN R
          /\ \A s \in DOMAIN R : R2[s].id = R[s].id
          /\ \A s \in DOMAIN R : s # r => R2[s] = R[s]
          /\ R2[r].binding = v
          /\ \A w \in VirtualDeviceId : w # v => V2[w] = V[w]
          /\ V2[v].binding = R[r].id
          /\ V2[v].inputs = V[v].inputs
      BY BindEntries
    <2>3. /\ v \in VirtualDeviceId /\ r \in DOMAIN R
          /\ V[v].binding = None /\ R[r].binding = None
          /\ v # None /\ R[r].id # None
      <3>1. v \in VirtualDeviceId /\ r \in DOMAIN R
        BY DEF UnboundVirtual, UnboundReal
      <3>2. R[r] \in RealDeviceState
        BY <3>1, TypedDomains
      <3>3. R[r].id # None
        BY <3>2, VirtualDevicesAssumption DEF RealDeviceState
      <3>4. v # None
        BY <3>1, VirtualDevicesAssumption DEF VirtualDeviceId
      <3>5. QED
        BY <3>1, <3>3, <3>4 DEF UnboundVirtual, UnboundReal
    <2>4. bind_devices(V, R).virtual = V2 /\ bind_devices(V, R).real = R2
      BY <2>1
    <2> HIDE DEF V2, R2
    <2>5. UniqueIds(R2)
      BY <2>2 DEF Agree, UniqueIds
    <2>6. VirtualAgrees(V2, R2)
      <3> SUFFICES ASSUME NEW w \in VirtualDeviceId, V2[w].binding # None
                   PROVE  \E i \in DOMAIN R2 :
                            R2[i].id = V2[w].binding /\ R2[i].binding = w
        BY DEF VirtualAgrees
      <3>1. CASE w = v
        BY <2>2, <2>3, <3>1
      <3>2. CASE w # v
        <4>1. V2[w] = V[w]
          BY <2>2, <3>2
        <4>2. PICK i \in DOMAIN R : R[i].id = V[w].binding /\ R[i].binding = w
          BY <4>1 DEF Agree, VirtualAgrees
        <4>3. w # None
          BY VirtualDevicesAssumption DEF VirtualDeviceId
        <4>4. i # r
          BY <2>3, <4>2, <4>3
        <4>5. QED
          BY <2>2, <4>1, <4>2, <4>4
      <3>3. QED
        BY <3>1, <3>2
    <2>7. RealAgrees(V2, R2)
      <3> SUFFICES ASSUME NEW i \in DOMAIN R2, R2[i].binding # None
                   PROVE  V2[R2[i].binding].binding = R2[i].id
        BY DEF RealAgrees
      <3>1. CASE i = r
        BY <2>2, <2>3, <3>1
      <3>2. CASE i # r
        <4>1. R2[i] = R[i] /\ i \in DOMAIN R
          BY <2>2, <3>2
        <4>2. V[R[i].binding].binding = R[i].id
          BY <4>1 DEF Agree, RealAgrees
        <4>3. R[i].binding \in VirtualDeviceId /\ R[i].id # None
          BY <4>1, TypedDomains, VirtualDevicesAssumption DEF RealDeviceState
        <4>4. R[i].binding # v
          BY <2>3, <4>2, <4>3
        <4>5. QED
          BY <2>2, <4>1, <4>2, <4>3, <4>4
      <3>3. QED
        BY <3>1, <3>2
    <2>8. Neutral(V2)
      BY <2>2, <2>3 DEF Neutral
    <2>9. UnboundVirtual(V2) \subseteq UnboundVirtual(V) \ {v}
      BY <2>2, <2>3 DEF UnboundVirtual
    <2>10. UnboundReal(R2) \subseteq UnboundReal(R) \ {r}
      BY <2>2, <2>3 DEF UnboundReal
    <2>11. UnboundVirtual(V2) = {} \/ UnboundReal(R2) = {}
      BY <2>9, <2>10 DEF AtMostOnePair
    <2>12. QED
      BY <2>2, <2>4, <2>5, <2>6, <2>7, <2>8, <2>11 DEF Agree
  <1>3. QED
    BY <1>1, <1>2

-----------------------------------------------------------------------------
(* find_real_device finds the device whose id it is given.                 *)
LEMMA FindReal ==
  ASSUME NEW V, NEW R, Typed(V, R), UniqueIds(R), NEW id \in Ids(R)
  PROVE  /\ find_real_device(R, id) \in DOMAIN R
         /\ R[find_real_device(R, id)].id = id
  <1>1. PICK i \in DOMAIN R : R[i].id = id
    BY DEF Ids
  <1>2. \A j \in 1..(i - 1) : R[j].id # id
    <2>1. SUFFICES ASSUME NEW j \in 1..(i - 1), R[j].id = id PROVE FALSE
      OBVIOUS
    <2>2. i \in 1..Len(R) /\ Len(R) \in Nat /\ DOMAIN R = 1..Len(R)
      BY TypedDomains
    <2>3. j \in DOMAIN R /\ j # i
      BY <2>2
    <2>4. QED
      BY <1>1, <2>1, <2>3 DEF UniqueIds
  <1>3. QED
    BY <1>1, <1>2 DEF find_real_device

(* The table without the entry at idx: the other entries, in their order.  *)
LEMMA DropEntry ==
  ASSUME NEW R \in Seq(RealDeviceState), UniqueIds(R), NEW idx \in DOMAIN R,
         NEW R1 \in Seq(RealDeviceState), DOMAIN R1 = DOMAIN R,
         \A k \in DOMAIN R : k # idx => R1[k] = R[k]
  PROVE  LET R2 == RemoveAt(R1, idx)
         IN  /\ R2 \in Seq(RealDeviceState)
             /\ UniqueIds(R2)
             /\ \A j \in DOMAIN R2 : \E k \in DOMAIN R : k # idx /\ R2[j] = R[k]
             /\ \A k \in DOMAIN R :
                  k # idx => \E j \in DOMAIN R2 : R2[j] = R[k]
  <1> DEFINE n     == Len(R)
             front == SubSeq(R1, 1, idx - 1)
             back  == SubSeq(R1, idx + 1, Len(R1))
             R2    == RemoveAt(R1, idx)
             at(j) == IF j < idx THEN j ELSE j + 1
  <1>1. /\ n \in Nat /\ DOMAIN R = 1..n
        /\ Len(R1) = n /\ idx \in 1..n
        /\ \A k \in 1..n : R1[k] \in RealDeviceState
    BY LenProperties, ElementOfSeq
  <1>2. /\ front \in Seq(RealDeviceState) /\ Len(front) = idx - 1
        /\ \A j \in 1..(idx - 1) : front[j] = R1[j]
    <2>1. \A k \in 1..(idx - 1) : R1[k] \in RealDeviceState
      BY <1>1
    <2>2. idx \in Int /\ 1 \in Int /\ idx - 1 \in Int
      BY <1>1
    <2> HIDE DEF front, n
    <2>3. /\ front \in Seq(RealDeviceState)
          /\ Len(front) = IF 1 <= idx - 1 THEN (idx - 1) - 1 + 1 ELSE 0
          /\ \A j \in 1..((idx - 1) - 1 + 1) : front[j] = R1[1 + j - 1]
      BY <2>1, <2>2, SubSeqProperties DEF front
    <2>4. QED
      BY <1>1, <2>3
  <1>3. /\ back \in Seq(RealDeviceState) /\ Len(back) = n - idx
        /\ \A j \in 1..(n - idx) : back[j] = R1[idx + j]
    <2>1. \A k \in (idx + 1)..n : R1[k] \in RealDeviceState
      BY <1>1
    <2>2. idx + 1 \in Int /\ n \in Int
      BY <1>1
    <2> HIDE DEF n
    <2>3. back = SubSeq(R1, idx + 1, n)
      BY <1>1
    <2> HIDE DEF back
    <2>4. /\ back \in Seq(RealDeviceState)
          /\ Len(back) = IF idx + 1 <= n THEN n - (idx + 1) + 1 ELSE 0
          /\ \A j \in 1..(n - (idx + 1) + 1) : back[j] = R1[idx + 1 + j - 1]
      BY <2>1, <2>2, <2>3, SubSeqProperties
    <2>5. Len(back) = n - idx
      BY <1>1, <2>4
    <2>6. ASSUME NEW j \in 1..(n - idx)
          PROVE  back[j] = R1[idx + j]
      <3>1. j \in 1..(n - (idx + 1) + 1) /\ idx + 1 + j - 1 = idx + j
        BY <1>1
      <3>2. QED
        BY <2>4, <3>1
    <2>7. QED
      BY <2>4, <2>5, <2>6
  <1>4. R2 = front \o back
    BY DEF RemoveAt
  <1> HIDE DEF front, back, R2, n
  <1>5. /\ R2 \in Seq(RealDeviceState) /\ Len(R2) = n - 1
        /\ \A j \in 1..(n - 1) :
             R2[j] = IF j <= idx - 1 THEN front[j] ELSE back[j - (idx - 1)]
    BY <1>1, <1>2, <1>3, <1>4, ConcatProperties
  <1>6. ASSUME NEW j \in 1..(n - 1)
        PROVE  /\ at(j) \in DOMAIN R /\ at(j) # idx
               /\ R2[j] = R[at(j)]
    <2>1. CASE j < idx
      <3>1. at(j) = j /\ j \in DOMAIN R /\ j # idx /\ j \in 1..(idx - 1)
        BY <1>1, <2>1
      <3>2. R2[j] = front[j]
        BY <1>1, <1>5, <2>1
      <3>3. front[j] = R1[j]
        BY <1>2, <3>1
      <3>4. QED
        BY <3>1, <3>2, <3>3
    <2>2. CASE ~ (j < idx)
      <3>1. j - (idx - 1) \in 1..(n - idx) /\ idx + (j - (idx - 1)) = j + 1
        BY <1>1, <2>2
      <3>2. back[j - (idx - 1)] = R1[j + 1]
        BY <1>3, <3>1
      <3>3. at(j) = j + 1 /\ j + 1 \in DOMAIN R /\ j + 1 # idx /\ ~ (j <= idx - 1)
        BY <1>1, <2>2
      <3>4. QED
        BY <1>5, <3>2, <3>3
    <2>3. QED
      BY <2>1, <2>2
  <1>7. DOMAIN R2 = 1..(n - 1)
    BY <1>1, <1>5, LenProperties
  <1>8. UniqueIds(R2)
    <2> SUFFICES ASSUME NEW i \in 1..(n - 1), NEW j \in 1..(n - 1),
                        R2[i].id = R2[j].id
                 PROVE  i = j
      BY <1>7 DEF UniqueIds
    <2>1. at(i) = at(j)
      BY <1>6 DEF UniqueIds
    <2>2. QED
      BY <1>1, <2>1
  <1>9. ASSUME NEW k \in DOMAIN R, k # idx
        PROVE  \E j \in DOMAIN R2 : R2[j] = R[k]
    <2>1. CASE k < idx
      <3>1. k \in 1..(n - 1) /\ at(k) = k
        BY <1>1, <2>1
      <3>2. QED
        BY <1>6, <1>7, <3>1
    <2>2. CASE ~ (k < idx)
      <3>1. k - 1 \in 1..(n - 1) /\ at(k - 1) = k
        BY <1>1, <1>9, <2>2
      <3>2. QED
        BY <1>6, <1>7, <3>1
    <2>3. QED
      BY <2>1, <2>2
  <1> HIDE DEF at
  <1>10. QED
    BY <1>5, <1>6, <1>7, <1>8, <1>9 DEF R2

(* The tables remove_device hands to bind_devices: the device at idx       *)
(* unbound and gone.                                                       *)
LEMMA UnbindAndDrop ==
  ASSUME NEW V, NEW R, Typed(V, R), Agree(V, R), Neutral(V),
         UnboundVirtual(V) = {} \/ UnboundReal(R) = {},
         NEW idx \in DOMAIN R
  PROVE  LET U  == unbind_device(V, R, idx)
             R2 == RemoveAt(U.real, idx)
         IN  /\ Typed(U.virtual, R2)
             /\ Agree(U.virtual, R2)
             /\ Neutral(U.virtual)
             /\ AtMostOnePair(U.virtual, R2)
             /\ \A j \in DOMAIN R2 : \E k \in DOMAIN R : k # idx /\ R2[j] = R[k]
             /\ \A k \in DOMAIN R :
                  k # idx => \E j \in DOMAIN R2 : R2[j] = R[k]
             /\ \A w \in VirtualDeviceId :
                  w = R[idx].binding => U.virtual[w].binding = None
             /\ \A w \in VirtualDeviceId :
                  w # R[idx].binding => U.virtual[w] = V[w]
  <1> DEFINE U  == unbind_device(V, R, idx)
             V1 == U.virtual
             R1 == U.real
             R2 == RemoveAt(R1, idx)
             v  == R[idx].binding
  <1>1. R[idx] \in RealDeviceState /\ idx \in 1..Len(R)
    BY TypedDomains
  <1>2. v \in VirtualDeviceId \cup {None} /\ None \notin VirtualDeviceId
    BY <1>1, VirtualDevicesAssumption DEF RealDeviceState, VirtualDeviceId
  <1>3. /\ V1 \in [VirtualDeviceId -> VirtualDeviceState]
        /\ \A w \in VirtualDeviceId : w # v => V1[w] = V[w]
        /\ v # None => V1[v] = [inputs |-> DefaultInputs, binding |-> None]
    <2>1. CASE v = None
      BY <2>1, <1>2 DEF unbind_device, Typed
    <2>2. CASE v # None
      <3>1. V1 = [V EXCEPT ![v] = [inputs |-> DefaultInputs, binding |-> None]]
        BY <2>2 DEF unbind_device
      <3>2. [inputs |-> DefaultInputs, binding |-> None] \in VirtualDeviceState
        BY VirtualDevicesAssumption DEF VirtualDeviceState
      <3>3. QED
        BY <1>2, <2>2, <3>1, <3>2 DEF Typed
    <2>3. QED
      BY <2>1, <2>2
  <1>4. /\ R1 \in Seq(RealDeviceState)
        /\ DOMAIN R1 = DOMAIN R
        /\ \A k \in DOMAIN R : k # idx => R1[k] = R[k]
    <2>1. CASE v = None
      BY <2>1 DEF unbind_device, Typed
    <2>2. CASE v # None
      <3>1. R1 = [R EXCEPT ![idx].binding = None]
        BY <2>2 DEF unbind_device
      <3>2. [R[idx] EXCEPT !.binding = None] \in RealDeviceState
        BY <1>1 DEF RealDeviceState
      <3>3. QED
        BY <1>1, <3>1, <3>2, ExceptSeq DEF Typed
    <2>3. QED
      BY <2>1, <2>2
  <1> HIDE DEF U, v
  <1>5. /\ R2 \in Seq(RealDeviceState)
        /\ UniqueIds(R2)
        /\ \A j \in DOMAIN R2 : \E k \in DOMAIN R : k # idx /\ R2[j] = R[k]
        /\ \A k \in DOMAIN R : k # idx => \E j \in DOMAIN R2 : R2[j] = R[k]
    BY <1>4, DropEntry DEF Agree, Typed
  <1> HIDE DEF V1, R1, R2
  <1>6. Typed(V1, R2)
    BY <1>3, <1>5 DEF Typed
  <1>7. VirtualAgrees(V1, R2)
    <2> SUFFICES ASSUME NEW w \in VirtualDeviceId, V1[w].binding # None
                 PROVE  \E j \in DOMAIN R2 :
                          R2[j].id = V1[w].binding /\ R2[j].binding = w
      BY DEF VirtualAgrees
    <2>1. w # v
      <3>1. SUFFICES ASSUME w = v PROVE FALSE
        OBVIOUS
      <3>2. V1[v].binding = None
        BY <1>2, <1>3, <3>1
      <3>3. QED
        BY <3>1, <3>2
    <2>2. V1[w] = V[w]
      BY <1>3, <2>1
    <2>3. PICK k \in DOMAIN R : R[k].id = V[w].binding /\ R[k].binding = w
      BY <2>2 DEF Agree, VirtualAgrees
    <2>4. k # idx
      BY <2>1, <2>3 DEF v
    <2>5. QED
      BY <1>5, <2>2, <2>3, <2>4
  <1>8. RealAgrees(V1, R2)
    <2> SUFFICES ASSUME NEW j \in DOMAIN R2, R2[j].binding # None
                 PROVE  V1[R2[j].binding].binding = R2[j].id
      BY DEF RealAgrees
    <2>1. PICK k \in DOMAIN R : k # idx /\ R2[j] = R[k]
      BY <1>5
    <2>2. R[k].binding \in VirtualDeviceId
      BY <2>1, TypedDomains DEF RealDeviceState
    <2>3. V[R[k].binding].binding = R[k].id
      BY <2>1 DEF Agree, RealAgrees
    <2>4. R[k].binding # v
      <3>1. SUFFICES ASSUME R[k].binding = v PROVE FALSE
        OBVIOUS
      <3>2. v # None
        BY <2>1, <3>1
      <3>3. V[v].binding = R[idx].id
        BY <3>2 DEF Agree, RealAgrees, v
      <3>4. R[k].id = R[idx].id
        BY <2>3, <3>1, <3>3
      <3>5. QED
        BY <2>1, <3>4 DEF Agree, UniqueIds
    <2>5. QED
      BY <1>3, <2>1, <2>2, <2>3, <2>4
  <1>9. Neutral(V1)
    <2> SUFFICES ASSUME NEW w \in VirtualDeviceId, V1[w].binding = None
                 PROVE  V1[w].inputs = DefaultInputs
      BY DEF Neutral
    <2>1. CASE w = v
      BY <1>2, <1>3, <2>1
    <2>2. CASE w # v
      BY <1>3, <2>2 DEF Neutral
    <2>3. QED
      BY <2>1, <2>2
  <1>10. AtMostOnePair(V1, R2)
    <2>1. CASE UnboundVirtual(V) = {}
      <3>1. \A w \in UnboundVirtual(V1) : w = v
        BY <1>3, <2>1 DEF UnboundVirtual
      <3>2. QED
        BY <3>1 DEF AtMostOnePair
    <2>2. CASE UnboundReal(R) = {}
      <3>1. UnboundReal(R2) = {}
        BY <1>5, <2>2 DEF UnboundReal
      <3>2. QED
        BY <3>1 DEF AtMostOnePair
    <2>3. QED
      BY <2>1, <2>2
  <1>11. /\ \A w \in VirtualDeviceId : w = v => V1[w].binding = None
         /\ \A w \in VirtualDeviceId : w # v => V1[w] = V[w]
    BY <1>2, <1>3
  <1>12. QED
    BY <1>5, <1>6, <1>7, <1>8, <1>9, <1>10, <1>11 DEF Agree, U, V1, R1, R2, v

(* The tables add_device hands to bind_devices: the new device last.       *)
LEMMA PushDevice ==
  ASSUME NEW V, NEW R, Typed(V, R), Agree(V, R),
         UnboundVirtual(V) = {} \/ UnboundReal(R) = {},
         NEW id \in DeviceIds, id \notin Ids(R), NEW buffer \in Buffers
  PROVE  LET R2 == Append(R, [id |-> id, buffer |-> buffer, binding |-> None])
         IN  /\ Typed(V, R2)
             /\ Agree(V, R2)
             /\ AtMostOnePair(V, R2)
             /\ DOMAIN R2 = 1..(Len(R) + 1)
             /\ \A i \in DOMAIN R : i \in DOMAIN R2 /\ R2[i] = R[i]
             /\ R2[Len(R) + 1] = [id |-> id, buffer |-> buffer, binding |-> None]
  <1> DEFINE e  == [id |-> id, buffer |-> buffer, binding |-> None]
             R2 == Append(R, e)
             n  == Len(R)
  <1>1. e \in RealDeviceState
    BY DEF RealDeviceState
  <1>2. n \in Nat /\ DOMAIN R = 1..n
    BY TypedDomains
  <1>3. /\ R2 \in Seq(RealDeviceState) /\ DOMAIN R2 = 1..(n + 1)
        /\ \A i \in 1..n : R2[i] = R[i]
        /\ R2[n + 1] = e
    BY <1>1, <1>2, AppendProperties, LenProperties DEF Typed
  <1>4. e.id = id /\ e.binding = None
    OBVIOUS
  <1> HIDE DEF e, R2, n
  <1>5. \A i \in DOMAIN R2 : i \in DOMAIN R \/ i = n + 1
    BY <1>2, <1>3
  <1>6. \A i \in DOMAIN R : i \in DOMAIN R2 /\ R2[i] = R[i] /\ i # n + 1
    BY <1>2, <1>3
  <1>7. Typed(V, R2)
    BY <1>3 DEF Typed
  <1>8. UniqueIds(R2)
    <2>1. \A i \in DOMAIN R : R2[i].id # R2[n + 1].id
      BY <1>3, <1>4, <1>6 DEF Ids
    <2>2. \A i, j \in DOMAIN R : R2[i].id = R2[j].id => i = j
      BY <1>6 DEF Agree, UniqueIds
    <2>3. QED
      BY <1>5, <2>1, <2>2 DEF UniqueIds
  <1>9. VirtualAgrees(V, R2)
    BY <1>6 DEF Agree, VirtualAgrees
  <1>10. RealAgrees(V, R2)
    BY <1>3, <1>4, <1>5, <1>6 DEF Agree, RealAgrees
  <1>11. AtMostOnePair(V, R2)
    <2>1. CASE UnboundVirtual(V) = {}
      BY <2>1 DEF AtMostOnePair
    <2>2. CASE UnboundReal(R) = {}
      <3>1. \A r \in UnboundReal(R2) : r = n + 1
        BY <1>5, <1>6, <2>2 DEF UnboundReal
      <3>2. QED
        BY <3>1 DEF AtMostOnePair
    <2>3. QED
      BY <2>1, <2>2
  <1>12. QED
    BY <1>3, <1>6, <1>7, <1>8, <1>9, <1>10, <1>11 DEF Agree, e, R2, n

(* What bind_devices changes: nothing but one binding, of a free player to *)
(* the newest device that waits.                                           *)
LEMMA BindEffect ==
  ASSUME NEW V, NEW R, Typed(V, R), Agree(V, R), AtMostOnePair(V, R)
  PROVE  LET B == bind_devices(V, R)
         IN  /\ DOMAIN B.real = DOMAIN R
             /\ \A i \in DOMAIN R : B.real[i].id = R[i].id
             /\ \A w \in VirtualDeviceId :
                  V[w].binding # None => B.virtual[w].binding = V[w].binding
             /\ \A w \in VirtualDeviceId, i, j \in DOMAIN R :
                  /\ B.virtual[w].binding # V[w].binding
                  /\ R[i].id = B.virtual[w].binding
                  /\ B.real[j].binding = None
                  => j < i
             /\ \/ /\ UnboundVirtual(V) = {} \/ UnboundReal(R) = {}
                   /\ B = [virtual |-> V, real |-> R]
                \/ \E v \in UnboundVirtual(V), r \in UnboundReal(R) :
                     /\ B.virtual[v].binding = R[r].id
                     /\ \A w \in VirtualDeviceId :
                          w # v => B.virtual[w].binding = V[w].binding
  <1> DEFINE B == bind_devices(V, R)
  <1>1. CASE UnboundVirtual(V) = {} \/ UnboundReal(R) = {}
    <2>1. B = [virtual |-> V, real |-> R]
      BY <1>1, BindNothing
    <2>2. B.virtual = V /\ B.real = R
      BY <2>1
    <2> HIDE DEF B
    <2>3. QED
      BY <1>1, <2>1, <2>2 DEF B
  <1>2. CASE UnboundVirtual(V) # {} /\ UnboundReal(R) # {}
    <2>1. PICK v \in UnboundVirtual(V), r \in UnboundReal(R) :
            /\ B = [virtual |-> BindVirtual(V, R, v, r),
                    real |-> BindReal(R, v, r)]
            /\ \A s \in UnboundReal(R) : s <= r
      BY <1>2, BindOne
    <2> DEFINE V2 == B.virtual
               R2 == B.real
    <2>2. V2 = BindVirtual(V, R, v, r) /\ R2 = BindReal(R, v, r)
      BY <2>1
    <2> HIDE DEF B, V2, R2
    <2>3. /\ DOMAIN R2 = DOMAIN R
          /\ \A s \in DOMAIN R : R2[s].id = R[s].id
          /\ \A s \in DOMAIN R : s # r => R2[s] = R[s]
          /\ R2[r].binding = v
          /\ \A w \in VirtualDeviceId : w # v => V2[w] = V[w]
          /\ V2[v].binding = R[r].id
      BY <2>2, BindEntries
    <2>4. /\ v \in VirtualDeviceId /\ r \in DOMAIN R /\ v # None
          /\ V[v].binding = None
      BY VirtualDevicesAssumption
         DEF UnboundVirtual, UnboundReal, VirtualDeviceId
    <2>5. ASSUME NEW w \in VirtualDeviceId, NEW i \in DOMAIN R,
                 NEW j \in DOMAIN R,
                 V2[w].binding # V[w].binding, R[i].id = V2[w].binding,
                 R2[j].binding = None
          PROVE  j < i
      <3>1. w = v
        BY <2>3, <2>5
      <3>2. i = r
        BY <2>3, <2>4, <2>5, <3>1 DEF Agree, UniqueIds
      <3>3. j # r
        BY <2>3, <2>4, <2>5
      <3>4. j \in UnboundReal(R)
        BY <2>3, <2>5, <3>3 DEF UnboundReal
      <3>5. j \in Int /\ r \in Int
        BY <2>4, TypedDomains
      <3>6. QED
        BY <2>1, <3>2, <3>3, <3>4, <3>5
    <2>6. QED
      BY <2>3, <2>4, <2>5 DEF B, V2, R2
  <1>3. QED
    BY <1>1, <1>2

-----------------------------------------------------------------------------
(* The three actions preserve the inductive invariant.                     *)
LEMMA InitIInv == Init => IInv
  <1> SUFFICES ASSUME Init PROVE IInv
    OBVIOUS
  <1>1. [inputs |-> DefaultInputs, binding |-> None] \in VirtualDeviceState
    BY VirtualDevicesAssumption DEF VirtualDeviceState
  <1>2. DOMAIN real_devices = {}
    BY DEF Init
  <1>3. TypeOK
    BY <1>1 DEF Init, TypeOK
  <1>4. BindingsAgree
    BY <1>2 DEF Init, BindingsAgree
  <1>5. NoIdlePair
    BY <1>2 DEF NoIdlePair, UnboundReal
  <1>6. UnboundNeutral
    BY DEF Init, UnboundNeutral
  <1>7. QED
    BY <1>3, <1>4, <1>5, <1>6 DEF IInv

LEMMA ArrivalIInv ==
  ASSUME IInv, NEW id \in DeviceIds, id \notin Ids(real_devices),
         NEW buffer \in Buffers, add_device(id, buffer)
  PROVE  IInv'
  <1> DEFINE R2 == Append(real_devices,
                          [id |-> id, buffer |-> buffer, binding |-> None])
             B  == bind_devices(virtual_devices, R2)
  <1>1. /\ Typed(virtual_devices, R2)
        /\ Agree(virtual_devices, R2)
        /\ AtMostOnePair(virtual_devices, R2)
    BY IInvParts, PushDevice DEF NoIdlePair
  <1>2. virtual_devices' = B.virtual /\ real_devices' = B.real
    BY DEF add_device
  <1> HIDE DEF R2
  <1>3. /\ Typed(B.virtual, B.real)
        /\ Agree(B.virtual, B.real)
        /\ Neutral(B.virtual)
        /\ UnboundVirtual(B.virtual) = {} \/ UnboundReal(B.real) = {}
    BY <1>1, IInvParts, BindPreserves
  <1> HIDE DEF B
  <1>4. /\ Typed(virtual_devices', real_devices')
        /\ Agree(virtual_devices', real_devices')
        /\ Neutral(virtual_devices')
        /\ NoIdlePair'
    BY <1>2, <1>3 DEF NoIdlePair
  <1>5. QED
    BY <1>4 DEF IInv, TypeOK, BindingsAgree, UnboundNeutral, Typed, Agree,
                UniqueIds, VirtualAgrees, RealAgrees, Neutral

LEMMA RemovalIInv ==
  ASSUME IInv, NEW id \in Ids(real_devices), remove_device(id)
  PROVE  IInv'
  <1> DEFINE idx == find_real_device(real_devices, id)
             U   == unbind_device(virtual_devices, real_devices, idx)
             R2  == RemoveAt(U.real, idx)
             B   == bind_devices(U.virtual, R2)
  <1>1. idx \in DOMAIN real_devices
    BY IInvParts, FindReal DEF Agree
  <1>2. virtual_devices' = B.virtual /\ real_devices' = B.real
    BY DEF remove_device
  <1> HIDE DEF idx
  <1>3. /\ Typed(U.virtual, R2)
        /\ Agree(U.virtual, R2)
        /\ Neutral(U.virtual)
        /\ AtMostOnePair(U.virtual, R2)
    BY <1>1, IInvParts, UnbindAndDrop DEF NoIdlePair
  <1> HIDE DEF U, R2
  <1>4. /\ Typed(B.virtual, B.real)
        /\ Agree(B.virtual, B.real)
        /\ Neutral(B.virtual)
        /\ UnboundVirtual(B.virtual) = {} \/ UnboundReal(B.real) = {}
    BY <1>3, BindPreserves
  <1> HIDE DEF B
  <1>5. /\ Typed(virtual_devices', real_devices')
        /\ Agree(virtual_devices', real_devices')
        /\ Neutral(virtual_devices')
        /\ NoIdlePair'
    BY <1>2, <1>4 DEF NoIdlePair
  <1>6. QED
    BY <1>5 DEF IInv, TypeOK, BindingsAgree, UnboundNeutral, Typed, Agree,
                UniqueIds, VirtualAgrees, RealAgrees, Neutral

(* update touches the inputs of a bound player only.                       *)
LEMMA RefreshEffect ==
  ASSUME IInv, NEW u \in VirtualDeviceId,
         NEW contents \in [Buffers -> Inputs], update(u, contents)
  PROVE  /\ real_devices' = real_devices
         /\ virtual_devices' \in [VirtualDeviceId -> VirtualDeviceState]
         /\ \A v \in VirtualDeviceId :
              /\ virtual_devices'[v].binding = virtual_devices[v].binding
              /\ virtual_devices[v].binding = None =>
                   virtual_devices'[v] = virtual_devices[v]
  <1>1. Typed(virtual_devices, real_devices) /\ Agree(virtual_devices, real_devices)
    BY IInvParts
  <1>2. /\ \A v \in VirtualDeviceId : virtual_devices[v] \in VirtualDeviceState
        /\ virtual_devices \in [VirtualDeviceId -> VirtualDeviceState]
    BY <1>1, TypedDomains DEF Typed
  <1>3. CASE virtual_devices[u].binding = None
    BY <1>2, <1>3 DEF update
  <1>4. CASE virtual_devices[u].binding # None
    <2> DEFINE idx   == find_real_device(real_devices, virtual_devices[u].binding)
               read  == contents[real_devices[idx].buffer]
               entry == [virtual_devices[u] EXCEPT !.inputs = read]
    <2>1. virtual_devices[u].binding \in Ids(real_devices)
      BY <1>1, <1>4 DEF Agree, VirtualAgrees, Ids
    <2>2. idx \in DOMAIN real_devices
      BY <1>1, <2>1, FindReal DEF Agree
    <2>3. real_devices[idx].buffer \in Buffers
      BY <1>1, <2>2, TypedDomains DEF RealDeviceState
    <2>4. virtual_devices' = [virtual_devices EXCEPT ![u] = entry]
      BY <1>4 DEF update
    <2>5. read \in Inputs
      BY <2>3
    <2> HIDE DEF read
    <2>6. /\ entry \in VirtualDeviceState
          /\ entry.binding = virtual_devices[u].binding
      BY <1>2, <2>5 DEF VirtualDeviceState
    <2> HIDE DEF entry
    <2>7. QED
      BY <1>2, <1>4, <2>4, <2>6 DEF update
  <1>5. QED
    BY <1>3, <1>4

LEMMA RefreshIInv ==
  ASSUME IInv, NEW u \in VirtualDeviceId,
         NEW contents \in [Buffers -> Inputs], update(u, contents)
  PROVE  IInv'
  <1>1. /\ real_devices' = real_devices
        /\ virtual_devices' \in [VirtualDeviceId -> VirtualDeviceState]
        /\ \A v \in VirtualDeviceId :
             /\ virtual_devices'[v].binding = virtual_devices[v].binding
             /\ virtual_devices[v].binding = None =>
                  virtual_devices'[v] = virtual_devices[v]
    BY RefreshEffect
  <1>2. TypeOK'
    BY <1>1 DEF IInv, TypeOK
  <1>3. BindingsAgree'
    <2>1. \A i \in DOMAIN real_devices :
            real_devices[i].binding # None =>
              real_devices[i].binding \in VirtualDeviceId
      BY IInvParts, TypedDomains DEF RealDeviceState
    <2>2. QED
      BY <1>1, <2>1 DEF IInv, BindingsAgree
  <1>4. NoIdlePair'
    BY <1>1 DEF IInv, NoIdlePair, UnboundVirtual, UnboundReal
  <1>5. UnboundNeutral'
    BY <1>1 DEF IInv, UnboundNeutral
  <1>6. QED
    BY <1>2, <1>3, <1>4, <1>5 DEF IInv

LEMMA NextIInv == IInv /\ [Next]_vars => IInv'
  <1> SUFFICES ASSUME IInv, [Next]_vars PROVE IInv'
    OBVIOUS
  <1>1. CASE Arrival
    BY <1>1, ArrivalIInv DEF Arrival
  <1>2. CASE Removal
    BY <1>2, RemovalIInv DEF Removal
  <1>3. CASE Refresh
    BY <1>3, RefreshIInv DEF Refresh
  <1>4. CASE UNCHANGED vars
    BY <1>4 DEF vars, IInv, TypeOK, BindingsAgree, NoIdlePair, UnboundNeutral,
                UnboundVirtual, UnboundReal
  <1>5. QED
    BY <1>1, <1>2, <1>3, <1>4 DEF Next

(* The inductive invariant holds in every reachable state.                 *)
THEOREM Invariance == Spec => []IInv
  BY InitIInv, NextIInv, PTL DEF Spec

(* The tables keep the types lib.rs declares for them.                     *)
THEOREM TypeCorrect == Spec => []TypeOK
  <1>1. IInv => TypeOK
    BY DEF IInv
  <1>2. QED
    BY <1>1, Invariance, PTL

(* The two tables always describe the same pairing, so the assert_eq! of   *)
(* unbind_device and the unwrap of update never fail.                      *)
THEOREM Agreement == Spec => []BindingsAgree
  <1>1. IInv => BindingsAgree
    BY DEF IInv
  <1>2. QED
    BY <1>1, Invariance, PTL

(* No operation leaves a device waiting next to a free player.             *)
THEOREM WorkConserving == Spec => []NoIdlePair
  <1>1. IInv => NoIdlePair
    BY DEF IInv
  <1>2. QED
    BY <1>1, Invariance, PTL

(* A player without a controller always shows neutral inputs.              *)
THEOREM NeutralWhenFree == Spec => []UnboundNeutral
  <1>1. IInv => UnboundNeutral
    BY DEF IInv
  <1>2. QED
    BY <1>1, Invariance, PTL

-----------------------------------------------------------------------------
(* What an arrival does to the tables, in the terms of the properties.     *)
LEMMA ArrivalEffect ==
  ASSUME IInv, NEW id \in DeviceIds, id \notin Ids(real_devices),
         NEW buffer \in Buffers, add_device(id, buffer)
  PROVE  /\ Ids(real_devices') = Ids(real_devices) \cup {id}
         /\ \A v \in VirtualDeviceId :
              virtual_devices[v].binding # None =>
                virtual_devices'[v].binding = virtual_devices[v].binding
         /\ \A v \in VirtualDeviceId, i, j \in DOMAIN real_devices' :
              /\ real_devices'[i].id = virtual_devices'[v].binding
              /\ virtual_devices[v].binding # virtual_devices'[v].binding
              /\ real_devices'[j].binding = None
              => j < i
         /\ \/ /\ UnboundVirtual(virtual_devices) = {}
               /\ virtual_devices' = virtual_devices
            \/ \E v \in UnboundVirtual(virtual_devices) :
                 /\ virtual_devices'[v].binding = id
                 /\ \A w \in VirtualDeviceId :
                      w # v => virtual_devices'[w].binding
                                 = virtual_devices[w].binding
  <1> DEFINE e  == [id |-> id, buffer |-> buffer, binding |-> None]
             R2 == Append(real_devices, e)
             B  == bind_devices(virtual_devices, R2)
             n  == Len(real_devices)
  <1>1. /\ Typed(virtual_devices, R2)
        /\ Agree(virtual_devices, R2)
        /\ AtMostOnePair(virtual_devices, R2)
        /\ DOMAIN R2 = 1..(n + 1)
        /\ \A i \in DOMAIN real_devices :
             i \in DOMAIN R2 /\ R2[i] = real_devices[i]
        /\ R2[n + 1] = e
    BY IInvParts, PushDevice DEF NoIdlePair
  <1>2. virtual_devices' = B.virtual /\ real_devices' = B.real
    BY DEF add_device
  <1>3. n \in Nat /\ DOMAIN real_devices = 1..n
    BY IInvParts, TypedDomains
  <1>4. e.id = id /\ e.binding = None
    OBVIOUS
  <1> HIDE DEF e, R2, n
  <1>5. /\ DOMAIN B.real = DOMAIN R2
        /\ \A i \in DOMAIN R2 : B.real[i].id = R2[i].id
        /\ \A w \in VirtualDeviceId :
             virtual_devices[w].binding # None =>
               B.virtual[w].binding = virtual_devices[w].binding
        /\ \A w \in VirtualDeviceId, i, j \in DOMAIN R2 :
             /\ B.virtual[w].binding # virtual_devices[w].binding
             /\ R2[i].id = B.virtual[w].binding
             /\ B.real[j].binding = None
             => j < i
        /\ \/ /\ UnboundVirtual(virtual_devices) = {} \/ UnboundReal(R2) = {}
              /\ B = [virtual |-> virtual_devices, real |-> R2]
           \/ \E v \in UnboundVirtual(virtual_devices), r \in UnboundReal(R2) :
                /\ B.virtual[v].binding = R2[r].id
                /\ \A w \in VirtualDeviceId :
                     w # v => B.virtual[w].binding = virtual_devices[w].binding
    BY <1>1, BindEffect
  <1>6. B = [virtual |-> virtual_devices, real |-> R2]
          => B.virtual = virtual_devices
    OBVIOUS
  <1> HIDE DEF B
  <1>7. \A i \in DOMAIN R2 : i \in DOMAIN real_devices \/ i = n + 1
    BY <1>1, <1>3
  <1>8. n + 1 \in DOMAIN R2
    BY <1>1, <1>3
  <1>9. Ids(R2) = Ids(real_devices) \cup {id}
    BY <1>1, <1>4, <1>7, <1>8 DEF Ids
  <1>10. Ids(real_devices') = Ids(real_devices) \cup {id}
    BY <1>2, <1>5, <1>9 DEF Ids
  <1>11. n + 1 \in UnboundReal(R2)
    BY <1>1, <1>4, <1>8 DEF UnboundReal
  <1>12. ASSUME NEW v \in UnboundVirtual(virtual_devices),
                NEW r \in UnboundReal(R2),
                B.virtual[v].binding = R2[r].id
         PROVE  virtual_devices'[v].binding = id
    <2>1. UnboundReal(real_devices) = {}
      BY IInvParts DEF NoIdlePair
    <2>2. r = n + 1
      BY <1>1, <1>7, <2>1 DEF UnboundReal
    <2>3. QED
      BY <1>1, <1>2, <1>4, <1>12, <2>2
  <1>13. \/ /\ UnboundVirtual(virtual_devices) = {}
            /\ virtual_devices' = virtual_devices
         \/ \E v \in UnboundVirtual(virtual_devices) :
              /\ virtual_devices'[v].binding = id
              /\ \A w \in VirtualDeviceId :
                   w # v => virtual_devices'[w].binding
                              = virtual_devices[w].binding
    BY <1>2, <1>5, <1>6, <1>11, <1>12
  <1>14. QED
    BY <1>2, <1>5, <1>10, <1>13

(* A device waits, in the sense of the abstract table, exactly when it is  *)
(* not bound.                                                              *)
LEMMA WaitingIsUnbound ==
  ASSUME IInv, NEW i \in DOMAIN real_devices
  PROVE  real_devices[i].id \in Table!Waiting <=> real_devices[i].binding = None
  <1>1. Typed(virtual_devices, real_devices) /\ Agree(virtual_devices, real_devices)
    BY IInvParts
  <1>2. real_devices[i].id \in Ids(real_devices)
    BY DEF Ids
  <1>3. real_devices[i].id # None
    BY <1>1, TypedDomains, VirtualDevicesAssumption DEF RealDeviceState
  <1>4. ASSUME real_devices[i].binding = None, NEW v \in VirtualDeviceId
        PROVE  virtual_devices[v].binding # real_devices[i].id
    <2>1. SUFFICES ASSUME virtual_devices[v].binding = real_devices[i].id
                   PROVE FALSE
      OBVIOUS
    <2>2. PICK k \in DOMAIN real_devices :
            /\ real_devices[k].id = virtual_devices[v].binding
            /\ real_devices[k].binding = v
      BY <1>1, <1>3, <2>1 DEF Agree, VirtualAgrees
    <2>3. k = i
      BY <1>1, <2>1, <2>2 DEF Agree, UniqueIds
    <2>4. QED
      BY <1>4, <2>2, <2>3, VirtualDevicesAssumption DEF VirtualDeviceId
  <1>5. ASSUME real_devices[i].binding # None
        PROVE  /\ real_devices[i].binding \in VirtualDeviceId
               /\ virtual_devices[real_devices[i].binding].binding
                    = real_devices[i].id
    BY <1>1, <1>5, TypedDomains DEF RealDeviceState, Agree, RealAgrees
  <1>6. QED
    BY <1>2, <1>4, <1>5 DEF Table!Waiting

(* What a removal does to the tables, in the terms of the properties.      *)
LEMMA RemovalEffect ==
  ASSUME IInv, NEW id \in Ids(real_devices), remove_device(id)
  PROVE  /\ Ids(real_devices') = Ids(real_devices) \ {id}
         /\ \A v \in VirtualDeviceId :
              virtual_devices[v].binding \notin {None, id} =>
                virtual_devices'[v].binding = virtual_devices[v].binding
         /\ \A v \in VirtualDeviceId, i, j \in DOMAIN real_devices' :
              /\ real_devices'[i].id = virtual_devices'[v].binding
              /\ virtual_devices[v].binding # virtual_devices'[v].binding
              /\ real_devices'[j].binding = None
              => j < i
         /\ \E idx \in DOMAIN real_devices :
              /\ real_devices[idx].id = id
              /\ \/ /\ real_devices[idx].binding = None
                    /\ \A w \in VirtualDeviceId :
                         virtual_devices'[w].binding = virtual_devices[w].binding
                 \/ \E v \in VirtualDeviceId :
                      /\ virtual_devices[v].binding = id
                      /\ \A w \in VirtualDeviceId :
                           w # v => virtual_devices'[w].binding
                                      = virtual_devices[w].binding
                      /\ \/ /\ UnboundReal(real_devices) = {}
                            /\ virtual_devices'[v].binding = None
                         \/ \E k \in UnboundReal(real_devices) :
                              virtual_devices'[v].binding = real_devices[k].id
  <1> DEFINE idx == find_real_device(real_devices, id)
             U   == unbind_device(virtual_devices, real_devices, idx)
             V1  == U.virtual
             R2  == RemoveAt(U.real, idx)
             B   == bind_devices(V1, R2)
             p   == real_devices[idx].binding
  <1>1. idx \in DOMAIN real_devices /\ real_devices[idx].id = id
    BY IInvParts, FindReal DEF Agree
  <1>2. virtual_devices' = B.virtual /\ real_devices' = B.real
    BY DEF remove_device
  <1> HIDE DEF idx
  <1>3. /\ Typed(V1, R2)
        /\ Agree(V1, R2)
        /\ AtMostOnePair(V1, R2)
        /\ \A j \in DOMAIN R2 :
             \E k \in DOMAIN real_devices : k # idx /\ R2[j] = real_devices[k]
        /\ \A k \in DOMAIN real_devices :
             k # idx => \E j \in DOMAIN R2 : R2[j] = real_devices[k]
        /\ \A w \in VirtualDeviceId : w = p => V1[w].binding = None
        /\ \A w \in VirtualDeviceId : w # p => V1[w] = virtual_devices[w]
    <2>1. /\ Typed(virtual_devices, real_devices)
          /\ Agree(virtual_devices, real_devices)
          /\ Neutral(virtual_devices)
          /\ UnboundVirtual(virtual_devices) = {} \/ UnboundReal(real_devices) = {}
      BY IInvParts DEF NoIdlePair
    <2>2. Typed(V1, R2) /\ Agree(V1, R2) /\ AtMostOnePair(V1, R2)
      BY <1>1, <2>1, UnbindAndDrop
    <2>3. /\ \A j \in DOMAIN R2 :
               \E k \in DOMAIN real_devices : k # idx /\ R2[j] = real_devices[k]
          /\ \A k \in DOMAIN real_devices :
               k # idx => \E j \in DOMAIN R2 : R2[j] = real_devices[k]
      BY <1>1, <2>1, UnbindAndDrop
    <2>4. /\ \A w \in VirtualDeviceId : w = p => V1[w].binding = None
          /\ \A w \in VirtualDeviceId : w # p => V1[w] = virtual_devices[w]
      BY <1>1, <2>1, UnbindAndDrop
    <2>5. QED
      BY <2>2, <2>3, <2>4
  <1>4. Typed(virtual_devices, real_devices) /\ Agree(virtual_devices, real_devices)
    BY IInvParts
  <1>5. /\ p \in VirtualDeviceId \cup {None} /\ None \notin VirtualDeviceId
        /\ p # None => virtual_devices[p].binding = id
        /\ id # None
    <2>1. real_devices[idx] \in RealDeviceState
      BY <1>1, <1>4, TypedDomains
    <2>2. QED
      BY <1>1, <1>4, <2>1, VirtualDevicesAssumption
         DEF RealDeviceState, VirtualDeviceId, Agree, RealAgrees
  <1> HIDE DEF U, V1, R2, p
  <1>6. /\ DOMAIN B.real = DOMAIN R2
        /\ \A i \in DOMAIN R2 : B.real[i].id = R2[i].id
        /\ \A w \in VirtualDeviceId :
             V1[w].binding # None => B.virtual[w].binding = V1[w].binding
        /\ \A w \in VirtualDeviceId, i, j \in DOMAIN R2 :
             /\ B.virtual[w].binding # V1[w].binding
             /\ R2[i].id = B.virtual[w].binding
             /\ B.real[j].binding = None
             => j < i
        /\ \/ /\ UnboundVirtual(V1) = {} \/ UnboundReal(R2) = {}
              /\ B = [virtual |-> V1, real |-> R2]
           \/ \E v \in UnboundVirtual(V1), r \in UnboundReal(R2) :
                /\ B.virtual[v].binding = R2[r].id
                /\ \A w \in VirtualDeviceId :
                     w # v => B.virtual[w].binding = V1[w].binding
    BY <1>3, BindEffect
  <1>7. B = [virtual |-> V1, real |-> R2] => B.virtual = V1
    OBVIOUS
  <1> HIDE DEF B
  <1>8. Ids(real_devices') = Ids(real_devices) \ {id}
    <2>1. Ids(real_devices') = Ids(R2)
      BY <1>2, <1>6 DEF Ids
    <2>2. \A k \in DOMAIN real_devices : real_devices[k].id = id => k = idx
      BY <1>1, <1>4 DEF Agree, UniqueIds
    <2>3. Ids(R2) = Ids(real_devices) \ {id}
      BY <1>1, <1>3, <2>2 DEF Ids
    <2>4. QED
      BY <2>1, <2>3
  <1>9. ASSUME NEW v \in VirtualDeviceId,
               virtual_devices[v].binding \notin {None, id}
        PROVE  virtual_devices'[v].binding = virtual_devices[v].binding
    <2>1. v # p
      BY <1>5, <1>9
    <2>2. V1[v] = virtual_devices[v]
      BY <1>3, <2>1
    <2>3. QED
      BY <1>2, <1>6, <1>9, <2>2
  <1>10. ASSUME NEW v \in VirtualDeviceId,
                NEW i \in DOMAIN real_devices', NEW j \in DOMAIN real_devices',
                real_devices'[i].id = virtual_devices'[v].binding,
                virtual_devices[v].binding # virtual_devices'[v].binding,
                real_devices'[j].binding = None
         PROVE  j < i
    <2>1. i \in DOMAIN R2 /\ j \in DOMAIN R2
      BY <1>2, <1>6
    <2>2. R2[i].id = B.virtual[v].binding
      BY <1>2, <1>6, <1>10, <2>1
    <2>3. R2[i].id # None
      BY <1>3, <2>1, TypedDomains, VirtualDevicesAssumption
         DEF RealDeviceState
    <2>4. B.virtual[v].binding # V1[v].binding
      BY <1>2, <1>3, <1>10, <2>2, <2>3
    <2>5. QED
      BY <1>2, <1>6, <1>10, <2>1, <2>2, <2>4
  <1>11. ASSUME p = None
         PROVE  \A w \in VirtualDeviceId :
                  virtual_devices'[w].binding = virtual_devices[w].binding
    <2>1. \A w \in VirtualDeviceId : V1[w] = virtual_devices[w]
      BY <1>3, <1>5, <1>11
    <2>2. UnboundVirtual(virtual_devices) = {}
      BY <1>1, <1>11, IInvParts DEF NoIdlePair, UnboundReal, p
    <2>3. UnboundVirtual(V1) = {}
      BY <2>1, <2>2 DEF UnboundVirtual
    <2>4. QED
      BY <1>2, <1>6, <1>7, <2>1, <2>3
  <1>12. ASSUME p # None
         PROVE  /\ \A w \in VirtualDeviceId :
                     w # p => virtual_devices'[w].binding
                                = virtual_devices[w].binding
                /\ \/ /\ UnboundReal(real_devices) = {}
                      /\ virtual_devices'[p].binding = None
                   \/ \E k \in UnboundReal(real_devices) :
                        virtual_devices'[p].binding = real_devices[k].id
    <2>1. p \in VirtualDeviceId /\ V1[p].binding = None
      BY <1>3, <1>5, <1>12
    <2>2. UnboundReal(R2) # {} => UnboundReal(real_devices) # {}
      BY <1>3 DEF UnboundReal
    <2>3. UnboundReal(real_devices) # {} => UnboundReal(R2) # {}
      <3>1. SUFFICES ASSUME NEW k \in DOMAIN real_devices,
                            real_devices[k].binding = None
                     PROVE  UnboundReal(R2) # {}
        BY DEF UnboundReal
      <3>2. k # idx
        BY <1>12, <3>1 DEF p
      <3>3. QED
        BY <1>3, <3>1, <3>2 DEF UnboundReal
    <2>4. CASE UnboundReal(R2) = {}
      <3>1. B = [virtual |-> V1, real |-> R2]
        BY <1>6, <2>4
      <3>2. virtual_devices' = V1
        BY <1>2, <1>7, <3>1
      <3>3. QED
        BY <1>3, <2>1, <2>3, <2>4, <3>2
    <2>5. CASE UnboundReal(R2) # {}
      <3>1. UnboundVirtual(virtual_devices) = {}
        BY <2>2, <2>5, IInvParts DEF NoIdlePair
      <3>2. \A w \in UnboundVirtual(V1) : w = p
        BY <1>3, <3>1 DEF UnboundVirtual
      <3>3. UnboundVirtual(V1) # {}
        BY <2>1 DEF UnboundVirtual
      <3>4. PICK v \in UnboundVirtual(V1), r \in UnboundReal(R2) :
              /\ B.virtual[v].binding = R2[r].id
              /\ \A w \in VirtualDeviceId :
                   w # v => B.virtual[w].binding = V1[w].binding
        BY <1>6, <2>5, <3>3
      <3>5. PICK k \in DOMAIN real_devices : k # idx /\ R2[r] = real_devices[k]
        BY <1>3 DEF UnboundReal
      <3>6. k \in UnboundReal(real_devices)
        BY <3>5 DEF UnboundReal
      <3>7. virtual_devices'[p].binding = real_devices[k].id
        BY <1>2, <3>2, <3>4, <3>5
      <3>8. \A w \in VirtualDeviceId :
              w # p => virtual_devices'[w].binding = virtual_devices[w].binding
        BY <1>2, <1>3, <3>2, <3>4
      <3>9. QED
        BY <3>6, <3>7, <3>8
    <2>6. QED
      BY <2>4, <2>5
  <1>13. \E x \in DOMAIN real_devices :
           /\ real_devices[x].id = id
           /\ \/ /\ real_devices[x].binding = None
                 /\ \A w \in VirtualDeviceId :
                      virtual_devices'[w].binding = virtual_devices[w].binding
              \/ \E v \in VirtualDeviceId :
                   /\ virtual_devices[v].binding = id
                   /\ \A w \in VirtualDeviceId :
                        w # v => virtual_devices'[w].binding
                                   = virtual_devices[w].binding
                   /\ \/ /\ UnboundReal(real_devices) = {}
                         /\ virtual_devices'[v].binding = None
                      \/ \E k \in UnboundReal(real_devices) :
                           virtual_devices'[v].binding = real_devices[k].id
    <2>1. CASE p = None
      BY <1>1, <1>11, <2>1 DEF p
    <2>2. CASE p # None
      BY <1>1, <1>5, <1>12, <2>2
    <2>3. QED
      BY <2>1, <2>2
  <1>14. QED
    BY <1>8, <1>9, <1>10, <1>13

-----------------------------------------------------------------------------
(* A controller that stays plugged in keeps its player.                    *)
THEOREM PlayersAreKept == Spec => KeepsItsPlayer
  <1> DEFINE Kept == \A v \in VirtualDeviceId :
                       LET d == virtual_devices[v].binding
                       IN  d # None /\ d \in Ids(real_devices') =>
                             virtual_devices'[v].binding = d
  <1>1. ASSUME IInv, [Next]_vars PROVE [Kept]_vars
    <2>1. CASE Arrival
      BY <1>1, <2>1, ArrivalEffect DEF Arrival
    <2>2. CASE Removal
      BY <1>1, <2>2, RemovalEffect DEF Removal
    <2>3. CASE Refresh
      BY <1>1, <2>3, RefreshEffect DEF Refresh
    <2>4. QED
      BY <1>1, <2>1, <2>2, <2>3 DEF Next
  <1>2. QED
    BY <1>1, Invariance, PTL DEF Spec, KeepsItsPlayer

(* Of the devices that wait, the one that arrived last is bound first.     *)
THEOREM NewestIsFirst == Spec => NewestFirst
  <1> DEFINE Newest ==
        \A v \in VirtualDeviceId, i, j \in DOMAIN real_devices' :
          /\ real_devices'[i].id = virtual_devices'[v].binding
          /\ virtual_devices[v].binding # virtual_devices'[v].binding
          /\ real_devices'[j].binding = None
          => j < i
  <1>1. ASSUME IInv, [Next]_vars PROVE [Newest]_vars
    <2>1. CASE Arrival
      BY <1>1, <2>1, ArrivalEffect DEF Arrival
    <2>2. CASE Removal
      BY <1>1, <2>2, RemovalEffect DEF Removal
    <2>3. CASE Refresh
      BY <1>1, <2>3, RefreshEffect DEF Refresh
    <2>4. QED
      BY <1>1, <2>1, <2>2, <2>3 DEF Next
  <1>2. QED
    BY <1>1, Invariance, PTL DEF Spec, NewestFirst

(* Each step of the tables is a step of the abstract table, or changes     *)
(* nothing that it shows.                                                  *)
LEMMA TableStep == IInv /\ [Next]_vars => [Table!Next]_(Table!vars)
  <1> SUFFICES ASSUME IInv, [Next]_vars
               PROVE  [Table!Next]_(Table!vars)
    OBVIOUS
  <1> DEFINE plays == [v \in VirtualDeviceId |-> virtual_devices[v].binding]
  <1>1. ASSUME NEW id \in DeviceIds, id \notin Ids(real_devices),
               NEW buffer \in Buffers, add_device(id, buffer)
        PROVE  Table!Arrive(id)
    <2>1. Ids(real_devices') = Ids(real_devices) \cup {id}
      BY <1>1, ArrivalEffect
    <2>2. CASE /\ UnboundVirtual(virtual_devices) = {}
               /\ virtual_devices' = virtual_devices
      BY <1>1, <2>1, <2>2 DEF Table!Arrive, Table!Free, UnboundVirtual
    <2>3. CASE \E v \in UnboundVirtual(virtual_devices) :
                 /\ virtual_devices'[v].binding = id
                 /\ \A w \in VirtualDeviceId :
                      w # v => virtual_devices'[w].binding
                                 = virtual_devices[w].binding
      <3>1. PICK v \in UnboundVirtual(virtual_devices) :
              /\ virtual_devices'[v].binding = id
              /\ \A w \in VirtualDeviceId :
                   w # v => virtual_devices'[w].binding
                              = virtual_devices[w].binding
        BY <2>3
      <3>2. plays' = [plays EXCEPT ![v] = id]
        BY <3>1 DEF UnboundVirtual
      <3>3. v \in Table!Free
        BY DEF Table!Free, UnboundVirtual
      <3>4. QED
        BY <1>1, <2>1, <3>2, <3>3 DEF Table!Arrive
    <2>4. QED
      BY <1>1, <2>2, <2>3, ArrivalEffect
  <1>2. ASSUME NEW id \in Ids(real_devices), remove_device(id)
        PROVE  Table!Leave(id)
    <2>1. Ids(real_devices') = Ids(real_devices) \ {id}
      BY <1>2, RemovalEffect
    <2>2. PICK idx \in DOMAIN real_devices :
            /\ real_devices[idx].id = id
            /\ \/ /\ real_devices[idx].binding = None
                  /\ \A w \in VirtualDeviceId :
                       virtual_devices'[w].binding = virtual_devices[w].binding
               \/ \E v \in VirtualDeviceId :
                    /\ virtual_devices[v].binding = id
                    /\ \A w \in VirtualDeviceId :
                         w # v => virtual_devices'[w].binding
                                    = virtual_devices[w].binding
                    /\ \/ /\ UnboundReal(real_devices) = {}
                          /\ virtual_devices'[v].binding = None
                       \/ \E k \in UnboundReal(real_devices) :
                            virtual_devices'[v].binding = real_devices[k].id
      BY <1>2, RemovalEffect
    <2>3. CASE /\ real_devices[idx].binding = None
               /\ \A w \in VirtualDeviceId :
                    virtual_devices'[w].binding = virtual_devices[w].binding
      <3>1. plays' = plays
        BY <2>3
      <3>2. id \in Table!Waiting
        BY <2>2, <2>3, WaitingIsUnbound
      <3>3. QED
        BY <1>2, <2>1, <3>1, <3>2 DEF Table!Leave
    <2>4. CASE \E v \in VirtualDeviceId :
                 /\ virtual_devices[v].binding = id
                 /\ \A w \in VirtualDeviceId :
                      w # v => virtual_devices'[w].binding
                                 = virtual_devices[w].binding
                 /\ \/ /\ UnboundReal(real_devices) = {}
                       /\ virtual_devices'[v].binding = None
                    \/ \E k \in UnboundReal(real_devices) :
                         virtual_devices'[v].binding = real_devices[k].id
      <3>1. PICK v \in VirtualDeviceId :
              /\ virtual_devices[v].binding = id
              /\ \A w \in VirtualDeviceId :
                   w # v => virtual_devices'[w].binding
                              = virtual_devices[w].binding
              /\ \/ /\ UnboundReal(real_devices) = {}
                    /\ virtual_devices'[v].binding = None
                 \/ \E k \in UnboundReal(real_devices) :
                      virtual_devices'[v].binding = real_devices[k].id
        BY <2>4
      <3>2. plays[v] = id
        BY <3>1
      <3>3. plays' = [plays EXCEPT ![v] = virtual_devices'[v].binding]
        BY <3>1
      <3>4. CASE /\ UnboundReal(real_devices) = {}
                 /\ virtual_devices'[v].binding = None
        <4>1. Table!Waiting = {}
          <5>1. SUFFICES ASSUME NEW d \in Table!Waiting PROVE FALSE
            OBVIOUS
          <5>2. d \in Ids(real_devices)
            BY DEF Table!Waiting
          <5>3. PICK k \in DOMAIN real_devices : real_devices[k].id = d
            BY <5>2 DEF Ids
          <5>4. real_devices[k].binding = None
            BY <5>3, WaitingIsUnbound
          <5>5. QED
            BY <3>4, <5>4 DEF UnboundReal
        <4>2. QED
          BY <1>2, <2>1, <3>2, <3>3, <3>4, <4>1 DEF Table!Leave
      <3>5. CASE \E k \in UnboundReal(real_devices) :
                   virtual_devices'[v].binding = real_devices[k].id
        <4>1. virtual_devices'[v].binding \in Table!Waiting
          BY <3>5, WaitingIsUnbound DEF UnboundReal
        <4>2. QED
          BY <1>2, <2>1, <3>2, <3>3, <4>1 DEF Table!Leave
      <3>6. QED
        BY <3>1, <3>4, <3>5
    <2>5. QED
      BY <2>2, <2>3, <2>4
  <1>3. ASSUME NEW u \in VirtualDeviceId,
               NEW contents \in [Buffers -> Inputs], update(u, contents)
        PROVE  UNCHANGED Table!vars
    BY <1>3, RefreshEffect DEF Table!vars
  <1>4. Ids(real_devices) \subseteq DeviceIds
    BY IInvParts, TypedDomains DEF Ids, RealDeviceState
  <1>5. CASE UNCHANGED vars
    BY <1>5 DEF vars, Table!vars, Ids
  <1>6. QED
    BY <1>1, <1>2, <1>3, <1>4, <1>5
       DEF Next, Arrival, Removal, Refresh, Table!Next

(* The two tables of lib.rs implement the abstract binding table: every    *)
(* arrival takes a free player if there is one, every departure hands the  *)
(* player on to a device that waits if there is one, nobody else moves.    *)
THEOREM Refinement == Spec => ImplementsTable
  <1>1. Init => Table!Init
    BY DEF Init, Table!Init, Ids
  <1>2. QED
    BY <1>1, Invariance, TableStep, PTL DEF Spec, ImplementsTable, Table!Spec

-----------------------------------------------------------------------------
(* What a client that watches the comings and goings sees of the tables:   *)
(* the buffer each device is read through.                                 *)
BufferOf(R) ==
  [id \in {R[i].id : i \in DOMAIN R} |->
     R[CHOOSE i \in DOMAIN R : R[i].id = id].buffer]

LEMMA BufferOfEntry ==
  ASSUME NEW R, UniqueIds(R), NEW i \in DOMAIN R
  PROVE  R[i].id \in Ids(R) /\ BufferOf(R)[R[i].id] = R[i].buffer
  <1>1. R[i].id \in Ids(R)
    BY DEF Ids
  <1> DEFINE k == CHOOSE j \in DOMAIN R : R[j].id = R[i].id
  <1>2. k \in DOMAIN R /\ R[k].id = R[i].id
    OBVIOUS
  <1>3. k = i
    BY <1>2 DEF UniqueIds
  <1>4. BufferOf(R)[R[i].id] = R[k].buffer
    BY <1>1 DEF BufferOf, Ids
  <1>5. QED
    BY <1>1, <1>3, <1>4

LEMMA BufferOfIs ==
  ASSUME NEW R, UniqueIds(R), NEW f,
         \A i \in DOMAIN R : R[i].buffer = f[R[i].id]
  PROVE  BufferOf(R) = [id \in Ids(R) |-> f[id]]
  <1>1. ASSUME NEW id \in Ids(R)
        PROVE  BufferOf(R)[id] = f[id]
    <2>1. PICK i \in DOMAIN R : R[i].id = id
      BY DEF Ids
    <2>2. QED
      BY <2>1, BufferOfEntry
  <1>2. BufferOf(R) = [id \in Ids(R) |-> BufferOf(R)[id]]
    BY DEF BufferOf, Ids
  <1>3. QED
    BY <1>1, <1>2

(* Binding changes nobody's buffer.                                        *)
LEMMA BindKeepsBuffers ==
  ASSUME NEW V, NEW R, Typed(V, R)
  PROVE  LET B == bind_devices(V, R)
         IN  /\ DOMAIN B.real = DOMAIN R
             /\ \A i \in DOMAIN R : B.real[i].id = R[i].id
                                    /\ B.real[i].buffer = R[i].buffer
  <1>1. \A i \in DOMAIN R : R[i] \in RealDeviceState
    BY ElementOfSeq, LenProperties DEF Typed
  <1>2. \A b : \A i \in DOMAIN R :
          /\ [R[i] EXCEPT !.binding = b].id = R[i].id
          /\ [R[i] EXCEPT !.binding = b].buffer = R[i].buffer
    BY <1>1 DEF RealDeviceState
  <1>3. QED
    BY <1>2 DEF bind_devices

LEMMA ArrivalBuffers ==
  ASSUME IInv, NEW id \in DeviceIds, id \notin Ids(real_devices),
         NEW buffer \in Buffers, add_device(id, buffer)
  PROVE  BufferOf(real_devices') =
           [x \in Ids(real_devices) \cup {id} |->
              IF x = id THEN buffer ELSE BufferOf(real_devices)[x]]
  <1> DEFINE e  == [id |-> id, buffer |-> buffer, binding |-> None]
             R2 == Append(real_devices, e)
             n  == Len(real_devices)
             f  == [x \in Ids(real_devices) \cup {id} |->
                      IF x = id THEN buffer ELSE BufferOf(real_devices)[x]]
  <1>1. /\ Typed(virtual_devices, R2) /\ DOMAIN R2 = 1..(n + 1)
        /\ \A i \in DOMAIN real_devices : R2[i] = real_devices[i]
        /\ R2[n + 1] = e
    BY IInvParts, PushDevice DEF NoIdlePair
  <1>2. n \in Nat /\ DOMAIN real_devices = 1..n
    BY IInvParts, TypedDomains
  <1>3. /\ DOMAIN real_devices' = DOMAIN R2
        /\ \A i \in DOMAIN R2 : /\ real_devices'[i].id = R2[i].id
                                /\ real_devices'[i].buffer = R2[i].buffer
    <2>1. real_devices' = bind_devices(virtual_devices, R2).real
      BY DEF add_device
    <2> HIDE DEF R2
    <2>2. QED
      BY <1>1, <2>1, BindKeepsBuffers
  <1>4. e.id = id /\ e.buffer = buffer
    OBVIOUS
  <1>5. UniqueIds(real_devices) /\ UniqueIds(real_devices')
    BY ArrivalIInv, IInvParts DEF Agree, IInv, BindingsAgree, UniqueIds
  <1>6. Ids(real_devices') = Ids(real_devices) \cup {id}
    BY ArrivalEffect
  <1> HIDE DEF e, R2, n
  <1>7. ASSUME NEW i \in DOMAIN real_devices'
        PROVE  real_devices'[i].buffer = f[real_devices'[i].id]
    <2>1. CASE i = n + 1
      BY <2>1, <1>1, <1>3, <1>4
    <2>2. CASE i \in DOMAIN real_devices
      <3>1. /\ real_devices[i].id \in Ids(real_devices)
            /\ BufferOf(real_devices)[real_devices[i].id] = real_devices[i].buffer
        BY <2>2, <1>5, BufferOfEntry
      <3>2. real_devices[i].id # id
        BY <3>1
      <3>3. QED
        BY <2>2, <3>1, <3>2, <1>1, <1>3
    <2>3. QED
      BY <2>1, <2>2, <1>1, <1>2, <1>3
  <1> HIDE DEF f
  <1>8. BufferOf(real_devices') = [x \in Ids(real_devices') |-> f[x]]
    BY <1>5, <1>7, BufferOfIs
  <1>9. QED
    BY <1>6, <1>8 DEF f

LEMMA RemovalBuffers ==
  ASSUME IInv, NEW id \in Ids(real_devices), remove_device(id)
  PROVE  BufferOf(real_devices') =
           [x \in Ids(real_devices) \ {id} |-> BufferOf(real_devices)[x]]
  <1> DEFINE idx == find_real_device(real_devices, id)
             U   == unbind_device(virtual_devices, real_devices, idx)
             R2  == RemoveAt(U.real, idx)
  <1>1. idx \in DOMAIN real_devices
    BY IInvParts, FindReal DEF Agree
  <1>2. /\ Typed(U.virtual, R2)
        /\ \A j \in DOMAIN R2 : \E k \in DOMAIN real_devices : R2[j] = real_devices[k]
    BY <1>1, IInvParts, UnbindAndDrop DEF NoIdlePair
  <1>3. real_devices' = bind_devices(U.virtual, R2).real
    BY DEF remove_device
  <1> HIDE DEF idx, U, R2
  <1>4. /\ DOMAIN real_devices' = DOMAIN R2
        /\ \A i \in DOMAIN R2 : /\ real_devices'[i].id = R2[i].id
                                /\ real_devices'[i].buffer = R2[i].buffer
    BY <1>2, <1>3, BindKeepsBuffers
  <1>5. UniqueIds(real_devices) /\ UniqueIds(real_devices')
    BY RemovalIInv, IInvParts DEF Agree, IInv, BindingsAgree, UniqueIds
  <1>6. Ids(real_devices') = Ids(real_devices) \ {id}
    BY RemovalEffect
  <1>7. ASSUME NEW i \in DOMAIN real_devices'
        PROVE  real_devices'[i].buffer = BufferOf(real_devices)[real_devices'[i].id]
    <2>1. PICK k \in DOMAIN real_devices : R2[i] = real_devices[k]
      BY <1>2, <1>4
    <2>2. QED
      BY <2>1, <1>4, <1>5, BufferOfEntry
  <1>8. BufferOf(real_devices') =
          [x \in Ids(real_devices') |-> BufferOf(real_devices)[x]]
    BY <1>5, <1>7, BufferOfIs
  <1>9. QED
    BY <1>6, <1>8

(* As many players as possible have a device: all of them, or one for each *)
(* device.                                                                 *)
LEMMA AsManyAsPossible ==
  ASSUME IInv
  PROVE  LET bound == {v \in VirtualDeviceId : virtual_devices[v].binding # None}
         IN  /\ Cardinality(bound) \in Nat
             /\ Cardinality(Ids(real_devices)) \in Nat
             /\ Cardinality(bound) <= DeviceCount
             /\ Cardinality(bound) <= Cardinality(Ids(real_devices))
             /\ \/ Cardinality(bound) = DeviceCount
                \/ Cardinality(bound) = Cardinality(Ids(real_devices))
  <1> DEFINE bound == {v \in VirtualDeviceId : virtual_devices[v].binding # None}
             ids   == Ids(real_devices)
             dev   == [v \in bound |-> virtual_devices[v].binding]
             n     == Len(real_devices)
  <1>1. /\ Typed(virtual_devices, real_devices)
        /\ Agree(virtual_devices, real_devices)
    BY IInvParts
  <1>2. n \in Nat /\ DOMAIN real_devices = 1..n
    BY <1>1, TypedDomains
  <1>3. IsFiniteSet(ids)
    <2>1. IsFiniteSet(1..n)
      BY <1>2, FS_Interval
    <2>2. ids = {real_devices[i].id : i \in 1..n}
      BY <1>2 DEF Ids
    <2> DEFINE g == [i \in 1..n |-> real_devices[i].id]
    <2>3. g \in Surjection(1..n, ids)
      BY <2>2 DEF Surjection
    <2> HIDE DEF g, ids, n
    <2>4. QED
      BY <2>1, <2>3, FS_Surjection
  <1>4. /\ IsFiniteSet(VirtualDeviceId)
        /\ Cardinality(VirtualDeviceId) = DeviceCount
    <2>1. 0..(DeviceCount - 1) = VirtualDeviceId
      BY DEF VirtualDeviceId
    <2>2. DeviceCount - 1 \in Int /\ 0 \in Int /\ DeviceCount \in Nat
      BY VirtualDevicesAssumption
    <2>3. /\ IsFiniteSet(0..(DeviceCount - 1))
          /\ Cardinality(0..(DeviceCount - 1)) =
               IF 0 > DeviceCount - 1 THEN 0 ELSE DeviceCount - 1 - 0 + 1
      BY <2>2, FS_Interval
    <2>4. QED
      BY <2>1, <2>2, <2>3
  <1>5. IsFiniteSet(bound) /\ Cardinality(bound) <= DeviceCount
    BY <1>4, FS_Subset
  <1>6. dev \in Injection(bound, ids)
    <2>1. ASSUME NEW v \in bound
          PROVE  \E i \in DOMAIN real_devices :
                   real_devices[i].id = dev[v] /\ real_devices[i].binding = v
      BY <1>1 DEF Agree, VirtualAgrees
    <2>2. dev \in [bound -> ids]
      <3>1. \A v \in bound : dev[v] \in ids
        BY <2>1 DEF Ids
      <3>2. QED
        BY <3>1
    <2>3. ASSUME NEW v \in bound, NEW w \in bound, dev[v] = dev[w]
          PROVE  v = w
      BY <2>1, <2>3, <1>1 DEF Agree, UniqueIds
    <2> HIDE DEF dev
    <2>4. QED
      BY <2>2, <2>3 DEF Injection, IsInjective
  <1>7. Cardinality(bound) <= Cardinality(ids)
    <2> HIDE DEF dev, bound, ids
    <2>1. QED
      BY <1>3, <1>5, <1>6, FS_Injection
  <1>8. CASE UnboundVirtual(virtual_devices) = {}
    <2>1. bound = VirtualDeviceId
      BY <1>8 DEF UnboundVirtual
    <2>2. QED
      BY <2>1, <1>3, <1>4, <1>5, <1>7, FS_CardinalityType
  <1>9. CASE UnboundReal(real_devices) = {}
    <2>1. ASSUME NEW d \in ids PROVE \E v \in bound : dev[v] = d
      <3>1. PICK i \in DOMAIN real_devices : real_devices[i].id = d
        BY DEF Ids
      <3>2. real_devices[i].binding # None
        BY <1>9 DEF UnboundReal
      <3>3. real_devices[i] \in RealDeviceState
        BY <1>1, <1>2, ElementOfSeq DEF Typed
      <3>4. /\ real_devices[i].binding \in VirtualDeviceId
            /\ d \in DeviceIds
        BY <3>1, <3>2, <3>3 DEF RealDeviceState
      <3>5. virtual_devices[real_devices[i].binding].binding = d
        BY <3>1, <3>2, <1>1 DEF Agree, RealAgrees
      <3>6. d # None
        BY <3>4, VirtualDevicesAssumption
      <3>7. QED
        BY <3>4, <3>5, <3>6
    <2>2. dev \in Surjection(bound, ids)
      <3> HIDE DEF dev, bound, ids
      <3>1. dev \in [bound -> ids]
        BY <1>6 DEF Injection
      <3>2. QED
        BY <3>1, <2>1 DEF Surjection
    <2>3. Cardinality(ids) <= Cardinality(bound)
      <3> HIDE DEF dev, bound, ids
      <3>1. QED
        BY <1>5, <2>2, FS_Surjection
    <2>4. QED
      BY <2>3, <1>3, <1>5, <1>7, FS_CardinalityType
  <1>10. QED
    BY <1>8, <1>9 DEF IInv, NoIdlePair

-----------------------------------------------------------------------------
(* The loop of bind_devices, turn by turn.  A turn binds the first free    *)
(* player to the newest device that waits, and the result of bind_devices  *)
(* is the same before that turn and after it.                              *)
BindFirst(V, R, v, r) ==
  /\ v \in UnboundVirtual(V) /\ \A u \in UnboundVirtual(V) : v <= u
  /\ r \in UnboundReal(R) /\ \A s \in UnboundReal(R) : s <= r

(* The rest of the pairs are pairs of what is left.                        *)
LEMMA PairedAfter ==
  ASSUME NEW V, NEW R, Typed(V, R), NEW v, NEW r, BindFirst(V, R, v, r)
  PROVE  LET V2 == BindVirtual(V, R, v, r)
             R2 == BindReal(R, v, r)
         IN  /\ UnboundVirtual(V2) = UnboundVirtual(V) \ {v}
             /\ UnboundReal(R2) = UnboundReal(R) \ {r}
             /\ \A w, s : w # v /\ s # r =>
                  (Paired(V2, R2, w, s) <=> Paired(V, R, w, s))
             /\ \A w, s : w = v \/ s = r =>
                  /\ Paired(V, R, w, s) <=> (w = v /\ s = r)
                  /\ ~Paired(V2, R2, w, s)
  <1> DEFINE V2 == BindVirtual(V, R, v, r)
             R2 == BindReal(R, v, r)
             UV == UnboundVirtual(V)
             UR == UnboundReal(R)
  <1>1. /\ v \in UV /\ r \in UR
        /\ \A u \in UV : v <= u
        /\ \A s \in UR : s <= r
    BY DEF BindFirst
  <1>2. /\ UV \subseteq Nat /\ UR \subseteq Nat /\ IsFiniteSet(UV) /\ IsFiniteSet(UR)
    BY TypedDomains
  <1>3. /\ DOMAIN R2 = DOMAIN R
        /\ \A s \in DOMAIN R : s # r => R2[s] = R[s]
        /\ R2[r].binding = v
        /\ \A w \in VirtualDeviceId : w # v => V2[w] = V[w]
        /\ V2[v].binding = R[r].id
    BY <1>1, BindEntries
  <1>4. v # None /\ R[r].id # None
    <2>1. v \in VirtualDeviceId /\ r \in DOMAIN R
      BY <1>1 DEF UnboundVirtual, UnboundReal
    <2>2. R[r] \in RealDeviceState
      BY <2>1, TypedDomains
    <2>3. QED
      BY <2>1, <2>2, VirtualDevicesAssumption DEF RealDeviceState, VirtualDeviceId
  <1> HIDE DEF V2, R2
  <1>5. UnboundVirtual(V2) = UV \ {v}
    BY <1>3, <1>4 DEF UnboundVirtual
  <1>6. UnboundReal(R2) = UR \ {r}
    BY <1>3, <1>4 DEF UnboundReal
  <1> HIDE DEF UV, UR
  <1>7. ASSUME NEW w \in UV, w # v
        PROVE  /\ Cardinality({u \in UV : u < w}) \in Nat
               /\ Cardinality({u \in UV : u < w}) > 0
               /\ Cardinality({u \in UV \ {v} : u < w}) = Cardinality({u \in UV : u < w}) - 1
    <2> DEFINE T == {u \in UV : u < w}
    <2>1. IsFiniteSet(T)
      BY <1>2, FS_Subset
    <2>2. v \in T
      BY <1>1, <1>2, <1>7
    <2>3. {u \in UV \ {v} : u < w} = T \ {v}
      OBVIOUS
    <2> HIDE DEF T
    <2>4. Cardinality(T \ {v}) = Cardinality(T) - 1 /\ Cardinality(T) \in Nat
      BY <2>1, <2>2, FS_RemoveElement, FS_CardinalityType
    <2>5. Cardinality(T) # 0
      BY <2>1, <2>2, FS_EmptySet
    <2>6. QED
      BY <2>3, <2>4, <2>5 DEF T
  <1>8. ASSUME NEW s \in UR, s # r
        PROVE  /\ Cardinality({t \in UR : t > s}) \in Nat
               /\ Cardinality({t \in UR : t > s}) > 0
               /\ Cardinality({t \in UR \ {r} : t > s}) = Cardinality({t \in UR : t > s}) - 1
    <2> DEFINE T == {t \in UR : t > s}
    <2>1. IsFiniteSet(T)
      BY <1>2, FS_Subset
    <2>2. r \in T
      BY <1>1, <1>2, <1>8
    <2>3. {t \in UR \ {r} : t > s} = T \ {r}
      OBVIOUS
    <2> HIDE DEF T
    <2>4. Cardinality(T \ {r}) = Cardinality(T) - 1 /\ Cardinality(T) \in Nat
      BY <2>1, <2>2, FS_RemoveElement, FS_CardinalityType
    <2>5. Cardinality(T) # 0
      BY <2>1, <2>2, FS_EmptySet
    <2>6. QED
      BY <2>3, <2>4, <2>5 DEF T
  <1>9. /\ Cardinality({u \in UV : u < v}) = 0 /\ Cardinality({t \in UR : t > r}) = 0
    <2>1. \A u \in UV : ~(u < v)
      BY <1>1, <1>2
    <2>2. \A t \in UR : ~(t > r)
      BY <1>1, <1>2
    <2>3. {u \in UV : u < v} = {} /\ {t \in UR : t > r} = {}
      BY <2>1, <2>2
    <2>4. QED
      BY <2>3, FS_EmptySet
  <1>10. ASSUME NEW w, NEW s, w # v, s # r
         PROVE  Paired(V2, R2, w, s) <=> Paired(V, R, w, s)
    <2>1. CASE w \in UV /\ s \in UR
      BY <1>5, <1>6, <1>7, <1>8, <1>10, <2>1 DEF Paired, UV, UR
    <2>2. CASE ~(w \in UV /\ s \in UR)
      BY <1>5, <1>6, <2>2 DEF Paired, UV, UR
    <2>3. QED
      BY <2>1, <2>2
  <1>11. ASSUME NEW w, NEW s, w = v \/ s = r
         PROVE  /\ Paired(V, R, w, s) <=> (w = v /\ s = r)
                /\ ~Paired(V2, R2, w, s)
    <2>1. ~Paired(V2, R2, w, s)
      BY <1>5, <1>6, <1>11 DEF Paired
    <2>2. CASE w = v /\ s = r
      BY <1>1, <1>9, <2>1, <2>2 DEF Paired, UV, UR
    <2>3. CASE w = v /\ s # r
      <3>1. ~Paired(V, R, v, s)
        <4>1. Paired(V, R, v, s) => /\ s \in UR
                                    /\ Cardinality({u \in UV : u < v})
                                         = Cardinality({t \in UR : t > s})
          BY Zenon DEF Paired, UV, UR
        <4>2. s \in UR => Cardinality({t \in UR : t > s}) > 0
          BY <1>8, <2>3
        <4>3. QED
          BY <1>9, <4>1, <4>2
      <3>2. QED
        BY <2>1, <2>3, <3>1
    <2>4. CASE w # v /\ s = r
      <3>1. ~Paired(V, R, w, r)
        <4>1. Paired(V, R, w, r) => /\ w \in UV
                                    /\ Cardinality({u \in UV : u < w})
                                         = Cardinality({t \in UR : t > r})
          BY Zenon DEF Paired, UV, UR
        <4>2. w \in UV => Cardinality({u \in UV : u < w}) > 0
          BY <1>7, <2>4
        <4>3. QED
          BY <1>9, <4>1, <4>2
      <3>2. QED
        BY <2>1, <2>4, <3>1
    <2>5. QED
      BY <1>11, <2>2, <2>3, <2>4
  <1>12. QED
    BY <1>5, <1>6, <1>10, <1>11 DEF V2, R2, UV, UR

(* So a turn does not change what the result is.                           *)
LEMMA BindRest ==
  ASSUME NEW V, NEW R, Typed(V, R), NEW v, NEW r, BindFirst(V, R, v, r)
  PROVE  bind_devices(BindVirtual(V, R, v, r), BindReal(R, v, r)) = bind_devices(V, R)
  <1> DEFINE V2 == BindVirtual(V, R, v, r)
             R2 == BindReal(R, v, r)
             P(w, s) == Paired(V, R, w, s)
             P2(w, s) == Paired(V2, R2, w, s)
  <1>1. /\ v \in UnboundVirtual(V) /\ r \in UnboundReal(R)
        /\ v \in VirtualDeviceId /\ r \in DOMAIN R
    BY DEF BindFirst, UnboundVirtual, UnboundReal
  <1>2. /\ DOMAIN R2 = DOMAIN R
        /\ \A s \in DOMAIN R : R2[s].id = R[s].id
        /\ \A s \in DOMAIN R : s # r => R2[s] = R[s]
        /\ \A w \in VirtualDeviceId : w # v => V2[w] = V[w]
    BY <1>1, BindEntries
  <1>3. V2[v] = [V[v] EXCEPT !.binding = R[r].id] /\ R2[r] = [R[r] EXCEPT !.binding = v]
    BY <1>1 DEF BindVirtual, BindReal, Typed
  <1>4. /\ \A w, s : w # v /\ s # r => (P2(w, s) <=> P(w, s))
        /\ \A w, s : w = v \/ s = r =>
             /\ P(w, s) <=> (w = v /\ s = r)
             /\ ~P2(w, s)
    BY PairedAfter
  <1> HIDE DEF V2, R2, P, P2
  <1> DEFINE E(w) == IF \E s \in DOMAIN R : P(w, s)
                     THEN [V[w] EXCEPT !.binding = R[CHOOSE s \in DOMAIN R : P(w, s)].id]
                     ELSE V[w]
             E2(w) == IF \E s \in DOMAIN R2 : P2(w, s)
                      THEN [V2[w] EXCEPT !.binding = R2[CHOOSE s \in DOMAIN R2 : P2(w, s)].id]
                      ELSE V2[w]
             F(s) == IF \E w \in VirtualDeviceId : P(w, s)
                     THEN [R[s] EXCEPT !.binding = CHOOSE w \in VirtualDeviceId : P(w, s)]
                     ELSE R[s]
             F2(s) == IF \E w \in VirtualDeviceId : P2(w, s)
                      THEN [R2[s] EXCEPT !.binding = CHOOSE w \in VirtualDeviceId : P2(w, s)]
                      ELSE R2[s]
  <1>5. ASSUME NEW w \in VirtualDeviceId PROVE E2(w) = E(w)
    <2>1. CASE w = v
      <3>1. (CHOOSE s \in DOMAIN R : P(w, s)) = r /\ \E s \in DOMAIN R : P(w, s)
        BY <1>1, <1>4, <2>1
      <3>2. E(w) = [V[v] EXCEPT !.binding = R[r].id]
        BY <2>1, <3>1
      <3>3. ~\E s \in DOMAIN R2 : P2(w, s)
        BY <1>4, <2>1
      <3>4. E2(w) = V2[v]
        BY <2>1, <3>3
      <3> HIDE DEF E, E2
      <3>5. QED
        BY <1>3, <3>2, <3>4
    <2>2. CASE w # v
      <3>1. \A s : P2(w, s) <=> P(w, s)
        BY <1>4, <2>2
      <3>2. (CHOOSE s \in DOMAIN R2 : P2(w, s)) = (CHOOSE s \in DOMAIN R : P(w, s))
        BY <1>2, <3>1
      <3>4. V2[w] = V[w]
        BY <1>2, <2>2
      <3>5. CASE \E s \in DOMAIN R : P(w, s)
        <4> DEFINE c == CHOOSE s \in DOMAIN R : P(w, s)
        <4>1. c \in DOMAIN R
          BY <3>5
        <4>2. E(w) = [V[w] EXCEPT !.binding = R[c].id]
          BY <3>5
        <4>3. \E s \in DOMAIN R2 : P2(w, s)
          BY <1>2, <3>1, <3>5
        <4>4. E2(w) = [V2[w] EXCEPT !.binding = R2[c].id]
          BY <3>2, <4>3
        <4> HIDE DEF c, E, E2
        <4>5. QED
          BY <1>2, <3>4, <4>1, <4>2, <4>4
      <3>6. CASE ~\E s \in DOMAIN R : P(w, s)
        <4>1. ~\E s \in DOMAIN R2 : P2(w, s)
          BY <1>2, <3>1, <3>6
        <4>2. QED
          BY <3>4, <3>6, <4>1
      <3>7. QED
        BY <3>5, <3>6
    <2>3. QED
      BY <2>1, <2>2
  <1>6. ASSUME NEW s \in DOMAIN R PROVE F2(s) = F(s)
    <2>1. CASE s = r
      <3>1. (CHOOSE w \in VirtualDeviceId : P(w, s)) = v /\ \E w \in VirtualDeviceId : P(w, s)
        BY <1>1, <1>4, <2>1
      <3>2. F(s) = [R[r] EXCEPT !.binding = v]
        BY <2>1, <3>1
      <3>3. ~\E w \in VirtualDeviceId : P2(w, s)
        BY <1>4, <2>1
      <3>4. F2(s) = R2[r]
        BY <2>1, <3>3
      <3> HIDE DEF F, F2
      <3>5. QED
        BY <1>3, <3>2, <3>4
    <2>2. CASE s # r
      <3>1. \A w : P2(w, s) <=> P(w, s)
        BY <1>4, <2>2
      <3>2. (CHOOSE w \in VirtualDeviceId : P2(w, s)) = (CHOOSE w \in VirtualDeviceId : P(w, s))
        BY <3>1
      <3>3. R2[s] = R[s]
        BY <1>2, <2>2
      <3>4. (\E w \in VirtualDeviceId : P2(w, s)) <=> (\E w \in VirtualDeviceId : P(w, s))
        BY <3>1
      <3>5. QED
        BY <3>2, <3>3, <3>4
    <2>3. QED
      BY <2>1, <2>2
  <1>7. bind_devices(V, R) = [virtual |-> [w \in VirtualDeviceId |-> E(w)],
                              real |-> [s \in DOMAIN R |-> F(s)]]
    BY DEF bind_devices, P
  <1>8. bind_devices(V2, R2) = [virtual |-> [w \in VirtualDeviceId |-> E2(w)],
                                real |-> [s \in DOMAIN R2 |-> F2(s)]]
    BY DEF bind_devices, P2
  <1> HIDE DEF E, E2, F, F2
  <1>9. /\ [w \in VirtualDeviceId |-> E2(w)] = [w \in VirtualDeviceId |-> E(w)]
        /\ [s \in DOMAIN R2 |-> F2(s)] = [s \in DOMAIN R |-> F(s)]
    BY <1>2, <1>5, <1>6
  <1>10. QED
    BY <1>7, <1>8, <1>9 DEF V2, R2

(* The loop takes one turn after the other.                                *)
LEMMA TurnsInTurn ==
  ASSUME NEW V, NEW R
  PROVE  /\ BindTurns(V, R)[0] = [virtual |-> V, real |-> R, over |-> FALSE]
         /\ \A i \in 1..DeviceCount :
              BindTurns(V, R)[i] = BindTurn(BindTurns(V, R)[i - 1], i - 1)
  <1> DEFINE n == DeviceCount
             start == [virtual |-> V, real |-> R, over |-> FALSE]
             After(f, i) == IF i = 0 THEN start ELSE BindTurn(f[i - 1], i - 1)
             Upto(f, m) == f = [i \in 0..m |-> After(f, i)]
             Bad == {m \in Nat : ~\E f : Upto(f, m)}
  <1>0. BindTurns(V, R) = CHOOSE f : Upto(f, n)
    BY DEF BindTurns
  <1> HIDE DEF start
  <1>1. ASSUME NEW m \in Nat, NEW f, Upto(f, m)
        PROVE  \E g : Upto(g, m + 1)
    <2> DEFINE last == BindTurn(f[m], m)
               g == [k \in 0..(m + 1) |-> IF k = m + 1 THEN last ELSE f[k]]
    <2>1. ASSUME NEW k \in 0..(m + 1) PROVE g[k] = After(g, k)
      <3>1. CASE k = m + 1
        <4>1. m \in 0..(m + 1) /\ m # m + 1 /\ k # 0 /\ k - 1 = m
          BY <3>1
        <4>2. g[m] = f[m] /\ g[k] = last
          BY <3>1, <4>1
        <4> HIDE DEF g
        <4>3. QED
          BY <3>1, <4>1, <4>2
      <3>2. CASE k = 0
        <4>1. 0 \in 0..m /\ f[0] = After(f, 0)
          BY <1>1
        <4>2. QED
          BY <3>2, <4>1
      <3>3. CASE k # 0 /\ k # m + 1
        <4>1. k \in 0..m /\ k - 1 \in 0..(m + 1) /\ k - 1 # m + 1
          BY <3>3
        <4>2. f[k] = After(f, k)
          BY <1>1, <4>1
        <4>3. g[k] = f[k] /\ g[k - 1] = f[k - 1]
          BY <3>3, <4>1
        <4> HIDE DEF g
        <4>4. QED
          BY <3>3, <4>2, <4>3
      <3>4. QED
        BY <3>1, <3>2, <3>3
    <2>2. g = [k \in 0..(m + 1) |-> g[k]]
      OBVIOUS
    <2> HIDE DEF g, After
    <2>3. Upto(g, m + 1)
      BY <2>1, <2>2
    <2>4. QED
      BY <2>3
  <1>2. Bad = {}
    <2> SUFFICES ASSUME Bad # {} PROVE FALSE
      OBVIOUS
    <2>1. PICK m \in Bad : \A i \in Bad : m <= i
      BY LeastElement
    <2>2. \E f : Upto(f, 0)
      <3> DEFINE f == [k \in 0..0 |-> start]
      <3>1. f = [k \in 0..0 |-> After(f, k)]
        OBVIOUS
      <3>2. QED
        BY <3>1
    <2> HIDE DEF Upto
    <2>3. m \in Nat /\ m # 0
      BY <2>1, <2>2
    <2>4. m - 1 \in Nat /\ (m - 1) + 1 = m /\ ~(m <= m - 1)
      BY <2>3
    <2>5. m - 1 \notin Bad
      BY <2>1, <2>4
    <2>6. \E f : Upto(f, m - 1)
      BY <2>4, <2>5
    <2>7. \E g : Upto(g, m)
      BY <1>1, <2>4, <2>6
    <2>8. QED
      BY <2>1, <2>7
  <1>3. Upto(BindTurns(V, R), n)
    <2>1. \E f : Upto(f, n)
      BY <1>2, VirtualDevicesAssumption
    <2> HIDE DEF Upto
    <2>2. QED
      BY <1>0, <2>1
  <1>4. \A k \in 0..n : BindTurns(V, R)[k] = After(BindTurns(V, R), k)
    <2> DEFINE t == BindTurns(V, R)
    <2>1. t = [k \in 0..n |-> After(t, k)]
      BY <1>3
    <2> HIDE DEF t, After
    <2>2. \A k \in 0..n : t[k] = After(t, k)
      BY <2>1
    <2>3. QED
      BY <2>2 DEF t
  <1>5. /\ 0 \in 0..DeviceCount
        /\ \A i \in 1..DeviceCount : i \in 0..DeviceCount /\ i # 0
    BY VirtualDevicesAssumption
  <1>6. BindTurns(V, R)[0] = start
    BY <1>4, <1>5
  <1>7. \A i \in 1..DeviceCount :
          BindTurns(V, R)[i] = BindTurn(BindTurns(V, R)[i - 1], i - 1)
    BY <1>4, <1>5
  <1>8. QED
    BY <1>6, <1>7 DEF start

(* What holds after each turn: the players up to there are bound unless    *)
(* the devices ran out, and bind_devices would make the same of what there *)
(* is now as of what there was.                                            *)
TurnInv(V, R, acc, k) ==
  /\ acc = [virtual |-> acc.virtual, real |-> acc.real, over |-> acc.over]
  /\ Typed(acc.virtual, acc.real)
  /\ acc.over \in BOOLEAN
  /\ acc.over => UnboundReal(acc.real) = {}
  /\ ~acc.over => \A u \in UnboundVirtual(acc.virtual) : u >= k
  /\ bind_devices(acc.virtual, acc.real) = bind_devices(V, R)

LEMMA OneTurn ==
  ASSUME NEW V, NEW R, NEW acc, NEW k \in VirtualDeviceId, TurnInv(V, R, acc, k)
  PROVE  TurnInv(V, R, BindTurn(acc, k), k + 1)
  <1> DEFINE W == acc.virtual
             D == acc.real
             r == BindNewest(D)
             new == BindTurn(acc, k)
  <1>1. Typed(W, D) /\ acc.over \in BOOLEAN /\ bind_devices(W, D) = bind_devices(V, R)
    BY DEF TurnInv
  <1>2. /\ UnboundVirtual(W) \in SUBSET Nat /\ k \in Nat
        /\ Len(D) \in Nat /\ UnboundReal(D) \in SUBSET (1..Len(D))
    BY <1>1, TypedDomains, VirtualDevicesAssumption DEF VirtualDeviceId
  <1>3. CASE acc.over
    BY <1>3 DEF TurnInv, BindTurn
  <1>4. CASE ~acc.over /\ W[k].binding # None
    <2>1. new = acc
      BY <1>4 DEF BindTurn
    <2>2. k \notin UnboundVirtual(W)
      BY <1>4 DEF UnboundVirtual
    <2>3. \A u \in UnboundVirtual(W) : u >= k
      BY <1>4 DEF TurnInv
    <2>4. \A u \in UnboundVirtual(W) : u >= k + 1
      BY <1>2, <2>2, <2>3
    <2>5. QED
      BY <1>4, <2>1, <2>4 DEF TurnInv
  <1>5. CASE ~acc.over /\ W[k].binding = None /\ UnboundReal(D) = {}
    <2>1. new = [acc EXCEPT !.over = TRUE]
      BY <1>5 DEF BindTurn
    <2>2. acc = [virtual |-> W, real |-> D, over |-> acc.over]
      BY DEF TurnInv
    <2>3. new.virtual = W /\ new.real = D /\ new.over = TRUE
          /\ new = [virtual |-> W, real |-> D, over |-> TRUE]
      BY <2>1, <2>2
    <2> HIDE DEF new
    <2>4. TurnInv(V, R, new, k + 1)
      BY <1>1, <1>5, <2>3 DEF TurnInv
    <2>5. QED
      BY <2>4 DEF new
  <1>6. CASE ~acc.over /\ W[k].binding = None /\ UnboundReal(D) # {}
    <2>1. r \in UnboundReal(D) /\ \A s \in UnboundReal(D) : s <= r
      <3>1. \E x \in UnboundReal(D) : \A y \in UnboundReal(D) : x >= y
        <4>1. PICK x \in UnboundReal(D) : \A y \in UnboundReal(D) : y <= x
          BY <1>2, <1>6, GreatestIndex
        <4>2. QED
          BY <1>2, <4>1
      <3>2. r \in UnboundReal(D) /\ \A y \in UnboundReal(D) : r >= y
        BY <3>1 DEF BindNewest, Max
      <3> HIDE DEF r
      <3>3. QED
        BY <1>2, <3>2
    <2>2. BindFirst(W, D, k, r)
      <3>1. k \in UnboundVirtual(W)
        BY <1>6 DEF UnboundVirtual
      <3>2. \A u \in UnboundVirtual(W) : u >= k
        BY <1>6 DEF TurnInv
      <3> HIDE DEF r
      <3>3. QED
        BY <1>2, <2>1, <3>1, <3>2 DEF BindFirst
    <2> DEFINE W2 == BindVirtual(W, D, k, r)
               D2 == BindReal(D, k, r)
    <2>3. /\ Typed(W2, D2)
          /\ bind_devices(W2, D2) = bind_devices(V, R)
          /\ UnboundVirtual(W2) = UnboundVirtual(W) \ {k}
      <3> HIDE DEF r, W, D
      <3>1. k \in UnboundVirtual(W) /\ r \in UnboundReal(D)
        BY <2>2 DEF BindFirst
      <3>2. QED
        BY <1>1, <2>2, <3>1, BindEntries, BindRest, PairedAfter
    <2>4. new = [virtual |-> W2, real |-> D2, over |-> acc.over]
      <3>1. new = [acc EXCEPT !.virtual[k].binding = D[r].id, !.real[r].binding = k]
        BY <1>6, Zenon DEF BindTurn
      <3>2. new = [acc EXCEPT !.virtual = W2, !.real = D2]
        BY <3>1, Zenon DEF BindVirtual, BindReal
      <3>3. acc = [virtual |-> W, real |-> D, over |-> acc.over]
        BY DEF TurnInv
      <3> HIDE DEF W, D, W2, D2, new
      <3>4. QED
        BY <3>2, <3>3
    <2> HIDE DEF new, W2, D2
    <2>5. \A u \in UnboundVirtual(W2) : u >= k + 1
      <3>1. \A u \in UnboundVirtual(W) : u >= k
        BY <1>6 DEF TurnInv
      <3>2. QED
        BY <1>2, <2>3, <3>1
    <2>6. TurnInv(V, R, new, k + 1)
      BY <1>6, <2>3, <2>4, <2>5 DEF TurnInv
    <2>7. QED
      BY <2>6 DEF new
  <1>7. QED
    BY <1>3, <1>4, <1>5, <1>6, <1>1

(* The loop and the expression are the same.                               *)
LEMMA LoopIsBind ==
  ASSUME NEW V, NEW R, Typed(V, R)
  PROVE  LET after == BindLoop(V, R)
         IN  [virtual |-> after.virtual, real |-> after.real] = bind_devices(V, R)
  <1> DEFINE t == BindTurns(V, R)
             Bad == {k \in 0..DeviceCount : ~TurnInv(V, R, t[k], k)}
  <1>1. DeviceCount \in Nat
    BY VirtualDevicesAssumption
  <1>2. TurnInv(V, R, t[0], 0)
    <2>1. t[0] = [virtual |-> V, real |-> R, over |-> FALSE]
      BY TurnsInTurn
    <2>2. \A u \in UnboundVirtual(V) : u >= 0
      <3>1. UnboundVirtual(V) \in SUBSET Nat
        BY TypedDomains
      <3>2. QED
        BY <3>1
    <2> HIDE DEF t
    <2>3. QED
      BY <2>1, <2>2 DEF TurnInv
  <1>3. ASSUME NEW k \in 1..DeviceCount, TurnInv(V, R, t[k - 1], k - 1)
        PROVE  TurnInv(V, R, t[k], k)
    <2>1. k - 1 \in VirtualDeviceId /\ (k - 1) + 1 = k
      BY <1>1 DEF VirtualDeviceId
    <2>2. t[k] = BindTurn(t[k - 1], k - 1)
      BY TurnsInTurn
    <2> HIDE DEF t
    <2>3. TurnInv(V, R, BindTurn(t[k - 1], k - 1), (k - 1) + 1)
      BY <1>3, <2>1, OneTurn
    <2>4. QED
      BY <2>1, <2>2, <2>3
  <1> HIDE DEF t
  <1>4. Bad = {}
    <2> SUFFICES ASSUME Bad # {} PROVE FALSE
      OBVIOUS
    <2>1. Bad \in SUBSET Nat
      OBVIOUS
    <2>2. PICK k \in Bad : \A i \in Bad : k <= i
      BY <2>1, LeastElement
    <2>3. k \in 1..DeviceCount /\ k - 1 \in 0..DeviceCount /\ ~(k <= k - 1)
      BY <1>1, <1>2, <2>2
    <2>4. QED
      BY <1>3, <2>2, <2>3
  <1> DEFINE after == t[DeviceCount]
  <1>5. TurnInv(V, R, after, DeviceCount)
    BY <1>1, <1>4
  <1>6. BindLoop(V, R) = after
    BY DEF BindLoop, t
  <1> HIDE DEF after
  <1>7. UnboundVirtual(after.virtual) = {} \/ UnboundReal(after.real) = {}
    <2>1. CASE after.over
      BY <1>5, <2>1 DEF TurnInv
    <2>2. CASE ~after.over
      <3>1. \A u \in UnboundVirtual(after.virtual) : u >= DeviceCount
        BY <1>5, <2>2 DEF TurnInv
      <3>2. \A u \in UnboundVirtual(after.virtual) : u \in 0..(DeviceCount - 1)
        BY DEF UnboundVirtual, VirtualDeviceId
      <3>3. QED
        BY <1>1, <3>1, <3>2
    <2>3. QED
      BY <2>1, <2>2
  <1>8. bind_devices(after.virtual, after.real) = [virtual |-> after.virtual, real |-> after.real]
    BY <1>5, <1>7, BindNothing DEF TurnInv
  <1>9. QED
    BY <1>5, <1>6, <1>8 DEF TurnInv

(* So the theorems of this module are theorems about the loop.             *)
THEOREM LoopIsWhatItSays == Spec => []LoopBinds
  <1>1. IInv => LoopBinds
    <2> SUFFICES ASSUME IInv, NEW S \in SUBSET DOMAIN real_devices
                 PROVE  Typed(VirtualWithout(S), RealWithout(S))
      BY LoopIsBind DEF LoopBinds
    <2>1. Typed(virtual_devices, real_devices)
      BY IInvParts
    <2>2. /\ Len(real_devices) \in Nat /\ DOMAIN real_devices = 1..Len(real_devices)
          /\ \A r \in DOMAIN real_devices : real_devices[r] \in RealDeviceState
          /\ \A v \in VirtualDeviceId : virtual_devices[v] \in VirtualDeviceState
      BY <2>1, TypedDomains
    <2>3. \A r \in DOMAIN real_devices :
            [real_devices[r] EXCEPT !.binding = None] \in RealDeviceState
      BY <2>2 DEF RealDeviceState
    <2>4. \A v \in VirtualDeviceId :
            [virtual_devices[v] EXCEPT !.binding = None] \in VirtualDeviceState
      BY <2>2 DEF VirtualDeviceState
    <2>5. VirtualWithout(S) \in [VirtualDeviceId -> VirtualDeviceState]
      BY <2>2, <2>4 DEF VirtualWithout
    <2>6. RealWithout(S) \in [1..Len(real_devices) -> RealDeviceState]
      BY <2>2, <2>3 DEF RealWithout
    <2>7. RealWithout(S) \in Seq(RealDeviceState)
      BY <2>2, <2>6, SeqDef
    <2>8. QED
      BY <2>5, <2>7 DEF Typed
  <1>2. QED
    BY <1>1, Invariance, PTL
===============================================================================
