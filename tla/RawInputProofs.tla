----------------------------- MODULE RawInputProofs -----------------------------
(***************************************************************************)
(* Proofs, for any devices, slots, buffers and inputs and under either     *)
(* setting of SlotsFirst and OpenFailures, of the safety properties that   *)
(* MCRawInput checks on a small instance, and of the refinement of         *)
(* EventChannel.                                                           *)
(***************************************************************************)
EXTENDS RawInput, FunctionTheorems, FiniteSetTheorems, SequenceTheorems, TLAPS

(* A function on 1..n is a sequence of length n.                           *)
LEMMA FunctionIsSeq ==
  ASSUME NEW S, NEW n \in Nat, NEW f \in [1..n -> S]
  PROVE  f \in Seq(S) /\ Len(f) = n /\ DOMAIN f = 1..n
  <1>1. f \in Seq(S)
    BY SeqDef
  <1>2. QED
    BY <1>1, LenProperties

-----------------------------------------------------------------------------
(* A finite set of naturals can be listed in ascending order: an element   *)
(* stands at the place that tells how many are not greater.                *)
LEMMA SortedListExists ==
  ASSUME NEW S \in SUBSET Nat, IsFiniteSet(S)
  PROVE  \E l \in [1..Cardinality(S) -> S] :
           \A i, j \in 1..Cardinality(S) : i < j => l[i] < l[j]
  <1> DEFINE n == Cardinality(S)
             Below(x) == {y \in S : y <= x}
             rank == [x \in S |-> Cardinality(Below(x))]
  <1>1. n \in Nat
    BY FS_CardinalityType
  <1>2. ASSUME NEW x \in S
        PROVE  IsFiniteSet(Below(x)) /\ rank[x] \in 1..n
    <2>1. Below(x) \in SUBSET S
      OBVIOUS
    <2>2. IsFiniteSet(Below(x)) /\ Cardinality(Below(x)) <= n
      BY <2>1, FS_Subset
    <2>3. Cardinality(Below(x)) \in Nat
      BY <2>2, FS_CardinalityType
    <2>4. x \in Below(x)
      OBVIOUS
    <2>5. Cardinality(Below(x)) # 0
      BY <2>2, <2>4, FS_EmptySet
    <2>6. QED
      BY <2>2, <2>3, <2>5, <1>1
  <1>3. ASSUME NEW x \in S, NEW y \in S, x < y
        PROVE  rank[x] < rank[y]
    <2>0. \A z \in S : z \in Nat
      OBVIOUS
    <2>1. Below(x) \in SUBSET Below(y)
      <3>1. ASSUME NEW z \in S, z <= x
            PROVE  z <= y
        BY <2>0, <1>3, <3>1
      <3>2. QED
        BY <3>1
    <2>2. y \in Below(y) /\ y \notin Below(x)
      BY <2>0, <1>3
    <2>3. Cardinality(Below(x)) <= Cardinality(Below(y))
          /\ Cardinality(Below(x)) # Cardinality(Below(y))
      BY <2>1, <2>2, <1>2, FS_Subset
    <2>4. rank[x] \in 1..n /\ rank[y] \in 1..n
      BY <1>2
    <2>5. rank[x] <= rank[y] /\ rank[x] # rank[y]
      BY <2>3
    <2> HIDE DEF rank
    <2>6. QED
      BY <2>4, <2>5, <1>1
  <1> HIDE DEF rank
  <1>4. rank \in Injection(S, 1..n)
    <2>1. rank \in [S -> 1..n]
      BY <1>2 DEF rank
    <2>2. ASSUME NEW x \in S, NEW y \in S, rank[x] = rank[y]
          PROVE  x = y
      <3>1. rank[x] \in 1..n /\ rank[y] \in 1..n /\ x \in Nat /\ y \in Nat
        BY <1>2
      <3>2. ~ (x < y) /\ ~ (y < x)
        BY <1>3, <3>1, <2>2, <1>1
      <3>3. QED
        BY <3>1, <3>2
    <2>3. QED
      BY <2>1, <2>2, Fun_IsInj
  <1>5. rank \in Surjection(S, 1..n)
    <2>1. IsFiniteSet(1..n) /\ Cardinality(1..n) = n
      BY <1>1, FS_Interval
    <2>2. QED
      BY <2>1, <1>4, FS_Injection
  <1>6. \A i \in 1..n : \E x \in S : rank[x] = i
    BY <1>5 DEF Surjection
  <1> DEFINE list == [i \in 1..n |-> CHOOSE x \in S : rank[x] = i]
  <1>7. \A i \in 1..n : list[i] \in S /\ rank[list[i]] = i
    BY <1>6
  <1> HIDE DEF list
  <1>8. ASSUME NEW i \in 1..n, NEW j \in 1..n, i < j
        PROVE  list[i] < list[j]
    <2>1. list[i] \in S /\ list[j] \in S /\ rank[list[i]] = i /\ rank[list[j]] = j
      BY <1>7
    <2>2. i \in Nat /\ j \in Nat /\ list[i] \in Nat /\ list[j] \in Nat
      <3>1. i \in Nat /\ j \in Nat
        BY <1>1
      <3>2. \A z \in S : z \in Nat
        OBVIOUS
      <3>3. QED
        BY <3>1, <3>2, <2>1
    <2>3. ~ (list[j] < list[i])
      <3>1. list[j] < list[i] => j < i
        BY <2>1, <1>3
      <3>2. QED
        BY <3>1, <2>2, <1>8
    <2>4. list[i] # list[j]
      BY <2>1, <2>2, <1>8
    <2>5. QED
      BY <2>2, <2>3, <2>4
  <1>9. list \in [1..n -> S]
    BY <1>7 DEF list
  <1>10. QED
    BY <1>8, <1>9

(* What Ascending lists: every slot of the set, each once.                 *)
LEMMA AscendingLists ==
  ASSUME NEW S \in SUBSET Nat, IsFiniteSet(S)
  PROVE  /\ Cardinality(S) \in Nat
         /\ Ascending(S) \in [1..Cardinality(S) -> S]
         /\ \A i, j \in 1..Cardinality(S) :
              Ascending(S)[i] = Ascending(S)[j] => i = j
         /\ \A s \in S : \E i \in 1..Cardinality(S) : Ascending(S)[i] = s
  <1> DEFINE n == Cardinality(S)
             l == Ascending(S)
  <1>1. n \in Nat
    BY FS_CardinalityType
  <1>2. l \in [1..n -> S] /\ \A i, j \in 1..n : i < j => l[i] < l[j]
    BY SortedListExists DEF Ascending
  <1> HIDE DEF l
  <1>3. ASSUME NEW i \in 1..n, NEW j \in 1..n, l[i] = l[j]
        PROVE  i = j
    <2>1. l[i] \in Nat /\ l[j] \in Nat
      BY <1>2
    <2>2. ~ (i < j) /\ ~ (j < i)
      BY <1>2, <1>3, <2>1
    <2>3. QED
      BY <2>2, <1>1
  <1>4. l \in Injection(1..n, S)
    BY <1>2, <1>3, Fun_IsInj
  <1>5. l \in Surjection(1..n, S)
    <2>1. Cardinality(1..n) = n
      BY <1>1, FS_Interval
    <2>2. QED
      BY <2>1, <1>4, FS_Injection
  <1>6. \A s \in S : \E i \in 1..n : l[i] = s
    BY <1>5 DEF Surjection
  <1>7. QED
    BY <1>1, <1>2, <1>3, <1>6 DEF l

-----------------------------------------------------------------------------
(* What a client that takes the events of s one after the other comes to.  *)

Events == Event(DeviceIds, Buffers)

(* A client's devices, each with the buffer it reads.                      *)
Views == PartialFunctions(DeviceIds, Buffers)

(* Event e fits the client's devices f and turns them into g.              *)
Applies(f, e, g) ==
  IF e.kind = "came"
  THEN e.device \notin DOMAIN f /\ g = With(f, e.device, e.buffer)
  ELSE e.device \in DOMAIN f /\ g = Without(f, e.device)

(* The events of s, each of which fits when its turn comes, turn f into g. *)
Leads(f, s, g) ==
  \E h \in [0..Len(s) -> Views] :
    /\ h[0] = f
    /\ h[Len(s)] = g
    /\ \A i \in 1..Len(s) : Applies(h[i - 1], s[i], h[i])

LEMMA IsPartialFunction ==
  ASSUME NEW S, NEW T, NEW f
  PROVE  f \in PartialFunctions(S, T) <=>
           /\ f = [x \in DOMAIN f |-> f[x]]
           /\ DOMAIN f \subseteq S
           /\ \A x \in DOMAIN f : f[x] \in T
  BY DEF PartialFunctions

LEMMA LeadsNowhere ==
  ASSUME NEW f \in Views
  PROVE  Leads(f, <<>>, f)
  <1> DEFINE h == [i \in 0..0 |-> f]
  <1>1. Len(<<>>) = 0
    OBVIOUS
  <1>2. h \in [0..0 -> Views] /\ h[0] = f
    OBVIOUS
  <1> HIDE DEF h
  <1>3. QED
    BY <1>1, <1>2 DEF Leads

LEMMA LeadsNowhereElse ==
  ASSUME NEW f, NEW g, Leads(f, <<>>, g)
  PROVE  f = g
  BY DEF Leads

(* One after the other.                                                    *)
LEMMA LeadsOn ==
  ASSUME NEW f, NEW g, NEW k, NEW s \in Seq(Events), NEW t \in Seq(Events),
         Leads(f, s, g), Leads(g, t, k)
  PROVE  Leads(f, s \o t, k)
  <1> DEFINE m == Len(s)
             n == Len(t)
  <1>1. m \in Nat /\ n \in Nat
    BY LenProperties
  <1>2. /\ Len(s \o t) = m + n
        /\ \A i \in 1..(m + n) : (s \o t)[i] = IF i <= m THEN s[i] ELSE t[i - m]
    BY ConcatProperties
  <1>3. PICK h1 \in [0..m -> Views] :
          /\ h1[0] = f /\ h1[m] = g
          /\ \A i \in 1..m : Applies(h1[i - 1], s[i], h1[i])
    BY DEF Leads
  <1>4. PICK h2 \in [0..n -> Views] :
          /\ h2[0] = g /\ h2[n] = k
          /\ \A i \in 1..n : Applies(h2[i - 1], t[i], h2[i])
    BY DEF Leads
  <1> HIDE DEF m, n
  <1> DEFINE h == [i \in 0..(m + n) |-> IF i <= m THEN h1[i] ELSE h2[i - m]]
  <1>5. h \in [0..(m + n) -> Views]
    <2>1. ASSUME NEW i \in 0..(m + n)
          PROVE  (IF i <= m THEN h1[i] ELSE h2[i - m]) \in Views
      <3>1. CASE i <= m
        <4>1. i \in 0..m
          BY <1>1, <3>1
        <4>2. QED
          BY <4>1, <3>1, <1>3
      <3>2. CASE ~ (i <= m)
        <4>1. i - m \in 0..n
          BY <1>1, <3>2
        <4>2. QED
          BY <4>1, <3>2, <1>4
      <3>3. QED
        BY <3>1, <3>2
    <2>2. QED
      BY <2>1
  <1>6. h[0] = f
    BY <1>1, <1>3
  <1>7. h[m + n] = k
    <2>1. CASE n = 0
      BY <2>1, <1>1, <1>3, <1>4
    <2>2. CASE n # 0
      <3>1. ~ (m + n <= m) /\ (m + n) - m = n /\ m + n \in 0..(m + n)
        BY <2>2, <1>1
      <3>2. QED
        BY <3>1, <1>4
    <2>3. QED
      BY <2>1, <2>2
  <1>8. ASSUME NEW i \in 1..(m + n)
        PROVE  Applies(h[i - 1], (s \o t)[i], h[i])
    <2>1. i \in 0..(m + n) /\ i - 1 \in 0..(m + n) /\ i \in Int
      BY <1>1
    <2>2. CASE i <= m
      <3>1. i - 1 <= m /\ i \in 1..m
        BY <2>1, <2>2, <1>1
      <3>2. h[i] = h1[i] /\ h[i - 1] = h1[i - 1] /\ (s \o t)[i] = s[i]
        BY <2>1, <2>2, <3>1, <1>2
      <3>3. QED
        BY <3>1, <3>2, <1>3
    <2>3. CASE i = m + 1
      <3>1. ~ (i <= m) /\ i - 1 <= m /\ i - 1 = m /\ i - m = 1 /\ 1 \in 1..n
        BY <2>1, <2>3, <1>1
      <3>2. h[i] = h2[1] /\ h[i - 1] = h1[m] /\ (s \o t)[i] = t[1]
        BY <2>1, <3>1, <1>2
      <3>3. Applies(h2[1 - 1], t[1], h2[1])
        BY <3>1, <1>4
      <3>4. QED
        BY <3>2, <3>3, <1>3, <1>4
    <2>4. CASE i > m + 1
      <3>1. /\ ~ (i <= m) /\ ~ (i - 1 <= m)
            /\ i - m \in 1..n /\ (i - 1) - m = (i - m) - 1
        BY <2>1, <2>4, <1>1
      <3>2. /\ h[i] = h2[i - m] /\ h[i - 1] = h2[(i - m) - 1]
            /\ (s \o t)[i] = t[i - m]
        BY <2>1, <3>1, <1>2
      <3>3. QED
        BY <3>1, <3>2, <1>4
    <2>5. i <= m \/ i = m + 1 \/ i > m + 1
      BY <2>1, <1>1
    <2>6. QED
      BY <2>2, <2>3, <2>4, <2>5
  <1> HIDE DEF h
  <1>9. QED
    BY <1>2, <1>5, <1>6, <1>7, <1>8 DEF Leads

(* The first event fits, and the others lead on from there.                *)
LEMMA LeadsFirst ==
  ASSUME NEW f, NEW g, NEW s \in Seq(Events), s # <<>>, Leads(f, s, g)
  PROVE  \E k \in Views : Applies(f, Head(s), k) /\ Leads(k, Tail(s), g)
  <1> DEFINE n == Len(s)
  <1>1. n \in Nat /\ n # 0
    BY EmptySeq, LenProperties
  <1>2. /\ Head(s) = s[1]
        /\ Len(Tail(s)) = n - 1
        /\ \A i \in 1..(n - 1) : Tail(s)[i] = s[i + 1]
    BY HeadTailProperties
  <1>3. PICK h \in [0..n -> Views] :
          /\ h[0] = f /\ h[n] = g
          /\ \A i \in 1..n : Applies(h[i - 1], s[i], h[i])
    BY DEF Leads
  <1> HIDE DEF n
  <1>4. 1 \in 1..n /\ 1 \in 0..n /\ n - 1 \in 0..(n - 1) /\ 0 \in 0..(n - 1)
    BY <1>1
  <1>5. Applies(h[1 - 1], s[1], h[1]) /\ h[1] \in Views
    BY <1>3, <1>4
  <1>6. Applies(f, Head(s), h[1])
    BY <1>5, <1>3, <1>2
  <1> DEFINE j == [i \in 0..(n - 1) |-> h[i + 1]]
  <1>7. \A i \in 0..(n - 1) : i + 1 \in 0..n
    BY <1>1
  <1>8. j \in [0..(n - 1) -> Views]
    BY <1>3, <1>7
  <1>9. j[0] = h[1] /\ j[n - 1] = g
    <2>1. 0 + 1 = 1 /\ (n - 1) + 1 = n
      BY <1>1
    <2>2. QED
      BY <2>1, <1>3, <1>4
  <1>10. ASSUME NEW i \in 1..(n - 1)
         PROVE  Applies(j[i - 1], Tail(s)[i], j[i])
    <2>1. /\ i + 1 \in 1..n /\ i \in 0..(n - 1) /\ i - 1 \in 0..(n - 1)
          /\ (i + 1) - 1 = i /\ (i - 1) + 1 = i
      BY <1>1
    <2>2. Applies(h[(i + 1) - 1], s[i + 1], h[i + 1])
      BY <2>1, <1>3
    <2>3. j[i - 1] = h[i] /\ j[i] = h[i + 1]
      BY <2>1
    <2>4. QED
      BY <2>1, <2>2, <2>3, <1>2
  <1> HIDE DEF j
  <1>11. Leads(h[1], Tail(s), g)
    BY <1>2, <1>8, <1>9, <1>10 DEF Leads
  <1>12. QED
    BY <1>5, <1>6, <1>11

LEMMA WithIsView ==
  ASSUME NEW f \in Views, NEW d \in DeviceIds, NEW b \in Buffers
  PROVE  With(f, d, b) \in Views
  BY IsPartialFunction DEF Views, With

LEMMA WithoutIsView ==
  ASSUME NEW f \in Views, NEW d
  PROVE  Without(f, d) \in Views
  BY IsPartialFunction DEF Views, Without, Restrict

LEMMA EventTypes ==
  ASSUME NEW d \in DeviceIds
  PROVE  /\ DeviceRemoved(d) \in Events
         /\ \A b \in Buffers : DeviceArrived(d, b) \in Events
  BY DEF DeviceRemoved, DeviceArrived, Events, Event

(* One event.                                                              *)
LEMMA LeadsOnce ==
  ASSUME NEW f \in Views, NEW g \in Views, NEW e, Applies(f, e, g)
  PROVE  Leads(f, <<e>>, g)
  <1> DEFINE h == [i \in 0..1 |-> IF i = 0 THEN f ELSE g]
  <1>1. Len(<<e>>) = 1 /\ <<e>>[1] = e
    OBVIOUS
  <1>2. h \in [0..1 -> Views] /\ h[0] = f /\ h[1] = g
    OBVIOUS
  <1> HIDE DEF h
  <1>3. \A i \in 1..1 : Applies(h[i - 1], <<e>>[i], h[i])
    <2>1. \A i \in 1..1 : i = 1 /\ i - 1 = 0
      OBVIOUS
    <2>2. QED
      BY <2>1, <1>1, <1>2
  <1>4. QED
    BY <1>1, <1>2, <1>3 DEF Leads

(* The removals of a list l of devices, and the arrivals of a list with    *)
(* buffers b; the client's devices f with those of K added.                *)
Removals(l)     == [i \in DOMAIN l |-> DeviceRemoved(l[i])]
Arrivals(l, b)  == [i \in DOMAIN l |-> DeviceArrived(l[i], b[l[i]])]
Joined(f, K, b) == [d \in DOMAIN f \cup K |-> IF d \in K THEN b[d] ELSE f[d]]

(* The removals of a list of devices, each listed once.                    *)
LEMMA LeadsWent ==
  ASSUME NEW f \in Views, NEW K \in SUBSET DOMAIN f, NEW n \in Nat,
         NEW l \in [1..n -> K],
         \A i, j \in 1..n : l[i] = l[j] => i = j,
         \A d \in K : \E i \in 1..n : l[i] = d
  PROVE  /\ Removals(l) \in Seq(Events) /\ Len(Removals(l)) = n
         /\ Leads(f, Removals(l), Restrict(f, DOMAIN f \ K))
  <1> DEFINE s == [i \in DOMAIN l |-> DeviceRemoved(l[i])]
             Gone(i) == {l[j] : j \in 1..i}
             h == [i \in 0..n |-> Restrict(f, DOMAIN f \ Gone(i))]
  <1>1. DOMAIN f \subseteq DeviceIds /\ DOMAIN l = 1..n
    BY IsPartialFunction DEF Views
  <1>2. s \in [1..n -> Events]
    BY <1>1, EventTypes
  <1>3. s \in Seq(Events) /\ Len(s) = n
    BY <1>2, FunctionIsSeq
  <1>4. h \in [0..n -> Views]
    <2>1. \A i \in 0..n : Restrict(f, DOMAIN f \ Gone(i)) \in Views
      BY IsPartialFunction DEF Views, Restrict
    <2> HIDE DEF Gone
    <2>2. QED
      BY <2>1
  <1>5. h[0] = f
    <2>1. Gone(0) = {}
      OBVIOUS
    <2>2. f = Restrict(f, DOMAIN f)
      BY IsPartialFunction DEF Views, Restrict
    <2>3. DOMAIN f \ Gone(0) = DOMAIN f
      BY <2>1
    <2> HIDE DEF Gone
    <2>4. h[0] = Restrict(f, DOMAIN f \ Gone(0))
      OBVIOUS
    <2>5. QED
      BY <2>2, <2>3, <2>4
  <1>6. h[n] = Restrict(f, DOMAIN f \ K)
    <2>1. Gone(n) = K
      OBVIOUS
    <2> HIDE DEF Gone
    <2>2. QED
      BY <2>1
  <1>7. ASSUME NEW i \in 1..n
        PROVE  Applies(h[i - 1], s[i], h[i])
    <2>1. i - 1 \in 0..n /\ i \in 0..n
      OBVIOUS
    <2>2. Gone(i) = Gone(i - 1) \cup {l[i]}
      <3>1. \A j \in 1..i : j \in 1..(i - 1) \/ j = i
        OBVIOUS
      <3>2. \A j \in 1..(i - 1) : j \in 1..i
        OBVIOUS
      <3>3. i \in 1..i
        OBVIOUS
      <3>4. QED
        BY <3>1, <3>2, <3>3
    <2>3. l[i] \notin Gone(i - 1)
      <3>1. \A j \in 1..(i - 1) : j \in 1..n /\ j # i
        OBVIOUS
      <3>2. QED
        BY <3>1
    <2>4. l[i] \in DOMAIN f
      OBVIOUS
    <2>5. s[i].kind = "went" /\ s[i].device = l[i]
      BY <1>1 DEF DeviceRemoved
    <2> HIDE DEF Gone, s
    <2>6. /\ h[i - 1] = Restrict(f, DOMAIN f \ Gone(i - 1))
          /\ h[i] = Restrict(f, DOMAIN f \ Gone(i))
      BY <2>1
    <2> HIDE DEF h
    <2>7. DOMAIN h[i - 1] = DOMAIN f \ Gone(i - 1)
      BY <2>6 DEF Restrict
    <2>8. h[i] = Without(h[i - 1], l[i])
      BY <2>2, <2>6, <2>7 DEF Without, Restrict
    <2>9. QED
      BY <2>3, <2>4, <2>5, <2>7, <2>8 DEF Applies
  <1> HIDE DEF h, s
  <1>8. Leads(f, s, Restrict(f, DOMAIN f \ K))
    BY <1>3, <1>4, <1>5, <1>6, <1>7 DEF Leads
  <1>9. QED
    BY <1>3, <1>8 DEF s, Removals

(* The arrivals of a list of devices, each listed once, with buffers b.    *)
LEMMA LeadsCame ==
  ASSUME NEW f \in Views, NEW K \in SUBSET DeviceIds, NEW n \in Nat,
         NEW l \in [1..n -> K], NEW b \in [K -> Buffers],
         K \cap DOMAIN f = {},
         \A i, j \in 1..n : l[i] = l[j] => i = j,
         \A d \in K : \E i \in 1..n : l[i] = d
  PROVE  /\ Arrivals(l, b) \in Seq(Events) /\ Len(Arrivals(l, b)) = n
         /\ Leads(f, Arrivals(l, b), Joined(f, K, b))
  <1> DEFINE s == [i \in DOMAIN l |-> DeviceArrived(l[i], b[l[i]])]
             More(D) == [d \in DOMAIN f \cup D |-> IF d \in K THEN b[d] ELSE f[d]]
             Here(i) == {l[j] : j \in 1..i}
             h == [i \in 0..n |-> More(Here(i))]
  <1>1. DOMAIN f \subseteq DeviceIds /\ DOMAIN l = 1..n
    BY IsPartialFunction DEF Views
  <1>2. s \in [1..n -> Events]
    BY <1>1, EventTypes
  <1>3. s \in Seq(Events) /\ Len(s) = n
    BY <1>2, FunctionIsSeq
  <1>4. h \in [0..n -> Views]
    <2>1. \A i \in 0..n : Here(i) \in SUBSET K
      OBVIOUS
    <2>2. ASSUME NEW D \in SUBSET K
          PROVE  More(D) \in Views
      BY IsPartialFunction DEF Views
    <2> HIDE DEF Here, More
    <2>3. QED
      BY <2>1, <2>2
  <1>5. h[0] = f
    <2>1. Here(0) = {}
      OBVIOUS
    <2>2. f = [d \in DOMAIN f |-> f[d]]
      BY IsPartialFunction DEF Views
    <2>3. More({}) = f
      BY <2>2
    <2> HIDE DEF Here, More
    <2>4. h[0] = More(Here(0))
      OBVIOUS
    <2>5. QED
      BY <2>1, <2>3, <2>4
  <1>6. h[n] = More(K)
    <2>1. Here(n) = K
      OBVIOUS
    <2> HIDE DEF Here, More
    <2>2. QED
      BY <2>1
  <1>7. ASSUME NEW i \in 1..n
        PROVE  Applies(h[i - 1], s[i], h[i])
    <2>1. i - 1 \in 0..n /\ i \in 0..n
      OBVIOUS
    <2>2. Here(i) = Here(i - 1) \cup {l[i]}
      <3>1. \A j \in 1..i : j \in 1..(i - 1) \/ j = i
        OBVIOUS
      <3>2. \A j \in 1..(i - 1) : j \in 1..i
        OBVIOUS
      <3>3. i \in 1..i
        OBVIOUS
      <3>4. QED
        BY <3>1, <3>2, <3>3
    <2>3. l[i] \notin Here(i - 1)
      <3>1. \A j \in 1..(i - 1) : j \in 1..n /\ j # i
        OBVIOUS
      <3>2. QED
        BY <3>1
    <2>4. l[i] \in K /\ l[i] \notin DOMAIN f
      OBVIOUS
    <2>5. s[i].kind = "came" /\ s[i].device = l[i] /\ s[i].buffer = b[l[i]]
      BY <1>1 DEF DeviceArrived
    <2> HIDE DEF Here, s, More
    <2>6. h[i - 1] = More(Here(i - 1)) /\ h[i] = More(Here(i))
      BY <2>1
    <2> HIDE DEF h
    <2>7. DOMAIN h[i - 1] = DOMAIN f \cup Here(i - 1)
      BY <2>6 DEF More
    <2>8. h[i] = With(h[i - 1], l[i], b[l[i]])
      BY <2>2, <2>4, <2>6, <2>7 DEF With, More
    <2>9. QED
      BY <2>3, <2>4, <2>5, <2>7, <2>8 DEF Applies
  <1> HIDE DEF h, s, More
  <1>8. Leads(f, s, More(K))
    BY <1>3, <1>4, <1>5, <1>6, <1>7 DEF Leads
  <1>9. QED
    BY <1>3, <1>8 DEF s, More, Arrivals, Joined

-----------------------------------------------------------------------------
(* The inductive invariant.                                                *)

(* The manager's devices as a client should see them.                      *)
View == [d \in Announced |-> IF d \in Slots THEN xinput_devices[d] ELSE devices[d]]

(* The client asks only when it has looked at all it was given, and an     *)
(* answer lies there only between the handler and the client's receipt.    *)
Stages ==
  /\ request # "none" => batch = <<>>
  /\ request # "answered" => reply = <<>>

(* Message m fits the set p of devices that are attached, and makes it q.  *)
Changes(p, m, q) ==
  IF m.change = "arrival"
  THEN m.device \notin p /\ q = p \cup {m.device}
  ELSE m.device \in p /\ q = p \ {m.device}

Message == [change : {"arrival", "removal"}, device : Handles]

(* The messages of list ms lead from set p to set q.                       *)
ChangesTo(p, ms, q) ==
  \E h \in [0..Len(ms) -> SUBSET Handles] :
    /\ h[0] = p
    /\ h[Len(ms)] = q
    /\ \A i \in 1..Len(ms) : Changes(h[i - 1], ms[i], h[i])

(* The messages lead from a set that has all the registered devices to     *)
(* what is attached now: no arrival of a registered device is on its way   *)
(* before a removal of it.                                                 *)
MessagesFit ==
  \E p \in SUBSET Handles : DOMAIN devices \subseteq p /\ ChangesTo(p, messages, plugged)

(* The events that the client has not looked at are what its devices lack  *)
(* to be the manager's.                                                    *)
StreamFits == Leads(known, EventStream, View)

IInv == TypeOK /\ PendingExact /\ Stages /\ MessagesFit /\ StreamFits

LEMMA ViewIsView ==
  ASSUME TypeOK
  PROVE  View \in Views
  <1>1. DOMAIN devices \subseteq Handles /\ DOMAIN xinput_devices \subseteq Slots
    BY IsPartialFunction DEF TypeOK
  <1>2. \A h \in DOMAIN devices \ XInputHandles : devices[h] \in Buffers
    BY IsPartialFunction DEF TypeOK
  <1>3. \A d \in DOMAIN xinput_devices : xinput_devices[d] \in Buffers
    BY IsPartialFunction DEF TypeOK
  <1>4. Handles \cap Slots = {}
    BY RawInputAssumption
  <1>5. Announced \subseteq DeviceIds
    BY <1>1 DEF Announced, DeviceIds
  <1>6. \A d \in Announced :
          (IF d \in Slots THEN xinput_devices[d] ELSE devices[d]) \in Buffers
    BY <1>1, <1>2, <1>3, <1>4 DEF Announced
  <1>7. QED
    BY <1>5, <1>6, IsPartialFunction DEF Views, View

LEMMA StreamType ==
  ASSUME TypeOK
  PROVE  /\ batch \in Seq(Events) /\ reply \in Seq(Events)
         /\ event_queue \in Seq(Events) /\ EventStream \in Seq(Events)
  <1>1. batch \in Seq(Events) /\ reply \in Seq(Events) /\ event_queue \in Seq(Events)
    BY DEF TypeOK, Events
  <1>2. batch \o reply \in Seq(Events)
    BY <1>1, ConcatProperties
  <1>3. QED
    BY <1>1, <1>2, ConcatProperties DEF EventStream

LEMMA NoMessages ==
  ASSUME NEW p \in SUBSET Handles, NEW q
  PROVE  ChangesTo(p, <<>>, q) <=> p = q
  <1>1. Len(<<>>) = 0
    OBVIOUS
  <1>2. ASSUME ChangesTo(p, <<>>, q) PROVE p = q
    BY <1>1, <1>2 DEF ChangesTo
  <1>3. ASSUME p = q PROVE ChangesTo(p, <<>>, q)
    <2> DEFINE h == [i \in 0..0 |-> p]
    <2>1. h \in [0..0 -> SUBSET Handles] /\ h[0] = p
      OBVIOUS
    <2> HIDE DEF h
    <2>2. QED
      BY <1>1, <1>3, <2>1 DEF ChangesTo
  <1>4. QED
    BY <1>2, <1>3

(* One more message at the end.                                            *)
LEMMA OneMoreMessage ==
  ASSUME NEW ms \in Seq(Message), NEW p, NEW q, ChangesTo(p, ms, q),
         NEW m \in Message, NEW r \in SUBSET Handles, Changes(q, m, r)
  PROVE  ChangesTo(p, Append(ms, m), r)
  <1> DEFINE n  == Len(ms)
             ns == Append(ms, m)
  <1>1. n \in Nat
    BY LenProperties
  <1>2. Len(ns) = n + 1 /\ (\A i \in 1..n : ns[i] = ms[i]) /\ ns[n + 1] = m
    BY AppendProperties
  <1>3. PICK h \in [0..n -> SUBSET Handles] :
          /\ h[0] = p /\ h[n] = q
          /\ \A i \in 1..n : Changes(h[i - 1], ms[i], h[i])
    BY DEF ChangesTo
  <1> HIDE DEF n, ns
  <1> DEFINE k == [i \in 0..(n + 1) |-> IF i <= n THEN h[i] ELSE r]
  <1>4. k \in [0..(n + 1) -> SUBSET Handles]
    <2>1. ASSUME NEW i \in 0..(n + 1)
          PROVE  (IF i <= n THEN h[i] ELSE r) \in SUBSET Handles
      <3>1. i <= n => i \in 0..n
        BY <1>1
      <3>2. QED
        BY <3>1, <1>3
    <2>2. QED
      BY <2>1
  <1>5. k[0] = p /\ k[n + 1] = r
    BY <1>1, <1>3
  <1>6. ASSUME NEW i \in 1..(n + 1)
        PROVE  Changes(k[i - 1], ns[i], k[i])
    <2>1. i \in 0..(n + 1) /\ i - 1 \in 0..(n + 1) /\ i \in Int
      BY <1>1
    <2>2. CASE i <= n
      <3>1. i - 1 <= n /\ i \in 1..n
        BY <2>1, <2>2, <1>1
      <3>2. k[i] = h[i] /\ k[i - 1] = h[i - 1] /\ ns[i] = ms[i]
        BY <2>1, <2>2, <3>1, <1>2
      <3>3. QED
        BY <3>1, <3>2, <1>3
    <2>3. CASE i = n + 1
      <3>1. i - 1 = n /\ i - 1 <= n /\ ~ (i <= n)
        BY <2>3, <1>1
      <3>2. k[i] = r /\ k[i - 1] = q /\ ns[i] = m
        BY <2>1, <2>3, <3>1, <1>2, <1>3
      <3>3. QED
        BY <3>2
    <2>4. i <= n \/ i = n + 1
      BY <2>1, <1>1
    <2>5. QED
      BY <2>2, <2>3, <2>4
  <1> HIDE DEF k
  <1>7. ChangesTo(p, ns, r)
    BY <1>2, <1>4, <1>5, <1>6 DEF ChangesTo
  <1>8. QED
    BY <1>7 DEF ns

(* The first message taken.                                                *)
LEMMA OneMessageLess ==
  ASSUME NEW ms \in Seq(Message), ms # <<>>, NEW p, NEW q, ChangesTo(p, ms, q)
  PROVE  /\ Tail(ms) \in Seq(Message) /\ Head(ms) \in Message
         /\ \E r \in SUBSET Handles :
              Changes(p, Head(ms), r) /\ ChangesTo(r, Tail(ms), q)
  <1> DEFINE n  == Len(ms)
             ns == Tail(ms)
  <1>1. n \in Nat /\ n # 0
    BY EmptySeq, LenProperties
  <1>2. /\ ns \in Seq(Message) /\ Len(ns) = n - 1
        /\ Head(ms) = ms[1] /\ Head(ms) \in Message
        /\ \A i \in 1..(n - 1) : ns[i] = ms[i + 1]
    <2>1. /\ Head(ms) \in Message
          /\ Tail(ms) \in Seq(Message)
          /\ Len(Tail(ms)) = Len(ms) - 1
          /\ \A i \in 1..Len(Tail(ms)) : Tail(ms)[i] = ms[i + 1]
      BY HeadTailProperties
    <2>2. Head(ms) = ms[1]
      OBVIOUS
    <2>3. QED
      BY <2>1, <2>2
  <1>3. PICK h \in [0..n -> SUBSET Handles] :
          /\ h[0] = p /\ h[n] = q
          /\ \A i \in 1..n : Changes(h[i - 1], ms[i], h[i])
    BY DEF ChangesTo
  <1> HIDE DEF n, ns
  <1>4. 1 \in 1..n /\ 1 \in 0..n /\ 0 \in 0..n /\ 1 - 1 = 0
    BY <1>1
  <1>5. h[1] \in SUBSET Handles /\ Changes(p, Head(ms), h[1])
    <2>1. Changes(h[1 - 1], ms[1], h[1])
      BY <1>3, <1>4
    <2>2. QED
      BY <2>1, <1>2, <1>3, <1>4
  <1> DEFINE k == [i \in 0..(n - 1) |-> h[i + 1]]
  <1>6. k \in [0..(n - 1) -> SUBSET Handles]
    <2>1. \A i \in 0..(n - 1) : i + 1 \in 0..n
      BY <1>1
    <2>2. QED
      BY <1>3, <2>1
  <1>7. k[0] = h[1] /\ k[n - 1] = q
    <2>1. 0 \in 0..(n - 1) /\ n - 1 \in 0..(n - 1) /\ (n - 1) + 1 = n /\ 0 + 1 = 1
      BY <1>1
    <2>2. QED
      BY <2>1, <1>3
  <1>8. ASSUME NEW i \in 1..(n - 1)
        PROVE  Changes(k[i - 1], ns[i], k[i])
    <2>1. /\ i + 1 \in 1..n /\ i \in 0..(n - 1) /\ i - 1 \in 0..(n - 1)
          /\ (i + 1) - 1 = i /\ (i - 1) + 1 = i
      BY <1>1
    <2>2. Changes(h[(i + 1) - 1], ms[i + 1], h[i + 1])
      BY <2>1, <1>3
    <2>3. k[i - 1] = h[i] /\ k[i] = h[i + 1]
      BY <2>1
    <2>4. QED
      BY <2>1, <2>2, <2>3, <1>2
  <1> HIDE DEF k
  <1>9. ChangesTo(h[1], ns, q)
    BY <1>2, <1>6, <1>7, <1>8 DEF ChangesTo
  <1>10. QED
    BY <1>2, <1>5, <1>9 DEF ns

LEMMA InitIInv == Init => IInv
  <1> SUFFICES ASSUME Init PROVE IInv
    OBVIOUS
  <1>1. <<>> \in Seq(Events) /\ <<>> \in Seq([change : {"arrival", "removal"}, device : Handles])
    OBVIOUS
  <1>2. \A S, T : <<>> \in PartialFunctions(S, T)
    <2>1. <<>> = [x \in DOMAIN <<>> |-> <<>>[x]] /\ DOMAIN <<>> = {}
      OBVIOUS
    <2>2. QED
      BY <2>1, IsPartialFunction
  <1>3. TypeOK
    <2>1. /\ devices \in PartialFunctions(Handles, Buffers \cup {None})
          /\ xinput_devices \in PartialFunctions(Slots, Buffers)
          /\ known \in PartialFunctions(DeviceIds, Buffers)
      BY <1>2 DEF Init
    <2>2. /\ slot_of \in [XInputHandles -> Slots \cup {None}]
          /\ buffers \in [Buffers -> Inputs]
      BY RawInputAssumption DEF Init
    <2>3. \A h \in DOMAIN devices : devices[h] = None <=> h \in XInputHandles
      BY DEF Init
    <2>4. QED
      BY <1>1, <2>1, <2>2, <2>3 DEF Init, TypeOK, Events
  <1>4. PendingExact /\ Stages
    BY DEF Init, PendingExact, Stages
  <1>5. MessagesFit
    <2>1. messages = <<>> /\ DOMAIN devices = {} /\ plugged = {}
      BY DEF Init
    <2>2. QED
      BY <2>1, NoMessages DEF MessagesFit
  <1>6. StreamFits
    <2>1. EventStream = <<>>
      BY <1>1, ConcatEmptySeq DEF Init, EventStream
    <2>2. known = View
      <3>1. Announced = {}
        BY DEF Init, Announced
      <3>2. QED
        BY <3>1 DEF Init, View
    <2>3. QED
      BY <2>1, <2>2, <1>3, ViewIsView, LeadsNowhere DEF StreamFits
  <1>7. QED
    BY <1>3, <1>4, <1>5, <1>6 DEF IInv

-----------------------------------------------------------------------------
(* The messages of the window.                                             *)

LEMMA MessagesType ==
  ASSUME TypeOK
  PROVE  /\ Len(messages) \in Nat
         /\ \A i \in 1..Len(messages) :
              /\ messages[i].change \in {"arrival", "removal"}
              /\ messages[i].device \in Handles
  <1>1. messages \in Seq([change : {"arrival", "removal"}, device : Handles])
    BY DEF TypeOK
  <1>2. \A i \in 1..Len(messages) :
          messages[i] \in [change : {"arrival", "removal"}, device : Handles]
    BY <1>1, ElementOfSeq
  <1>3. QED
    BY <1>1, <1>2, LenProperties

(* A message that fits what is attached is sent with the change it tells of. *)
LEMMA MessageSent ==
  ASSUME TypeOK, MessagesFit, NEW m \in Message,
         Changes(plugged, m, plugged'), messages' = Append(messages, m),
         UNCHANGED devices
  PROVE  messages' \in Seq(Message) /\ MessagesFit'
  <1>1. messages \in Seq(Message) /\ plugged' \in SUBSET Handles
    BY DEF TypeOK, Changes, Message
  <1>2. PICK p \in SUBSET Handles :
          DOMAIN devices \subseteq p /\ ChangesTo(p, messages, plugged)
    BY DEF MessagesFit
  <1>3. ChangesTo(p, messages', plugged')
    BY <1>1, <1>2, OneMoreMessage
  <1>4. messages' \in Seq(Message)
    BY <1>1, AppendProperties
  <1>5. QED
    BY <1>2, <1>3, <1>4 DEF MessagesFit

(* The next message fits a set p that has the registered devices; when it  *)
(* is handled they must be in the set it makes of p.                       *)
LEMMA MessageHandled ==
  ASSUME TypeOK, MessagesFit, messages # <<>>, messages' = Tail(messages),
         UNCHANGED plugged
  PROVE  /\ messages' \in Seq(Message) /\ Head(messages) \in Message
         /\ \E p, q \in SUBSET Handles :
              /\ DOMAIN devices \subseteq p
              /\ Changes(p, Head(messages), q)
              /\ DOMAIN devices' \subseteq q => MessagesFit'
  <1>1. messages \in Seq(Message)
    BY DEF TypeOK, Message
  <1>2. PICK p \in SUBSET Handles :
          DOMAIN devices \subseteq p /\ ChangesTo(p, messages, plugged)
    BY DEF MessagesFit
  <1>3. /\ messages' \in Seq(Message) /\ Head(messages) \in Message
        /\ \E r \in SUBSET Handles :
             Changes(p, Head(messages), r) /\ ChangesTo(r, messages', plugged)
    BY <1>1, <1>2, OneMessageLess
  <1>4. QED
    BY <1>2, <1>3 DEF MessagesFit

LEMMA MessagesUntouched ==
  ASSUME MessagesFit, UNCHANGED <<messages, plugged>>,
         DOMAIN devices' \subseteq DOMAIN devices
  PROVE  MessagesFit'
  BY DEF MessagesFit

-----------------------------------------------------------------------------
(* What the handlers do to the manager.                                    *)

(* The devices of left are retracted and those of arrived announced, with  *)
(* buffers b: the events are queued and counted, and the manager's devices *)
(* change accordingly.                                                     *)
Announces(left, arrived) ==
  \E l \in Channel!Lists(left), a \in Channel!Lists(arrived), b \in [arrived -> Buffers] :
    /\ event_queue' = event_queue \o Removals(l) \o Arrivals(a, b)
    /\ events_pending' = events_pending + Cardinality(left) + Cardinality(arrived)
    /\ left \subseteq Announced /\ IsFiniteSet(left)
    /\ arrived \subseteq DeviceIds \ Announced /\ IsFiniteSet(arrived)
    /\ View' = Joined(Restrict(View, Announced \ left), arrived, b)

(* Nothing is queued, and the manager's devices stay as they are.          *)
Keeps == UNCHANGED <<event_queue, events_pending, View>>

Noticed ==
  Keeps \/ \E left, arrived \in SUBSET DeviceIds : Announces(left, arrived)

LEMMA ListProperties ==
  ASSUME NEW S, IsFiniteSet(S), NEW l \in Channel!Lists(S)
  PROVE  /\ Cardinality(S) \in Nat
         /\ l \in [1..Cardinality(S) -> S]
         /\ \A i, j \in 1..Cardinality(S) : l[i] = l[j] => i = j
         /\ \A d \in S : \E i \in 1..Cardinality(S) : l[i] = d
  <1> DEFINE n == Cardinality(S)
  <1>1. n \in Nat
    BY FS_CardinalityType
  <1>2. l \in [1..n -> S] /\ \A d \in S : \E i \in 1..n : l[i] = d
    <2>1. Channel!Cardinality(S) = n
      BY DEF Channel!Cardinality, Cardinality
    <2>2. QED
      BY <2>1 DEF Channel!Lists
  <1>3. l \in Surjection(1..n, S)
    BY <1>2, Fun_IsSurj
  <1>4. IsFiniteSet(1..n) /\ Cardinality(1..n) = n
    BY <1>1, FS_Interval
  <1>5. l \in Injection(1..n, S)
    BY <1>3, <1>4, FS_SurjSameCardinalityImpliesInj
  <1>6. QED
    BY <1>1, <1>2, <1>5 DEF Injection, IsInjective

(* What Announces does to the stream of events.                            *)
LEMMA AnnouncesLeads ==
  ASSUME TypeOK, NEW left, NEW arrived, Announces(left, arrived)
  PROVE  \E s \in Seq(Events) :
           /\ event_queue' = event_queue \o s
           /\ events_pending' = events_pending + Len(s)
           /\ Leads(View, s, View')
  <1>1. PICK l \in Channel!Lists(left), a \in Channel!Lists(arrived),
             b \in [arrived -> Buffers] :
          /\ event_queue' = event_queue \o Removals(l) \o Arrivals(a, b)
          /\ events_pending' = events_pending + Cardinality(left) + Cardinality(arrived)
          /\ left \subseteq Announced /\ IsFiniteSet(left)
          /\ arrived \subseteq DeviceIds \ Announced /\ IsFiniteSet(arrived)
          /\ View' = Joined(Restrict(View, Announced \ left), arrived, b)
    BY DEF Announces
  <1> DEFINE s1 == Removals(l)
             s2 == Arrivals(a, b)
             between == Restrict(View, DOMAIN View \ left)
  <1>2. View \in Views /\ DOMAIN View = Announced
    BY ViewIsView DEF View
  <1>3. /\ Cardinality(left) \in Nat
        /\ l \in [1..Cardinality(left) -> left]
        /\ \A i, j \in 1..Cardinality(left) : l[i] = l[j] => i = j
        /\ \A d \in left : \E i \in 1..Cardinality(left) : l[i] = d
    BY <1>1, ListProperties
  <1>4. /\ Cardinality(arrived) \in Nat
        /\ a \in [1..Cardinality(arrived) -> arrived]
        /\ \A i, j \in 1..Cardinality(arrived) : a[i] = a[j] => i = j
        /\ \A d \in arrived : \E i \in 1..Cardinality(arrived) : a[i] = d
    BY <1>1, ListProperties
  <1>5. left \in SUBSET DOMAIN View
    BY <1>1, <1>2
  <1>6. s1 \in Seq(Events) /\ Len(s1) = Cardinality(left) /\ Leads(View, s1, between)
    BY <1>2, <1>3, <1>5, LeadsWent
  <1>7. between \in Views /\ DOMAIN between = Announced \ left
    BY <1>2, IsPartialFunction DEF Views, Restrict
  <1>8. arrived \in SUBSET DeviceIds /\ arrived \cap DOMAIN between = {}
    BY <1>1, <1>7
  <1> HIDE DEF s1, between
  <1>9. s2 \in Seq(Events) /\ Len(s2) = Cardinality(arrived) /\ Leads(between, s2, View')
    <2>1. View' = Joined(between, arrived, b)
      BY <1>1, <1>2 DEF between
    <2>2. /\ s2 \in Seq(Events) /\ Len(s2) = Cardinality(arrived)
          /\ Leads(between, s2, Joined(between, arrived, b))
      BY <1>4, <1>7, <1>8, LeadsCame
    <2>3. QED
      BY <2>1, <2>2
  <1> HIDE DEF s2
  <1>11. Leads(View, s1 \o s2, View')
    BY <1>6, <1>9, LeadsOn
  <1>12. s1 \o s2 \in Seq(Events) /\ Len(s1 \o s2) = Len(s1) + Len(s2)
    BY <1>6, <1>9, ConcatProperties
  <1>13. event_queue' = event_queue \o (s1 \o s2)
    <2>1. event_queue \in Seq(Events)
      BY StreamType
    <2>2. event_queue' = (event_queue \o s1) \o s2
      BY <1>1 DEF s1, s2
    <2>3. QED
      BY <2>1, <2>2, <1>6, <1>9, ConcatAssociative, SMTT(40)
  <1>14. events_pending' = events_pending + Len(s1 \o s2)
    <2>1. events_pending \in Nat
      BY DEF TypeOK
    <2>2. QED
      BY <2>1, <1>1, <1>3, <1>4, <1>6, <1>9, <1>12
  <1>15. QED
    BY <1>11, <1>12, <1>13, <1>14

(* A handler that announces what it notices keeps the counter exact and    *)
(* the stream in step.                                                     *)
LEMMA NoticedPreserves ==
  ASSUME TypeOK, PendingExact, StreamFits, Noticed, UNCHANGED <<batch, reply, known>>
  PROVE  /\ event_queue' \in Seq(Events) /\ events_pending' \in Nat
         /\ PendingExact' /\ StreamFits'
  <1>1. PICK s \in Seq(Events) :
          /\ event_queue' = event_queue \o s
          /\ events_pending' = events_pending + Len(s)
          /\ Leads(View, s, View')
    <2>1. CASE Keeps
      <3>1. event_queue' = event_queue \o <<>> /\ <<>> \in Seq(Events)
        BY <2>1, StreamType, ConcatEmptySeq DEF Keeps
      <3>2. events_pending' = events_pending + Len(<<>>)
        BY <2>1 DEF Keeps, TypeOK
      <3>3. Leads(View, <<>>, View')
        BY <2>1, ViewIsView, LeadsNowhere DEF Keeps
      <3>4. QED
        BY <3>1, <3>2, <3>3
    <2>2. CASE \E left, arrived \in SUBSET DeviceIds : Announces(left, arrived)
      BY <2>2, AnnouncesLeads
    <2>3. QED
      BY <2>1, <2>2 DEF Noticed
  <1>2. /\ batch \in Seq(Events) /\ reply \in Seq(Events)
        /\ event_queue \in Seq(Events) /\ batch \o reply \in Seq(Events)
    BY StreamType, ConcatProperties
  <1>3. /\ event_queue' \in Seq(Events)
        /\ Len(event_queue') = Len(event_queue) + Len(s)
    BY <1>1, <1>2, ConcatProperties
  <1>4. /\ Len(s) \in Nat /\ Len(event_queue) \in Nat /\ Len(reply) \in Nat
        /\ events_pending \in Nat
    BY <1>2, LenProperties DEF TypeOK
  <1>5. PendingExact' /\ events_pending' \in Nat
    BY <1>1, <1>3, <1>4 DEF PendingExact
  <1>6. EventStream' = EventStream \o s
    <2>1. EventStream' = (batch \o reply) \o (event_queue \o s)
      BY <1>1 DEF EventStream
    <2>2. EventStream = (batch \o reply) \o event_queue
      BY DEF EventStream
    <2>3. ((batch \o reply) \o event_queue) \o s = (batch \o reply) \o (event_queue \o s)
      BY <1>2, ConcatAssociative, SMTT(40)
    <2>4. QED
      BY <2>1, <2>2, <2>3
  <1>7. StreamFits'
    BY <1>1, <1>6, StreamType, LeadsOn DEF StreamFits
  <1>8. QED
    BY <1>3, <1>5, <1>7

(* The devices that are not XInput devices are what they were.             *)
SameHandles ==
  /\ DOMAIN devices' \ XInputHandles = DOMAIN devices \ XInputHandles
  /\ \A h \in DOMAIN devices \ XInputHandles : devices'[h] = devices[h]

LEMMA Domains ==
  ASSUME TypeOK
  PROVE  /\ DOMAIN devices \subseteq Handles /\ DOMAIN xinput_devices \subseteq Slots
         /\ Handles \cap Slots = {}
         /\ DOMAIN View = Announced /\ Announced \subseteq DeviceIds
         /\ \A d \in DOMAIN devices \ XInputHandles : d \in Announced /\ View[d] = devices[d]
         /\ \A d \in DOMAIN xinput_devices : d \in Announced /\ View[d] = xinput_devices[d]
         /\ \A d \in Announced : d \in (DOMAIN devices \ XInputHandles) \cup DOMAIN xinput_devices
  <1>1. DOMAIN devices \subseteq Handles /\ DOMAIN xinput_devices \subseteq Slots
    BY IsPartialFunction DEF TypeOK
  <1>2. Handles \cap Slots = {}
    BY RawInputAssumption
  <1>3. QED
    BY <1>1, <1>2 DEF View, Announced, DeviceIds

LEMMA HandlersKeep ==
  ASSUME TypeOK, SameHandles, UNCHANGED <<event_queue, events_pending, xinput_devices>>
  PROVE  Keeps
  <1>1. Announced' = Announced
    BY DEF Announced, SameHandles
  <1>2. \A d \in Announced : d \in Slots \/ devices'[d] = devices[d]
    BY Domains DEF SameHandles
  <1>3. View' = View
    BY <1>1, <1>2 DEF View
  <1>4. QED
    BY <1>3 DEF Keeps

LEMMA AscendingIsList ==
  ASSUME NEW S \in SUBSET Slots
  PROVE  IsFiniteSet(S) /\ Ascending(S) \in Channel!Lists(S)
  <1>1. IsFiniteSet(S) /\ S \in SUBSET Nat
    BY RawInputAssumption, FS_Subset
  <1>2. /\ Ascending(S) \in [1..Cardinality(S) -> S]
        /\ \A s \in S : \E i \in 1..Cardinality(S) : Ascending(S)[i] = s
    BY <1>1, AscendingLists
  <1>3. Channel!Cardinality(S) = Cardinality(S)
    BY DEF Channel!Cardinality, Cardinality
  <1>4. QED
    BY <1>1, <1>2, <1>3 DEF Channel!Lists

(* A scan retracts the slots that are gone and announces the new ones.     *)
LEMMA ScanEffect ==
  ASSUME TypeOK, SameHandles,
         NEW exists \in SUBSET Slots, NEW contents \in [Buffers -> Inputs],
         scan_xinput(exists, contents)
  PROVE  /\ xinput_devices' \in PartialFunctions(Slots, Buffers)
         /\ buffers' \in [Buffers -> Inputs]
         /\ Noticed
  <1> DEFINE killed == DOMAIN xinput_devices \ exists
             new    == exists \ DOMAIN xinput_devices
             fresh  == CHOOSE f \in [new -> FreeBuffers] : IsInjective(f)
  <1>1. /\ \E f \in [new -> FreeBuffers] : IsInjective(f)
        /\ xinput_devices' =
             [s \in exists |-> IF s \in new THEN fresh[s] ELSE xinput_devices[s]]
        /\ buffers' = [b \in Buffers |-> IF b \in Range(fresh)
                                         THEN DefaultInputs ELSE contents[b]]
        /\ events_pending' = events_pending + Cardinality(killed) + Cardinality(new)
        /\ event_queue' = event_queue \o Removals(Ascending(killed))
                                      \o Arrivals(Ascending(new), fresh)
    BY DEF scan_xinput, Removals, Arrivals
  <1>2. killed \in SUBSET Slots /\ new \in SUBSET Slots
    BY Domains
  <1>3. fresh \in [new -> Buffers]
    <2>1. fresh \in [new -> FreeBuffers]
      BY <1>1
    <2>2. FreeBuffers \subseteq Buffers
      BY DEF FreeBuffers
    <2> HIDE DEF fresh, new
    <2>3. QED
      BY <2>1, <2>2
  <1> HIDE DEF fresh
  <1>4. buffers' \in [Buffers -> Inputs]
    BY <1>1, RawInputAssumption
  <1>5. xinput_devices' \in PartialFunctions(Slots, Buffers)
    <2>1. \A s \in DOMAIN xinput_devices : xinput_devices[s] \in Buffers
      BY IsPartialFunction DEF TypeOK
    <2>2. /\ DOMAIN xinput_devices' = exists
          /\ xinput_devices' = [s \in exists |-> xinput_devices'[s]]
      BY <1>1
    <2>3. \A s \in exists : xinput_devices'[s] \in Buffers
      BY <1>1, <1>3, <2>1
    <2>4. QED
      BY <2>2, <2>3, IsPartialFunction
  <1>6. killed \subseteq Announced /\ new \subseteq DeviceIds \ Announced
    BY <1>2, Domains DEF DeviceIds
  <1>7. View' = Joined(Restrict(View, Announced \ killed), new, fresh)
    <2>1. DOMAIN xinput_devices' = exists
      BY <1>1
    <2>2. Announced' = (Announced \ killed) \cup new
      <3>1. Announced' = (DOMAIN devices \ XInputHandles) \cup exists
        BY <2>1 DEF Announced, SameHandles
      <3>2. Announced = (DOMAIN devices \ XInputHandles) \cup DOMAIN xinput_devices
        BY DEF Announced
      <3>3. (DOMAIN devices \ XInputHandles) \cap killed = {}
        BY <1>2, Domains
      <3>4. QED
        BY <3>1, <3>2, <3>3
    <2>3. ASSUME NEW d \in Announced'
          PROVE  (IF d \in Slots THEN xinput_devices'[d] ELSE devices'[d])
                   = IF d \in new THEN fresh[d] ELSE View[d]
      <3>1. CASE d \in new
        BY <3>1, <1>1, <1>2
      <3>2. CASE d \in DOMAIN xinput_devices /\ d \notin new
        <4>1. d \in Slots /\ d \notin DOMAIN devices /\ View[d] = xinput_devices[d]
          BY <3>2, Domains
        <4>2. d \in exists
          BY <2>2, <3>2
        <4>3. QED
          BY <4>1, <4>2, <3>2, <1>1
      <3>3. CASE d \in DOMAIN devices \ XInputHandles
        <4>1. d \notin Slots /\ View[d] = devices[d] /\ devices'[d] = devices[d]
          BY <3>3, Domains DEF SameHandles
        <4>2. QED
          BY <4>1, <1>2
      <3>4. QED
        BY <2>2, <3>1, <3>2, <3>3 DEF Announced
    <2> HIDE DEF killed, new
    <2>4. DOMAIN Restrict(View, Announced \ killed) = Announced \ killed
      BY DEF Restrict
    <2>5. \A d \in Announced \ killed : Restrict(View, Announced \ killed)[d] = View[d]
      BY DEF Restrict
    <2>6. View' = [d \in Announced' |-> IF d \in new THEN fresh[d] ELSE View[d]]
      BY <2>3 DEF View
    <2>7. QED
      BY <2>2, <2>4, <2>5, <2>6 DEF Joined
  <1>8. Announces(killed, new)
    <2>1. /\ IsFiniteSet(killed) /\ Ascending(killed) \in Channel!Lists(killed)
          /\ IsFiniteSet(new) /\ Ascending(new) \in Channel!Lists(new)
      BY <1>2, AscendingIsList
    <2> HIDE DEF killed, new
    <2>2. QED
      BY <2>1, <1>1, <1>3, <1>6, <1>7 DEF Announces
  <1>9. killed \in SUBSET DeviceIds /\ new \in SUBSET DeviceIds
    BY <1>2 DEF DeviceIds
  <1> HIDE DEF killed, new
  <1>10. QED
    BY <1>4, <1>5, <1>8, <1>9 DEF Noticed

LEMMA OneIsListed ==
  /\ IsFiniteSet({}) /\ Cardinality({}) = 0 /\ <<>> \in Channel!Lists({})
  /\ \A d : IsFiniteSet({d}) /\ Cardinality({d}) = 1 /\ <<d>> \in Channel!Lists({d})
  <1>1. \A S : Channel!Cardinality(S) = Cardinality(S)
    BY DEF Channel!Cardinality, Cardinality
  <1>2. IsFiniteSet({}) /\ Cardinality({}) = 0
    BY FS_EmptySet
  <1>3. <<>> \in Channel!Lists({})
    <2>1. <<>> \in [1..0 -> {}]
      OBVIOUS
    <2>2. QED
      BY <1>1, <1>2, <2>1 DEF Channel!Lists
  <1>4. ASSUME NEW d
        PROVE  IsFiniteSet({d}) /\ Cardinality({d}) = 1 /\ <<d>> \in Channel!Lists({d})
    <2>1. IsFiniteSet({d}) /\ Cardinality({d}) = 1
      BY FS_Singleton
    <2>2. <<d>> \in [1..1 -> {d}] /\ 1 \in DOMAIN <<d>> /\ <<d>>[1] = d
      OBVIOUS
    <2>3. QED
      BY <1>1, <2>1, <2>2 DEF Channel!Lists
  <1>5. QED
    BY <1>2, <1>3, <1>4

(* A device that is no XInput device is announced when it arrives, ...     *)
LEMMA ArrivalEffect ==
  ASSUME TypeOK, NEW h \in Handles \ XInputHandles, h \notin DOMAIN devices,
         NEW buffer \in Buffers,
         devices' = With(devices, h, buffer),
         event_queue' = Append(event_queue, DeviceArrived(h, buffer)),
         events_pending' = events_pending + 1,
         UNCHANGED xinput_devices
  PROVE  Noticed
  <1> DEFINE b == [d \in {h} |-> buffer]
  <1>1. h \in DeviceIds \ Announced /\ h \notin Slots
    BY Domains DEF Announced, DeviceIds
  <1>2. b \in [{h} -> Buffers] /\ b[h] = buffer
    OBVIOUS
  <1> HIDE DEF b
  <1>3. Removals(<<>>) = <<>> /\ Arrivals(<<h>>, b) = <<DeviceArrived(h, buffer)>>
    BY <1>2 DEF Removals, Arrivals
  <1>4. event_queue' = event_queue \o Removals(<<>>) \o Arrivals(<<h>>, b)
    <2>1. event_queue \in Seq(Events) /\ DeviceArrived(h, buffer) \in Events
      BY <1>1, StreamType, EventTypes
    <2>2. event_queue \o <<>> = event_queue
      BY <2>1, ConcatEmptySeq
    <2>3. event_queue' = event_queue \o <<DeviceArrived(h, buffer)>>
      BY <2>1, AppendIsConcat
    <2>4. QED
      BY <1>3, <2>2, <2>3
  <1>5. View' = Joined(Restrict(View, Announced \ {}), {h}, b)
    <2>1. Announced' = Announced \cup {h}
      BY DEF Announced, With
    <2>2. devices'[h] = buffer /\ \A d \in DOMAIN devices : d # h /\ devices'[d] = devices[d]
      BY DEF With
    <2>3. \A d \in Announced :
            d # h /\ View[d] = IF d \in Slots THEN xinput_devices'[d] ELSE devices'[d]
      BY <1>1, <2>2, Domains DEF Announced, View
    <2>4. View' = [d \in Announced' |->
                     IF d \in Slots THEN xinput_devices'[d] ELSE devices'[d]]
      BY DEF View
    <2>5. View' = [d \in Announced \cup {h} |-> IF d \in {h} THEN b[d] ELSE View[d]]
      BY <1>1, <1>2, <2>1, <2>2, <2>3, <2>4
    <2>6. Restrict(View, Announced \ {}) = View /\ DOMAIN View = Announced
      BY DEF Restrict, View
    <2>7. QED
      BY <2>5, <2>6 DEF Joined
  <1>6. events_pending' = events_pending + Cardinality({}) + Cardinality({h})
    <2>1. Cardinality({}) = 0 /\ Cardinality({h}) = 1 /\ events_pending \in Nat
      BY OneIsListed DEF TypeOK
    <2>2. QED
      BY <2>1
  <1>7. Announces({}, {h})
    BY <1>1, <1>2, <1>4, <1>5, <1>6, OneIsListed DEF Announces
  <1>8. QED
    BY <1>1, <1>7 DEF Noticed

(* ... and retracted when it leaves.                                       *)
LEMMA RemovalEffect ==
  ASSUME TypeOK, NEW h \in DOMAIN devices \ XInputHandles,
         devices' = Without(devices, h),
         event_queue' = Append(event_queue, DeviceRemoved(h)),
         events_pending' = events_pending + 1,
         UNCHANGED xinput_devices
  PROVE  Noticed
  <1> DEFINE b == [d \in {} |-> h]
  <1>1. h \in Announced /\ h \in DeviceIds /\ h \notin Slots
    BY Domains
  <1>2. b \in [{} -> Buffers]
    OBVIOUS
  <1> HIDE DEF b
  <1>3. Removals(<<h>>) = <<DeviceRemoved(h)>> /\ Arrivals(<<>>, b) = <<>>
    BY DEF Removals, Arrivals
  <1>4. event_queue' = event_queue \o Removals(<<h>>) \o Arrivals(<<>>, b)
    <2>1. event_queue \in Seq(Events) /\ DeviceRemoved(h) \in Events
      BY <1>1, StreamType, EventTypes
    <2>2. event_queue' = event_queue \o <<DeviceRemoved(h)>>
      BY <2>1, AppendIsConcat
    <2>3. event_queue' \in Seq(Events)
      BY <2>1, AppendProperties
    <2>4. event_queue' \o <<>> = event_queue'
      BY <2>3, ConcatEmptySeq
    <2>5. QED
      BY <1>3, <2>2, <2>4
  <1>5. View' = Joined(Restrict(View, Announced \ {h}), {}, b)
    <2>1. Announced' = Announced \ {h}
      BY <1>1, Domains DEF Announced, Without, Restrict
    <2>2. \A d \in DOMAIN devices \ {h} : devices'[d] = devices[d]
      BY DEF Without, Restrict
    <2>3. \A d \in Announced \ {h} :
            View[d] = IF d \in Slots THEN xinput_devices'[d] ELSE devices'[d]
      BY <2>2, Domains DEF Announced, View
    <2>4. View' = [d \in Announced' |->
                     IF d \in Slots THEN xinput_devices'[d] ELSE devices'[d]]
      BY DEF View
    <2>5. View' = [d \in Announced \ {h} |-> View[d]]
      BY <2>1, <2>3, <2>4
    <2>6. QED
      BY <2>5 DEF Joined, Restrict
  <1>6. events_pending' = events_pending + Cardinality({h}) + Cardinality({})
    <2>1. Cardinality({}) = 0 /\ Cardinality({h}) = 1 /\ events_pending \in Nat
      BY OneIsListed DEF TypeOK
    <2>2. QED
      BY <2>1
  <1>7. Announces({h}, {})
    BY <1>1, <1>2, <1>4, <1>5, <1>6, OneIsListed DEF Announces
  <1>8. QED
    BY <1>1, <1>7 DEF Noticed

-----------------------------------------------------------------------------
(* Every step preserves the invariant.                                     *)

(* A handler leaves the client and the system's devices alone; what it     *)
(* notices it announces.                                                   *)
LEMMA HandlerPreserves ==
  ASSUME IInv, Noticed,
         UNCHANGED <<plugged, slot_of, request, reply, client>>,
         devices' \in PartialFunctions(Handles, Buffers \cup {None}),
         \A h \in DOMAIN devices' : devices'[h] = None <=> h \in XInputHandles,
         xinput_devices' \in PartialFunctions(Slots, Buffers),
         buffers' \in [Buffers -> Inputs],
         aborted' \in BOOLEAN,
         messages' \in Seq(Message), MessagesFit'
  PROVE  IInv'
  <1>1. UNCHANGED <<batch, reply, known>>
    BY DEF client
  <1>2. /\ event_queue' \in Seq(Events) /\ events_pending' \in Nat
        /\ PendingExact' /\ StreamFits'
    BY <1>1, NoticedPreserves DEF IInv
  <1>3. Stages'
    BY <1>1 DEF IInv, Stages
  <1>4. TypeOK'
    BY <1>1, <1>2 DEF IInv, TypeOK, Events, Message
  <1>5. QED
    BY <1>2, <1>3, <1>4 DEF IInv

(* The slots that may answer are slots.                                    *)
LEMMA AnsweringSlots ==
  ASSUME TypeOK, NEW exists \in Answering
  PROVE  exists \in SUBSET Slots
  <1>1. connected \subseteq Slots
    BY DEF TypeOK, connected
  <1>2. QED
    BY <1>1 DEF Answering

LEMMA WithTyped ==
  ASSUME TypeOK, NEW h \in Handles, NEW buffer \in Buffers \cup {None},
         buffer = None <=> h \in XInputHandles,
         devices' = With(devices, h, buffer)
  PROVE  /\ devices' \in PartialFunctions(Handles, Buffers \cup {None})
         /\ \A d \in DOMAIN devices' : devices'[d] = None <=> d \in XInputHandles
         /\ DOMAIN devices' = DOMAIN devices \cup {h}
         /\ h \in XInputHandles => SameHandles
  <1>1. /\ DOMAIN devices \subseteq Handles
        /\ \A d \in DOMAIN devices : devices[d] \in Buffers \cup {None}
        /\ \A d \in DOMAIN devices : devices[d] = None <=> d \in XInputHandles
    BY IsPartialFunction DEF TypeOK
  <1>2. /\ DOMAIN devices' = DOMAIN devices \cup {h}
        /\ devices' = [d \in DOMAIN devices' |-> devices'[d]]
        /\ devices'[h] = buffer
        /\ \A d \in DOMAIN devices : d # h => devices'[d] = devices[d]
    BY DEF With
  <1>3. /\ DOMAIN devices' \subseteq Handles
        /\ \A d \in DOMAIN devices' : devices'[d] \in Buffers \cup {None}
        /\ \A d \in DOMAIN devices' : devices'[d] = None <=> d \in XInputHandles
    BY <1>1, <1>2
  <1>4. devices' \in PartialFunctions(Handles, Buffers \cup {None})
    BY <1>2, <1>3, IsPartialFunction
  <1>5. h \in XInputHandles => SameHandles
    BY <1>2 DEF SameHandles
  <1>6. QED
    BY <1>2, <1>3, <1>4, <1>5

LEMMA WithoutTyped ==
  ASSUME TypeOK, NEW h, devices' = Without(devices, h)
  PROVE  /\ devices' \in PartialFunctions(Handles, Buffers \cup {None})
         /\ \A d \in DOMAIN devices' : devices'[d] = None <=> d \in XInputHandles
         /\ DOMAIN devices' = DOMAIN devices \ {h}
         /\ h \in XInputHandles => SameHandles
  <1>1. /\ DOMAIN devices \subseteq Handles
        /\ \A d \in DOMAIN devices : devices[d] \in Buffers \cup {None}
        /\ \A d \in DOMAIN devices : devices[d] = None <=> d \in XInputHandles
    BY IsPartialFunction DEF TypeOK
  <1>2. /\ DOMAIN devices' = DOMAIN devices \ {h}
        /\ devices' = [d \in DOMAIN devices' |-> devices'[d]]
        /\ \A d \in DOMAIN devices' : devices'[d] = devices[d]
    BY DEF Without, Restrict
  <1>3. /\ DOMAIN devices' \subseteq Handles
        /\ \A d \in DOMAIN devices' : devices'[d] \in Buffers \cup {None}
        /\ \A d \in DOMAIN devices' : devices'[d] = None <=> d \in XInputHandles
    BY <1>1, <1>2
  <1>4. devices' \in PartialFunctions(Handles, Buffers \cup {None})
    BY <1>2, <1>3, IsPartialFunction
  <1>5. h \in XInputHandles => SameHandles
    BY <1>2 DEF SameHandles
  <1>6. QED
    BY <1>2, <1>3, <1>4, <1>5

LEMMA ManagerTypes ==
  ASSUME TypeOK
  PROVE  /\ devices \in PartialFunctions(Handles, Buffers \cup {None})
         /\ \A h \in DOMAIN devices : devices[h] = None <=> h \in XInputHandles
         /\ xinput_devices \in PartialFunctions(Slots, Buffers)
         /\ buffers \in [Buffers -> Inputs]
         /\ messages \in Seq(Message)
         /\ aborted \in BOOLEAN
  BY DEF TypeOK, Message

(* The window is told of every device that comes or goes.                  *)
LEMMA EnvironmentSends ==
  ASSUME NEW h \in Handles, Plug(h) \/ Unplug(h)
  PROVE  \E m \in Message :
           /\ m.device = h
           /\ Changes(plugged, m, plugged')
           /\ messages' = Append(messages, m)
  <1> DEFINE a == [change |-> "arrival", device |-> h]
             r == [change |-> "removal", device |-> h]
  <1>1. /\ a \in Message /\ a.device = h /\ a.change = "arrival"
        /\ r \in Message /\ r.device = h /\ r.change = "removal"
    BY DEF Message
  <1>2. CASE Plug(h)
    <2>1. Changes(plugged, a, plugged') /\ messages' = Append(messages, a)
      BY <1>2 DEF Plug, Changes
    <2>2. QED
      BY <1>1, <2>1
  <1>3. CASE Unplug(h)
    <2>1. Changes(plugged, r, plugged') /\ messages' = Append(messages, r)
      BY <1>3 DEF Unplug, Changes
    <2>2. QED
      BY <1>1, <2>1
  <1>4. QED
    BY <1>2, <1>3

LEMMA EnvironmentPreserves == IInv /\ Environment => IInv'
  <1> SUFFICES ASSUME IInv, Environment PROVE IInv'
    OBVIOUS
  <1>1. PICK h \in Handles : Plug(h) \/ Unplug(h)
    BY DEF Environment
  <1>2. UNCHANGED <<manager, events_pending, request, reply, client, aborted>>
    BY DEF Environment
  <1>3. PICK m \in Message : Changes(plugged, m, plugged') /\ messages' = Append(messages, m)
    BY <1>1, EnvironmentSends
  <1>4. messages' \in Seq(Message) /\ MessagesFit'
    BY <1>2, <1>3, MessageSent DEF IInv, manager, Message
  <1>5. plugged' \subseteq Handles
    BY <1>3 DEF Changes, IInv, TypeOK, Message
  <1>6. slot_of' \in [XInputHandles -> Slots \cup {None}]
    <2>1. slot_of \in [XInputHandles -> Slots \cup {None}]
      BY DEF IInv, TypeOK
    <2>2. CASE Plug(h)
      BY <2>1, <2>2 DEF Plug
    <2>3. CASE Unplug(h)
      BY <2>1, <2>3 DEF Unplug
    <2>4. QED
      BY <1>1, <2>2, <2>3
  <1>7. TypeOK'
    BY <1>2, <1>4, <1>5, <1>6 DEF IInv, TypeOK, manager, client, Message
  <1>8. PendingExact' /\ Stages'
    BY <1>2 DEF IInv, PendingExact, Stages, manager, client
  <1>9. StreamFits'
    <2>1. EventStream' = EventStream
      BY <1>2 DEF EventStream, manager, client
    <2>2. View' = View
      BY <1>2 DEF View, Announced, manager
    <2>3. QED
      BY <1>2, <2>1, <2>2 DEF IInv, StreamFits, client
  <1>10. QED
    BY <1>4, <1>7, <1>8, <1>9 DEF IInv

(* What a handler leaves behind: a manager of the right types, and events  *)
(* for whatever it noticed.                                                *)
Handled ==
  /\ Noticed
  /\ devices' \in PartialFunctions(Handles, Buffers \cup {None})
  /\ \A h \in DOMAIN devices' : devices'[h] = None <=> h \in XInputHandles
  /\ xinput_devices' \in PartialFunctions(Slots, Buffers)
  /\ buffers' \in [Buffers -> Inputs]
  /\ aborted' \in BOOLEAN

LEMMA NothingDone ==
  ASSUME TypeOK, UNCHANGED <<manager, events_pending>>, aborted' \in BOOLEAN
  PROVE  Handled /\ DOMAIN devices' = DOMAIN devices
  <1>1. SameHandles
    BY DEF SameHandles, manager
  <1>2. Noticed
    BY <1>1, HandlersKeep DEF Noticed, manager
  <1>3. QED
    BY <1>2, ManagerTypes DEF Handled, manager

LEMMA ScanHandled ==
  ASSUME TypeOK, SameHandles, NEW exists \in Answering,
         NEW contents \in [Buffers -> Inputs], scan_xinput(exists, contents),
         devices' \in PartialFunctions(Handles, Buffers \cup {None}),
         \A h \in DOMAIN devices' : devices'[h] = None <=> h \in XInputHandles,
         UNCHANGED aborted
  PROVE  Handled
  <1>1. exists \in SUBSET Slots
    BY AnsweringSlots
  <1>2. /\ xinput_devices' \in PartialFunctions(Slots, Buffers)
        /\ buffers' \in [Buffers -> Inputs]
        /\ Noticed
    BY <1>1, ScanEffect
  <1>3. QED
    BY <1>2, ManagerTypes DEF Handled

LEMMA ArrivalHandled ==
  ASSUME TypeOK, NEW h \in Handles, h \notin DOMAIN devices, handle_device_arrival(h)
  PROVE  Handled /\ DOMAIN devices' \subseteq DOMAIN devices \cup {h}
  <1>1. CASE aborted' = TRUE /\ UNCHANGED <<manager, events_pending>>
    BY <1>1, NothingDone
  <1>2. CASE UNCHANGED <<manager, events_pending, aborted>>
    BY <1>2, NothingDone, ManagerTypes
  <1>3. CASE /\ h \in XInputHandles
             /\ devices' = With(devices, h, None)
             /\ \E exists \in Answering : scan_xinput(exists, buffers)
             /\ UNCHANGED aborted
    <2>1. /\ devices' \in PartialFunctions(Handles, Buffers \cup {None})
          /\ \A d \in DOMAIN devices' : devices'[d] = None <=> d \in XInputHandles
          /\ DOMAIN devices' = DOMAIN devices \cup {h}
          /\ SameHandles
      BY <1>3, WithTyped
    <2>2. QED
      BY <1>3, <2>1, ScanHandled, ManagerTypes
  <1>4. CASE /\ h \notin XInputHandles
             /\ FreeBuffers # {}
             /\ LET buffer == CHOOSE b \in FreeBuffers : TRUE
                IN  /\ devices' = With(devices, h, buffer)
                    /\ buffers' = [buffers EXCEPT ![buffer] = DefaultInputs]
                    /\ event_queue' = Append(event_queue, DeviceArrived(h, buffer))
             /\ events_pending' = events_pending + 1
             /\ UNCHANGED <<xinput_devices, aborted>>
    <2>1. PICK buffer \in Buffers :
            /\ devices' = With(devices, h, buffer)
            /\ buffers' = [buffers EXCEPT ![buffer] = DefaultInputs]
            /\ event_queue' = Append(event_queue, DeviceArrived(h, buffer))
      BY <1>4 DEF FreeBuffers
    <2>2. /\ devices' \in PartialFunctions(Handles, Buffers \cup {None})
          /\ \A d \in DOMAIN devices' : devices'[d] = None <=> d \in XInputHandles
          /\ DOMAIN devices' = DOMAIN devices \cup {h}
      <3>1. buffer # None
        BY RawInputAssumption
      <3>2. QED
        BY <1>4, <2>1, <3>1, WithTyped
    <2>3. Noticed
      BY <1>4, <2>1, ArrivalEffect
    <2>4. buffers' \in [Buffers -> Inputs]
      BY <2>1, RawInputAssumption, ManagerTypes
    <2>5. QED
      BY <1>4, <2>2, <2>3, <2>4, ManagerTypes DEF Handled
  <1>5. QED
    BY <1>1, <1>2, <1>3, <1>4 DEF handle_device_arrival

LEMMA RemovalHandled ==
  ASSUME TypeOK, NEW h \in Handles, handle_device_removal(h)
  PROVE  Handled /\ DOMAIN devices' = DOMAIN devices \ {h}
  <1>1. CASE h \notin DOMAIN devices
    <2>1. UNCHANGED <<manager, events_pending, aborted>>
      BY <1>1 DEF handle_device_removal
    <2>2. QED
      BY <1>1, <2>1, NothingDone, ManagerTypes
  <1>2. CASE h \in DOMAIN devices
    <2>1. devices' = Without(devices, h) /\ UNCHANGED aborted
      BY <1>2 DEF handle_device_removal
    <2>2. /\ devices' \in PartialFunctions(Handles, Buffers \cup {None})
          /\ \A d \in DOMAIN devices' : devices'[d] = None <=> d \in XInputHandles
          /\ DOMAIN devices' = DOMAIN devices \ {h}
          /\ h \in XInputHandles => SameHandles
      BY <2>1, WithoutTyped
    <2>3. CASE h \in XInputHandles
      <3>1. PICK exists \in Answering : scan_xinput(exists, buffers)
        BY <1>2, <2>3 DEF handle_device_removal
      <3>2. Handled
        BY <2>1, <2>2, <2>3, <3>1, ScanHandled, ManagerTypes
      <3>3. QED
        BY <2>2, <3>2
    <2>4. CASE h \notin XInputHandles
      <3>1. /\ event_queue' = Append(event_queue, DeviceRemoved(h))
            /\ events_pending' = events_pending + 1
            /\ UNCHANGED <<xinput_devices, buffers>>
        BY <1>2, <2>4 DEF handle_device_removal
      <3>2. Noticed
        BY <1>2, <2>1, <2>4, <3>1, RemovalEffect
      <3>3. QED
        BY <2>1, <2>2, <3>1, <3>2, ManagerTypes DEF Handled
    <2>5. QED
      BY <2>3, <2>4
  <1>3. QED
    BY <1>1, <1>2

LEMMA ChangeEffect ==
  ASSUME IInv, handle_device_change
  PROVE  Handled /\ messages' \in Seq(Message) /\ MessagesFit'
  <1>1. /\ messages # <<>> /\ messages' = Tail(messages)
        /\ UNCHANGED plugged
    BY DEF handle_device_change
  <1>2. /\ messages' \in Seq(Message) /\ Head(messages) \in Message
        /\ \E p, q \in SUBSET Handles :
             /\ DOMAIN devices \subseteq p
             /\ Changes(p, Head(messages), q)
             /\ DOMAIN devices' \subseteq q => MessagesFit'
    BY <1>1, MessageHandled DEF IInv, Message
  <1>3. PICK p, q \in SUBSET Handles :
          /\ DOMAIN devices \subseteq p
          /\ Changes(p, Head(messages), q)
          /\ DOMAIN devices' \subseteq q => MessagesFit'
    BY <1>2
  <1> DEFINE h == Head(messages).device
  <1>4. h \in Handles /\ Head(messages).change \in {"arrival", "removal"}
    BY <1>2 DEF Message
  <1>5. CASE Head(messages).change = "arrival"
    <2>1. h \notin p /\ q = p \cup {h}
      BY <1>3, <1>5 DEF Changes
    <2>2. handle_device_arrival(h)
      BY <1>5 DEF handle_device_change
    <2> HIDE DEF h
    <2>3. Handled /\ DOMAIN devices' \subseteq DOMAIN devices \cup {h}
      BY <1>3, <1>4, <2>1, <2>2, ArrivalHandled DEF IInv
    <2>4. QED
      BY <1>2, <1>3, <2>1, <2>3
  <1>6. CASE Head(messages).change = "removal"
    <2>1. q = p \ {h}
      BY <1>3, <1>6 DEF Changes
    <2>2. handle_device_removal(h)
      BY <1>6 DEF handle_device_change
    <2> HIDE DEF h
    <2>3. Handled /\ DOMAIN devices' = DOMAIN devices \ {h}
      BY <1>4, <2>2, RemovalHandled DEF IInv
    <2>4. QED
      BY <1>2, <1>3, <2>1, <2>3
  <1>7. QED
    BY <1>4, <1>5, <1>6

LEMMA ReadHandled ==
  ASSUME TypeOK, NEW answer \in [Slots -> Inputs], read_xinput(answer),
         UNCHANGED <<devices, aborted>>
  PROVE  Handled
  <1>1. PICK polled \in Answering, exists \in Answering :
          LET answering == DOMAIN xinput_devices \cap polled
              contents  == [b \in Buffers |->
                              IF \E s \in answering : xinput_devices[s] = b
                              THEN answer[CHOOSE s \in answering : xinput_devices[s] = b]
                              ELSE buffers[b]]
          IN  IF answering = DOMAIN xinput_devices
              THEN /\ buffers' = contents
                   /\ UNCHANGED <<xinput_devices, event_queue, events_pending>>
              ELSE scan_xinput(exists, contents)
    BY DEF read_xinput
  <1> DEFINE answering == DOMAIN xinput_devices \cap polled
             contents  == [b \in Buffers |->
                             IF \E s \in answering : xinput_devices[s] = b
                             THEN answer[CHOOSE s \in answering : xinput_devices[s] = b]
                             ELSE buffers[b]]
  <1>2. contents \in [Buffers -> Inputs]
    <2>1. answering \subseteq Slots
      BY Domains
    <2>2. buffers \in [Buffers -> Inputs]
      BY ManagerTypes
    <2> HIDE DEF answering
    <2>3. QED
      BY <2>1, <2>2
  <1>3. SameHandles
    BY DEF SameHandles
  <1>4. CASE answering = DOMAIN xinput_devices
    <2>1. buffers' = contents /\ UNCHANGED <<xinput_devices, event_queue, events_pending>>
      BY <1>1, <1>4
    <2> HIDE DEF contents, answering
    <2>2. Noticed
      BY <1>3, <2>1, HandlersKeep DEF Noticed
    <2>3. QED
      BY <1>2, <2>1, <2>2, ManagerTypes DEF Handled
  <1>5. CASE answering # DOMAIN xinput_devices
    <2>1. scan_xinput(exists, contents)
      BY <1>1, <1>5
    <2> HIDE DEF contents, answering
    <2>2. QED
      BY <1>2, <1>3, <2>1, ScanHandled, ManagerTypes
  <1>6. QED
    BY <1>4, <1>5

LEMMA InputEffect ==
  ASSUME IInv, NEW h \in Handles, handle_device_input(h)
  PROVE  Handled /\ UNCHANGED <<messages, plugged, devices>>
  <1>1. h \in DOMAIN devices /\ UNCHANGED <<messages, plugged, devices, aborted>>
    BY DEF handle_device_input, environment
  <1>2. CASE h \in XInputHandles
    <2>1. PICK answer \in [Slots -> Inputs] : read_xinput(answer)
      BY <1>2 DEF handle_device_input
    <2>2. QED
      BY <1>1, <2>1, ReadHandled DEF IInv
  <1>3. CASE h \notin XInputHandles
    <2>1. PICK parsed \in Inputs \cup {None} : handle_input(h, parsed)
      BY <1>3 DEF handle_device_input
    <2>2. SameHandles
      BY <1>1 DEF SameHandles
    <2>3. Noticed
      BY <2>1, <2>2, HandlersKeep DEF Noticed, handle_input, IInv
    <2>4. mangle_inputs[IF parsed = None THEN DefaultInputs ELSE parsed] \in Inputs
      BY RawInputAssumption
    <2>5. buffers' \in [Buffers -> Inputs]
      BY <2>1, <2>4, ManagerTypes DEF handle_input, IInv
    <2>6. QED
      BY <1>1, <2>1, <2>3, <2>5, ManagerTypes DEF Handled, handle_input, IInv
  <1>4. QED
    BY <1>2, <1>3

LEMMA HandlersPreserve == IInv /\ Handlers => IInv'
  <1> SUFFICES ASSUME IInv, Handlers PROVE IInv'
    OBVIOUS
  <1>1. CASE handle_device_change
    <2>1. Handled /\ messages' \in Seq(Message) /\ MessagesFit'
      BY <1>1, ChangeEffect
    <2>2. UNCHANGED <<plugged, slot_of, request, reply, client>>
      BY <1>1 DEF handle_device_change
    <2>3. QED
      BY <2>1, <2>2, HandlerPreserves DEF Handled
  <1>2. CASE \E h \in Handles : handle_device_input(h)
    <2>1. PICK h \in Handles : handle_device_input(h)
      BY <1>2
    <2>2. Handled /\ UNCHANGED <<messages, plugged, devices>>
      BY <2>1, InputEffect
    <2>3. UNCHANGED <<plugged, slot_of, request, reply, client>>
      BY <2>1 DEF handle_device_input, environment
    <2>4. MessagesFit'
      BY <2>2, MessagesUntouched DEF IInv
    <2>5. messages' \in Seq(Message)
      BY <2>2, ManagerTypes DEF IInv
    <2>6. QED
      BY <2>2, <2>3, <2>4, <2>5, HandlerPreserves DEF Handled
  <1>3. CASE cmd_get_events
    <2>1. /\ request = "sent" /\ request' = "answered"
          /\ reply' = event_queue /\ event_queue' = <<>>
          /\ UNCHANGED <<environment, devices, xinput_devices, events_pending,
                         buffers, client, aborted>>
      BY <1>3 DEF cmd_get_events
    <2>2. reply = <<>> /\ batch = <<>>
      BY <2>1 DEF IInv, Stages
    <2>3. <<>> \in Seq(Events) /\ event_queue \in Seq(Events)
      BY StreamType DEF IInv
    <2>4. TypeOK'
      BY <2>1, <2>3 DEF IInv, TypeOK, Events, environment, client
    <2>5. PendingExact'
      <3>1. events_pending = Len(event_queue) + Len(<<>>) /\ Len(event_queue) \in Nat
        BY <2>2, <2>3, LenProperties DEF IInv, PendingExact
      <3>2. QED
        BY <2>1, <3>1 DEF PendingExact
    <2>6. Stages'
      BY <2>1, <2>2 DEF Stages, client
    <2>7. MessagesFit'
      BY <2>1, MessagesUntouched DEF IInv, environment
    <2>8. StreamFits'
      <3>1. EventStream' = event_queue /\ EventStream = event_queue
        BY <2>1, <2>2, <2>3, ConcatEmptySeq DEF EventStream, client
      <3>2. View' = View
        BY <2>1 DEF View, Announced
      <3>3. QED
        BY <2>1, <3>1, <3>2 DEF IInv, StreamFits, client
    <2>9. QED
      BY <2>4, <2>5, <2>6, <2>7, <2>8 DEF IInv
  <1>4. QED
    BY <1>1, <1>2, <1>3 DEF Handlers

(* What an event that is taken does to the client's devices.               *)
LEMMA TakeEffect ==
  ASSUME IInv, TakeEvent
  PROVE  /\ batch # <<>> /\ batch' = Tail(batch) /\ batch' \in Seq(Events)
         /\ EventStream # <<>> /\ Head(EventStream) = Head(batch)
         /\ EventStream' = Tail(EventStream)
         /\ Applies(known, Head(batch), known')
         /\ known' \in Views
         /\ StreamFits'
         /\ request = "none" /\ reply = <<>>
  <1>1. /\ batch # <<>> /\ batch' = Tail(batch)
        /\ UNCHANGED <<environment, manager, events_pending, request, reply, aborted>>
    BY DEF TakeEvent
  <1>2. request = "none" /\ reply = <<>>
    BY <1>1 DEF IInv, Stages
  <1>3. batch \in Seq(Events) /\ event_queue \in Seq(Events) /\ EventStream \in Seq(Events)
    BY StreamType DEF IInv
  <1>4. batch' \in Seq(Events) /\ Head(batch) \in Events
    BY <1>1, <1>3, HeadTailProperties
  <1>5. /\ EventStream = batch \o event_queue
        /\ EventStream' = Tail(batch) \o event_queue
    BY <1>1, <1>2, <1>3, <1>4, ConcatEmptySeq DEF EventStream, manager
  <1>6. /\ EventStream # <<>> /\ Head(EventStream) = Head(batch)
        /\ EventStream' = Tail(EventStream)
    BY <1>1, <1>3, <1>5
  <1>7. PICK k \in Views :
          Applies(known, Head(EventStream), k) /\ Leads(k, Tail(EventStream), View)
    BY <1>3, <1>6, LeadsFirst DEF IInv, StreamFits
  <1>8. known' = k
    BY <1>1, <1>6, <1>7 DEF TakeEvent, Applies
  <1>9. View' = View
    BY <1>1 DEF View, Announced, manager
  <1>10. StreamFits'
    BY <1>6, <1>7, <1>8, <1>9 DEF StreamFits
  <1>11. QED
    BY <1>1, <1>2, <1>4, <1>6, <1>7, <1>8, <1>10

LEMMA ClientPreserves == IInv /\ Client => IInv'
  <1> SUFFICES ASSUME IInv, Client PROVE IInv'
    OBVIOUS
  <1>1. CASE LoadPending
    <2>1. /\ request = "none" /\ batch = <<>> /\ request' \in {"sent", "none"}
          /\ UNCHANGED <<environment, manager, events_pending, reply, client, aborted>>
      BY <1>1 DEF LoadPending
    <2>2. TypeOK'
      BY <2>1 DEF IInv, TypeOK, environment, manager, client
    <2>3. PendingExact' /\ Stages'
      BY <2>1 DEF IInv, PendingExact, Stages, manager, client
    <2>4. MessagesFit'
      BY <2>1, MessagesUntouched DEF IInv, environment, manager
    <2>5. StreamFits'
      BY <2>1 DEF IInv, StreamFits, EventStream, View, Announced, manager, client
    <2>6. QED
      BY <2>2, <2>3, <2>4, <2>5 DEF IInv
  <1>2. CASE ReceiveEvents
    <2>1. /\ request = "answered" /\ request' = "none"
          /\ batch' = reply /\ reply' = <<>>
          /\ events_pending' = events_pending - Len(reply)
          /\ UNCHANGED <<environment, manager, known, aborted>>
      BY <1>2 DEF ReceiveEvents
    <2>2. batch = <<>>
      BY <2>1 DEF IInv, Stages
    <2>3. /\ reply \in Seq(Events) /\ event_queue \in Seq(Events)
          /\ <<>> \in Seq(Events)
      BY StreamType DEF IInv
    <2>4. PendingExact' /\ events_pending' \in Nat
      <3>1. Len(reply) \in Nat /\ Len(event_queue) \in Nat /\ Len(<<>>) = 0
        BY <2>3, LenProperties
      <3>2. events_pending = Len(event_queue) + Len(reply)
        BY DEF IInv, PendingExact
      <3>3. event_queue' = event_queue
        BY <2>1 DEF manager
      <3>4. QED
        BY <2>1, <3>1, <3>2, <3>3 DEF PendingExact
    <2>5. TypeOK'
      BY <2>1, <2>3, <2>4 DEF IInv, TypeOK, Events, environment, manager
    <2>6. Stages'
      BY <2>1 DEF Stages
    <2>7. MessagesFit'
      BY <2>1, MessagesUntouched DEF IInv, environment, manager
    <2>8. StreamFits'
      <3>1. EventStream = reply \o event_queue /\ EventStream' = reply \o event_queue
        BY <2>1, <2>2, <2>3, ConcatEmptySeq DEF EventStream, manager
      <3>2. View' = View
        BY <2>1 DEF View, Announced, manager
      <3>3. QED
        BY <2>1, <3>1, <3>2 DEF IInv, StreamFits
    <2>9. QED
      BY <2>4, <2>5, <2>6, <2>7, <2>8 DEF IInv
  <1>3. CASE TakeEvent
    <2>1. UNCHANGED <<environment, manager, events_pending, request, reply, aborted>>
      BY <1>3 DEF TakeEvent
    <2>2. /\ batch' \in Seq(Events) /\ known' \in Views /\ StreamFits'
          /\ request = "none" /\ reply = <<>>
      BY <1>3, TakeEffect
    <2>3. TypeOK'
      BY <2>1, <2>2 DEF IInv, TypeOK, Events, Views, environment, manager
    <2>4. PendingExact' /\ Stages'
      BY <2>1, <2>2 DEF IInv, PendingExact, Stages, manager
    <2>5. MessagesFit'
      BY <2>1, MessagesUntouched DEF IInv, environment, manager
    <2>6. QED
      BY <2>2, <2>3, <2>4, <2>5 DEF IInv
  <1>4. QED
    BY <1>1, <1>2, <1>3 DEF Client

LEMMA StutterPreserves == IInv /\ UNCHANGED vars => IInv'
  <1> SUFFICES ASSUME IInv, UNCHANGED vars PROVE IInv'
    OBVIOUS
  <1> USE DEF vars, environment, manager, client
  <1>1. TypeOK'
    BY DEF IInv, TypeOK
  <1>2. PendingExact' /\ Stages'
    BY DEF IInv, PendingExact, Stages
  <1>3. MessagesFit'
    BY MessagesUntouched DEF IInv
  <1>4. StreamFits'
    BY DEF IInv, StreamFits, EventStream, View, Announced
  <1>5. QED
    BY <1>1, <1>2, <1>3, <1>4 DEF IInv

LEMMA NextIInv == IInv /\ [Next]_vars => IInv'
  BY EnvironmentPreserves, HandlersPreserve, ClientPreserves, StutterPreserves
     DEF Next, Stopped

-----------------------------------------------------------------------------
(* The inductive invariant holds of every run.                             *)
THEOREM Invariance == Spec => []IInv
  BY InitIInv, NextIInv, PTL DEF Spec

(* The manager, the channel and the client keep the types of mod.rs.       *)
THEOREM TypeCorrect == Spec => []TypeOK
  <1>1. IInv => TypeOK
    BY DEF IInv
  <1>2. QED
    BY <1>1, Invariance, PTL

(* However the threads interleave, the atomic counter is what has been     *)
(* queued and not received: the fetch_sub of get_events never wraps, and   *)
(* an event is never left behind a zero.                                   *)
THEOREM CounterExact == Spec => []PendingExact
  <1>1. IInv => PendingExact
    BY DEF IInv
  <1>2. QED
    BY <1>1, Invariance, PTL

LEMMA InStepNow == IInv => ClientInStep
  <1> SUFFICES ASSUME IInv, EventStream = <<>>
               PROVE  /\ DOMAIN known = Announced
                      /\ \A id \in DOMAIN known :
                           known[id] = IF id \in Slots THEN xinput_devices[id]
                                                       ELSE devices[id]
    BY DEF ClientInStep
  <1>1. known = View
    BY LeadsNowhereElse DEF IInv, StreamFits
  <1>2. QED
    BY <1>1 DEF View

(* A client that has looked at all events has the manager's devices, each  *)
(* with the buffer the manager writes to.                                  *)
THEOREM ClientIsInStep == Spec => []ClientInStep
  BY Invariance, InStepNow, PTL

(* Every event fits the client's devices when its turn comes: the unwrap   *)
(* of State::remove_device does not fail, and no device is added twice.    *)
LEMMA EventFits == IInv => NextEventFits
  <1> SUFFICES ASSUME IInv, batch # <<>>
               PROVE  LET e == Head(batch)
                      IN  IF e.kind = "came" THEN e.device \notin DOMAIN known
                                             ELSE e.device \in DOMAIN known
    BY DEF NextEventFits
  <1>1. /\ batch \in Seq(Events) /\ reply \in Seq(Events) /\ event_queue \in Seq(Events)
        /\ EventStream \in Seq(Events) /\ batch \o reply \in Seq(Events)
    BY StreamType, ConcatProperties DEF IInv
  <1>2. EventStream # <<>> /\ Head(EventStream) = Head(batch)
    <2>1. batch \o reply # <<>> /\ Head(batch \o reply) = Head(batch)
      BY <1>1
    <2>2. QED
      BY <1>1, <2>1 DEF EventStream
  <1>3. PICK k \in Views :
          Applies(known, Head(EventStream), k) /\ Leads(k, Tail(EventStream), View)
    BY <1>1, <1>2, LeadsFirst DEF IInv, StreamFits
  <1>4. QED
    BY <1>2, <1>3 DEF Applies

THEOREM EventsFitTheClient == Spec => []NextEventFits
  BY Invariance, EventFits, PTL

-----------------------------------------------------------------------------
(* The refinement of EventChannel: an event without its buffer.            *)

Strip(s) == [i \in DOMAIN s |-> [kind |-> s[i].kind, device |-> s[i].device]]

(* The events of EventChannel.                                             *)
LogEvents == [kind : {"came", "went"}, device : DeviceIds]

LEMMA StripType ==
  ASSUME NEW s \in Seq(Events)
  PROVE  /\ Strip(s) \in Seq(LogEvents) /\ Len(Strip(s)) = Len(s)
         /\ \A i \in 1..Len(s) :
              Strip(s)[i] = [kind |-> s[i].kind, device |-> s[i].device]
  <1>1. Len(s) \in Nat /\ DOMAIN s = 1..Len(s)
    BY LenProperties
  <1>2. \A i \in 1..Len(s) : s[i] \in Events
    BY ElementOfSeq
  <1>3. \A e \in Events : e.kind \in {"came", "went"} /\ e.device \in DeviceIds
    BY DEF Events, Event
  <1>4. Strip(s) \in [1..Len(s) -> LogEvents]
    BY <1>1, <1>2, <1>3 DEF Strip, LogEvents
  <1>5. Strip(s) \in Seq(LogEvents) /\ Len(Strip(s)) = Len(s)
    BY <1>1, <1>4, FunctionIsSeq
  <1>6. QED
    BY <1>1, <1>5 DEF Strip

LEMMA StripConcat ==
  ASSUME NEW s \in Seq(Events), NEW t \in Seq(Events)
  PROVE  Strip(s \o t) = Strip(s) \o Strip(t)
  <1> DEFINE m == Len(s)
             n == Len(t)
  <1>1. /\ s \o t \in Seq(Events) /\ Len(s \o t) = m + n
        /\ \A i \in 1..(m + n) : (s \o t)[i] = IF i <= m THEN s[i] ELSE t[i - m]
    BY ConcatProperties
  <1>2. /\ Strip(s) \in Seq(LogEvents) /\ Len(Strip(s)) = m
        /\ \A i \in 1..m : Strip(s)[i] = [kind |-> s[i].kind, device |-> s[i].device]
    BY StripType
  <1>3. /\ Strip(t) \in Seq(LogEvents) /\ Len(Strip(t)) = n
        /\ \A i \in 1..n : Strip(t)[i] = [kind |-> t[i].kind, device |-> t[i].device]
    BY StripType
  <1>4. /\ Strip(s \o t) \in Seq(LogEvents) /\ Len(Strip(s \o t)) = m + n
        /\ \A i \in 1..(m + n) : Strip(s \o t)[i] =
             [kind |-> (s \o t)[i].kind, device |-> (s \o t)[i].device]
    BY <1>1, StripType
  <1>5. /\ Strip(s) \o Strip(t) \in Seq(LogEvents)
        /\ Len(Strip(s) \o Strip(t)) = m + n
        /\ \A i \in 1..(m + n) : (Strip(s) \o Strip(t))[i] =
             IF i <= m THEN Strip(s)[i] ELSE Strip(t)[i - m]
    <2>1. /\ Strip(s) \o Strip(t) \in Seq(LogEvents)
          /\ Len(Strip(s) \o Strip(t)) = Len(Strip(s)) + Len(Strip(t))
          /\ \A i \in 1..(Len(Strip(s)) + Len(Strip(t))) : (Strip(s) \o Strip(t))[i] =
               IF i <= Len(Strip(s)) THEN Strip(s)[i] ELSE Strip(t)[i - Len(Strip(s))]
      <3>1. Strip(s) \in Seq(LogEvents) /\ Strip(t) \in Seq(LogEvents)
        BY <1>2, <1>3
      <3>2. QED
        BY <3>1, ConcatProperties
    <2>2. QED
      BY <2>1, <1>2, <1>3
  <1>6. m \in Nat /\ n \in Nat
    BY LenProperties
  <1> HIDE DEF m, n
  <1>7. ASSUME NEW i \in 1..(m + n)
        PROVE  Strip(s \o t)[i] = (Strip(s) \o Strip(t))[i]
    <2>1. CASE i <= m
      <3>1. i \in 1..m
        BY <2>1, <1>6
      <3>2. QED
        BY <2>1, <3>1, <1>1, <1>2, <1>4, <1>5, ZenonT(40)
    <2>2. CASE ~ (i <= m)
      <3>1. i - m \in 1..n
        BY <2>2, <1>6
      <3>2. QED
        BY <2>2, <3>1, <1>1, <1>3, <1>4, <1>5
    <2>3. QED
      BY <2>1, <2>2
  <1>8. QED
    BY <1>4, <1>5, <1>7, SeqEqual

LEMMA StripTail ==
  ASSUME NEW s \in Seq(Events), s # <<>>
  PROVE  /\ Strip(s) # <<>>
         /\ Head(Strip(s)) = [kind |-> Head(s).kind, device |-> Head(s).device]
         /\ Strip(Tail(s)) = Tail(Strip(s))
  <1> DEFINE n == Len(s)
  <1>1. n \in Nat /\ n # 0 /\ 1 \in 1..n
    BY EmptySeq, LenProperties
  <1>2. /\ Head(s) = s[1] /\ Tail(s) \in Seq(Events) /\ Len(Tail(s)) = n - 1
        /\ \A i \in 1..(n - 1) : Tail(s)[i] = s[i + 1]
    BY HeadTailProperties
  <1>3. /\ Strip(s) \in Seq(LogEvents) /\ Len(Strip(s)) = n
        /\ \A i \in 1..n : Strip(s)[i] = [kind |-> s[i].kind, device |-> s[i].device]
    BY StripType
  <1>4. Strip(s) # <<>>
    BY <1>1, <1>3, EmptySeq
  <1>5. /\ Head(Strip(s)) = Strip(s)[1]
        /\ Tail(Strip(s)) \in Seq(LogEvents) /\ Len(Tail(Strip(s))) = n - 1
        /\ \A i \in 1..(n - 1) : Tail(Strip(s))[i] = Strip(s)[i + 1]
    BY <1>3, <1>4, HeadTailProperties, SMTT(40)
  <1>6. /\ Strip(Tail(s)) \in Seq(LogEvents) /\ Len(Strip(Tail(s))) = n - 1
        /\ \A i \in 1..(n - 1) : Strip(Tail(s))[i] =
             [kind |-> Tail(s)[i].kind, device |-> Tail(s)[i].device]
    BY <1>2, StripType
  <1> HIDE DEF n
  <1>7. ASSUME NEW i \in 1..(n - 1)
        PROVE  Strip(Tail(s))[i] = Tail(Strip(s))[i]
    <2>1. i + 1 \in 1..n
      BY <1>1
    <2>2. QED
      BY <2>1, <1>2, <1>3, <1>5, <1>6, ZenonT(40)
  <1>8. Strip(Tail(s)) = Tail(Strip(s))
    BY <1>5, <1>6, <1>7, SeqEqual
  <1>9. QED
    BY <1>1, <1>2, <1>3, <1>4, <1>5, <1>8

(* A client that is left alone while the manager notices: one step of the  *)
(* sender, or none.                                                        *)
LEMMA NoticedStep ==
  ASSUME TypeOK, TypeOK', Noticed, UNCHANGED <<batch, reply, known>>
  PROVE  [Channel!Next]_(Channel!vars)
  <1>1. Announced = DOMAIN View /\ Announced' = DOMAIN View'
    BY DEF View
  <1>2. CASE Keeps
    <2>1. EventStream' = EventStream /\ Announced' = Announced
      BY <1>1, <1>2 DEF Keeps, EventStream
    <2>2. QED
      BY <2>1 DEF Channel!vars
  <1>3. CASE \E left, arrived \in SUBSET DeviceIds : Announces(left, arrived)
    <2>1. PICK left \in SUBSET DeviceIds, arrived \in SUBSET DeviceIds :
            Announces(left, arrived)
      BY <1>3
    <2>2. PICK l \in Channel!Lists(left), a \in Channel!Lists(arrived),
               b \in [arrived -> Buffers] :
            /\ event_queue' = event_queue \o Removals(l) \o Arrivals(a, b)
            /\ left \subseteq Announced /\ IsFiniteSet(left)
            /\ arrived \subseteq DeviceIds \ Announced /\ IsFiniteSet(arrived)
            /\ View' = Joined(Restrict(View, Announced \ left), arrived, b)
      BY <2>1 DEF Announces
    <2>3. /\ Cardinality(left) \in Nat /\ l \in [1..Cardinality(left) -> left]
          /\ Cardinality(arrived) \in Nat /\ a \in [1..Cardinality(arrived) -> arrived]
      BY <2>2, ListProperties
    <2>4. /\ Removals(l) \in Seq(Events)
          /\ Strip(Removals(l)) = [i \in DOMAIN l |-> Channel!Went(l[i])]
      <3>1. Removals(l) \in [1..Cardinality(left) -> Events]
        BY <2>3, EventTypes DEF Removals
      <3>2. Strip(Removals(l)) = [i \in DOMAIN l |-> Channel!Went(l[i])]
        BY DEF Strip, Removals, DeviceRemoved, Channel!Went
      <3>3. QED
        BY <2>3, <3>1, <3>2, FunctionIsSeq
    <2>5. /\ Arrivals(a, b) \in Seq(Events)
          /\ Strip(Arrivals(a, b)) = [i \in DOMAIN a |-> Channel!Came(a[i])]
      <3>1. Arrivals(a, b) \in [1..Cardinality(arrived) -> Events]
        BY <2>3, EventTypes DEF Arrivals
      <3>2. Strip(Arrivals(a, b)) = [i \in DOMAIN a |-> Channel!Came(a[i])]
        BY DEF Strip, Arrivals, DeviceArrived, Channel!Came
      <3>3. QED
        BY <2>3, <3>1, <3>2, FunctionIsSeq
    <2>6. Strip(EventStream') = Strip(EventStream)
                                  \o [i \in DOMAIN l |-> Channel!Went(l[i])]
                                  \o [i \in DOMAIN a |-> Channel!Came(a[i])]
      <3> DEFINE q == batch \o reply
                 r == Removals(l)
                 c == Arrivals(a, b)
      <3>1. q \in Seq(Events) /\ event_queue \in Seq(Events) /\ EventStream \in Seq(Events)
        BY StreamType, ConcatProperties
      <3>2. r \in Seq(Events) /\ c \in Seq(Events)
        BY <2>4, <2>5
      <3>3. EventStream' = q \o ((event_queue \o r) \o c) /\ EventStream = q \o event_queue
        BY <2>2 DEF EventStream
      <3> HIDE DEF q, r, c
      <3>4. event_queue \o r \in Seq(Events) /\ EventStream \o r \in Seq(Events)
        BY <3>1, <3>2, ConcatProperties
      <3>5. EventStream' = (EventStream \o r) \o c
        <4>1. (q \o (event_queue \o r)) \o c = q \o ((event_queue \o r) \o c)
          BY <3>1, <3>2, <3>4, ConcatAssociative, SMTT(40)
        <4>2. (q \o event_queue) \o r = q \o (event_queue \o r)
          BY <3>1, <3>2, ConcatAssociative, SMTT(40)
        <4>3. QED
          BY <3>3, <4>1, <4>2
      <3>6. Strip((EventStream \o r) \o c) = Strip(EventStream \o r) \o Strip(c)
        BY <3>2, <3>4, StripConcat
      <3>7. Strip(EventStream \o r) = Strip(EventStream) \o Strip(r)
        BY <3>1, <3>2, StripConcat
      <3>8. QED
        BY <3>5, <3>6, <3>7, <2>4, <2>5 DEF r, c
    <2>7. Announced' = (Announced \ left) \cup arrived
      BY <1>1, <2>2 DEF Joined, Restrict
    <2>8. Channel!Notice(left, arrived)
      BY <2>2, <2>6, <2>7 DEF Channel!Notice, Strip
    <2>9. QED
      BY <2>1, <2>8 DEF Channel!Next
  <1>4. QED
    BY <1>2, <1>3 DEF Noticed

LEMMA TakeStep ==
  ASSUME IInv, TakeEvent
  PROVE  Channel!Take
  <1> DEFINE e == Head(EventStream)
  <1>1. /\ EventStream # <<>> /\ EventStream' = Tail(EventStream)
        /\ Applies(known, e, known')
    BY TakeEffect
  <1>2. EventStream \in Seq(Events)
    BY StreamType DEF IInv
  <1>3. /\ Strip(EventStream) # <<>>
        /\ Head(Strip(EventStream)) = [kind |-> e.kind, device |-> e.device]
        /\ Strip(EventStream') = Tail(Strip(EventStream))
    BY <1>1, <1>2, StripTail
  <1>4. Announced' = Announced
    BY DEF TakeEvent, manager, Announced
  <1> HIDE DEF e
  <1>5. IF e.kind = "came"
        THEN e.device \notin DOMAIN known /\ DOMAIN known' = DOMAIN known \cup {e.device}
        ELSE e.device \in DOMAIN known /\ DOMAIN known' = DOMAIN known \ {e.device}
    BY <1>1 DEF Applies, With, Without, Restrict
  <1> DEFINE log == [i \in DOMAIN EventStream |->
                       [kind |-> EventStream[i].kind, device |-> EventStream[i].device]]
  <1>6. Strip(EventStream) = log /\ Strip(EventStream') = log'
    BY DEF Strip
  <1>7. /\ log # <<>> /\ log' = Tail(log)
        /\ Head(log).kind = e.kind /\ Head(log).device = e.device
    <2> HIDE DEF log
    <2>1. QED
      BY <1>3, <1>6
  <1>8. QED
    BY <1>4, <1>5, <1>7 DEF Channel!Take

LEMMA ChannelInit == Init => Channel!Init
  <1> SUFFICES ASSUME Init PROVE Channel!Init
    OBVIOUS
  <1>1. EventStream = <<>>
    BY ConcatEmptySeq, EmptySeq DEF Init, EventStream
  <1>2. Strip(EventStream) = <<>>
    BY <1>1 DEF Strip
  <1>3. Announced = {} /\ DOMAIN known = {}
    BY DEF Init, Announced
  <1>4. QED
    BY <1>2, <1>3 DEF Channel!Init, Strip

LEMMA ChannelStep == IInv /\ [Next]_vars => [Channel!Next]_(Channel!vars)
  <1> SUFFICES ASSUME IInv, [Next]_vars PROVE [Channel!Next]_(Channel!vars)
    OBVIOUS
  <1>1. TypeOK /\ TypeOK'
    BY NextIInv DEF IInv
  <1>2. CASE handle_device_change
    <2>1. Noticed /\ UNCHANGED <<batch, reply, known>>
      BY <1>2, ChangeEffect DEF Handled, handle_device_change, client
    <2>2. QED
      BY <1>1, <2>1, NoticedStep
  <1>3. CASE \E h \in Handles : handle_device_input(h)
    <2>1. Noticed /\ UNCHANGED <<batch, reply, known>>
      BY <1>3, InputEffect DEF Handled, handle_device_input, client
    <2>2. QED
      BY <1>1, <2>1, NoticedStep
  <1>4. CASE TakeEvent
    BY <1>4, TakeStep DEF Channel!Next
  <1>5. CASE cmd_get_events \/ ReceiveEvents
    <2>1. EventStream' = EventStream
      <3>1. /\ batch \in Seq(Events) /\ reply \in Seq(Events)
            /\ event_queue \in Seq(Events) /\ <<>> \in Seq(Events)
        BY <1>1, StreamType
      <3>2. CASE cmd_get_events
        <4>1. batch = <<>> /\ reply = <<>> /\ batch' = <<>>
              /\ reply' = event_queue /\ event_queue' = <<>>
          BY <3>2 DEF cmd_get_events, IInv, Stages, client
        <4>2. QED
          BY <3>1, <4>1, ConcatEmptySeq DEF EventStream
      <3>3. CASE ReceiveEvents
        <4>1. batch = <<>> /\ batch' = reply /\ reply' = <<>>
              /\ event_queue' = event_queue
          BY <3>3 DEF ReceiveEvents, IInv, Stages, manager
        <4>2. QED
          BY <3>1, <4>1, ConcatEmptySeq DEF EventStream
      <3>4. QED
        BY <1>5, <3>2, <3>3
    <2>2. Announced' = Announced /\ known' = known
      BY <1>5 DEF Announced, cmd_get_events, ReceiveEvents, manager, client
    <2>3. QED
      BY <2>1, <2>2 DEF Channel!vars
  <1>6. CASE Environment \/ LoadPending \/ UNCHANGED vars
    <2>1. UNCHANGED <<batch, reply, event_queue, devices, xinput_devices, known>>
      BY <1>6 DEF Environment, LoadPending, vars, manager, client
    <2>2. EventStream' = EventStream /\ Announced' = Announced
      BY <2>1 DEF EventStream, Announced
    <2>3. QED
      BY <2>1, <2>2 DEF Channel!vars
  <1>7. QED
    BY <1>2, <1>3, <1>4, <1>5, <1>6 DEF Next, Handlers, Client, Stopped

(* The counter, the command and the reply carry the comings and goings of  *)
(* devices to the game thread in order, each once.                         *)
THEOREM ChannelRefinement == Spec => ImplementsChannel
  BY Invariance, ChannelInit, ChannelStep, PTL DEF Spec, ImplementsChannel, Channel!Spec

-----------------------------------------------------------------------------
(* The manager and the system.  If XInput knows of a change before raw     *)
(* input tells it, and every device can be opened, the manager lags behind *)
(* the system by the messages on their way and by nothing else: they lead  *)
(* from the registered devices to those attached, and a slot it does not   *)
(* know of, or that is gone, is found by the scan of a message to come.    *)
ScanDue ==
  \/ DOMAIN xinput_devices = connected
  \/ \E i \in 1..Len(messages) : messages[i].device \in XInputHandles

Prompt ==
  SlotsFirst /\ ~OpenFailures /\ ~aborted =>
    ChangesTo(DOMAIN devices, messages, plugged) /\ ScanDue

LEMMA PromptInit == Init => Prompt
  <1> SUFFICES ASSUME Init PROVE Prompt
    OBVIOUS
  <1>1. messages = <<>> /\ plugged = {} /\ DOMAIN devices = {}
    BY DEF Init
  <1>2. DOMAIN xinput_devices = {} /\ connected = {}
    BY DEF Init, connected
  <1>3. QED
    BY <1>1, <1>2, NoMessages DEF Prompt, ScanDue

LEMMA PromptSends ==
  ASSUME IInv, Prompt, Environment
  PROVE  Prompt'
  <1> SUFFICES ASSUME SlotsFirst, ~OpenFailures, ~aborted'
               PROVE  ChangesTo(DOMAIN devices, messages, plugged)' /\ ScanDue'
    BY DEF Prompt
  <1>1. PICK h \in Handles : Plug(h) \/ Unplug(h)
    BY DEF Environment
  <1>2. UNCHANGED <<devices, xinput_devices, aborted>>
    BY DEF Environment, manager
  <1>3. PICK m \in Message :
          /\ m.device = h /\ Changes(plugged, m, plugged')
          /\ messages' = Append(messages, m)
    BY <1>1, EnvironmentSends
  <1>4. messages \in Seq(Message) /\ plugged' \in SUBSET Handles
    BY <1>3 DEF IInv, TypeOK, Changes, Message
  <1>5. ChangesTo(DOMAIN devices, messages, plugged) /\ ScanDue
    BY <1>2 DEF Prompt
  <1>6. ChangesTo(DOMAIN devices, messages, plugged)'
    BY <1>2, <1>3, <1>4, <1>5, OneMoreMessage
  <1>7. /\ Len(messages) \in Nat /\ Len(messages') = Len(messages) + 1
        /\ \A i \in 1..Len(messages) : messages'[i] = messages[i]
        /\ messages'[Len(messages) + 1] = m
    BY <1>3, <1>4, AppendProperties, LenProperties
  <1>8. CASE h \in XInputHandles
    <2>1. Len(messages) + 1 \in 1..Len(messages')
      BY <1>7
    <2>2. QED
      BY <1>3, <1>6, <1>7, <1>8, <2>1 DEF ScanDue
  <1>9. CASE h \notin XInputHandles
    <2>1. connected' = connected
      BY <1>1, <1>9 DEF Plug, Unplug, connected
    <2>2. \A i \in 1..Len(messages) : i \in 1..Len(messages')
      BY <1>7
    <2>3. QED
      BY <1>2, <1>5, <1>6, <1>7, <2>1, <2>2 DEF ScanDue
  <1>10. QED
    BY <1>8, <1>9

(* After a scan the slots are those that are connected.                    *)
LEMMA ScanIsCurrent ==
  ASSUME SlotsFirst, NEW exists \in Answering, NEW contents,
         scan_xinput(exists, contents), UNCHANGED slot_of
  PROVE  DOMAIN xinput_devices' = connected'
  <1>1. exists = connected /\ connected' = connected
    BY DEF Answering, connected
  <1>2. DOMAIN xinput_devices' = exists
    BY DEF scan_xinput
  <1>3. QED
    BY <1>1, <1>2

LEMMA ArrivalIsPrompt ==
  ASSUME SlotsFirst, ~OpenFailures, ~aborted', NEW h,
         handle_device_arrival(h), UNCHANGED slot_of
  PROVE  /\ DOMAIN devices' = DOMAIN devices \cup {h}
         /\ IF h \in XInputHandles
            THEN DOMAIN xinput_devices' = connected'
            ELSE xinput_devices' = xinput_devices
  <1>1. "err" \notin open_rawinput_device(h)
    BY DEF open_rawinput_device
  <1>2. \A value : DOMAIN With(devices, h, value) = DOMAIN devices \cup {h}
    BY DEF With
  <1>3. CASE /\ h \in XInputHandles
             /\ devices' = With(devices, h, None)
             /\ \E exists \in Answering : scan_xinput(exists, buffers)
    BY <1>2, <1>3, ScanIsCurrent
  <1>4. CASE /\ h \notin XInputHandles
             /\ \E buffer : devices' = With(devices, h, buffer)
             /\ UNCHANGED xinput_devices
    BY <1>2, <1>4
  <1>5. QED
    BY <1>1, <1>3, <1>4 DEF handle_device_arrival

LEMMA RemovalIsPrompt ==
  ASSUME SlotsFirst, NEW h \in DOMAIN devices,
         handle_device_removal(h), UNCHANGED slot_of
  PROVE  /\ DOMAIN devices' = DOMAIN devices \ {h}
         /\ IF h \in XInputHandles
            THEN DOMAIN xinput_devices' = connected'
            ELSE xinput_devices' = xinput_devices
  <1>1. DOMAIN Without(devices, h) = DOMAIN devices \ {h}
    BY DEF Without, Restrict
  <1>2. QED
    BY <1>1, ScanIsCurrent DEF handle_device_removal

LEMMA PromptHandled ==
  ASSUME IInv, Prompt, ~aborted, handle_device_change
  PROVE  Prompt'
  <1> SUFFICES ASSUME SlotsFirst, ~OpenFailures, ~aborted'
               PROVE  ChangesTo(DOMAIN devices, messages, plugged)' /\ ScanDue'
    BY DEF Prompt
  <1> DEFINE m == Head(messages)
  <1>1. /\ messages # <<>> /\ messages' = Tail(messages)
        /\ UNCHANGED <<plugged, slot_of>>
        /\ IF m.change = "arrival" THEN handle_device_arrival(m.device)
                                   ELSE handle_device_removal(m.device)
    BY DEF handle_device_change
  <1>2. messages \in Seq(Message)
    BY DEF IInv, TypeOK, Message
  <1>3. ChangesTo(DOMAIN devices, messages, plugged) /\ ScanDue
    BY DEF Prompt
  <1>4. PICK r \in SUBSET Handles :
          Changes(DOMAIN devices, m, r) /\ ChangesTo(r, messages', plugged)
    BY <1>1, <1>2, <1>3, OneMessageLess
  <1>5. /\ DOMAIN devices' = r
        /\ IF m.device \in XInputHandles
           THEN DOMAIN xinput_devices' = connected'
           ELSE xinput_devices' = xinput_devices
    <2> HIDE DEF m
    <2>1. CASE m.change = "arrival"
      BY <1>1, <1>4, <2>1, ArrivalIsPrompt DEF Changes
    <2>2. CASE m.change # "arrival"
      BY <1>1, <1>4, <2>2, RemovalIsPrompt DEF Changes
    <2>3. QED
      BY <2>1, <2>2
  <1>6. ChangesTo(DOMAIN devices, messages, plugged)'
    BY <1>1, <1>4, <1>5
  <1>7. ScanDue'
    <2>1. CASE DOMAIN xinput_devices' = connected'
      BY <2>1 DEF ScanDue
    <2>2. CASE m.device \notin XInputHandles /\ DOMAIN xinput_devices # connected
      <3>1. PICK i \in 1..Len(messages) : messages[i].device \in XInputHandles
        BY <1>3, <2>2 DEF ScanDue
      <3>2. m = messages[1]
        BY <1>1, <1>2
      <3>3. i # 1
        BY <2>2, <3>1, <3>2
      <3>4. /\ Len(messages) \in Nat /\ Len(messages') = Len(messages) - 1
            /\ \A j \in 1..Len(messages') : messages'[j] = messages[j + 1]
        BY <1>1, <1>2, HeadTailProperties, LenProperties
      <3>5. i - 1 \in 1..Len(messages') /\ (i - 1) + 1 = i
        BY <3>3, <3>4
      <3>6. messages'[i - 1].device \in XInputHandles
        BY <3>1, <3>4, <3>5
      <3>7. QED
        BY <3>5, <3>6 DEF ScanDue
    <2>3. m.device \notin XInputHandles =>
            xinput_devices' = xinput_devices /\ connected' = connected
      BY <1>1, <1>5 DEF connected
    <2>4. QED
      BY <1>5, <2>1, <2>2, <2>3
  <1>8. QED
    BY <1>6, <1>7

LEMMA PromptKept ==
  ASSUME Prompt, UNCHANGED <<plugged, slot_of, messages, devices, aborted>>,
         \/ UNCHANGED xinput_devices
         \/ SlotsFirst => DOMAIN xinput_devices' = connected'
  PROVE  Prompt'
  <1>1. connected' = connected
    BY DEF connected
  <1>2. QED
    BY <1>1 DEF Prompt, ScanDue

LEMMA PromptNext == IInv /\ Prompt /\ [Next]_vars => Prompt'
  <1> SUFFICES ASSUME IInv, Prompt, [Next]_vars PROVE Prompt'
    OBVIOUS
  <1>1. CASE ~aborted /\ Environment
    BY <1>1, PromptSends
  <1>2. CASE ~aborted /\ handle_device_change
    BY <1>2, PromptHandled
  <1>3. CASE \E h \in Handles : handle_device_input(h)
    <2>1. PICK h \in Handles : handle_device_input(h)
      BY <1>3
    <2>2. UNCHANGED <<plugged, slot_of, messages, devices, aborted>>
      BY <2>1 DEF handle_device_input, environment
    <2>3. CASE h \notin XInputHandles
      BY <2>1, <2>2, <2>3, PromptKept DEF handle_device_input, handle_input
    <2>4. CASE h \in XInputHandles
      <3>1. PICK answer \in [Slots -> Inputs] : read_xinput(answer)
        BY <2>1, <2>4 DEF handle_device_input
      <3>2. \/ UNCHANGED xinput_devices
            \/ \E exists \in Answering : \E contents : scan_xinput(exists, contents)
        BY <3>1 DEF read_xinput
      <3>3. QED
        BY <2>2, <3>2, ScanIsCurrent, PromptKept
    <2>5. QED
      BY <2>3, <2>4
  <1>4. CASE cmd_get_events \/ Client \/ UNCHANGED vars
    <2>1. UNCHANGED <<plugged, slot_of, messages, devices, xinput_devices, aborted>>
      BY <1>4 DEF cmd_get_events, Client, LoadPending, ReceiveEvents, TakeEvent,
                  vars, environment, manager
    <2>2. QED
      BY <2>1, PromptKept
  <1>5. QED
    BY <1>1, <1>2, <1>3, <1>4 DEF Next, Handlers, Stopped

(* With nothing on its way, the manager has exactly the devices that are   *)
(* attached and the slots that are connected: a change is never missed.    *)
ManagerInStep ==
  messages = <<>> /\ ~aborted =>
    DOMAIN devices = plugged /\ DOMAIN xinput_devices = connected

LEMMA ManagerInStepNow ==
  TypeOK /\ Prompt => (SlotsFirst /\ ~OpenFailures => ManagerInStep)
  <1> SUFFICES ASSUME TypeOK, Prompt, SlotsFirst, ~OpenFailures,
                      messages = <<>>, ~aborted
               PROVE  DOMAIN devices = plugged /\ DOMAIN xinput_devices = connected
    BY DEF ManagerInStep
  <1>1. ChangesTo(DOMAIN devices, <<>>, plugged) /\ ScanDue
    BY DEF Prompt
  <1>2. DOMAIN devices \in SUBSET Handles
    BY Domains
  <1>3. Len(messages) = 0
    OBVIOUS
  <1>4. QED
    BY <1>1, <1>2, <1>3, NoMessages DEF ScanDue

THEOREM ManagerIsInStep == Spec => [](SlotsFirst /\ ~OpenFailures => ManagerInStep)
  <1>1. IInv => TypeOK
    BY DEF IInv
  <1>2. QED
    BY <1>1, Invariance, PromptInit, PromptNext, ManagerInStepNow, PTL DEF Spec

===============================================================================
