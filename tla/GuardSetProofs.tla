--------------------------- MODULE GuardSetProofs ---------------------------
(***************************************************************************)
(* For every set of guards, every hash of them, every threshold and set of *)
(* table lengths: the set mirrors the stack, a probe finds what is there   *)
(* and ends where it is not, and GuardSet implements GuardStack.           *)
(*                                                                         *)
(* The argument is about a table t of n slots that holds the first m       *)
(* guards of gs, oldest first (Holds).  Putting the next guard and taking  *)
(* away the newest keep it; the loops only do these two.                   *)
(***************************************************************************)
EXTENDS GuardSet, FiniteSetTheorems, WellFoundedInduction, TLAPS

At(t, n, e, k) == t[(Hash[e] + k) % n]
StopsAt(t, n, e, k) == At(t, n, e, k) \in {Free, e}

(* find: the first stop of e's probe. *)
First(t, n, e) ==
    (Hash[e] + (CHOOSE k \in 0..(n - 1) :
                  StopsAt(t, n, e, k) /\ \A j \in 0..(k - 1) : ~StopsAt(t, n, e, j))) % n

(* Guards are unique (enterBackEdge refuses a second one). *)
Distinct(gs) == \A g, o \in DOMAIN gs : gs[g] = gs[o] => g = o

(* The table has the first m guards, each in one slot, and nothing else.   *)
Mirror(t, gs, m) ==
    /\ \A i \in DOMAIN t : t[i] # Free =>
          /\ \E g \in 1..m : gs[g] = t[i]
          /\ \A j \in DOMAIN t : t[j] = t[i] => j = i
    /\ \A g \in 1..m : \E i \in DOMAIN t : t[i] = gs[g]

(* Between a guard's first slot and its own there are only older guards.   *)
Crosses(t, n, gs, m) ==
    \A g \in 1..m : \E k \in 0..(n - 1) :
        /\ At(t, n, gs[g], k) = gs[g]
        /\ \A j \in 0..(k - 1) : \E o \in 1..(g - 1) : At(t, n, gs[g], j) = gs[o]

Table(t, n) == n \in Nat /\ t \in [0..(n - 1) -> Keys \cup {Free}]
Guards(gs)  == gs \in Seq(Keys) /\ Distinct(gs)

Holds(t, n, gs, m) ==
    /\ Table(t, n) /\ Guards(gs) /\ m \in 0..Len(gs)
    /\ Mirror(t, gs, m) /\ Crosses(t, n, gs, m)

USE GuardSetAssumption
-----------------------------------------------------------------------------
(* Numbers. *)

(* Division leaves a remainder. *)
LEMMA DivMod ==
    ASSUME NEW a \in Nat, NEW n \in Nat \ {0}
    PROVE  a % n \in 0..(n - 1) /\ a \div n \in Nat /\ a = n * (a \div n) + (a % n)
OBVIOUS

(* And only one. *)
LEMMA ModUnique ==
    ASSUME NEW n \in Nat \ {0}, NEW q \in Nat, NEW s \in 0..(n - 1)
    PROVE  (n * q + s) % n = s
OBVIOUS

(* A linear probe comes by every slot of the table (core.zig:84). *)
LEMMA ProbeReaches ==
    ASSUME NEW n \in Nat \ {0}, NEW h \in Nat, NEW s \in 0..(n - 1)
    PROVE  \E k \in 0..(n - 1) : (h + k) % n = s
<1> DEFINE a == h % n
           q == h \div n
<1>1. a \in 0..(n - 1) /\ q \in Nat /\ h = n * q + a
  BY DivMod
<1>2. CASE s >= a
  <2>1. s - a \in 0..(n - 1) /\ h + (s - a) = n * q + s
    BY <1>1, <1>2
  <2>2. (n * q + s) % n = s
    BY <1>1, ModUnique
  <2>3. (h + (s - a)) % n = s
    BY <2>1, <2>2
  <2> HIDE DEF a, q
  <2>4. QED
    BY <2>1, <2>3
<1>3. CASE s < a
  <2>1. s - a + n \in 0..(n - 1) /\ h + (s - a + n) = n * (q + 1) + s /\ q + 1 \in Nat
    BY <1>1, <1>3
  <2>2. (n * (q + 1) + s) % n = s
    BY <2>1, ModUnique
  <2>3. (h + (s - a + n)) % n = s
    BY <2>1, <2>2
  <2> HIDE DEF a, q
  <2>4. QED
    BY <2>1, <2>3
<1>4. QED
  BY <1>1, <1>2, <1>3

(* A set of naturals that is not empty has a least element. *)
LEMMA LeastNumber ==
    ASSUME NEW T, T \subseteq Nat, T # {}
    PROVE  \E x \in T : \A y \in T : x <= y
<1>1. \E x \in T : \A y \in T : ~(<<y, x>> \in OpToRel(<, Nat))
  BY NatLessThanWellFounded, WFMin
<1>2. \A x, y \in Nat : x < y => <<x, y>> \in OpToRel(<, Nat)
  BY Zenon DEF OpToRel
<1>3. \E x \in T : \A y \in T : ~(y < x)
  BY <1>1, <1>2, Zenon
<1>4. QED
  BY <1>3

-----------------------------------------------------------------------------
(* Probing. *)

(* A slot of a probe is a slot of the table. *)
LEMMA SlotInTable ==
    ASSUME NEW n \in Nat \ {0}, NEW e \in Keys, NEW k \in Nat
    PROVE  (Hash[e] + k) % n \in 0..(n - 1)
<1>1. Hash[e] + k \in Nat
  OBVIOUS
<1>2. QED
  BY <1>1, DivMod

(* Where a probe can stop, find stops, at the first place (core.zig:84-91). *)
LEMMA FirstStops ==
    ASSUME NEW n \in Nat, NEW t, NEW e \in Keys, NEW i \in 0..(n - 1), t[i] \in {Free, e}
    PROVE  \E k \in 0..(n - 1) :
              /\ First(t, n, e) = (Hash[e] + k) % n
              /\ StopsAt(t, n, e, k)
              /\ \A j \in 0..(k - 1) : ~StopsAt(t, n, e, j)
<1> DEFINE T == {k \in 0..(n - 1) : StopsAt(t, n, e, k)}
           P(k) == StopsAt(t, n, e, k) /\ \A j \in 0..(k - 1) : ~StopsAt(t, n, e, j)
<1>1. n \in Nat \ {0} /\ Hash[e] \in Nat
  OBVIOUS
<1>2. PICK s \in 0..(n - 1) : (Hash[e] + s) % n = i
  BY <1>1, ProbeReaches
<1>3. s \in T /\ T \subseteq Nat
  BY <1>2 DEF StopsAt, At
<1>4. \E k \in T : \A y \in T : k <= y
  <2> HIDE DEF T
  <2>1. QED
    BY <1>3, LeastNumber
<1>5. \E k \in 0..(n - 1) : P(k)
  BY <1>4
<1>6. (CHOOSE x \in 0..(n - 1) : P(x)) \in 0..(n - 1) /\ P(CHOOSE x \in 0..(n - 1) : P(x))
  BY <1>5
<1>7. First(t, n, e) = (Hash[e] + (CHOOSE x \in 0..(n - 1) : P(x))) % n
  BY DEF First
<1>8. QED
  BY <1>6, <1>7

(* A first stop is the only one: whatever k is a stop with none before it  *)
(* is the one find takes (core.zig:84).                                    *)
LEMMA FirstIs ==
    ASSUME NEW n \in Nat, NEW t, NEW e \in Keys, NEW k \in 0..(n - 1),
           StopsAt(t, n, e, k), \A j \in 0..(k - 1) : ~StopsAt(t, n, e, j)
    PROVE  First(t, n, e) = (Hash[e] + k) % n
<1>1. (Hash[e] + k) % n \in 0..(n - 1) /\ t[(Hash[e] + k) % n] \in {Free, e}
  BY SlotInTable DEF StopsAt, At
<1>2. PICK l \in 0..(n - 1) : /\ First(t, n, e) = (Hash[e] + l) % n
                              /\ StopsAt(t, n, e, l)
                              /\ \A j \in 0..(l - 1) : ~StopsAt(t, n, e, j)
  BY <1>1, FirstStops
<1>3. ~(l < k) /\ ~(k < l)
  BY <1>2
<1>4. l = k
  BY <1>3
<1>5. QED
  BY <1>2, <1>4

-----------------------------------------------------------------------------
(* A table that holds the first m guards. *)

(* It is never full: each slot in use has a guard of its own (core.zig:59).*)
LEMMA FreeSlot ==
    ASSUME NEW t, NEW n, NEW gs, NEW m, Holds(t, n, gs, m), m < n
    PROVE  \E i \in 0..(n - 1) : t[i] = Free
<1> SUFFICES ASSUME \A i \in 0..(n - 1) : t[i] # Free
             PROVE  FALSE
  OBVIOUS
<1> DEFINE f == [i \in 0..(n - 1) |-> CHOOSE g \in 1..m : gs[g] = t[i]]
<1>1. n \in Nat /\ m \in Nat /\ DOMAIN t = 0..(n - 1)
  BY DEF Holds, Table, Guards
<1>2. \A i \in 0..(n - 1) : f[i] \in 1..m /\ gs[f[i]] = t[i]
  BY <1>1 DEF Holds, Mirror
<1>3. f \in [0..(n - 1) -> 1..m]
  BY <1>2
<1> HIDE DEF f
<1>4. ASSUME NEW i \in 0..(n - 1), NEW j \in 0..(n - 1), f[i] = f[j]
      PROVE  i = j
  <2>1. t[i] = t[j]
    BY <1>2, <1>4
  <2>2. QED
    BY <1>1, <2>1 DEF Holds, Mirror
<1>5. f \in Injection(0..(n - 1), 1..m)
  BY <1>3, <1>4 DEF Injection, IsInjective
<1>6. IsFiniteSet(1..m) /\ Cardinality(1..m) = m /\ Cardinality(0..(n - 1)) = n
  BY <1>1, FS_Interval
<1>7. Cardinality(0..(n - 1)) <= Cardinality(1..m)
  BY <1>5, <1>6, FS_Injection
<1>8. QED
  BY <1>1, <1>6, <1>7

(* A guard that is there is found where it is (core.zig:93).               *)
LEMMA FindsPresent ==
    ASSUME NEW t, NEW n, NEW gs, NEW m, Holds(t, n, gs, m), NEW g \in 1..m
    PROVE  First(t, n, gs[g]) \in 0..(n - 1) /\ t[First(t, n, gs[g])] = gs[g]
<1>1. n \in Nat /\ gs[g] \in Keys /\ \A o \in 1..(g - 1) : gs[o] \in Keys /\ gs[o] # gs[g]
  BY DEF Holds, Table, Guards, Distinct
<1>2. PICK k \in 0..(n - 1) :
          /\ At(t, n, gs[g], k) = gs[g]
          /\ \A j \in 0..(k - 1) : \E o \in 1..(g - 1) : At(t, n, gs[g], j) = gs[o]
  BY DEF Holds, Crosses
<1>3. StopsAt(t, n, gs[g], k) /\ \A j \in 0..(k - 1) : ~StopsAt(t, n, gs[g], j)
  BY <1>1, <1>2 DEF StopsAt
<1>4. First(t, n, gs[g]) = (Hash[gs[g]] + k) % n
  BY <1>1, <1>3, FirstIs
<1>5. QED
  BY <1>1, <1>2, <1>4, SlotInTable DEF At

(* A guard that is not there is given a free slot, behind older guards     *)
(* only (core.zig:84).                                                     *)
LEMMA FindsFree ==
    ASSUME NEW t, NEW n, NEW gs, NEW m, Holds(t, n, gs, m), m < n,
           NEW e \in Keys, \A g \in 1..m : gs[g] # e
    PROVE  \E k \in 0..(n - 1) :
              /\ First(t, n, e) = (Hash[e] + k) % n
              /\ First(t, n, e) \in 0..(n - 1)
              /\ t[First(t, n, e)] = Free
              /\ \A j \in 0..(k - 1) : \E o \in 1..m : At(t, n, e, j) = gs[o]
<1>1. n \in Nat \ {0} /\ DOMAIN t = 0..(n - 1) /\ Mirror(t, gs, m)
  BY DEF Holds, Table
<1>2. PICK i \in 0..(n - 1) : t[i] = Free
  BY FreeSlot
<1>3. PICK k \in 0..(n - 1) : /\ First(t, n, e) = (Hash[e] + k) % n
                              /\ StopsAt(t, n, e, k)
                              /\ \A j \in 0..(k - 1) : ~StopsAt(t, n, e, j)
  BY <1>1, <1>2, FirstStops
<1>4. First(t, n, e) \in 0..(n - 1)
  BY <1>1, <1>3, SlotInTable
<1>5. t[First(t, n, e)] = Free
  BY <1>1, <1>3, <1>4 DEF StopsAt, At, Mirror
<1>6. ASSUME NEW j \in 0..(k - 1)
      PROVE  \E o \in 1..m : At(t, n, e, j) = gs[o]
  <2>1. (Hash[e] + j) % n \in DOMAIN t
    <3>1. j \in Nat
      OBVIOUS
    <3>2. QED
      BY <1>1, <3>1, SlotInTable
  <2>2. t[(Hash[e] + j) % n] # Free
    BY <1>3 DEF StopsAt, At
  <2>3. QED
    BY <1>1, <2>1, <2>2 DEF Mirror, At
<1>7. QED
  BY <1>3, <1>4, <1>5, <1>6

(* A cleared table holds none (core.zig:77).                               *)
LEMMA EmptyHolds ==
    ASSUME NEW n \in Nat, NEW gs, Guards(gs)
    PROVE  Holds(Empty(n), n, gs, 0)
BY DEF Holds, Table, Guards, Mirror, Crosses, Empty

(* A table that holds none is clear (core.zig:65: "With `count == 0` every *)
(* slot is free").                                                         *)
LEMMA NoneIsEmpty ==
    ASSUME NEW t, NEW n, NEW gs, Holds(t, n, gs, 0)
    PROVE  t = Empty(n)
<1>1. \A i \in 0..(n - 1) : t[i] = Free
  BY DEF Holds, Table, Mirror
<1>2. QED
  BY <1>1 DEF Holds, Table, Empty

(* What is above the first m guards of the stack does not matter to it.    *)
LEMMA HoldsPrefix ==
    ASSUME NEW t, NEW n, NEW gs, NEW m, Holds(t, n, gs, m),
           NEW hs, Guards(hs), m <= Len(hs), \A g \in 1..m : hs[g] = gs[g]
    PROVE  Holds(t, n, hs, m)
<1>1. m \in 0..Len(hs) /\ m \in Nat
  BY DEF Holds, Guards
<1>2. Mirror(t, hs, m)
  BY DEF Holds, Mirror
<1>3. ASSUME NEW g \in 1..m
      PROVE  \E k \in 0..(n - 1) :
                /\ At(t, n, hs[g], k) = hs[g]
                /\ \A j \in 0..(k - 1) : \E o \in 1..(g - 1) : At(t, n, hs[g], j) = hs[o]
  <2>1. PICK k \in 0..(n - 1) :
                /\ At(t, n, gs[g], k) = gs[g]
                /\ \A j \in 0..(k - 1) : \E o \in 1..(g - 1) : At(t, n, gs[g], j) = gs[o]
    BY DEF Holds, Crosses
  <2>2. \A o \in 1..(g - 1) : o \in 1..m
    BY <1>1
  <2>3. QED
    BY <2>1, <2>2
<1>4. QED
  BY <1>1, <1>2, <1>3 DEF Holds, Crosses

(* put: the next guard of the stack (core.zig:117).                        *)
LEMMA PutHolds ==
    ASSUME NEW t, NEW n, NEW gs, NEW m, Holds(t, n, gs, m), m < n, m < Len(gs)
    PROVE  Holds([t EXCEPT ![First(t, n, gs[m + 1])] = gs[m + 1]], n, gs, m + 1)
<1> DEFINE e == gs[m + 1]
           i == First(t, n, e)
           u == [t EXCEPT ![i] = e]
<1>1. /\ n \in Nat \ {0} /\ m \in Nat /\ m + 1 \in 0..Len(gs) /\ m + 1 \in DOMAIN gs
      /\ DOMAIN t = 0..(n - 1) /\ t \in [0..(n - 1) -> Keys \cup {Free}]
      /\ Mirror(t, gs, m) /\ Crosses(t, n, gs, m)
      /\ \A g \in 1..m : gs[g] \in Keys /\ g \in DOMAIN gs
  BY DEF Holds, Table, Guards
<1>2. e \in Keys /\ \A g \in 1..m : gs[g] # e
  <2>1. gs \in Seq(Keys) /\ \A g, o \in DOMAIN gs : gs[g] = gs[o] => g = o
    BY DEF Holds, Guards, Distinct
  <2>2. e \in Keys
    BY <1>1, <2>1
  <2>3. ASSUME NEW g \in 1..m
        PROVE  gs[g] # e
    <3>1. g # m + 1 /\ g \in DOMAIN gs
      BY <1>1
    <3>2. QED
      BY <1>1, <2>1, <3>1, Zenon
  <2>4. QED
    BY <2>2, <2>3
<1> HIDE DEF e
<1>3. PICK k \in 0..(n - 1) :
          /\ i = (Hash[e] + k) % n /\ i \in 0..(n - 1) /\ t[i] = Free
          /\ \A j \in 0..(k - 1) : \E o \in 1..m : At(t, n, e, j) = gs[o]
  BY <1>2, FindsFree
<1> HIDE DEF i
<1>4. /\ u \in [0..(n - 1) -> Keys \cup {Free}] /\ u[i] = e
      /\ \A j \in 0..(n - 1) : j # i => u[j] = t[j]
  BY <1>1, <1>2, <1>3
<1> HIDE DEF u
<1>5. Mirror(u, gs, m + 1)
  <2>1. ASSUME NEW j \in 0..(n - 1), u[j] # Free
        PROVE  /\ \E g \in 1..(m + 1) : gs[g] = u[j]
               /\ \A l \in 0..(n - 1) : u[l] = u[j] => l = j
    <3>1. CASE j = i
      <4>1. ASSUME NEW l \in 0..(n - 1), l # i
            PROVE  u[l] # e
        <5>1. t[l] # Free => \E g \in 1..m : gs[g] = t[l]
          BY <1>1 DEF Mirror
        <5>2. t[l] # e
          BY <1>2, <5>1
        <5>3. QED
          BY <1>4, <4>1, <5>2
      <4>2. m + 1 \in 1..(m + 1) /\ gs[m + 1] = u[j]
        BY <1>1, <1>4, <3>1 DEF e
      <4>3. \E g \in 1..(m + 1) : gs[g] = u[j]
        BY <4>2, Zenon
      <4>4. u[j] = e
        BY <1>4, <3>1
      <4>5. \A l \in 0..(n - 1) : u[l] = u[j] => l = j
        BY <3>1, <4>1, <4>4
      <4>6. QED
        BY <4>3, <4>5
    <3>2. CASE j # i
      <4>1. t[j] # Free /\ u[j] = t[j]
        BY <1>4, <2>1, <3>2
      <4>2. (\E g \in 1..m : gs[g] = t[j]) /\ \A l \in 0..(n - 1) : t[l] = t[j] => l = j
        BY <1>1, <4>1 DEF Mirror
      <4>3. t[j] # e
        BY <1>2, <4>2
      <4>4. \E g \in 1..(m + 1) : gs[g] = u[j]
        <5>1. \A g \in 1..m : g \in 1..(m + 1)
          BY <1>1
        <5>2. QED
          BY <4>1, <4>2, <5>1, Zenon
      <4>5. \A l \in 0..(n - 1) : u[l] = u[j] => l = j
        BY <1>4, <4>1, <4>2, <4>3
      <4>6. QED
        BY <4>4, <4>5, Zenon
    <3>3. QED
      BY <3>1, <3>2
  <2>2. ASSUME NEW g \in 1..(m + 1)
        PROVE  \E j \in 0..(n - 1) : u[j] = gs[g]
    <3>1. CASE g = m + 1
      BY <1>3, <1>4, <3>1 DEF e
    <3>2. CASE g \in 1..m
      <4>1. PICK j \in 0..(n - 1) : t[j] = gs[g]
        BY <1>1, <3>2 DEF Mirror
      <4>2. t[j] # Free
        BY <1>1, <3>2, <4>1
      <4>3. QED
        BY <1>3, <1>4, <4>1, <4>2
    <3>3. QED
      BY <1>1, <3>1, <3>2
  <2>3. DOMAIN u = 0..(n - 1)
    BY <1>4
  <2>4. QED
    BY <2>1, <2>2, <2>3 DEF Mirror
<1>6. Crosses(u, n, gs, m + 1)
  <2>1. ASSUME NEW x \in Keys, NEW j \in Nat, NEW o \in 1..m, At(t, n, x, j) = gs[o]
        PROVE  At(u, n, x, j) = gs[o]
    <3>1. (Hash[x] + j) % n \in 0..(n - 1)
      BY <1>1, SlotInTable
    <3>2. gs[o] # Free
      BY <1>1
    <3>3. QED
      BY <1>3, <1>4, <2>1, <3>1, <3>2 DEF At
  <2>2. ASSUME NEW g \in 1..(m + 1)
        PROVE  \E l \in 0..(n - 1) :
                  /\ At(u, n, gs[g], l) = gs[g]
                  /\ \A j \in 0..(l - 1) : \E o \in 1..(g - 1) : At(u, n, gs[g], j) = gs[o]
    <3>1. CASE g = m + 1
      <4>1. At(u, n, e, k) = e
        BY <1>3, <1>4 DEF At
      <4>2. \A j \in 0..(k - 1) : \E o \in 1..m : At(u, n, e, j) = gs[o]
        BY <1>2, <1>3, <2>1
      <4>3. gs[g] = e /\ g - 1 = m
        BY <1>1, <3>1 DEF e
      <4>4. QED
        BY <4>1, <4>2, <4>3
    <3>2. CASE g \in 1..m
      <4>1. PICK l \in 0..(n - 1) :
                /\ At(t, n, gs[g], l) = gs[g]
                /\ \A j \in 0..(l - 1) : \E o \in 1..(g - 1) : At(t, n, gs[g], j) = gs[o]
        BY <1>1, <3>2 DEF Crosses
      <4>2. At(u, n, gs[g], l) = gs[g]
        BY <1>1, <2>1, <3>2, <4>1
      <4>3. \A o \in 1..(g - 1) : o \in 1..m
        BY <1>1, <3>2
      <4>4. \A j \in 0..(l - 1) : \E o \in 1..(g - 1) : At(u, n, gs[g], j) = gs[o]
        <5>1. \A j \in 0..(l - 1) : j \in Nat
          OBVIOUS
        <5>2. gs[g] \in Keys
          BY <1>1, <3>2
        <5>3. ASSUME NEW j \in 0..(l - 1)
              PROVE  \E o \in 1..(g - 1) : At(u, n, gs[g], j) = gs[o]
          <6>1. PICK o \in 1..(g - 1) : At(t, n, gs[g], j) = gs[o]
            BY <4>1
          <6>2. At(u, n, gs[g], j) = gs[o]
            BY <2>1, <4>3, <5>1, <5>2, <6>1
          <6>3. QED
            BY <6>2
        <5>4. QED
          BY <5>3
      <4>5. QED
        BY <4>2, <4>4
    <3>3. QED
      BY <1>1, <3>1, <3>2
  <2>3. QED
    BY <2>2 DEF Crosses
<1>7. Holds(u, n, gs, m + 1)
  BY <1>1, <1>4, <1>5, <1>6 DEF Holds, Table
<1>8. QED
  BY <1>7 DEF u, i, e

(* removeNewest: the last of the guards it holds (core.zig:136).           *)
LEMMA RemoveHolds ==
    ASSUME NEW t, NEW n, NEW gs, NEW m, Holds(t, n, gs, m), m > 0
    PROVE  Holds([t EXCEPT ![First(t, n, gs[m])] = Free], n, gs, m - 1)
<1> DEFINE e == gs[m]
           i == First(t, n, e)
           u == [t EXCEPT ![i] = Free]
<1>1. /\ n \in Nat /\ m \in 1..m /\ m \in Nat /\ m - 1 \in 0..Len(gs)
      /\ DOMAIN t = 0..(n - 1) /\ t \in [0..(n - 1) -> Keys \cup {Free}]
      /\ Mirror(t, gs, m) /\ Crosses(t, n, gs, m)
      /\ \A g \in 1..m : gs[g] \in Keys /\ g \in DOMAIN gs
  BY DEF Holds, Table, Guards
<1>2. e \in Keys /\ \A g \in 1..(m - 1) : g \in 1..m /\ gs[g] # e
  BY <1>1 DEF Holds, Guards, Distinct
<1>3. i \in 0..(n - 1) /\ t[i] = e
  BY <1>1, FindsPresent
<1> HIDE DEF e, i
<1>4. /\ u \in [0..(n - 1) -> Keys \cup {Free}] /\ DOMAIN u = 0..(n - 1) /\ u[i] = Free
      /\ \A j \in 0..(n - 1) : j # i => u[j] = t[j]
  BY <1>1, <1>3
<1> HIDE DEF u
<1>5. Mirror(u, gs, m - 1)
  <2>1. ASSUME NEW j \in 0..(n - 1), u[j] # Free
        PROVE  /\ \E g \in 1..(m - 1) : gs[g] = u[j]
               /\ \A l \in 0..(n - 1) : u[l] = u[j] => l = j
    <3>1. j # i /\ u[j] = t[j] /\ t[j] # Free
      BY <1>4, <2>1
    <3>2. (\E g \in 1..m : gs[g] = t[j]) /\ \A l \in 0..(n - 1) : t[l] = t[j] => l = j
      BY <1>1, <3>1 DEF Mirror
    <3>3. t[j] # e
      BY <1>3, <3>1, <3>2
    <3>4. \E g \in 1..(m - 1) : gs[g] = t[j]
      BY <1>1, <3>2, <3>3 DEF e
    <3>5. QED
      BY <1>4, <2>1, <3>1, <3>2, <3>4
  <2>2. ASSUME NEW g \in 1..(m - 1)
        PROVE  \E j \in 0..(n - 1) : u[j] = gs[g]
    <3>1. PICK j \in 0..(n - 1) : t[j] = gs[g]
      BY <1>1, <1>2 DEF Mirror
    <3>2. QED
      BY <1>2, <1>3, <1>4, <3>1
  <2>3. QED
    BY <1>4, <2>1, <2>2 DEF Mirror
<1>6. Crosses(u, n, gs, m - 1)
  <2>1. ASSUME NEW x \in Keys, NEW j \in Nat, NEW o \in 1..(m - 1), At(t, n, x, j) = gs[o]
        PROVE  At(u, n, x, j) = gs[o]
    <3>1. n \in Nat \ {0}
      BY <1>1, <1>3
    <3>2. (Hash[x] + j) % n \in 0..(n - 1)
      BY <3>1, SlotInTable
    <3>3. QED
      BY <1>2, <1>3, <1>4, <2>1, <3>2 DEF At
  <2>2. ASSUME NEW g \in 1..(m - 1)
        PROVE  \E l \in 0..(n - 1) :
                  /\ At(u, n, gs[g], l) = gs[g]
                  /\ \A j \in 0..(l - 1) : \E o \in 1..(g - 1) : At(u, n, gs[g], j) = gs[o]
    <3>1. PICK l \in 0..(n - 1) :
                /\ At(t, n, gs[g], l) = gs[g]
                /\ \A j \in 0..(l - 1) : \E o \in 1..(g - 1) : At(t, n, gs[g], j) = gs[o]
      BY <1>1, <1>2 DEF Crosses
    <3>2. At(u, n, gs[g], l) = gs[g]
      BY <1>1, <1>2, <2>1, <3>1
    <3>3. \A o \in 1..(g - 1) : o \in 1..(m - 1)
      BY <1>1
    <3>4. \A j \in 0..(l - 1) : \E o \in 1..(g - 1) : At(u, n, gs[g], j) = gs[o]
      <4>1. \A j \in 0..(l - 1) : j \in Nat
        OBVIOUS
      <4>2. gs[g] \in Keys
        BY <1>1, <1>2
      <4>3. ASSUME NEW j \in 0..(l - 1)
            PROVE  \E o \in 1..(g - 1) : At(u, n, gs[g], j) = gs[o]
        <5>1. PICK o \in 1..(g - 1) : At(t, n, gs[g], j) = gs[o]
          BY <3>1
        <5>2. At(u, n, gs[g], j) = gs[o]
          BY <2>1, <3>3, <4>1, <4>2, <5>1
        <5>3. QED
          BY <5>2
      <4>4. QED
        BY <4>3
    <3>5. QED
      BY <3>2, <3>4
  <2>3. QED
    BY <2>2 DEF Crosses
<1>7. Holds(u, n, gs, m - 1)
  BY <1>1, <1>4, <1>5, <1>6 DEF Holds, Table
<1>8. QED
  BY <1>7 DEF u, i, e

-----------------------------------------------------------------------------
(* The state. *)

(* The loop under way: rebuild has put i of all the guards, a removal has i *)
(* left of which it keeps `to'.                                            *)
Calls ==
    /\ call.op \in {"done", "putting", "removing"}
    /\ call = [op |-> call.op, i |-> call.i, to |-> call.to, keep |-> call.keep]
    /\ call.op = "done" => call = Done
    /\ call.op # "done" => Len(guards) > GuardSetMin
    /\ call.op = "putting" =>
          call.i \in 0..(call.to - 1) /\ call.to = Len(guards) /\ 4 * call.to <= Size(slots)
    /\ call.op = "removing" =>
          /\ call.keep \in 0..(Len(guards) - 1)
          /\ call.to = IF call.keep > GuardSetMin THEN call.keep ELSE 0
          /\ call.i \in (call.to + 1)..Len(guards)

IInv ==
    /\ Size(slots) \in Lengths \cup {0}
    /\ Holds(slots, Size(slots), guards, Mirrored)
    /\ count = Mirrored
    /\ HalfFree
    /\ Calls

(* What the properties say of the table is what Holds says (core.zig:54).  *)
LEMMA HoldsIs ==
    ASSUME IInv
    PROVE  MirrorsStack /\ Searchable /\ \A e \in Keys : Find(e) = First(slots, Size(slots), e)
BY DEF IInv, Holds, Mirror, Crosses, MirrorsStack, Searchable, ProbesCrossOlder, Find, First,
       Stops, StopsAt, Probe, At

(* The length of a table. *)
LEMMA SizeIs ==
    ASSUME NEW n \in Lengths \cup {0}, NEW S, NEW t \in [0..(n - 1) -> S]
    PROVE  Size(t) = n
<1>1. CASE n = 0
  BY <1>1 DEF Size
<1>2. CASE n \in Lengths
  <2> n \in Nat \ {0}
    BY <1>2
  <2>1. DOMAIN t = 0..(n - 1) /\ DOMAIN t # {} /\ n \in Nat \ {0}
    <3>1. 0 \in 0..(n - 1)
      OBVIOUS
    <3>2. DOMAIN t = 0..(n - 1)
      OBVIOUS
    <3>3. QED
      BY <3>1, <3>2
  <2>2. ASSUME NEW l \in Lengths, 0..(n - 1) = 0..(l - 1)
        PROVE  l = n
    <3>1. l \in Nat \ {0}
      OBVIOUS
    <3>2. l - 1 \in 0..(n - 1) /\ n - 1 \in 0..(l - 1)
      BY <2>1, <2>2, <3>1
    <3>3. QED
      BY <2>1, <3>1, <3>2
  <2>3. \A l \in Lengths : DOMAIN t = 0..(l - 1) <=> l = n
    BY <2>1, <2>2
  <2>4. (CHOOSE l \in Lengths : DOMAIN t = 0..(l - 1)) = n
    BY <1>2, <2>3
  <2>5. QED
    BY <2>1, <2>4 DEF Size
<1>3. QED
  BY <1>1, <1>2

(* guarded answers as a scan of the stack would (backtrack.zig:278).       *)
LEMMA GuardedIsScan ==
    ASSUME IInv, call = Done, NEW e \in Keys
    PROVE  Guarded(e) <=> \E i \in DOMAIN guards : guards[i] = e
<1> DEFINE n == Size(slots)
<1>1. guards \in Seq(Keys) /\ DOMAIN guards = 1..Len(guards) /\ Len(guards) \in Nat
  BY DEF IInv, Holds, Guards
<1>2. CASE Len(guards) <= GuardSetMin
  BY <1>1, <1>2 DEF Guarded
<1>3. CASE Len(guards) > GuardSetMin
  <2>1. Mirrored = Len(guards)
    BY <1>3 DEF Mirrored, Done
  <2>2. Holds(slots, n, guards, Len(guards)) /\ count = Len(guards) /\ count * 2 <= n
        /\ n \in Nat
    <3>1. n \in Nat
      BY DEF IInv, Holds, Table
    <3>2. Holds(slots, n, guards, Len(guards)) /\ count = Len(guards)
      BY <2>1 DEF IInv
    <3>3. count * 2 <= n
      BY DEF IInv, HalfFree
    <3>4. QED
      BY <3>1, <3>2, <3>3
  <2>3. Guarded(e) <=> slots[First(slots, n, e)] # Free
    BY <1>1, <1>3, <2>2, HoldsIs DEF Guarded, Contains
  <2> HIDE DEF n
  <2>4. ASSUME NEW i \in DOMAIN guards, guards[i] = e
        PROVE  Guarded(e)
    BY <1>1, <2>2, <2>3, <2>4, FindsPresent
  <2>5. ASSUME \A i \in DOMAIN guards : guards[i] # e
        PROVE  ~Guarded(e)
    <3>1. Len(guards) < n /\ \A g \in 1..Len(guards) : guards[g] # e
      BY <1>1, <1>3, <2>2, <2>5
    <3>2. slots[First(slots, n, e)] = Free
      BY <2>2, <3>1, FindsFree
    <3>3. QED
      BY <2>3, <3>2
  <2>6. QED
    BY <2>4, <2>5
<1>4. QED
  BY <1>1, <1>2, <1>3

(* A guard that is pushed is not one yet (backtrack.zig:275).              *)
LEMMA PushDistinct ==
    ASSUME NEW gs, Guards(gs), NEW e \in Keys, \A i \in DOMAIN gs : gs[i] # e
    PROVE  /\ Guards(Append(gs, e)) /\ Len(Append(gs, e)) = Len(gs) + 1
           /\ \A i \in 1..Len(gs) : Append(gs, e)[i] = gs[i]
           /\ Append(gs, e)[Len(gs) + 1] = e
BY DEF Guards, Distinct

(* The guards left by a truncation are the oldest (backtrack.zig:305).     *)
LEMMA ShrinkDistinct ==
    ASSUME NEW gs, Guards(gs), NEW h \in 0..Len(gs)
    PROVE  /\ Guards(SubSeq(gs, 1, h)) /\ Len(SubSeq(gs, 1, h)) = h
           /\ \A i \in 1..h : SubSeq(gs, 1, h)[i] = gs[i]
BY DEF Guards, Distinct

(* What a table of the right shape that holds the guards mirrored makes of *)
(* the invariant after a step (core.zig:63).                               *)
LEMMA StepHolds ==
    ASSUME NEW n \in Lengths \cup {0}, Holds(slots, n, guards, count)',
           (count * 2 <= n)', (count = Mirrored)', Size(slots') = n => Calls'
    PROVE  IInv'
<1>1. slots' \in [0..(n - 1) -> Keys \cup {Free}]
  BY DEF Holds, Table
<1>2. Size(slots') = n
  BY <1>1, SizeIs
<1>3. QED
  BY <1>2 DEF IInv, HalfFree

-----------------------------------------------------------------------------
(* The steps. *)

(* What the invariant says whatever the loop.                              *)
LEMMA Shape ==
    ASSUME IInv
    PROVE  /\ Guards(guards) /\ guards \in Seq(Keys) /\ Len(guards) \in Nat
           /\ Size(slots) \in Lengths \cup {0} /\ Size(slots) \in Nat
           /\ count * 2 <= Size(slots)
<1>1. Guards(guards) /\ Size(slots) \in Lengths \cup {0} /\ count * 2 <= Size(slots)
  BY DEF IInv, Holds, HalfFree
<1>2. Size(slots) \in Nat
  BY DEF IInv, Holds, Table
<1>3. Len(guards) \in Nat /\ guards \in Seq(Keys)
  BY <1>1 DEF Guards
<1>4. QED
  BY <1>1, <1>2, <1>3

(* What the invariant says of a stack with no loop under way.              *)
LEMMA AtRest ==
    ASSUME IInv, call = Done
    PROVE  /\ Guards(guards) /\ Len(guards) \in Nat /\ guards \in Seq(Keys)
           /\ Size(slots) \in Nat
           /\ Mirrored = (IF Len(guards) > GuardSetMin THEN Len(guards) ELSE 0)
           /\ count = Mirrored /\ count * 2 <= Size(slots)
           /\ Holds(slots, Size(slots), guards, count)
<1>1. Guards(guards) /\ Size(slots) \in Nat
  BY DEF IInv, Holds, Table
<1>2. Len(guards) \in Nat /\ guards \in Seq(Keys)
  BY <1>1 DEF Guards
<1>3. Mirrored = (IF Len(guards) > GuardSetMin THEN Len(guards) ELSE 0)
  BY DEF Mirrored, Done
<1>4. count = Mirrored /\ count * 2 <= Size(slots) /\ Holds(slots, Size(slots), guards, count)
  BY DEF IInv, HalfFree
<1>5. QED
  BY <1>1, <1>2, <1>3, <1>4

(* Before the first call the set is a table without slots (core.zig:67).   *)
LEMMA InitKeeps == Init => IInv
<1> SUFFICES ASSUME Init PROVE IInv
  OBVIOUS
<1>1. Size(slots) = 0 /\ slots = Empty(0) /\ guards = <<>> /\ count = 0
  BY DEF Init, Size, Empty
<1>2. Guards(guards) /\ Mirrored = 0 /\ Calls
  BY DEF Init, Guards, Distinct, Mirrored, Done, Calls
<1>3. Holds(slots, 0, guards, 0)
  BY <1>1, <1>2, EmptyHolds
<1>4. QED
  BY <1>1, <1>2, <1>3 DEF IInv, HalfFree

(* A guard pushed on a stack that stays small (backtrack.zig:258).         *)
LEMMA EnterFewKeeps ==
    ASSUME IInv, NEW e \in Keys, EnterFew(e)
    PROVE  IInv'
<1> DEFINE n == Size(slots)
<1>1. call = Done /\ ~Guarded(e) /\ Len(guards) < GuardSetMin /\ guards' = Append(guards, e)
      /\ slots' = slots /\ count' = count /\ call' = call
  BY DEF EnterFew
<1>2. /\ Guards(guards) /\ Len(guards) \in Nat /\ count = 0 /\ n \in Nat
      /\ Holds(slots, n, guards, 0)
  BY <1>1, AtRest
<1>3. /\ Guards(guards') /\ Len(guards') = Len(guards) + 1
      /\ \A i \in 1..Len(guards) : guards'[i] = guards[i]
  BY <1>1, <1>2, GuardedIsScan, PushDistinct
<1>4. Holds(slots, n, guards', 0)
  BY <1>2, <1>3, HoldsPrefix
<1>5. Mirrored' = 0
  BY <1>1, <1>2, <1>3 DEF Mirrored, Done
<1>6. Calls'
  BY <1>1 DEF Calls, Done
<1>7. QED
  BY <1>1, <1>2, <1>4, <1>5, <1>6 DEF IInv, HalfFree

(* A guard that is pushed and put (core.zig:112).                          *)
LEMMA EnterMirroredKeeps ==
    ASSUME IInv, NEW e \in Keys, EnterMirrored(e)
    PROVE  IInv'
<1> DEFINE n == Size(slots)
           m == Len(guards)
           gs == Append(guards, e)
<1>1. /\ call = Done /\ ~Guarded(e) /\ guards' = gs /\ call' = call
      /\ slots' = [slots EXCEPT ![Find(e)] = e] /\ count' = count + 1
      /\ m >= GuardSetMin /\ ~Starts(gs)
  BY DEF EnterMirrored, Put
<1>2. /\ Guards(guards) /\ m \in Nat /\ n \in Nat
      /\ count = IF m > GuardSetMin THEN m ELSE 0
      /\ Holds(slots, n, guards, count)
  BY <1>1, AtRest
<1>3. /\ Guards(gs) /\ Len(gs) = m + 1 /\ \A i \in 1..m : gs[i] = guards[i]
      /\ gs[m + 1] = e
  BY <1>1, <1>2, GuardedIsScan, PushDistinct
<1>4. m > GuardSetMin /\ count = m /\ (m + 1) * 2 <= n
  BY <1>1, <1>2, <1>3 DEF Starts
<1>5. Find(e) = First(slots, n, gs[m + 1])
  BY <1>3, HoldsIs
<1> HIDE DEF n, m, gs
<1>6. Holds(slots, n, gs, m)
  BY <1>2, <1>3, <1>4, HoldsPrefix
<1>7. m < n /\ m < Len(gs)
  BY <1>2, <1>3, <1>4
<1>8. Holds(slots', n, gs, m + 1)
  BY <1>1, <1>3, <1>5, <1>6, <1>7, PutHolds
<1>9. Mirrored' = m + 1 /\ count' = m + 1
  BY <1>1, <1>2, <1>3, <1>4 DEF Mirrored, Done
<1>10. Calls'
  BY <1>1 DEF Calls, Done
<1>11. n \in Lengths \cup {0}
  BY DEF IInv, n
<1>12. QED
  BY <1>1, <1>4, <1>8, <1>9, <1>10, <1>11, StepHolds

(* A rebuild starts from a table that is clear and long enough             *)
(* (core.zig:98).                                                         *)
LEMMA RebuildStarts ==
    ASSUME IInv, NEW gs, Guards(gs), Rebuild(gs), Len(gs) > 0, LongEnough(Len(gs)) # {}
    PROVE  \E n \in Lengths \cup {0} : Holds(slots', n, gs, 0) /\ 4 * Len(gs) <= n
<1> DEFINE need == LengthFor(Len(gs))
           n == Size(slots)
<1>1. Len(gs) \in Nat /\ n \in Lengths \cup {0} /\ n \in Nat
  BY Shape DEF Guards
<1>2. LongEnough(Len(gs)) \subseteq Nat
  BY DEF LongEnough
<1>3. \E x \in LongEnough(Len(gs)) : \A y \in LongEnough(Len(gs)) : x <= y
  BY <1>2, LeastNumber
<1>4. need \in LongEnough(Len(gs))
  BY <1>3 DEF LengthFor
<1>5. need \in Lengths /\ need \in Nat /\ 4 * Len(gs) <= need
  BY <1>1, <1>4 DEF LongEnough
<1> HIDE DEF need, n
<1>6. CASE n < need
  <2>1. slots' = Empty(need)
    BY <1>6 DEF Rebuild, n, need
  <2>2. Holds(slots', need, gs, 0)
    BY <1>5, <2>1, EmptyHolds
  <2>3. QED
    BY <1>5, <2>2
<1>7. CASE ~(n < need)
  <2>1. slots' = Cleared
    BY <1>7 DEF Rebuild, n, need
  <2>2. slots' = Empty(n)
    <3>1. CASE count = 0
      <4>1. Holds(slots, n, guards, 0)
        BY <3>1 DEF IInv, n
      <4>2. QED
        BY <2>1, <3>1, <4>1, NoneIsEmpty DEF Cleared
    <3>2. CASE count # 0
      BY <2>1, <3>2 DEF Cleared, n
    <3>3. QED
      BY <3>1, <3>2
  <2>3. Holds(slots', n, gs, 0)
    BY <1>1, <2>2, EmptyHolds
  <2>4. 4 * Len(gs) <= n
    BY <1>1, <1>5, <1>7
  <2>5. QED
    BY <1>1, <2>3, <2>4
<1>8. QED
  BY <1>6, <1>7

(* The guard that starts the set, or starts it over (backtrack.zig:260).   *)
LEMMA EnterRebuildingKeeps ==
    ASSUME IInv, NEW e \in Keys, EnterRebuilding(e)
    PROVE  IInv'
<1> DEFINE gs == Append(guards, e)
<1>1. /\ call = Done /\ ~Guarded(e) /\ guards' = gs /\ Starts(gs) /\ Rebuild(gs)
      /\ LongEnough(Len(guards) + 1) # {}
  BY DEF EnterRebuilding
<1>2. Guards(guards) /\ Len(guards) \in Nat
  BY <1>1, AtRest
<1>3. Guards(gs) /\ Len(gs) = Len(guards) + 1
  BY <1>1, <1>2, GuardedIsScan, PushDistinct
<1> HIDE DEF gs
<1>4. Len(gs) \in Nat /\ Len(gs) > 0 /\ Len(gs) > GuardSetMin
  BY <1>1, <1>2, <1>3 DEF Starts
<1>5. PICK n \in Lengths \cup {0} : Holds(slots', n, gs, 0) /\ 4 * Len(gs) <= n
  BY <1>1, <1>3, <1>4, RebuildStarts
<1>6. count' = 0 /\ call' = [op |-> "putting", i |-> 0, to |-> Len(gs), keep |-> 0]
  BY <1>1 DEF Rebuild, Done
<1>7. Mirrored' = 0
  BY <1>6 DEF Mirrored
<1>8. Size(slots') = n => Calls'
  BY <1>1, <1>4, <1>5, <1>6 DEF Calls
<1>9. count' * 2 <= n
  BY <1>6
<1>10. QED
  BY <1>1, <1>5, <1>6, <1>7, <1>8, <1>9, StepHolds

(* One turn of rebuild (core.zig:107).                                     *)
LEMMA PutNextKeeps ==
    ASSUME IInv, PutNext
    PROVE  IInv'
<1> DEFINE n == Size(slots)
           i == call.i
<1>1. /\ call.op = "putting" /\ guards' = guards
      /\ slots' = [slots EXCEPT ![Find(guards[i + 1])] = guards[i + 1]] /\ count' = count + 1
      /\ call' = IF i + 1 = call.to THEN Done ELSE [call EXCEPT !.i = i + 1]
  BY DEF PutNext, Put
<1>2. Guards(guards) /\ guards \in Seq(Keys) /\ Len(guards) \in Nat
      /\ n \in Lengths \cup {0} /\ n \in Nat
  BY Shape
<1>3. /\ Mirrored = i /\ count = i /\ Holds(slots, n, guards, i)
      /\ i \in 0..(Len(guards) - 1) /\ call.to = Len(guards) /\ 4 * Len(guards) <= n
      /\ Len(guards) > GuardSetMin
      /\ call = [op |-> "putting", i |-> i, to |-> call.to, keep |-> call.keep]
  BY <1>1 DEF IInv, Calls, Mirrored
<1>4. Find(guards[i + 1]) = First(slots, n, guards[i + 1])
  BY <1>2, <1>3, HoldsIs
<1> HIDE DEF n, i
<1>5. i < n /\ i < Len(guards) /\ i \in Nat /\ (i + 1) * 2 <= n
  BY <1>2, <1>3
<1>6. Holds(slots', n, guards, i + 1)
  BY <1>1, <1>3, <1>4, <1>5, PutHolds
<1>7. Mirrored' = i + 1 /\ (Size(slots') = n => Calls')
  <2>1. CASE i + 1 = call.to
    <3>1. call' = Done /\ Len(guards') = i + 1 /\ Len(guards') > GuardSetMin
      BY <1>1, <1>3, <2>1
    <3>2. Mirrored' = i + 1
      BY <3>1 DEF Mirrored, Done
    <3>3. Calls'
      BY <3>1 DEF Calls, Done
    <3>4. QED
      BY <3>2, <3>3
  <2>2. CASE i + 1 # call.to
    <3>1. call' = [op |-> "putting", i |-> i + 1, to |-> call.to, keep |-> call.keep]
      BY <1>1, <1>3, <2>2
    <3>2. i + 1 \in 0..(Len(guards) - 1)
      BY <1>2, <1>3, <2>2
    <3>3. Mirrored' = i + 1
      BY <3>1 DEF Mirrored
    <3>4. Size(slots') = n => 4 * call.to <= Size(slots')
      BY <1>3
    <3>5. guards' = guards /\ call.to = Len(guards) /\ Len(guards) > GuardSetMin
      BY <1>1, <1>3
    <3>6. i + 1 \in 0..(call.to - 1)
      BY <3>2, <3>5
    <3>7. Size(slots') = n => Calls'
      BY <3>1, <3>4, <3>5, <3>6 DEF Calls
    <3>8. QED
      BY <3>3, <3>7
  <2>3. QED
    BY <2>1, <2>2
<1>8. QED
  BY <1>1, <1>2, <1>3, <1>5, <1>6, <1>7, StepHolds

(* A truncation the set has no part in (backtrack.zig:292).                *)
LEMMA TruncateFewKeeps ==
    ASSUME IInv, NEW h \in 0..Len(guards), TruncateFew(h)
    PROVE  IInv'
<1> DEFINE n == Size(slots)
<1>1. /\ call = Done /\ guards' = SubSeq(guards, 1, h) /\ slots' = slots /\ count' = count
      /\ call' = call /\ (h >= Len(guards) \/ Len(guards) <= GuardSetMin)
  BY DEF TruncateFew, Shrink
<1>2. /\ Guards(guards) /\ Len(guards) \in Nat /\ n \in Nat
      /\ count = IF Len(guards) > GuardSetMin THEN Len(guards) ELSE 0
      /\ Holds(slots, n, guards, count)
  BY <1>1, AtRest
<1>3. /\ Guards(guards') /\ Len(guards') = h /\ h \in Nat
      /\ \A i \in 1..h : guards'[i] = guards[i]
  BY <1>1, <1>2, ShrinkDistinct
<1>4. count <= h
  BY <1>1, <1>2, <1>3
<1>5. Holds(slots, n, guards', count)
  BY <1>2, <1>3, <1>4, HoldsPrefix
<1>6. Mirrored' = count
  BY <1>1, <1>2, <1>3 DEF Mirrored, Done
<1>7. Calls'
  BY <1>1 DEF Calls, Done
<1>8. QED
  BY <1>1, <1>5, <1>6, <1>7 DEF IInv, HalfFree

(* A truncation that clears a full table at once (core.zig:127).           *)
LEMMA TruncateClearingKeeps ==
    ASSUME IInv, NEW h \in 0..Len(guards), TruncateClearing(h)
    PROVE  IInv'
<1> DEFINE n == Size(slots)
<1>1. /\ call = Done /\ guards' = SubSeq(guards, 1, h) /\ slots' = Cleared /\ count' = 0
      /\ call' = call /\ h <= GuardSetMin /\ Len(guards) > GuardSetMin
  BY DEF TruncateClearing, Shrink
<1>2. Guards(guards) /\ Len(guards) \in Nat /\ n \in Nat /\ count = Len(guards)
  BY <1>1, AtRest
<1>3. Guards(guards') /\ Len(guards') = h /\ h \in Nat
  BY <1>1, <1>2, ShrinkDistinct
<1>4. slots' = Empty(n)
  BY <1>1, <1>2 DEF Cleared
<1> HIDE DEF n
<1>5. Holds(slots', n, guards', 0)
  BY <1>2, <1>3, <1>4, EmptyHolds
<1>6. Mirrored' = 0
  BY <1>1, <1>3 DEF Mirrored, Done
<1>7. Calls'
  BY <1>1 DEF Calls, Done
<1>8. n \in Lengths \cup {0} /\ 0 * 2 <= n
  BY <1>2 DEF IInv, n
<1>9. QED
  BY <1>1, <1>5, <1>6, <1>7, <1>8, StepHolds

(* A truncation that goes on key by key (core.zig:128).                    *)
LEMMA TruncateRemovingKeeps ==
    ASSUME IInv, NEW h \in 0..Len(guards), TruncateRemoving(h)
    PROVE  IInv'
<1>1. /\ call = Done /\ guards' = guards /\ slots' = slots /\ count' = count
      /\ h < Len(guards) /\ Len(guards) > GuardSetMin
      /\ call' = [op |-> "removing", i |-> Len(guards), keep |-> h,
                  to |-> IF h > GuardSetMin THEN h ELSE 0]
  BY DEF TruncateRemoving
<1>2. Len(guards) \in Nat /\ Mirrored = Len(guards)
  BY <1>1, AtRest
<1>3. Mirrored' = Len(guards)
  BY <1>1 DEF Mirrored
<1>4. Calls'
  BY <1>1, <1>2 DEF Calls
<1>5. QED
  BY <1>1, <1>2, <1>3, <1>4 DEF IInv, HalfFree

(* One turn of a removal (core.zig:136).                                   *)
LEMMA RemoveNextKeeps ==
    ASSUME IInv, RemoveNext
    PROVE  IInv'
<1> DEFINE n == Size(slots)
           i == call.i
<1>1. /\ call.op = "removing" /\ count' = count - 1
      /\ slots' = [slots EXCEPT ![Find(guards[i])] = Free]
      /\ IF i - 1 = call.to THEN call' = Done /\ guards' = SubSeq(guards, 1, call.keep)
         ELSE call' = [call EXCEPT !.i = i - 1] /\ guards' = guards
  BY DEF RemoveNext, Shrink
<1>2. Guards(guards) /\ guards \in Seq(Keys) /\ Len(guards) \in Nat
      /\ n \in Lengths \cup {0} /\ n \in Nat /\ count * 2 <= n
  BY Shape
<1>3. /\ Mirrored = i /\ count = i /\ Holds(slots, n, guards, i)
      /\ call.keep \in 0..(Len(guards) - 1) /\ Len(guards) > GuardSetMin
      /\ call.to = IF call.keep > GuardSetMin THEN call.keep ELSE 0
      /\ i \in (call.to + 1)..Len(guards)
      /\ call = [op |-> "removing", i |-> i, to |-> call.to, keep |-> call.keep]
  BY <1>1 DEF IInv, Calls, Mirrored
<1> HIDE DEF i
<1>4. i \in Nat /\ i > 0 /\ call.to \in Nat /\ call.keep \in Nat
  <2>1. /\ call.keep \in 0..(Len(guards) - 1) /\ i \in (call.to + 1)..Len(guards)
        /\ call.to = IF call.keep > GuardSetMin THEN call.keep ELSE 0
    BY <1>3, Zenon
  <2>2. call.keep \in Nat
    BY <1>2, <2>1
  <2>3. call.to \in Nat
    BY <2>1, <2>2
  <2>4. QED
    BY <1>2, <2>1, <2>2, <2>3
<1>5. Find(guards[i]) = First(slots, n, guards[i])
  <2>1. i \in (call.to + 1)..Len(guards)
    BY <1>3, Zenon
  <2>2. i \in 1..Len(guards)
    BY <1>2, <1>4, <2>1
  <2>3. guards[i] \in Keys
    BY <1>2, <2>2
  <2>4. QED
    BY <2>3, HoldsIs, Zenon
<1> HIDE DEF n
<1>6. Holds(slots', n, guards, i - 1)
  BY <1>1, <1>3, <1>4, <1>5, RemoveHolds
<1>7. count' = i - 1 /\ (i - 1) * 2 <= n
  BY <1>1, <1>2, <1>3, <1>4
<1>8. Holds(slots', n, guards', i - 1) /\ Mirrored' = i - 1 /\ (Size(slots') = n => Calls')
  <2>1. CASE i - 1 = call.to
    <3>1. call' = Done /\ guards' = SubSeq(guards, 1, call.keep)
      BY <1>1, <2>1
    <3>2. /\ Guards(guards') /\ Len(guards') = call.keep
          /\ \A g \in 1..call.keep : guards'[g] = guards[g]
      <4>1. call.keep \in 0..Len(guards)
        BY <1>2, <1>3
      <4>2. /\ Guards(SubSeq(guards, 1, call.keep)) /\ Len(SubSeq(guards, 1, call.keep)) = call.keep
            /\ \A g \in 1..call.keep : SubSeq(guards, 1, call.keep)[g] = guards[g]
        BY <1>2, <4>1, ShrinkDistinct, Zenon
      <4>3. QED
        BY <3>1, <4>2, Zenon
    <3>3. i - 1 <= call.keep /\ \A g \in 1..(i - 1) : g \in 1..call.keep
      BY <1>3, <1>4, <2>1
    <3>4. Holds(slots', n, guards', i - 1)
      BY <1>6, <3>2, <3>3, HoldsPrefix
    <3>5. Mirrored' = i - 1
      BY <1>3, <1>4, <2>1, <3>1, <3>2 DEF Mirrored, Done
    <3>6. Calls'
      BY <3>1 DEF Calls, Done
    <3>7. QED
      BY <3>4, <3>5, <3>6
  <2>2. CASE i - 1 # call.to
    <3>1. guards' = guards
          /\ call' = [op |-> "removing", i |-> i - 1, to |-> call.to, keep |-> call.keep]
      BY <1>1, <1>3, <2>2
    <3>2. i - 1 \in (call.to + 1)..Len(guards)
      <4>1. i <= Len(guards) /\ i >= call.to + 1
        BY <1>3, <1>4
      <4>2. QED
        BY <1>2, <1>4, <2>2, <4>1
    <3>3. QED
      BY <1>3, <1>6, <3>1, <3>2 DEF Mirrored, Calls
  <2>3. QED
    BY <2>1, <2>2
<1>9. QED
  BY <1>2, <1>7, <1>8, StepHolds

(* No call, and no turn of a call's loop, breaks the set.                  *)
LEMMA StepKeeps == IInv /\ [Next]_vars => IInv'
<1> SUFFICES ASSUME IInv, [Next]_vars PROVE IInv'
  OBVIOUS
<1>1. ASSUME NEW e \in Keys, Refuse(e) \/ EnterFails(e)
      PROVE  IInv'
  BY <1>1 DEF Refuse, EnterFails, IInv, HalfFree, Mirrored, Calls
<1>2. ASSUME NEW e \in Keys, Enter(e)
      PROVE  IInv'
  BY <1>1, <1>2, EnterFewKeeps, EnterRebuildingKeeps, EnterMirroredKeeps DEF Enter
<1>3. ASSUME NEW h \in 0..Len(guards), Truncate(h)
      PROVE  IInv'
  BY <1>3, TruncateFewKeeps, TruncateClearingKeeps, TruncateRemovingKeeps DEF Truncate
<1>4. CASE UNCHANGED vars
  BY <1>4 DEF vars, IInv, HalfFree, Mirrored, Calls
<1>5. QED
  BY <1>2, <1>3, <1>4, PutNextKeeps, RemoveNextKeeps DEF Next

(* So what IInv says always holds, of every call (backtrack.zig:255, 290). *)
LEMMA Invariance == Spec => []IInv
BY InitKeeps, StepKeeps, PTL DEF Spec

-----------------------------------------------------------------------------
(* The theorems. *)

(* "The set must mirror the stack exactly" (backtrack.zig:266): whatever   *)
(* the hash, the thresholds and the calls, the table has the guards it     *)
(* mirrors, each once, and nothing else.                                   *)
THEOREM MirrorsStackAlways == Spec => []MirrorsStack
<1>1. IInv => MirrorsStack
  BY HoldsIs
<1>2. QED
  BY <1>1, Invariance, PTL

(* "No present key's probe crosses an emptied slot" (core.zig:60), and the *)
(* table is never more than half full: every probe ends, at its key if the *)
(* set has it.                                                             *)
THEOREM SearchableAlways == Spec => []Searchable
<1>1. IInv => Searchable
  BY HoldsIs
<1>2. QED
  BY <1>1, Invariance, PTL

-----------------------------------------------------------------------------
(* The set, seen from outside. *)

(* A call that enters a guard, refuses it or fails for want of memory does *)
(* what a scan of the stack would have it do (backtrack.zig:255).          *)
LEMMA EnterIsScan ==
    ASSUME IInv, NEW e \in Keys, Enter(e)
    PROVE  Stack!Enter(e)
<1>1. call = Done
  BY DEF Enter, Refuse, EnterFew, EnterRebuilding, EnterMirrored, EnterFails
<1>2. Guarded(e) <=> Stack!Active(e)
  BY <1>1, GuardedIsScan DEF Stack!Active
<1>3. CASE Refuse(e)
  BY <1>2, <1>3 DEF Refuse, Stack!Enter
<1>4. CASE EnterFew(e) \/ EnterRebuilding(e) \/ EnterMirrored(e)
  BY <1>2, <1>4 DEF EnterFew, EnterRebuilding, EnterMirrored, Stack!Enter
<1>5. CASE EnterFails(e)
  BY <1>2, <1>5 DEF EnterFails, Stack!Enter
<1>6. QED
  BY <1>3, <1>4, <1>5 DEF Enter

(* A call that drops guards drops them once, whatever it does to the set   *)
(* on the way (backtrack.zig:290).                                         *)
LEMMA TruncateIsShrink ==
    ASSUME IInv, NEW h \in 0..Len(guards), Truncate(h)
    PROVE  Stack!Truncate \/ UNCHANGED <<guards, answer>>
<1>1. CASE TruncateFew(h) \/ TruncateClearing(h)
  BY <1>1 DEF TruncateFew, TruncateClearing, Shrink, Stack!Truncate
<1>2. CASE TruncateRemoving(h)
  BY <1>2 DEF TruncateRemoving
<1>3. QED
  BY <1>1, <1>2 DEF Truncate

(* The last turn of a removal drops the guards (backtrack.zig:305).        *)
LEMMA RemoveIsShrink ==
    ASSUME IInv, RemoveNext
    PROVE  Stack!Truncate \/ UNCHANGED <<guards, answer>>
<1>1. call.keep \in 0..Len(guards)
  BY Shape DEF IInv, Calls, RemoveNext
<1>2. CASE Shrink(call.keep)
  BY <1>1, <1>2 DEF Shrink, Stack!Truncate
<1>3. CASE UNCHANGED <<guards, answer>>
  BY <1>3
<1>4. QED
  BY <1>2, <1>3 DEF RemoveNext

(* Seen through the stack, a turn of either loop is nothing at all, except  *)
(* the last one of a removal; and what a call does is what a scan would.   *)
LEMMA StepIsScan == IInv /\ [Next]_vars => [Stack!Next]_<<guards, answer>>
<1> SUFFICES ASSUME IInv, [Next]_vars,
                    ~UNCHANGED <<guards, answer>>
             PROVE  Stack!Next
  OBVIOUS
<1>1. ~UNCHANGED vars /\ ~PutNext
  BY DEF vars, PutNext
<1>2. RemoveNext => Stack!Truncate
  BY RemoveIsShrink
<1>3. \A h \in 0..Len(guards) : Truncate(h) => Stack!Truncate
  BY TruncateIsShrink
<1>4. \A e \in Keys : Enter(e) => Stack!Enter(e)
  BY EnterIsScan
<1>5. QED
  BY <1>1, <1>2, <1>3, <1>4 DEF Next, Stack!Next

(* The guards are unique, so past the threshold "the set mirroring them     *)
(* answers" (backtrack.zig:275): every behaviour of the backtracker's      *)
(* guards is one of a stack that is scanned.                               *)
THEOREM SetImplementsStack == Spec => SetIsTransparent
<1>1. Init => Stack!Init
  BY DEF Init, Stack!Init
<1>2. QED
  BY <1>1, StepIsScan, Invariance, PTL DEF Spec, SetIsTransparent, Stack!Spec
=============================================================================
