--------------------------- MODULE LookMemoProofs ---------------------------
(***************************************************************************)
(* For every number of executions, programs, positions and values of       *)
(* look_gen: the tables are never stale, and the memo is transparent.      *)
(***************************************************************************)
EXTENDS LookMemo, TLAPS

(* What one table guarantees by itself: its type, that its verdicts lie    *)
(* between lo and hi, and that lo is MaxPos only when nothing was put.     *)
MemoInv(m) ==
    /\ MemoType(m)
    /\ \A p \in DOMAIN m.bits : m.bits[p] # 0 => m.lo <= p /\ p <= m.hi

(* No table carries a number still to come, and one that carries this      *)
(* execution's holds its truth.                                            *)
GensPast == \A i \in DOMAIN memos : memos[i].gen <= gen

True(i, m) ==
    /\ i \in 1..job.programs
    /\ \A p \in DOMAIN m.bits : m.bits[p] \in {0, Verdict(p \in job.truth[i])}

IInv ==
    /\ job \in Jobs \cup {Idle}
    /\ gen \in 0..(Gens - 1)
    /\ job # Idle => gen >= 1
    /\ memos = [j \in DOMAIN memos |-> memos[j]]
    /\ \A i \in DOMAIN memos : MemoInv(memos[i])
    /\ GensPast
    /\ job # Idle => \A i \in DOMAIN memos : memos[i].gen = gen => True(i, memos[i])

-----------------------------------------------------------------------------

(* Bytes are in the order of their positions. *)
LEMMA ByteMonotone ==
    ASSUME NEW p \in Nat, NEW q \in Nat, p <= q
    PROVE  Byte(p) <= Byte(q)
  BY DEF Byte

(* A table not used yet says nothing. *)
LEMMA FreshMemo == MemoInv(Fresh) /\ Fresh.gen = 0 /\ DOMAIN Fresh.bits = {}
  BY LookMemoAssumption DEF MemoInv, MemoType, Fresh

(* `begin` leaves no verdict behind: those there were lie in the bytes it  *)
(* clears.                                                                 *)
LEMMA BeganMemo ==
    ASSUME NEW m, MemoInv(m), NEW g \in 0..(Gens - 1)
    PROVE  /\ MemoInv(Began(m, g))
           /\ Began(m, g).gen = g
           /\ \A p \in DOMAIN Began(m, g).bits : Began(m, g).bits[p] = 0
<1> DEFINE b == Began(m, g)
<1>1. DOMAIN b.bits = DOMAIN m.bits /\ b.lo = MaxPos /\ b.hi = 0 /\ b.gen = g
  BY DEF Began
<1>2. ASSUME NEW p \in DOMAIN m.bits PROVE b.bits[p] = 0
  <2>1. m.bits[p] # 0 => Touched(m, p)
    <3>1. SUFFICES ASSUME m.bits[p] # 0 PROVE Touched(m, p)
      OBVIOUS
    <3>2. m.lo \in Nat /\ m.hi \in Nat /\ p \in Nat /\ m.lo <= p /\ p <= m.hi
      BY <3>1 DEF MemoInv, MemoType
    <3>3. QED
      BY <3>2, ByteMonotone DEF Touched
  <2>2. QED
    BY <2>1 DEF Began
<1>3. MemoInv(b)
  BY <1>1, <1>2, LookMemoAssumption DEF MemoInv, MemoType, Began
<1>4. QED
  BY <1>1, <1>2, <1>3

(* Growing a table adds positions without a verdict. *)
LEMMA WidenedMemo ==
    ASSUME NEW m, MemoInv(m), NEW n \in Nat
    PROVE  /\ MemoInv(Widened(m, n))
           /\ Widened(m, n).gen = m.gen
  BY DEF MemoInv, MemoType, Widened, Room

(* `put` where nothing was evaluated keeps its verdict, and reaches for it. *)
LEMMA PutMemo ==
    ASSUME NEW m, MemoInv(m), NEW p \in Positions, NEW found \in BOOLEAN,
           p \in DOMAIN m.bits, m.bits[p] = 0
    PROVE  /\ MemoInv(Put(m, p, found))
           /\ Put(m, p, found).gen = m.gen
           /\ DOMAIN Put(m, p, found).bits = DOMAIN m.bits
           /\ \A q \in DOMAIN m.bits :
                 Put(m, p, found).bits[q] = IF q = p THEN Verdict(found) ELSE m.bits[q]
<1>1. p \in Nat /\ p < MaxPos /\ m.lo \in Nat /\ m.hi \in Nat
  BY LookMemoAssumption DEF MemoInv, MemoType
<1>2. Or(m.bits[p], Verdict(found)) = Verdict(found) /\ Verdict(found) \in 1..2
  BY DEF Or, Verdict
<1> DEFINE n == Put(m, p, found)
<1>3. /\ n = [bits |-> n.bits, lo |-> n.lo, hi |-> n.hi, gen |-> n.gen]
      /\ DOMAIN n.bits = DOMAIN m.bits /\ n.gen = m.gen
      /\ n.lo = IF p < m.lo THEN p ELSE m.lo
      /\ n.hi = IF p > m.hi THEN p ELSE m.hi
  BY DEF Put
<1>4. \A q \in DOMAIN m.bits :
         n.bits[q] = IF q = p THEN Verdict(found) ELSE m.bits[q]
  BY <1>2 DEF Put
<1>5. n.bits \in [DOMAIN n.bits -> 0..3]
  BY <1>2, <1>3, <1>4 DEF Put, MemoInv, MemoType
<1>6. MemoInv(n)
  BY <1>1, <1>3, <1>4, <1>5 DEF MemoInv, MemoType
<1>7. QED
  BY <1>3, <1>4, <1>6

(* memoFor, up to the growing of the bits: program i's table is this       *)
(* execution's, and says nothing false.                                    *)
LEMMA CurrentMemo ==
    ASSUME IInv, job # Idle, NEW i \in 1..job.programs
    PROVE  /\ MemoInv(Current(i))
           /\ Current(i).gen = gen
           /\ True(i, Current(i))
<1>1. i \in DOMAIN Grown /\ Grown[i] = IF i \in DOMAIN memos THEN memos[i] ELSE Fresh
  BY DEF Grown
<1>2. MemoInv(Grown[i]) /\ (Grown[i].gen = gen => True(i, Grown[i]))
  BY <1>1, FreshMemo DEF IInv
<1>3. gen \in 0..(Gens - 1)
  BY DEF IInv
<1>4. CASE Grown[i].gen # gen
  <2>1. Current(i) = Began(Grown[i], gen)
    BY <1>4 DEF Current
  <2>2. QED
    BY <2>1, <1>2, <1>3, BeganMemo DEF True
<1>5. CASE Grown[i].gen = gen
  BY <1>5, <1>2 DEF Current
<1>6. QED
  BY <1>4, <1>5

(* memoFor: and there is room for every position of the subject.           *)
LEMMA ReadyMemo ==
    ASSUME IInv, job # Idle, NEW i \in 1..job.programs
    PROVE  /\ MemoInv(Ready(i))
           /\ Ready(i).gen = gen
           /\ True(i, Ready(i))
           /\ \A p \in Positions : p <= job.size => p \in DOMAIN Ready(i).bits
<1>1. job.size \in Nat /\ Bytes \in Nat
  BY LookMemoAssumption DEF IInv, JobType, Bytes
<1>2. \A p \in Positions : p \in Nat
  BY LookMemoAssumption
<1>3. \A p \in Nat : p <= job.size => p \in Room(Bytes)
  BY <1>1 DEF Bytes, Room
<1>4. MemoInv(Current(i)) /\ Current(i).gen = gen /\ True(i, Current(i))
  BY CurrentMemo
<1>5. Ready(i) = Widened(Current(i), Bytes)
  BY DEF Ready
<1>6. MemoInv(Ready(i)) /\ Ready(i).gen = gen
  BY <1>1, <1>4, <1>5, WidenedMemo
<1>7. Ready(i).bits = [p \in DOMAIN Current(i).bits \cup Room(Bytes) |->
                         IF p \in DOMAIN Current(i).bits THEN Current(i).bits[p] ELSE 0]
  BY <1>5 DEF Widened
<1>8. True(i, Ready(i))
  BY <1>4, <1>7 DEF True
<1>9. QED
  BY <1>2, <1>3, <1>6, <1>7, <1>8

(* Storing such a table keeps what the tables guarantee.                   *)
LEMMA StoreKeeps ==
    ASSUME IInv, job # Idle, NEW i \in 1..job.programs, NEW m,
           MemoInv(m), m.gen = gen, True(i, m), Store(i, m)
    PROVE  /\ memos' = [j \in DOMAIN memos' |-> memos'[j]]
           /\ \A j \in DOMAIN memos' :
                 /\ MemoInv(memos'[j])
                 /\ memos'[j].gen <= gen
                 /\ memos'[j].gen = gen => True(j, memos'[j])
<1>1. memos' = [j \in DOMAIN memos \cup 1..job.programs |->
                  IF j = i THEN m ELSE IF j \in DOMAIN memos THEN memos[j] ELSE Fresh]
  BY DEF Store, Grown
<1>2. gen \in Nat /\ gen >= 1
  BY LookMemoAssumption DEF IInv
<1>3. \A j \in DOMAIN memos :
         /\ MemoInv(memos[j]) /\ memos[j].gen <= gen
         /\ memos[j].gen = gen => True(j, memos[j])
  BY DEF IInv, GensPast
<1>4. QED
  BY <1>1, <1>2, <1>3, FreshMemo

-----------------------------------------------------------------------------

(* Before the first execution there is no table. *)
LEMMA InitIInv == Init => IInv
  BY LookMemoAssumption DEF Init, IInv, GensPast

(* A new execution's number is one no table carries, also when it wraps.   *)
LEMMA BeginIInv == IInv /\ Begin => IInv'
<1> SUFFICES ASSUME IInv, Begin PROVE IInv'
  OBVIOUS
<1>1. gen \in 0..(Gens - 1) /\ Gens \in Nat /\ Gens >= 2
  BY LookMemoAssumption DEF IInv
<1>2. job' \in Jobs
  BY DEF Begin
<1>3. CASE (gen + 1) % Gens # 0
  <2>1. gen' = gen + 1 /\ memos' = memos
    BY <1>3 DEF Begin
  <2>2. gen + 1 # Gens
    BY <1>1, <1>3
  <2>3. gen' \in 0..(Gens - 1) /\ gen' >= 1
    BY <1>1, <2>1, <2>2
  <2>4. \A i \in DOMAIN memos : memos[i].gen \in Nat /\ memos[i].gen < gen'
    BY <1>1, <2>1 DEF IInv, GensPast, MemoInv, MemoType
  <2>5. QED
    BY <1>2, <2>1, <2>3, <2>4 DEF IInv, GensPast
<1>4. CASE (gen + 1) % Gens = 0
  <2>1. gen' = 1 /\ memos' = [j \in DOMAIN memos |-> Began(memos[j], 0)]
    BY <1>4 DEF Begin
  <2>2. \A j \in DOMAIN memos : MemoInv(memos'[j]) /\ memos'[j].gen = 0
    BY <1>1, <2>1, BeganMemo DEF IInv
  <2>3. QED
    BY <1>1, <1>2, <2>1, <2>2 DEF IInv, GensPast
<1>5. QED
  BY <1>3, <1>4

(* Each of the ways a position is asked about keeps the invariant. *)
LEMMA AsksIInv ==
    ASSUME IInv, job # Idle, NEW i \in 1..job.programs, NEW p \in Positions,
           Recall(i, p) \/ Evaluate(i, p) \/ EvaluateBare(i, p) \/ GiveUp(i, p)
    PROVE  IInv'
<1>1. gen' = gen /\ (job' = job \/ job' = Idle)
  BY DEF Recall, Evaluate, EvaluateBare, GiveUp, Answer
<1>2. MemoInv(Ready(i)) /\ Ready(i).gen = gen /\ True(i, Ready(i))
  BY ReadyMemo
<1>3. MemoInv(Current(i)) /\ Current(i).gen = gen /\ True(i, Current(i))
  BY CurrentMemo
<1> DEFINE Kept == /\ memos' = [j \in DOMAIN memos' |-> memos'[j]]
                   /\ \A j \in DOMAIN memos' :
                         /\ MemoInv(memos'[j])
                         /\ memos'[j].gen <= gen
                         /\ memos'[j].gen = gen => True(j, memos'[j])
<1>4. CASE Recall(i, p)
  <2>1. Kept
    BY <1>2, <1>4, StoreKeeps DEF Recall
  <2>2. QED
    BY <1>1, <2>1 DEF IInv, GensPast, True
<1>5. CASE Evaluate(i, p)
  <2> DEFINE found == p \in job.truth[i]
             m == Put(Ready(i), p, found)
  <2>1. p \in DOMAIN Ready(i).bits /\ Ready(i).bits[p] = 0
    BY <1>5, ReadyMemo DEF Evaluate, Question
  <2>2. /\ MemoInv(m) /\ m.gen = gen
        /\ DOMAIN m.bits = DOMAIN Ready(i).bits
        /\ \A q \in DOMAIN m.bits :
              m.bits[q] = IF q = p THEN Verdict(found) ELSE Ready(i).bits[q]
    <3>1. found \in BOOLEAN
      OBVIOUS
    <3> HIDE DEF found
    <3>2. QED
      BY <1>2, <2>1, <3>1, PutMemo
  <2>3. True(i, m)
    <3> HIDE DEF m
    <3>1. QED
      BY <1>2, <2>2 DEF True
  <2>4. Kept
    BY <1>5, <2>2, <2>3, StoreKeeps DEF Evaluate
  <2>5. QED
    BY <1>1, <2>4 DEF IInv, GensPast, True
<1>6. CASE memos' = memos
  BY <1>1, <1>6 DEF IInv, GensPast, True
<1>7. CASE GiveUp(i, p)
  <2>1. memos' = memos \/ Store(i, Current(i)) \/ Store(i, Ready(i))
    BY <1>7 DEF GiveUp
  <2>2. Kept \/ memos' = memos
    BY <1>2, <1>3, <2>1, StoreKeeps
  <2>3. job' = Idle
    BY <1>7 DEF GiveUp
  <2>4. QED
    BY <1>1, <1>6, <2>2, <2>3 DEF IInv, GensPast
<1>8. QED
  BY <1>4, <1>5, <1>6, <1>7 DEF EvaluateBare

(* So does every step. *)
LEMMA NextIInv == IInv /\ [Next]_vars => IInv'
<1> SUFFICES ASSUME IInv, [Next]_vars PROVE IInv'
  OBVIOUS
<1>1. CASE Begin
  BY <1>1, BeginIInv
<1>2. CASE job # Idle /\ Asks
  BY <1>2, AsksIInv DEF Asks
<1>3. CASE Finish
  BY <1>3 DEF Finish, IInv, GensPast
<1>4. CASE UNCHANGED vars
  BY <1>4 DEF vars, IInv, GensPast, True
<1>5. QED
  BY <1>1, <1>2, <1>3, <1>4 DEF Next

(* The invariant of the tables holds throughout. *)
THEOREM IInvAlways == Spec => []IInv
  BY InitIInv, NextIInv, PTL DEF Spec

(* The tables' type, the verdicts' range and their truth, at every state.  *)
THEOREM MemoTypeOK == Spec => []TypeOK
<1>1. IInv => TypeOK
  BY DEF IInv, TypeOK, MemoInv
<1>2. QED
  BY <1>1, IInvAlways, PTL

(* The bytes a program's table will clear at its next use reach past every
   verdict it holds (MemoFor clears only those). *)
THEOREM MemoCovered == Spec => []Covered
<1>1. IInv => Covered
  BY DEF IInv, Covered, MemoInv
<1>2. QED
  BY <1>1, IInvAlways, PTL

(* No verdict of an earlier execution, on another subject, is ever taken for
   one of this execution, the generation number having wrapped or not. *)
THEOREM MemoNeverStale == Spec => []NeverStale
<1>1. IInv => NeverStale
  BY DEF IInv, NeverStale, True
<1>2. QED
  BY <1>1, IInvAlways, PTL

(* What the memo recalls is what T0's VM would say now. *)
LEMMA RecallIsTrue ==
    ASSUME IInv, job # Idle, NEW i \in 1..job.programs, NEW p \in Positions,
           Recall(i, p)
    PROVE  (Ready(i).bits[p] = 2) <=> (p \in job.truth[i])
<1>1. Ready(i).bits[p] # 0 /\ p <= job.size
  BY DEF Recall, Question
<1>2. p \in DOMAIN Ready(i).bits /\ True(i, Ready(i))
  BY <1>1, ReadyMemo
<1>3. Ready(i).bits[p] = Verdict(p \in job.truth[i])
  BY <1>1, <1>2 DEF True
<1>4. QED
  BY <1>3 DEF Verdict

(* Every question gets the answer the oracle gives, and an error is an     *)
(* execution that ends.                                                    *)
LEMMA AskStep ==
    ASSUME IInv, job # Idle, NEW i \in 1..job.programs, NEW p \in Positions,
           Recall(i, p) \/ Evaluate(i, p) \/ EvaluateBare(i, p) \/ GiveUp(i, p)
    PROVE  Oracle!Ask \/ Oracle!Finish
<1>1. CASE GiveUp(i, p)
  BY <1>1 DEF GiveUp, Oracle!Finish
<1>2. CASE Recall(i, p) \/ Evaluate(i, p) \/ EvaluateBare(i, p)
  <2>1. Question(i, p) /\ job' = job
    BY <1>2 DEF Recall, Evaluate, EvaluateBare, Answer
  <2>2. PICK found : answer' = {[program |-> i, pos |-> p, found |-> found]}
                     /\ found = (p \in job.truth[i])
    <3>1. CASE Recall(i, p)
      <4>1. (Ready(i).bits[p] = 2) = (p \in job.truth[i])
        BY <3>1, RecallIsTrue
      <4>2. QED
        BY <3>1, <4>1 DEF Recall, Answer
    <3>2. CASE Evaluate(i, p) \/ EvaluateBare(i, p)
      BY <3>2 DEF Evaluate, EvaluateBare, Answer
    <3>3. QED
      BY <1>2, <3>1, <3>2
  <2>3. Oracle!Ask
    BY <2>1, <2>2 DEF Oracle!Ask, Oracle!Question, Oracle!Truth, Question
  <2>4. QED
    BY <2>3
<1>3. QED
  BY <1>1, <1>2

(* The memo cannot be told from asking T0's VM every time: LookMemo        *)
(* implements LookOracle.                                                  *)
THEOREM MemoImplementsOracle == Spec => MemoIsTransparent
<1>1. Init => Oracle!Init
  BY DEF Init, Oracle!Init
<1>2. IInv /\ [Next]_vars => [Oracle!Next]_<<job, answer>>
  <2> SUFFICES ASSUME IInv, [Next]_vars PROVE [Oracle!Next]_<<job, answer>>
    OBVIOUS
  <2>1. CASE Begin
    BY <2>1 DEF Begin, Oracle!Next, Oracle!Begin
  <2>2. CASE job # Idle /\ Asks
    BY <2>2, AskStep DEF Asks, Oracle!Next
  <2>3. CASE Finish
    BY <2>3 DEF Finish, Oracle!Next, Oracle!Finish
  <2>4. CASE UNCHANGED vars
    BY <2>4 DEF vars
  <2>5. QED
    BY <2>1, <2>2, <2>3, <2>4 DEF Next
<1>3. QED
  BY <1>1, <1>2, IInvAlways, PTL DEF Spec, Oracle!Spec, MemoIsTransparent
=============================================================================
