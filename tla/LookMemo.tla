------------------------------ MODULE LookMemo ------------------------------
(***************************************************************************)
(* LookLinear's memo tables (tier2/executor/backtrack.zig): for each       *)
(* delegated lookaround, what T0's VM answered at each position.  The      *)
(* tables belong to the Scratch, so executions of different expressions    *)
(* over different subjects share them: program i of every expression uses  *)
(* table i.  A table is valid for the execution whose number it carries; a *)
(* new one clears only the bytes the last one touched, and the number      *)
(* wraps around.                                                           *)
(***************************************************************************)
EXTENDS Integers

CONSTANTS
    Jobs,        \* executions, [programs, size, limit, truth]; `truth[i]` is
                 \* where T0's VM finds the body of program i (external)
    Positions,   \* the positions lookarounds are evaluated at
    Idle,        \* no execution under way
    Gens,        \* how many values look_gen has: 2^32
    MaxPos       \* maxInt(usize), the `lo` of an untouched table

VARIABLES
    job,         \* the execution under way (its limit is max_memo_bytes)
    answer,      \* the answer to its last question: none or one
    gen,         \* Scratch.look_gen
    memos        \* Scratch.look_memo

vars == <<job, answer, gen, memos>>

JobType(j) ==
    /\ j.programs \in Nat /\ j.size \in Nat /\ j.limit \in Nat
    /\ \A i \in 1..j.programs : j.truth[i] \subseteq Nat

ASSUME LookMemoAssumption ==
    /\ \A j \in Jobs : JobType(j)
    /\ Idle \notin Jobs
    /\ Positions \subseteq Nat
    /\ Gens \in Nat /\ Gens >= 2
    /\ MaxPos \in Nat /\ \A p \in Positions : p < MaxPos

Fresh == [bits |-> [p \in {} |-> 0], lo |-> MaxPos, hi |-> 0, gen |-> 0]

(* A byte holds four positions.  `begin` clears the bytes from lo's to     *)
(* hi's, if the table was touched.                                         *)
Byte(p) == p \div 4
Touched(m, p) == m.lo <= m.hi /\ Byte(m.lo) <= Byte(p) /\ Byte(p) <= Byte(m.hi)
(* Mutant: nothing cleared. *)
BeganDirty(m, g) == [bits |-> m.bits, lo |-> MaxPos, hi |-> 0, gen |-> g]
Began(m, g) ==
    [bits |-> [p \in DOMAIN m.bits |-> IF Touched(m, p) THEN 0 ELSE m.bits[p]],
     lo |-> MaxPos, hi |-> 0, gen |-> g]

(* The table grown, with zeros, to `bytes` bytes. *)
Room(bytes) == 0..(4 * bytes - 1)
Widened(m, bytes) ==
    [bits |-> [p \in DOMAIN m.bits \cup Room(bytes) |->
                 IF p \in DOMAIN m.bits THEN m.bits[p] ELSE 0],
     lo |-> m.lo, hi |-> m.hi, gen |-> m.gen]

(* Two bits per position: 0 not evaluated, 1 no match, 2 a match.  `put`   *)
(* ors its value into them.                                                *)
Verdict(found) == IF found THEN 2 ELSE 1
Or(v, w) == IF v = 0 THEN w ELSE IF v = w THEN v ELSE 3
Put(m, p, found) ==
    [bits |-> [q \in DOMAIN m.bits |->
                 IF q = p THEN Or(m.bits[q], Verdict(found)) ELSE m.bits[q]],
     lo |-> IF p < m.lo THEN p ELSE m.lo,
     hi |-> IF p > m.hi THEN p ELSE m.hi,
     gen |-> m.gen]

-----------------------------------------------------------------------------
(* memoFor: a table for every program; program i's readied for this        *)
(* execution.  No memo when its table would not fit in the limit.          *)

Bytes == job.size \div 4 + 1
Fits  == Bytes <= job.limit

Grown == [j \in DOMAIN memos \cup 1..job.programs |->
             IF j \in DOMAIN memos THEN memos[j] ELSE Fresh]
Current(i) == IF Grown[i].gen # gen THEN Began(Grown[i], gen) ELSE Grown[i]
Ready(i)   == Widened(Current(i), Bytes)

Store(i, m) == memos' = [Grown EXCEPT ![i] = m]

-----------------------------------------------------------------------------

Init == job = Idle /\ answer = {} /\ gen = 0 /\ memos = [j \in {} |-> Fresh]

(* initScratchInto: the tables of the last execution are stale.  When the  *)
(* number wraps, none may keep one that will come around again.            *)
(* Mutant: it wraps and the tables keep theirs. *)
BeginKeeping ==
    /\ job = Idle /\ job' \in Jobs /\ answer' = {}
    /\ gen' = IF (gen + 1) % Gens # 0 THEN gen + 1 ELSE 1
    /\ memos' = memos
Begin ==
    /\ job = Idle /\ job' \in Jobs /\ answer' = {}
    /\ IF (gen + 1) % Gens # 0
       THEN gen' = gen + 1 /\ memos' = memos
       ELSE gen' = 1 /\ memos' = [j \in DOMAIN memos |-> Began(memos[j], 0)]

Question(i, p) == job # Idle /\ i \in 1..job.programs /\ p \in Positions /\ p <= job.size

Answer(i, p, found) ==
    /\ answer' = {[program |-> i, pos |-> p, found |-> found]}
    /\ UNCHANGED <<job, gen>>

(* The memo answers. *)
Recall(i, p) ==
    /\ Question(i, p) /\ Fits
    /\ Ready(i).bits[p] # 0
    /\ Answer(i, p, Ready(i).bits[p] = 2)
    /\ Store(i, Ready(i))

(* T0's VM answers, and the memo keeps it. *)
Evaluate(i, p) ==
    /\ Question(i, p) /\ Fits
    /\ Ready(i).bits[p] = 0
    /\ Answer(i, p, p \in job.truth[i])
    /\ Store(i, Put(Ready(i), p, p \in job.truth[i]))

(* T0's VM answers, without a memo. *)
EvaluateBare(i, p) ==
    /\ Question(i, p) /\ ~Fits
    /\ Answer(i, p, p \in job.truth[i])
    /\ UNCHANGED memos

(* An error ends the execution: no memory for the tables, none for program *)
(* i's bits, or the VM gave up (out of memory, out of budget).             *)
GiveUp(i, p) ==
    /\ Question(i, p)
    /\ \/ ~Fits /\ UNCHANGED memos
       \/ Fits /\ ~(1..job.programs \subseteq DOMAIN memos) /\ UNCHANGED memos
       \/ Fits /\ Ready(i) # Current(i) /\ Store(i, Current(i))
       \/ Fits /\ Ready(i).bits[p] = 0 /\ Store(i, Ready(i))
    /\ job' = Idle /\ answer' = {} /\ UNCHANGED gen

Finish ==
    /\ job # Idle /\ job' = Idle /\ answer' = {}
    /\ UNCHANGED <<gen, memos>>

Asks == \E i \in 1..job.programs, p \in Positions :
           \/ Recall(i, p) \/ Evaluate(i, p) \/ EvaluateBare(i, p) \/ GiveUp(i, p)

Next == Begin \/ (job # Idle /\ Asks) \/ Finish

Spec == Init /\ [][Next]_vars

-----------------------------------------------------------------------------
(* Properties. *)

MemoType(m) ==
    /\ m = [bits |-> m.bits, lo |-> m.lo, hi |-> m.hi, gen |-> m.gen]
    /\ m.bits \in [DOMAIN m.bits -> 0..3] /\ DOMAIN m.bits \subseteq Nat
    /\ m.lo \in Nat /\ m.hi \in Nat /\ m.gen \in 0..(Gens - 1)

(* The tables are bytes of two-bit entries, the number is a number.        *)
TypeOK ==
    /\ job \in Jobs \cup {Idle}
    /\ gen \in 0..(Gens - 1)
    /\ memos = [j \in DOMAIN memos |-> memos[j]]
    /\ \A j \in DOMAIN memos : MemoType(memos[j])

(* Whatever executions used this Scratch before, and however often the     *)
(* number wrapped, a table that carries this execution's number holds only *)
(* this execution's truth.  In particular no entry is 3, which `get`       *)
(* asserts, and `put` never ors into another verdict.                      *)
NeverStale ==
    job # Idle =>
        \A i \in DOMAIN memos : memos[i].gen = gen =>
            /\ i \in 1..job.programs
            /\ \A p \in DOMAIN memos[i].bits :
                  memos[i].bits[p] \in {0, Verdict(p \in job.truth[i])}

(* Clearing only what was touched is enough: every verdict a table still   *)
(* holds, from any execution, lies between its lo and its hi.              *)
Covered ==
    \A i \in DOMAIN memos : \A p \in DOMAIN memos[i].bits :
        memos[i].bits[p] # 0 => memos[i].lo <= p /\ p <= memos[i].hi

(* The memo cannot be told from asking T0's VM every time.                 *)
Oracle == INSTANCE LookOracle
MemoIsTransparent == Oracle!Spec
=============================================================================
