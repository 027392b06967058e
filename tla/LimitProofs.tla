----------------------------- MODULE LimitProofs ------------------------------
(***************************************************************************)
(* Theorems about what is bounded (Limits).  The steps of the two          *)
(* executors (LookBudget, as the instance B): for every limit, every cost  *)
(* of a VM's step and any number of start positions.  The tables of the    *)
(* DFA (Dfa): for every program, every caps and every text.                *)
(***************************************************************************)
EXTENDS Limits, Sequences, FiniteSetTheorems, WellFoundedInduction, TLAPS

-----------------------------------------------------------------------------
(* The step limit. *)

(* The types and what is lent: while the VM runs, the steps made before it *)
(* and what it was lent make up the limit.                                 *)
IInv ==
    /\ stage \in {"between", "start", "exec", "vm", "answered", "exceeded"}
    /\ steps \in Nat /\ before \in Nat /\ remaining \in Nat
    /\ stage = "start" => steps = 0
    /\ B!LendsWithin

USE LookBudgetAssumption

(* Nothing is spent before the first start position (backtrack.zig:177).   *)
LEMMA InitInv == B!Init => IInv
BY DEF B!Init, IInv, B!LendsWithin

(* Each step of either executor keeps it (backtrack.zig:404 and 660,       *)
(* budget.zig:21).                                                         *)
LEMMA StepInv == IInv /\ [B!Next]_B!vars => IInv'
<1> SUFFICES ASSUME IInv, [B!Next]_B!vars PROVE IInv'
    OBVIOUS
<1>1. CASE B!Run
      BY <1>1 DEF B!Run, IInv, B!LendsWithin
<1>2. CASE B!Dispatch
      BY <1>2 DEF B!Dispatch, B!Reached, IInv, B!LendsWithin
<1>3. CASE B!Lend
      BY <1>3 DEF B!Lend, IInv, B!LendsWithin
<1>4. ASSUME NEW n \in Costs, B!Charge(n) PROVE IInv'
      <2>1. n \in Nat
            OBVIOUS
      <2>2. CASE remaining < n
            BY <1>4, <2>1, <2>2 DEF B!Charge, B!Charged, IInv, B!LendsWithin
      <2>3. CASE ~(remaining < n)
            BY <1>4, <2>1, <2>3 DEF B!Charge, B!Charged, IInv, B!LendsWithin
      <2> QED BY <2>2, <2>3
<1>5. CASE B!Answer
      BY <1>5 DEF B!Answer, B!Repaid, IInv, B!LendsWithin
<1>6. CASE B!Done
      BY <1>6 DEF B!Done, IInv, B!LendsWithin
<1>7. CASE UNCHANGED B!vars
      BY <1>7 DEF B!vars, IInv, B!LendsWithin
<1> QED BY <1>1, <1>2, <1>3, <1>4, <1>5, <1>6, <1>7 DEF B!Next

(* The DFA beside them takes no part in the steps.                         *)
LEMMA StepsAlone == LimitsSpec => B!Spec
<1>1. LimitsInit => B!Init
  BY DEF LimitsInit
<1>2. [LimitsNext]_<<part, budget, vars>> => [B!Next]_B!vars
  BY DEF LimitsNext, budget, B!vars
<1> QED BY <1>1, <1>2, PTL DEF LimitsSpec, B!Spec

(* It holds in every reachable state.                                      *)
LEMMA Invariant == B!Spec => []IInv
BY InitInv, StepInv, PTL DEF B!Spec

(* No subtraction of steps wraps: a delegated VM is lent something, never  *)
(* more than the limit leaves (backtrack.zig:660 and 667).                 *)
THEOREM LendsWithinAlways == LimitsSpec => []LendsWithin
<1>1. IInv => LendsWithin
      BY DEF IInv, LendsWithin
<1> QED BY <1>1, Invariant, StepsAlone, PTL

(* The steps the abstract counter sees.                                    *)
Spent == CASE stage = "exceeded" -> MaxSteps
           [] stage = "vm"       -> steps + (before - remaining)
           [] OTHER              -> steps
Running == stage \notin {"between", "exceeded"}

(* Each step of either executor is a step of the one counter, or none:     *)
(* lending and repaying change nothing (backtrack.zig:660-667).            *)
LEMMA StepRefines == IInv /\ [B!Next]_B!vars => [B!Allowed!Next]_<<Spent, Running>>
<1> SUFFICES ASSUME IInv, [B!Next]_B!vars
             PROVE  B!Allowed!Next \/ UNCHANGED <<Spent, Running>>
    BY DEF Spent, Running
<1>1. CASE B!Run
      BY <1>1 DEF B!Run, IInv, B!Allowed!Next, B!Allowed!Begin
<1>2. CASE B!Dispatch
      <2>1. CASE steps + 1 >= MaxSteps
            <3>1. B!Allowed!GiveUp(1)
                  BY <1>2, <2>1 DEF B!Dispatch, B!Reached, IInv, B!Allowed!GiveUp
            <3> QED BY <3>1 DEF B!Allowed!Next
      <2>2. CASE ~(steps + 1 >= MaxSteps)
            <3>1. B!Allowed!Spend(1)
                  BY <1>2, <2>2 DEF B!Dispatch, B!Reached, IInv, B!Allowed!Spend
            <3> QED BY <3>1 DEF B!Allowed!Next
      <2> QED BY <2>1, <2>2
<1>3. CASE B!Lend
      BY <1>3 DEF B!Lend, IInv, B!LendsWithin, Spent, Running
<1>4. ASSUME NEW n \in Costs, B!Charge(n) PROVE B!Allowed!Next
      <2>1. n \in Nat
            OBVIOUS
      <2>2. CASE remaining < n
            <3>1. B!Allowed!GiveUp(n)
                  BY <1>4, <2>1, <2>2 DEF B!Charge, B!Charged, IInv, B!LendsWithin, B!Allowed!GiveUp
            <3> QED BY <3>1 DEF B!Allowed!Next
      <2>3. CASE ~(remaining < n)
            <3>1. B!Allowed!Spend(n)
                  BY <1>4, <2>1, <2>3 DEF B!Charge, B!Charged, IInv, B!LendsWithin, B!Allowed!Spend
            <3> QED BY <3>1 DEF B!Allowed!Next
      <2> QED BY <2>2, <2>3
<1>5. CASE B!Answer
      BY <1>5 DEF B!Answer, B!Repaid, IInv, B!LendsWithin, Spent, Running
<1>6. CASE B!Done
      BY <1>6 DEF B!Done, IInv, B!Allowed!Next, B!Allowed!Stop
<1>7. CASE UNCHANGED B!vars
      BY <1>7 DEF B!vars, Spent, Running
<1> QED BY <1>1, <1>2, <1>3, <1>4, <1>5, <1>6, <1>7 DEF B!Next

(* The backtracker and the VMs it delegates to draw on one counter per     *)
(* start position, and it never passes max_steps (backtrack.zig:60, 660).  *)
THEOREM DrawsOnOneCounter == LimitsSpec => OneCounter
<1>1. B!Init => B!Allowed!Init
      BY DEF B!Init, B!Allowed!Init
<1>2. IInv /\ [B!Next]_B!vars => [B!Allowed!Next]_<<Spent, Running>>
      BY StepRefines
<1>3. <<Spent, Running>> = <<CASE stage = "exceeded" -> MaxSteps
                              [] stage = "vm" -> steps + (before - remaining)
                              [] OTHER -> steps,
                            stage \notin {"between", "exceeded"}>>
      BY DEF Spent, Running
<1> QED BY <1>1, <1>2, <1>3, Invariant, StepsAlone, PTL
    DEF B!Spec, OneCounter, B!OneCounter, B!Allowed!Spec, Spent, Running
-----------------------------------------------------------------------------
(* The DFA: its tables and the searches in them. *)

(* A row has a column per class and a mark per context, and leads to       *)
(* states that were interned or to the dead one.                           *)
Row(row, keys, dead) ==
    /\ DOMAIN row.to = Classes /\ DOMAIN row.emit = Contexts
    /\ \A c \in Classes : row.to[c] \in keys \cup {dead}
Rows(table, keys, dead) == \A k \in DOMAIN table : Row(table[k], keys, dead)
Interned(table, keys, dead) ==
    IsFiniteSet(keys) /\ DOMAIN table \subseteq keys /\ Rows(table, keys, dead)

(* The states a search starts in are interned first.                       *)
ForwardStarts == \A sticky \in BOOLEAN, left \in Contexts : FStart(sticky, left) \in fstates
ReverseStarts == \A right \in Contexts : RStart(right) \in rstates

Kept == phase \notin {"forward", "reverse", "no_dfa"}
RoomForBoth == Fits(Cardinality(fstates), Cardinality(rstates))

(* The caps are looked at before a row is filled, and not after the last:  *)
(* that both tables fit is what the last row found, for it interned        *)
(* nothing.                                                                *)
TablesInv ==
    /\ Interned(ft, fstates, FDead) /\ Interned(rt, rstates, RDead)
    /\ ForwardStarts
    /\ phase = "forward" => rt = <<>>
    /\ phase \notin {"forward", "no_dfa"} =>
          /\ fstates = DOMAIN ft /\ ReverseStarts
          /\ rstates = DOMAIN rt => RoomForBoth
    /\ Kept => rstates = DOMAIN rt

LEMMA ImageFinite ==
    ASSUME NEW f, IsFiniteSet(DOMAIN f)
    PROVE  IsFiniteSet({f[x] : x \in DOMAIN f})
<1> DEFINE K == DOMAIN f
           T == {f[x] : x \in K}
           g == [x \in K |-> f[x]]
<1>1. g \in Surjection(K, T)
  BY DEF Surjection
<1> QED BY <1>1, FS_Surjection

(* Texts are of a finite code space (DfaAssumption).                       *)
LEMMA TextsOfCodeSpace == CodeSpace
BY DfaAssumption DEF CodeSpace

LEMMA ClassesFinite == ASSUME CodeSpace PROVE IsFiniteSet(Classes)
<1> DEFINE f == [v \in Characters |-> classOf(v)]
<1>1. IsFiniteSet(DOMAIN f)
  BY DEF CodeSpace
<1>2. {f[x] : x \in DOMAIN f} = Classes
  BY DEF Classes
<1> HIDE DEF f
<1> QED BY <1>1, <1>2, ImageFinite

LEMMA ContextsFinite == IsFiniteSet(Contexts) /\ Edge \in Contexts
<1>1. IsFiniteSet({"any"}) /\ IsFiniteSet({"edge"})
  BY FS_Singleton, Zenon
<1>2. IsFiniteSet({"edge"} \cup {"line"})
  BY <1>1, FS_AddElement, Zenon
<1>3. IsFiniteSet({"edge"} \cup {"line"} \cup {"word"})
  BY <1>2, FS_AddElement, Zenon
<1>4. IsFiniteSet({"edge"} \cup {"line"} \cup {"word"} \cup {"other"})
  BY <1>3, FS_AddElement, Zenon
<1>5. {"edge"} \cup {"line"} \cup {"word"} \cup {"other"} = {"edge", "line", "word", "other"}
  OBVIOUS
<1> QED BY <1>1, <1>4, <1>5 DEF Contexts, Edge

LEMMA ContextIs == \A v : contextOf(v) \in Contexts
BY DEF contextOf, Contexts

(* A state's row is filled, and the states it leads to are interned        *)
(* (dfa.zig:437-467 and 483-505).                                          *)
LEMMA RowFilled ==
    ASSUME CodeSpace, NEW table, NEW keys, NEW dead, Interned(table, keys, dead),
           NEW key \in keys, NEW row,
           DOMAIN row.to = Classes, DOMAIN row.emit = Contexts
    PROVE  LET t == Filled(table, key, row)
               k == keys \cup Others(row, dead)
           IN  Interned(t, k, dead) /\ DOMAIN t = DOMAIN table \cup {key}
<1> DEFINE t == Filled(table, key, row)
           others == Others(row, dead)
           k == keys \cup others
<1>1. DOMAIN t = DOMAIN table \cup {key} /\ \A x \in DOMAIN t : t[x] = IF x = key THEN row ELSE table[x]
  BY DEF Filled
<1>2. IsFiniteSet(k)
  <2> DEFINE all == {row.to[c] : c \in DOMAIN row.to}
  <2>1. IsFiniteSet(all)
    BY ClassesFinite, ImageFinite
  <2>2. others \subseteq all
    BY DEF Others
  <2>3. IsFiniteSet(others)
    BY <2>1, <2>2, FS_Subset
  <2> QED BY <2>3, FS_Union DEF Interned
<1>3. \A c \in Classes : row.to[c] \in k \cup {dead}
  BY DEF Others
<1>4. Rows(t, k, dead)
  <2> HIDE DEF t, k
  <2> SUFFICES ASSUME NEW x \in DOMAIN t PROVE Row(t[x], k, dead)
    BY DEF Rows
  <2>1. CASE x = key
    BY <1>1, <1>3, <2>1 DEF Row
  <2>2. CASE x # key
    <3>1. x \in DOMAIN table /\ t[x] = table[x]
      BY <1>1, <2>2
    <3>2. Row(table[x], keys, dead)
      BY <3>1 DEF Interned, Rows
    <3>3. keys \subseteq k
      BY DEF k
    <3> QED BY <3>1, <3>2, <3>3 DEF Row
  <2> QED BY <2>1, <2>2
<1> QED BY <1>1, <1>2, <1>4 DEF Interned

LEMMA TablesInit == CodeSpace /\ Init => TablesInv
<1> SUFFICES ASSUME CodeSpace, Init PROVE TablesInv
  OBVIOUS
<1>1. fstates = {FStart(sticky, left) : sticky \in BOOLEAN, left \in Contexts} /\ ft = <<>>
      /\ rstates = {} /\ rt = <<>> /\ phase = "forward"
  BY DEF Init
<1>2. IsFiniteSet(fstates)
  <2> DEFINE once == [left \in Contexts |-> FStart(TRUE, left)]
             any  == [left \in Contexts |-> FStart(FALSE, left)]
             OnceStarts == {once[left] : left \in DOMAIN once}
             AllStarts == {any[left] : left \in DOMAIN any}
  <2>1. IsFiniteSet(OnceStarts) /\ IsFiniteSet(AllStarts)
    BY ContextsFinite, ImageFinite
  <2>2. \A left \in Contexts : FStart(TRUE, left) \in OnceStarts /\ FStart(FALSE, left) \in AllStarts
    OBVIOUS
  <2> HIDE DEF OnceStarts, AllStarts
  <2>3. \A sticky \in BOOLEAN, left \in Contexts : FStart(sticky, left) \in OnceStarts \cup AllStarts
    <3> TAKE sticky \in BOOLEAN, left \in Contexts
    <3>1. CASE sticky
      BY <2>2, <3>1 DEF FStart
    <3>2. CASE ~sticky
      BY <2>2, <3>2 DEF FStart
    <3> QED BY <3>1, <3>2
  <2>4. \A x \in fstates : \E sticky \in BOOLEAN, left \in Contexts : x = FStart(sticky, left)
    BY <1>1
  <2>5. fstates \subseteq OnceStarts \cup AllStarts
    BY <2>3, <2>4, Zenon
  <2> QED BY <2>1, <2>5, FS_Union, FS_Subset
<1>3. Interned(ft, fstates, FDead) /\ Interned(rt, rstates, RDead)
  BY <1>1, <1>2, FS_EmptySet DEF Interned, Rows
<1>4. ForwardStarts
  BY <1>1, SMT DEF ForwardStarts
<1> QED BY <1>1, <1>3, <1>4 DEF TablesInv, Kept

Fixed == UNCHANGED <<prog, cap>>

(* What depends on the program alone.                                      *)
LEMMA Unmoved ==
    ASSUME Fixed
    PROVE  /\ Classes' = Classes /\ Contexts' = Contexts
           /\ FDead' = FDead /\ RDead' = RDead
           /\ \A sticky, left : FStart(sticky, left)' = FStart(sticky, left)
           /\ \A right : RStart(right)' = RStart(right)
           /\ \A f, r : Fits(f, r)' <=> Fits(f, r)
<1>1. Insts' = Insts /\ Pcs' = Pcs /\ cap' = cap
  BY DEF Fixed, Insts, Pcs
<1>2. Asserts' <=> Asserts
  BY <1>1 DEF Asserts
<1>3. \A v : contextOf(v)' = contextOf(v)
  BY <1>2, Zenon DEF contextOf
<1>4. \A v : Accepts(v)' = Accepts(v)
  BY <1>1 DEF Accepts
<1>5. Classes' = Classes
  <2>1. \A v : classOf(v)' = classOf(v)
    BY <1>3, <1>4 DEF classOf
  <2> QED BY <2>1 DEF Classes
<1>6. \A right : RStart(right)' = RStart(right)
  BY <1>1 DEF RStart, RKey, IsMatch
<1>7. \A f, r : Fits(f, r)' <=> Fits(f, r)
  <2>1. \A extra : Columns(extra)' = Columns(extra)
    BY <1>2, <1>5 DEF Columns
  <2> QED BY <1>1, <2>1 DEF Fits
<1> QED BY <1>2, <1>5, <1>6, <1>7 DEF Contexts, FDead, RDead, FStart, FKey, RKey

(* A step of the construction keeps the tables as they should be.          *)
LEMMA TablesStep == CodeSpace /\ TablesInv /\ [Next]_vars => TablesInv'
<1> SUFFICES ASSUME CodeSpace, TablesInv, [Next]_vars PROVE TablesInv'
  OBVIOUS
<1>1. Fixed
  BY DEF Next, vars, tables, Fixed, ForwardState, ForwardBuilt, ReverseState, ReverseBuilt,
         GiveUp, Find, Refuse, Skip, Step, StepEnd, SkipOut, Found, StepBack, BackAtIndex,
         Started
<1>2. /\ Classes' = Classes /\ Contexts' = Contexts
      /\ FDead' = FDead /\ RDead' = RDead
      /\ \A sticky, left : FStart(sticky, left)' = FStart(sticky, left)
      /\ \A right : RStart(right)' = RStart(right)
      /\ \A f, r : Fits(f, r)' <=> Fits(f, r)
  BY <1>1, Unmoved
<1>3. \A t, k, x : Interned(t, k, x)' <=> Interned(t, k, x)
  BY <1>2 DEF Interned, Rows, Row
<1>4. CASE ForwardState
  <2>1. PICK key \in fstates :
           /\ ft' = Filled(ft, key, FRow(key))
           /\ fstates' = fstates \cup Others(FRow(key), FDead)
    <3>1. phase = "forward" /\ fstates # DOMAIN ft
      BY <1>4 DEF ForwardState
    <3>2. \E k \in fstates : k \notin DOMAIN ft
      BY <3>1 DEF TablesInv, Interned
    <3> QED BY <1>4, <3>2 DEF ForwardState
  <2>2. DOMAIN FRow(key).to = Classes /\ DOMAIN FRow(key).emit = Contexts
    BY DEF FRow
  <2>3. Interned(ft', fstates', FDead)
    BY <2>1, <2>2, RowFilled DEF TablesInv
  <2>4. Interned(ft, fstates, FDead)'
    BY <1>2, <1>3, <2>3
  <2>5. phase = "forward" /\ UNCHANGED <<rstates, rt, phase>>
    BY <1>4 DEF ForwardState
  <2>6. ForwardStarts'
    BY <1>2, <2>1 DEF TablesInv, ForwardStarts
  <2>7. Interned(rt, rstates, RDead)'
    BY <1>2, <1>3, <2>5 DEF TablesInv
  <2> QED BY <2>4, <2>5, <2>6, <2>7 DEF TablesInv, Kept
<1>5. CASE ForwardBuilt
  <2>1. /\ phase = "forward" /\ fstates = DOMAIN ft /\ phase' = "reverse"
        /\ rstates' = {RStart(right) : right \in Contexts} /\ UNCHANGED <<fstates, ft, rt>>
        /\ rt = <<>>
    BY <1>5 DEF ForwardBuilt, TablesInv
  <2>2. IsFiniteSet(rstates')
    <3> DEFINE f == [right \in Contexts |-> RStart(right)]
    <3>1. {f[right] : right \in DOMAIN f} = rstates'
      BY <2>1
    <3>2. DOMAIN f = Contexts
      OBVIOUS
    <3> HIDE DEF f
    <3> QED BY <3>1, <3>2, ContextsFinite, ImageFinite
  <2>3. Interned(rt', rstates', RDead) /\ rstates' # DOMAIN rt'
    BY <2>1, <2>2, ContextsFinite DEF Interned, Rows
  <2>4. Interned(rt, rstates, RDead)' /\ Interned(ft, fstates, FDead)'
    BY <1>2, <1>3, <2>1, <2>3 DEF TablesInv
  <2>5. ForwardStarts' /\ ReverseStarts'
    BY <1>2, <2>1 DEF TablesInv, ForwardStarts, ReverseStarts
  <2> QED BY <2>1, <2>3, <2>4, <2>5 DEF TablesInv, Kept
<1>6. CASE ReverseState
  <2>1. PICK key \in rstates :
           /\ rt' = Filled(rt, key, RRow(key))
           /\ rstates' = rstates \cup Others(RRow(key), RDead)
    <3>1. phase = "reverse" /\ rstates # DOMAIN rt
      BY <1>6 DEF ReverseState
    <3>2. \E k \in rstates : k \notin DOMAIN rt
      BY <3>1 DEF TablesInv, Interned
    <3> QED BY <1>6, <3>2 DEF ReverseState
  <2>2. DOMAIN RRow(key).to = Classes /\ DOMAIN RRow(key).emit = Contexts
    BY DEF RRow
  <2>3. Interned(rt', rstates', RDead) /\ DOMAIN rt' = DOMAIN rt \cup {key}
    <3>1. Interned(rt, rstates, RDead)
      BY DEF TablesInv
    <3> HIDE DEF TablesInv
    <3> QED BY <2>1, <2>2, <3>1, RowFilled, Zenon
  <2>4. Interned(rt, rstates, RDead)'
    BY <1>2, <1>3, <2>3
  <2>5. phase = "reverse" /\ UNCHANGED <<fstates, ft, phase>> /\ RoomForBoth
    BY <1>6 DEF ReverseState, RoomForBoth
  <2>6. ForwardStarts' /\ ReverseStarts'
    BY <1>2, <2>1, <2>5 DEF TablesInv, ForwardStarts, ReverseStarts
  <2>7. Interned(ft, fstates, FDead)'
    BY <1>2, <1>3, <2>5 DEF TablesInv
  <2>8. rstates' = DOMAIN rt' => RoomForBoth'
    <3>1. DOMAIN rt' \subseteq rstates
      BY <2>3 DEF TablesInv, Interned
    <3>2. rstates' = DOMAIN rt' => rstates' = rstates
      BY <2>1, <3>1
    <3> QED BY <1>2, <2>5, <3>2 DEF RoomForBoth
  <2> QED BY <2>4, <2>5, <2>6, <2>7, <2>8 DEF TablesInv, Kept
<1>7. ASSUME UNCHANGED <<fstates, ft, rstates, rt>>,
             phase' = phase \/ phase' = "no_dfa" \/ (Kept /\ Kept')
                \/ (phase = "reverse" /\ rstates = DOMAIN rt /\ phase' = "ready")
      PROVE  TablesInv'
  <2>1. Interned(ft, fstates, FDead)' /\ Interned(rt, rstates, RDead)'
    BY <1>2, <1>3, <1>7 DEF TablesInv
  <2>2. (ForwardStarts' <=> ForwardStarts) /\ (ReverseStarts' <=> ReverseStarts) /\ (RoomForBoth' <=> RoomForBoth)
    BY <1>2, <1>7 DEF ForwardStarts, ReverseStarts, RoomForBoth
  <2> QED BY <1>7, <2>1, <2>2 DEF TablesInv, Kept
<1>8. CASE ReverseBuilt \/ GiveUp \/ UNCHANGED vars
  BY <1>7, <1>8 DEF ReverseBuilt, GiveUp, vars, tables
<1>9. CASE \/ \E c \in Calls : Find(c) \/ Refuse(c)
           \/ Skip \/ Step \/ StepEnd \/ SkipOut \/ Found
           \/ StepBack \/ BackAtIndex \/ Started
  <2>1. UNCHANGED tables /\ Kept /\ Kept'
    BY <1>9 DEF Kept, Find, Refuse, Skip, Step, StepEnd, SkipOut, Found, StepBack,
                BackAtIndex, Started
  <2> QED BY <1>7, <2>1 DEF tables
<1> QED BY <1>4, <1>5, <1>6, <1>8, <1>9 DEF Next

(* The tables of a program that has a DFA are within the caps, both        *)
(* together, for every program and every caps: what is kept is what the    *)
(* last look at the caps found (dfa.zig:438, 485, 822 and 902).            *)
THEOREM TablesAlwaysFit == LimitsSpec => []TablesFit
<1> DEFINE PartInv == /\ part \in {"tables", "steps"}
                      /\ part = "tables" => TablesInv
                      /\ part = "steps" => phase = "forward"
<1>1. LimitsInit => PartInv
  BY TablesInit, TextsOfCodeSpace DEF LimitsInit, IdleDfa
<1>2. PartInv /\ [LimitsNext]_<<part, budget, vars>> => PartInv'
  <2> SUFFICES ASSUME PartInv, [LimitsNext]_<<part, budget, vars>> PROVE PartInv'
    OBVIOUS
  <2>1. part' = part /\ (part = "steps" => phase' = phase)
    BY DEF LimitsNext, vars
  <2>2. part = "tables" => [Next]_vars
    BY DEF LimitsNext
  <2> QED BY <2>1, <2>2, TablesStep, TextsOfCodeSpace
<1>3. TablesInv => TablesFit
  <2> SUFFICES ASSUME TablesInv, phase \notin {"forward", "reverse", "no_dfa"}
               PROVE  LET f == Cardinality(fstates)
                          r == Cardinality(rstates)
                          k == Cardinality(Classes)
                      IN  /\ f + r <= cap.states
                          /\ IF Asserts THEN f * (k + 1) + r * (k + 4) <= cap.cells
                             ELSE (f + r) * k <= cap.cells
    BY Zenon DEF TablesFit
  <2> DEFINE f == Cardinality(fstates)
             r == Cardinality(rstates)
             k == Cardinality(Classes)
  <2>1. f \in Nat /\ r \in Nat /\ k \in Nat
    BY ClassesFinite, TextsOfCodeSpace, FS_CardinalityType DEF TablesInv, Interned
  <2>2. Fits(f, r)
    BY DEF TablesInv, Kept, RoomForBoth
  <2>3. \A extra : Columns(extra) = k + IF Asserts THEN extra ELSE 0
    BY DEF Columns
  <2> HIDE DEF f, r, k
  <2>4. f + r <= cap.states /\ f * Columns(1) + r * Columns(4) <= cap.cells
    BY <2>2 DEF Fits
  <2>5. f * (k + 0) + r * (k + 0) = (f + r) * k
    BY <2>1
  <2>6. Asserts => Columns(1) = k + 1 /\ Columns(4) = k + 4
    BY <2>3
  <2>7. ~Asserts => Columns(1) = k + 0 /\ Columns(4) = k + 0
    BY <2>3
  <2> QED BY <2>4, <2>5, <2>6, <2>7 DEF f, r, k
<1>4. PartInv => TablesFit
  BY <1>3, Zenon DEF TablesFit
<1> QED BY <1>1, <1>2, <1>4, PTL DEF LimitsSpec

(* Whatever row and column a search is about to look up are there: the     *)
(* code multiplies them into an index of one array (dfa.zig:679-692,       *)
(* 708-731).                                                               *)
ForwardLookup ==
    phase = "find" =>
        /\ st \in DOMAIN ft
        /\ pos = Len(input) => Edge \in DOMAIN ft[st].emit
        /\ pos < Len(input) => LET c == classOf(decodeAt(pos).value)
                                 IN  c \in DOMAIN ft[st].to /\ c.cat \in DOMAIN ft[st].emit
BackwardLookup ==
    phase = "back" =>
        /\ st \in DOMAIN rt
        /\ pos = index => contextBefore(index) \in DOMAIN rt[st].emit
        /\ pos > index => LET c == classOf(Part(decodeBefore(pos)).value)
                            IN  c \in DOMAIN rt[st].to /\ c.cat \in DOMAIN rt[st].emit
LookupsFilled == ForwardLookup /\ BackwardLookup

(* Where a search is: in a state with a row, and in the text.              *)
Called == call \in Calls /\ index <= Len(input)
SearchInv ==
    /\ phase \in {"forward", "reverse", "ready"} => end = {}
    /\ phase \in {"find", "found", "back"} => Called /\ end \subseteq 0..Len(input)
    /\ phase \in {"find", "back"} => pos \in 0..Len(input)
    /\ phase = "find" => st \in fstates
    /\ phase = "back" => st \in rstates

LEMMA TextIs ==
    ASSUME CodeSpace, Called
    PROVE  /\ Len(input) \in Nat /\ index \in 0..Len(input)
           /\ \A p \in 1..Len(input) : input[p] \in Characters
BY DEF CodeSpace, Called, input, index

LEMMA DecodedAt ==
    ASSUME CodeSpace, Called, NEW p \in 0..Len(input) - 1
    PROVE  decodeAt(p).value \in Characters /\ decodeAt(p).pos \in p + 1..Len(input)
<1>1. Len(input) \in Nat /\ input[p + 1] \in Characters /\ Pair \in Characters
  BY TextIs DEF CodeSpace
<1> QED BY <1>1 DEF decodeAt

LEMMA DecodedBefore ==
    ASSUME CodeSpace, Called, NEW p \in 1..Len(input)
    PROVE  decodeBefore(p).value \in Characters /\ decodeBefore(p).pos \in 0..p - 1
<1>1. Len(input) \in Nat /\ input[p] \in Characters /\ Pair \in Characters
  BY TextIs DEF CodeSpace
<1> QED BY <1>1 DEF decodeBefore

LEMMA PartIs ==
    ASSUME CodeSpace, Called, NEW p \in 1..Len(input), p > index
    PROVE  LET d == Part(decodeBefore(p))
           IN  d.value \in Characters /\ d.pos \in index..p - 1
<1> DEFINE d == decodeBefore(p)
<1>1. d.value \in Characters /\ d.pos \in 0..p - 1 /\ index \in 0..p - 1
  BY DecodedBefore, TextIs
<1> SUFFICES Part(d).value \in Characters /\ Part(d).pos \in index..p - 1
  OBVIOUS
<1> HIDE DEF d
<1>2. CASE d.pos < index
  <2>1. index \in 0..Len(input) - 1
    BY <1>1, TextIs
  <2>2. decodeAt(index).value \in Characters
    BY <2>1, DecodedAt
  <2> QED BY <1>1, <1>2, <2>2 DEF Part
<1>3. CASE ~(d.pos < index)
  BY <1>1, <1>3 DEF Part
<1> QED BY <1>2, <1>3

LEMMA ClassIs == \A v \in Characters : classOf(v) \in Classes /\ classOf(v).cat \in Contexts
BY ContextIs DEF Classes, classOf

LEMMA BeforeIs == \A p : contextBefore(p) \in Contexts /\ contextAt(p) \in Contexts
BY ContextIs, ContextsFinite DEF contextBefore, contextAt

LEMMA LookupsAre == CodeSpace /\ TablesInv /\ SearchInv => LookupsFilled
<1> SUFFICES ASSUME CodeSpace, TablesInv, SearchInv PROVE LookupsFilled
  OBVIOUS
<1>1. ASSUME phase = "find" PROVE ForwardLookup
  <2>1. Called /\ pos \in 0..Len(input) /\ st \in DOMAIN ft
    BY <1>1 DEF SearchInv, TablesInv
  <2>2. DOMAIN ft[st].to = Classes /\ DOMAIN ft[st].emit = Contexts
    BY <2>1 DEF TablesInv, Interned, Rows, Row
  <2>3. pos < Len(input) => decodeAt(pos).value \in Characters
    BY <2>1, DecodedAt, TextIs
  <2> QED BY <2>1, <2>2, <2>3, ClassIs, ContextsFinite DEF ForwardLookup
<1>2. ASSUME phase = "back" PROVE BackwardLookup
  <2>1. Called /\ pos \in 0..Len(input) /\ st \in DOMAIN rt
    BY <1>2 DEF SearchInv, TablesInv, Kept
  <2>2. DOMAIN rt[st].to = Classes /\ DOMAIN rt[st].emit = Contexts
    BY <2>1 DEF TablesInv, Interned, Rows, Row
  <2>3. pos > index => Part(decodeBefore(pos)).value \in Characters
    BY <2>1, PartIs, TextIs
  <2> QED BY <2>1, <2>2, <2>3, ClassIs, BeforeIs DEF BackwardLookup
<1> QED BY <1>1, <1>2 DEF LookupsFilled, ForwardLookup, BackwardLookup

(* A set of positions that is not empty has a first one.                   *)
LEMMA FirstPosition ==
    ASSUME NEW K, K \subseteq Nat, K # {}
    PROVE  \E x \in K : \A y \in K : x <= y
<1>1. \E x \in K : \A y \in K : ~(<<y, x>> \in OpToRel(<, Nat))
  BY NatLessThanWellFounded, WFMin
<1>2. \A x, y \in Nat : x < y => <<x, y>> \in OpToRel(<, Nat)
  BY Zenon DEF OpToRel
<1>3. \E x \in K : \A y \in K : ~(y < x)
  BY <1>1, <1>2, Zenon
<1> QED BY <1>3

LEMMA BeforeThen == \A p : contextBefore(p)' \in Contexts'
BY DEF contextBefore, contextOf, Contexts, Edge

(* Each step of a search leaves it in a state with a row (dfa.zig:657-731).*)
LEMMA SearchStep ==
    CodeSpace /\ TablesInv /\ TablesInv' /\ SearchInv /\ [Next]_vars => SearchInv'
<1> SUFFICES ASSUME CodeSpace, TablesInv, TablesInv', SearchInv, [Next]_vars PROVE SearchInv'
  OBVIOUS
<1>1. CASE ForwardState \/ ForwardBuilt \/ ReverseState \/ ReverseBuilt \/ GiveUp
  <2>1. phase \in {"forward", "reverse"} /\ phase' \in {"forward", "reverse", "ready", "no_dfa"} /\ end' = end
    BY <1>1 DEF ForwardState, ForwardBuilt, ReverseState, ReverseBuilt, GiveUp, search, tables,
                TablesInv
  <2> QED BY <2>1 DEF SearchInv
<1>2. ASSUME NEW c \in Calls, Find(c) PROVE SearchInv'
  <2>1. /\ phase = "ready" /\ phase' = "find" /\ ~Refused(c) /\ call' = c /\ pos' = c.index
        /\ UNCHANGED <<tables, end>> /\ st' = FStart(Once', contextBefore(c.index)')
    BY <1>2 DEF Find
  <2>2. c.index \in Nat /\ c.input \in Seq(Characters) /\ c.index <= Len(c.input)
    BY <2>1 DEF CodeSpace, Refused
  <2>3. input' = c.input /\ index' = c.index /\ end' = {}
    BY <2>1 DEF input, index, SearchInv
  <2>4. st' \in fstates'
    <3>1. \A sticky \in BOOLEAN, left \in Contexts' : FStart(sticky, left)' \in fstates'
      BY DEF TablesInv, ForwardStarts
    <3>2. \A sticky, left : FStart(sticky, left)' = FStart(sticky, left)
      BY DEF FStart, FKey
    <3>3. st' = FStart(TRUE, contextBefore(c.index)') \/ st' = FStart(FALSE, contextBefore(c.index)')
      BY <2>1 DEF FStart
    <3> QED BY <3>1, <3>2, <3>3, BeforeThen
  <2>5. Called'
    BY <2>1, <2>2, <2>3 DEF Called
  <2> QED BY <2>1, <2>2, <2>3, <2>4, <2>5 DEF SearchInv
<1>3. ASSUME NEW c \in Calls, Refuse(c) PROVE SearchInv'
  BY <1>3 DEF Refuse, SearchInv
<1>4. CASE Skip
  <2>1. /\ phase = "find" /\ phase' = "find" /\ UNCHANGED <<tables, call, end>> /\ Landings # {}
        /\ pos' = CHOOSE p \in Landings : \A q \in Landings : p <= q
        /\ st' = FStart(FALSE, contextBefore(pos'))
    BY <1>4 DEF Skip
  <2>2. Called /\ pos \in 0..Len(input) /\ end \subseteq 0..Len(input)
    BY <2>1 DEF SearchInv
  <2>3. Landings \subseteq 0..Len(input)
    BY <2>2, TextIs DEF Landings
  <2>4. pos' \in Landings
    <3>1. \E p \in Landings : \A q \in Landings : p <= q
      <4>1. Landings \subseteq Nat
        BY <2>2, <2>3, TextIs
      <4> QED BY <2>1, <4>1, FirstPosition
    <3> QED BY <2>1, <3>1, Zenon
  <2>5. st' \in fstates
    BY <2>1, BeforeIs DEF TablesInv, ForwardStarts
  <2>6. input' = input /\ Called' /\ fstates' = fstates
    BY <2>1, <2>2 DEF input, index, Called, tables
  <2> QED BY <2>1, <2>2, <2>3, <2>4, <2>5, <2>6 DEF SearchInv
<1>5. CASE Step
  <2> DEFINE d == decodeAt(pos)
             c == classOf(d.value)
  <2>1. /\ phase = "find" /\ pos < Len(input) /\ UNCHANGED <<tables, call, start>>
        /\ end' = Ends(c.cat) /\ st' = ft[st].to[c] /\ pos' = d.pos
        /\ phase' = IF ft[st].to[c] = FDead THEN "found" ELSE phase
    BY <1>5 DEF Step
  <2>2. Called /\ pos \in 0..Len(input) /\ end \subseteq 0..Len(input) /\ st \in DOMAIN ft
    BY <2>1 DEF SearchInv, TablesInv
  <2>3. d.value \in Characters /\ d.pos \in 0..Len(input)
    BY <2>1, <2>2, DecodedAt, TextIs
  <2>4. c \in Classes
    BY <2>3, ClassIs
  <2>5. ft[st].to[c] \in fstates \cup {FDead}
    BY <2>2, <2>4 DEF TablesInv, Interned, Rows, Row
  <2>6. Ends(c.cat) \subseteq 0..Len(input)
    BY <2>2 DEF Ends
  <2> HIDE DEF d, c
  <2>7. input' = input /\ Called' /\ fstates' = fstates
    BY <2>1, <2>2 DEF input, index, Called, tables
  <2> QED BY <2>1, <2>3, <2>5, <2>6, <2>7 DEF SearchInv
<1>6. CASE StepEnd \/ SkipOut
  <2>1. phase = "find" /\ phase' = "found" /\ call' = call /\ end' \subseteq end \cup {pos}
    BY <1>6 DEF StepEnd, SkipOut, search, Ends
  <2>2. input' = input /\ Called'
    BY <2>1 DEF input, index, Called, SearchInv
  <2> QED BY <2>1, <2>2 DEF SearchInv
<1>7. CASE Found
  <2>1. phase = "found" /\ UNCHANGED <<tables, call, end>>
    BY <1>7 DEF Found
  <2>2. Called /\ end \subseteq 0..Len(input)
    BY <2>1 DEF SearchInv
  <2>3. input' = input /\ Called' /\ rstates' = rstates
    BY <2>1, <2>2 DEF input, index, Called, tables
  <2>4. \/ phase' \in {"no_match", "match"}
        \/ phase' = "back" /\ \E e \in end : pos' = e /\ st' = RStart(contextAt(e))
    BY <1>7 DEF Found
  <2>5. \A e : RStart(contextAt(e)) \in rstates
    BY <2>1, BeforeIs DEF TablesInv, ReverseStarts
  <2> QED BY <2>1, <2>2, <2>3, <2>4, <2>5 DEF SearchInv
<1>8. CASE StepBack
  <2> DEFINE d == Part(decodeBefore(pos))
             c == classOf(d.value)
  <2>1. /\ phase = "back" /\ pos > index /\ UNCHANGED <<tables, call, end>>
        /\ st' = rt[st].to[c] /\ pos' = d.pos
        /\ phase' = IF rt[st].to[c] = RDead THEN "started" ELSE phase
    BY <1>8 DEF StepBack
  <2>2. Called /\ pos \in 0..Len(input) /\ end \subseteq 0..Len(input) /\ st \in DOMAIN rt
    BY <2>1 DEF SearchInv, TablesInv, Kept
  <2>3. d.value \in Characters /\ d.pos \in 0..Len(input)
    BY <2>1, <2>2, PartIs, TextIs
  <2>4. c \in Classes
    BY <2>3, ClassIs
  <2>5. rt[st].to[c] \in rstates \cup {RDead}
    BY <2>2, <2>4 DEF TablesInv, Interned, Rows, Row
  <2> HIDE DEF d, c
  <2>6. input' = input /\ Called' /\ rstates' = rstates
    BY <2>1, <2>2 DEF input, index, Called, tables
  <2> QED BY <2>1, <2>2, <2>3, <2>5, <2>6 DEF SearchInv
<1>9. CASE BackAtIndex \/ Started
  BY <1>9 DEF BackAtIndex, Started, SearchInv
<1>10. CASE UNCHANGED vars
  <2>1. UNCHANGED <<call, end, pos, st, phase, fstates, rstates>>
    BY <1>10 DEF vars, tables, search
  <2> QED BY <2>1 DEF SearchInv, Called, input, index
<1> QED BY <1>1, <1>2, <1>3, <1>4, <1>5, <1>6, <1>7, <1>8, <1>9, <1>10 DEF Next

(* For every program, every text of the code space and every call: no      *)
(* search reads a row that was not filled or a column past its end, and a  *)
(* state it goes on in has a row.  The tables are closed, the starts are   *)
(* in them, and no step leaves the text.                                   *)
THEOREM LookupsAlwaysFilled == Spec => []LookupsFilled
<1>1. Init => TablesInv /\ SearchInv
  <2>1. Init => SearchInv
    BY DEF Init, SearchInv
  <2> QED BY <2>1, TablesInit, TextsOfCodeSpace
<1>2. TablesInv /\ SearchInv /\ [Next]_vars => (TablesInv /\ SearchInv)'
  BY TablesStep, SearchStep, TextsOfCodeSpace
<1>3. TablesInv /\ SearchInv => LookupsFilled
  BY LookupsAre, TextsOfCodeSpace
<1> QED BY <1>1, <1>2, <1>3, PTL DEF Spec
=============================================================================
