------------------------- MODULE ScratchLifeProofs -------------------------
(***************************************************************************)
(* Theorems about ScratchLife, for every set of threads and programs,      *)
(* whatever fails: one execution at a time has the Scratch and a buffer is *)
(* in one place (IInv); and wherever the buffers are, they are as large as *)
(* any program needs that this Scratch is warm for (WInv).                 *)
(***************************************************************************)
EXTENDS ScratchLife, FiniteSetTheorems, TLAPS

Doing == {Out} \cup [at : {"acquired", "taken", "running", "over"}, prog : Programs,
                     held : [Buffers -> Nat], allocated : BOOLEAN]

Busy(c) == runs[c].at # "out"

(* Where the buffers are at each point of an execution.                    *)
Places(c) ==
    /\ runs[c].at \in {"acquired", "over"} => \A b \in Buffers : runs[c].held[b] = 0
    /\ runs[c].at = "taken" => /\ \A b \in Stacks : runs[c].held[b] = 0
                               /\ \A b \in Guards : kept[b] = 0
    /\ runs[c].at = "running" => \A b \in Buffers : kept[b] = 0

(* One execution at a time has the Scratch, which is what the flag is for; *)
(* a buffer it took is no longer in the Scratch.                           *)
IInv ==
    /\ in_use \in BOOLEAN
    /\ kept \in [Buffers -> Nat]
    /\ runs \in [Callers -> Doing]
    /\ FlagTells
    /\ \A c, d \in Callers : Busy(c) /\ Busy(d) => c = d
    /\ \A c \in Callers : Places(c)

(* The two kinds of buffers are apart (core.zig:275, backtrack.zig:168).   *)
LEMMA TwoKinds ==
    /\ Buffers = {"loop_guard", "positions", "choices", "trail"}
    /\ \A b \in Buffers : b \in Guards <=> b \notin Stacks
BY DEF Buffers, Guards, Stacks

(* A step of one execution leaves the others as they are (core.zig:192).   *)
LEMMA MovedOne ==
    ASSUME NEW c \in Callers, NEW run \in Doing, runs \in [Callers -> Doing], Moved(c, run)
    PROVE  /\ runs' \in [Callers -> Doing]
           /\ runs'[c] = run
           /\ \A d \in Callers : d # c => runs'[d] = runs[d]
BY DEF Moved

(* The one that has it has a program and buffers (core.zig:267).           *)
LEMMA BusyHas ==
    ASSUME NEW c \in Callers, runs \in [Callers -> Doing], Busy(c)
    PROVE  /\ runs[c].prog \in Programs
           /\ runs[c].held \in [Buffers -> Nat]
           /\ runs[c].allocated \in BOOLEAN
BY DEF Doing, Busy, Out

(* Nothing is in use at first (core.zig:173).                              *)
LEMMA InitInv == Init => IInv
<1> SUFFICES ASSUME Init PROVE IInv
    OBVIOUS
<1>1. Out \in Doing /\ Out.at = "out"
      BY DEF Doing, Out
<1>2. runs \in [Callers -> Doing] /\ kept \in [Buffers -> Nat] /\ in_use = FALSE
      BY <1>1 DEF Init, NoBuffers
<1>3. \A c \in Callers : ~Busy(c)
      BY <1>1 DEF Init, Busy
<1>4. \A c \in Callers : Places(c)
      BY <1>3 DEF Places, Busy
<1>5. FlagTells
      BY <1>2, <1>3 DEF FlagTells, Busy
<1> QED BY <1>2, <1>3, <1>4, <1>5 DEF IInv

(* An execution that goes on: it keeps the Scratch, and where it and the   *)
(* Scratch have the buffers is right again (core.zig:267, backtrack.zig:166). *)
LEMMA GoesOn ==
    ASSUME IInv, NEW c \in Callers, Busy(c), NEW run \in Doing, run.at # "out",
           Moved(c, run), in_use' = in_use, kept' \in [Buffers -> Nat], Places(c)'
    PROVE  IInv'
<1>1. /\ runs' \in [Callers -> Doing]
      /\ runs'[c] = run
      /\ \A d \in Callers : d # c => runs'[d] = runs[d]
      BY MovedOne DEF IInv
<1>2. \A d \in Callers : Busy(d)' <=> Busy(d)
      BY <1>1 DEF Busy
<1>3. \A d \in Callers : Busy(d)' => d = c
      BY <1>2 DEF IInv
<1>4. \A d \in Callers : Places(d)'
      BY <1>1, <1>3 DEF Places, Busy
<1>5. FlagTells'
      BY <1>2 DEF FlagTells, IInv, Busy
<1> QED BY <1>1, <1>3, <1>4, <1>5 DEF IInv

(* An execution keeps the buffers in one place through every step and      *)
(* failure (core.zig:192-301, matcher.zig:198-210).                        *)
LEMMA StepInv == IInv /\ [Next]_vars => IInv'
<1> SUFFICES ASSUME IInv, [Next]_vars PROVE IInv'
    OBVIOUS
<1> USE TwoKinds
<1>0. NoBuffers \in [Buffers -> Nat] /\ \A b \in Buffers : NoBuffers[b] = 0
      BY DEF NoBuffers
<1>1. ASSUME NEW c \in Callers, NEW p \in Programs, Acquire(c, p) PROVE IInv'
      <2>1. /\ Run(p, "acquired", NoBuffers, FALSE) \in Doing
            /\ Run(p, "acquired", NoBuffers, FALSE).at = "acquired"
            /\ Run(p, "acquired", NoBuffers, FALSE).held = NoBuffers
            BY <1>0 DEF Run, Doing
      <2>2. /\ runs' \in [Callers -> Doing]
            /\ runs'[c] = Run(p, "acquired", NoBuffers, FALSE)
            /\ \A d \in Callers : d # c => runs'[d] = runs[d]
            BY <1>1, <2>1, MovedOne DEF Acquire, IInv
      <2>3. \A d \in Callers : ~Busy(d)
            BY <1>1 DEF Acquire, Free, IInv, FlagTells, Busy
      <2>4. \A d \in Callers : Busy(d)' <=> d = c
            BY <2>1, <2>2, <2>3 DEF Busy
      <2>5. \A d \in Callers : Places(d)'
            BY <1>0, <2>1, <2>2, <2>3, <2>4 DEF Places, Busy
      <2>6. FlagTells'
            BY <1>1, <2>4 DEF Acquire, FlagTells, Busy
      <2> QED BY <1>1, <2>2, <2>4, <2>5, <2>6 DEF Acquire, IInv
<1>2. ASSUME NEW c \in Callers, Panic(c) PROVE IInv'
      BY <1>2 DEF Panic, IInv, FlagTells, Busy, Places
<1>3. ASSUME NEW c \in Callers, Take(c) PROVE IInv'
      <2> DEFINE held == [b \in Buffers |-> IF b \in Guards THEN kept[b] ELSE 0]
      <2>1. Busy(c) /\ Prog(c) \in Programs
            BY <1>3, BusyHas DEF Take, At, Busy, Prog, IInv
      <2>2. held \in [Buffers -> Nat] /\ \A b \in Stacks : held[b] = 0
            BY DEF IInv, Buffers
      <2>3. kept' \in [Buffers -> Nat] /\ \A b \in Guards : kept'[b] = 0
            BY <1>3 DEF Take, IInv, Buffers
      <2>4. Moved(c, Run(Prog(c), "taken", held, FALSE))
            BY <1>3 DEF Take
      <2> HIDE DEF held
      <2>5. /\ Run(Prog(c), "taken", held, FALSE) \in Doing
            /\ Run(Prog(c), "taken", held, FALSE).at = "taken"
            /\ Run(Prog(c), "taken", held, FALSE).held = held
            BY <2>1, <2>2 DEF Run, Doing
      <2>6. runs'[c] = Run(Prog(c), "taken", held, FALSE)
            BY <2>4, <2>5, MovedOne DEF IInv
      <2>7. Places(c)'
            BY <2>2, <2>3, <2>5, <2>6 DEF Places
      <2> QED BY <1>3, <2>1, <2>3, <2>4, <2>5, <2>7, GoesOn DEF Take
<1>4. ASSUME NEW c \in Callers, TakeStacks(c) PROVE IInv'
      <2> DEFINE held == [b \in Buffers |-> IF b \in Stacks THEN kept[b] ELSE runs[c].held[b]]
      <2>1. /\ Busy(c) /\ runs[c].at = "taken"
            /\ Prog(c) \in Programs /\ runs[c].held \in [Buffers -> Nat]
            BY <1>4, BusyHas DEF TakeStacks, At, Busy, Prog, IInv
      <2>2. held \in [Buffers -> Nat]
            BY <2>1 DEF IInv
      <2>3. kept' \in [Buffers -> Nat] /\ \A b \in Buffers : kept'[b] = 0
            BY <1>4, <2>1 DEF TakeStacks, IInv, Places
      <2>4. Moved(c, Run(Prog(c), "running", held, ~SlotsFit(c)))
            BY <1>4 DEF TakeStacks
      <2> HIDE DEF held
      <2>5. /\ Run(Prog(c), "running", held, ~SlotsFit(c)) \in Doing
            /\ Run(Prog(c), "running", held, ~SlotsFit(c)).at = "running"
            BY <2>1, <2>2 DEF Run, Doing
      <2>6. runs'[c] = Run(Prog(c), "running", held, ~SlotsFit(c))
            BY <2>4, <2>5, MovedOne DEF IInv
      <2>7. Places(c)'
            BY <2>3, <2>5, <2>6 DEF Places
      <2> QED BY <1>4, <2>1, <2>3, <2>4, <2>5, <2>7, GoesOn DEF TakeStacks
<1>5. ASSUME NEW c \in Callers, SlotsFail(c) PROVE IInv'
      <2>1. Busy(c) /\ Prog(c) \in Programs
            BY <1>5, BusyHas DEF SlotsFail, At, Busy, Prog, IInv
      <2>2. /\ Run(Prog(c), "over", NoBuffers, TRUE) \in Doing
            /\ Run(Prog(c), "over", NoBuffers, TRUE).at = "over"
            /\ Run(Prog(c), "over", NoBuffers, TRUE).held = NoBuffers
            BY <1>0, <2>1 DEF Run, Doing
      <2>3. runs'[c] = Run(Prog(c), "over", NoBuffers, TRUE)
            BY <1>5, <2>2, MovedOne DEF SlotsFail, IInv
      <2>4. Places(c)'
            BY <1>0, <2>2, <2>3 DEF Places
      <2>5. kept' \in [Buffers -> Nat]
            BY <1>5 DEF SlotsFail, IInv
      <2> QED BY <1>5, <2>1, <2>2, <2>4, <2>5, GoesOn DEF SlotsFail
<1>6. ASSUME NEW c \in Callers, Grow(c) PROVE IInv'
      <2>1. /\ Busy(c) /\ runs[c].at = "running"
            /\ Prog(c) \in Programs /\ runs[c].held \in [Buffers -> Nat]
            BY <1>6, BusyHas DEF Grow, At, Busy, Prog, IInv
      <2>2. PICK b \in Short(c) :
               Moved(c, Run(Prog(c), "running", [runs[c].held EXCEPT ![b] = Prog(c).needs[b]], TRUE))
            BY <1>6 DEF Grow
      <2> DEFINE held == [runs[c].held EXCEPT ![b] = Prog(c).needs[b]]
      <2>3. Prog(c).needs[b] \in Nat
            BY <2>1, <2>2, ScratchLifeAssumption DEF Short
      <2>4. held \in [Buffers -> Nat]
            BY <2>1, <2>3
      <2> HIDE DEF held
      <2>5. /\ Run(Prog(c), "running", held, TRUE) \in Doing
            /\ Run(Prog(c), "running", held, TRUE).at = "running"
            BY <2>1, <2>4 DEF Run, Doing
      <2>6. Moved(c, Run(Prog(c), "running", held, TRUE))
            BY <2>2 DEF held
      <2>7. runs'[c] = Run(Prog(c), "running", held, TRUE)
            BY <2>5, <2>6, MovedOne DEF IInv
      <2>8. kept' = kept /\ \A d \in Buffers : kept[d] = 0
            BY <1>6, <2>1 DEF Grow, IInv, Places
      <2>9. Places(c)'
            BY <2>5, <2>7, <2>8 DEF Places
      <2> QED BY <1>6, <2>1, <2>5, <2>6, <2>8, <2>9, GoesOn DEF Grow, IInv
<1>7. ASSUME NEW c \in Callers, GiveBack(c) PROVE IInv'
      <2>1. /\ Busy(c) /\ Prog(c) \in Programs
            /\ runs[c].held \in [Buffers -> Nat] /\ runs[c].allocated \in BOOLEAN
            BY <1>7, BusyHas DEF GiveBack, At, Busy, Prog, IInv
      <2>2. /\ Run(Prog(c), "over", NoBuffers, runs[c].allocated) \in Doing
            /\ Run(Prog(c), "over", NoBuffers, runs[c].allocated).at = "over"
            /\ Run(Prog(c), "over", NoBuffers, runs[c].allocated).held = NoBuffers
            BY <1>0, <2>1 DEF Run, Doing
      <2>3. runs'[c] = Run(Prog(c), "over", NoBuffers, runs[c].allocated)
            BY <1>7, <2>2, MovedOne DEF GiveBack, IInv
      <2>4. Places(c)'
            BY <1>0, <2>2, <2>3 DEF Places
      <2>5. kept' \in [Buffers -> Nat]
            BY <1>7, <2>1 DEF GiveBack, AllBack
      <2> QED BY <1>7, <2>1, <2>2, <2>4, <2>5, GoesOn DEF GiveBack
<1>8. ASSUME NEW c \in Callers, Release(c) PROVE IInv'
      <2>1. Out \in Doing /\ Out.at = "out"
            BY DEF Doing, Out
      <2>2. /\ runs' \in [Callers -> Doing]
            /\ runs'[c] = Out
            /\ \A d \in Callers : d # c => runs'[d] = runs[d]
            BY <1>8, <2>1, MovedOne DEF Release, IInv
      <2>3. \A d \in Callers : ~Busy(d)'
            BY <1>8, <2>1, <2>2 DEF Release, At, Busy, IInv
      <2>4. FlagTells'
            BY <1>8, <2>3 DEF Release, FlagTells, Busy
      <2>5. \A d \in Callers : Places(d)'
            BY <2>3 DEF Places, Busy
      <2> QED BY <1>8, <2>2, <2>3, <2>4, <2>5 DEF Release, IInv
<1>9. CASE UNCHANGED vars
      BY <1>9 DEF vars, IInv, FlagTells, Busy, Places
<1> QED BY <1>1, <1>2, <1>3, <1>4, <1>5, <1>6, <1>7, <1>8, <1>9 DEF Next

(* It holds in every reachable state.                                      *)
LEMMA Invariant == Spec => []IInv
BY InitInv, StepInv, PTL DEF Spec

(* The flag is up exactly while an execution has the Scratch, whatever     *)
(* failed on the way (core.zig:192, matcher.zig:199).                      *)
THEOREM FlagTellsAlways == Spec => []FlagTells
<1>1. IInv => FlagTells
      BY DEF IInv
<1> QED BY <1>1, Invariant, PTL

(* A buffer is in the Scratch or with one execution, never twice           *)
(* (core.zig:275, 301, backtrack.zig:168, 190).                            *)
THEOREM ExclusiveAlways == Spec => []Exclusive
<1>1. IInv => Exclusive
      <2> SUFFICES ASSUME IInv, NEW b \in Buffers
                   PROVE  Cardinality({c \in Callers : runs[c].at # "out" /\ runs[c].held[b] > 0})
                              + (IF kept[b] > 0 THEN 1 ELSE 0) <= 1
          BY DEF Exclusive
      <2> DEFINE holders == {c \in Callers : runs[c].at # "out" /\ runs[c].held[b] > 0}
      <2>1. CASE holders = {}
            <3> HIDE DEF holders
            <3>1. Cardinality(holders) + (IF kept[b] > 0 THEN 1 ELSE 0) <= 1
                  BY <2>1, FS_EmptySet
            <3> QED BY <3>1 DEF holders
      <2>2. CASE holders # {}
            <3>1. PICK c \in holders : TRUE
                  BY <2>2
            <3>2. Busy(c) /\ c \in Callers /\ runs[c].held[b] > 0
                  BY <3>1 DEF Busy
            <3>3. holders = {c}
                  BY <3>1, <3>2 DEF IInv, Busy
            <3>4. runs[c].at \in {"acquired", "taken", "running", "over"}
                  BY <3>2 DEF IInv, Doing, Busy, Out
            <3>5. kept[b] = 0
                  BY <3>2, <3>4, TwoKinds DEF IInv, Places
            <3>6. Cardinality(holders) = 1
                  BY <3>3, FS_Singleton
            <3> HIDE DEF holders
            <3>7. Cardinality(holders) + (IF kept[b] > 0 THEN 1 ELSE 0) <= 1
                  BY <3>5, <3>6
            <3> QED BY <3>7 DEF holders
      <2> QED BY <2>1, <2>2
<1> QED BY <1>1, Invariant, PTL
-----------------------------------------------------------------------------
(* Where a buffer is while c has the Scratch.                              *)
Found(c, b) == IF runs[c].at = "running" \/ (runs[c].at = "taken" /\ b \in Guards)
               THEN runs[c].held[b] ELSE kept[b]

(* A program whose slots have their place, inline or in the array.         *)
Placed(p) == p.captures <= Inline \/ p.captures <= captures

(* What the Scratch is warm for has its slots and its buffers, wherever    *)
(* the buffers are, and has had nothing to allocate since it began.        *)
Warmed ==
    \A p \in warm :
        /\ p \in Programs /\ Placed(p)
        /\ \A c \in Callers : Busy(c) => \A b \in Buffers : p.needs[b] <= Found(c, b)
        /\ (\A c \in Callers : ~Busy(c)) => \A b \in Buffers : p.needs[b] <= kept[b]
WInv ==
    /\ captures \in Nat
    /\ Warmed
    /\ \A c \in Callers : runs[c].at = "running" =>
            Placed(Prog(c)) /\ (Prog(c) \in warm => ~runs[c].allocated)

(* When c has the Scratch after a step, only its buffers are in question.  *)
LEMMA WarmFor ==
    ASSUME IInv', NEW c \in Callers, Busy(c)', captures' \in Nat,
           \A p \in warm' : /\ p \in Programs /\ Placed(p)'
                            /\ \A b \in Buffers : p.needs[b] <= Found(c, b)',
           runs'[c].at = "running" =>
                Placed(Prog(c))' /\ (Prog(c)' \in warm' => ~runs'[c].allocated)
    PROVE  WInv'
<1>1. \A d \in Callers : Busy(d)' => d = c
      BY DEF IInv
<1>2. Warmed'
      BY <1>1 DEF Warmed
<1>3. \A d \in Callers : runs'[d].at = "running" => d = c
      BY <1>1 DEF Busy
<1> QED BY <1>2, <1>3 DEF WInv

(* A warm program's needs are met through every step, and it has nothing   *)
(* to allocate (core.zig:142, 267-301, backtrack.zig:166-190).             *)
LEMMA StepWarm == IInv /\ IInv' /\ WInv /\ [Next]_vars => WInv'
<1> SUFFICES ASSUME IInv, IInv', WInv, [Next]_vars PROVE WInv'
    OBVIOUS
<1> USE TwoKinds
<1>0. /\ captures \in Nat
      /\ \A p \in warm : p \in Programs /\ Placed(p)
      /\ \A p \in warm, c \in Callers : Busy(c) => \A b \in Buffers : p.needs[b] <= Found(c, b)
      BY DEF WInv, Warmed
<1>1. ASSUME NEW c \in Callers, NEW p \in Programs, Acquire(c, p) PROVE WInv'
      <2>1. /\ runs'[c] = Run(p, "acquired", NoBuffers, FALSE)
            /\ UNCHANGED <<captures, kept, warm>>
            BY <1>1 DEF Acquire, Moved, IInv
      <2>2. runs'[c].at = "acquired"
            BY <2>1 DEF Run
      <2>3. \A d \in Callers : ~Busy(d)
            BY <1>1 DEF Acquire, Free, IInv, FlagTells, Busy
      <2>4. \A q \in warm, b \in Buffers : q.needs[b] <= Found(c, b)'
            BY <2>1, <2>2, <2>3 DEF WInv, Warmed, Found
      <2> QED BY <1>0, <2>1, <2>2, <2>4, WarmFor DEF Busy, Placed
<1>2. ASSUME NEW c \in Callers, Panic(c) PROVE WInv'
      BY <1>2 DEF Panic, WInv, Warmed, Placed, Found, Busy, Prog
<1>3. ASSUME NEW c \in Callers, Take(c) PROVE WInv'
      <2> DEFINE held == [b \in Buffers |-> IF b \in Guards THEN kept[b] ELSE 0]
      <2>1. /\ runs'[c] = Run(Prog(c), "taken", held, FALSE)
            /\ \A b \in Buffers : kept'[b] = IF b \in Guards THEN 0 ELSE kept[b]
            /\ UNCHANGED <<captures, warm>> /\ runs[c].at = "acquired"
            BY <1>3 DEF Take, At, Moved, IInv
      <2>2. runs'[c].at = "taken" /\ runs'[c].held = held
            BY <2>1 DEF Run
      <2>3. \A b \in Buffers : Found(c, b)' = Found(c, b)
            BY <2>1, <2>2 DEF Found
      <2>4. \A q \in warm, b \in Buffers : q.needs[b] <= Found(c, b)
            BY <1>0, <2>1 DEF Busy
      <2>5. Busy(c)' /\ ~(runs'[c].at = "running")
            BY <2>2 DEF Busy
      <2>6. \A q \in warm' : /\ q \in Programs /\ Placed(q)'
                              /\ \A b \in Buffers : q.needs[b] <= Found(c, b)'
            BY <1>0, <2>1, <2>3, <2>4 DEF Placed
      <2> HIDE DEF held
      <2> QED BY <1>0, <2>1, <2>5, <2>6, WarmFor
<1>4. ASSUME NEW c \in Callers, TakeStacks(c) PROVE WInv'
      <2> DEFINE held == [b \in Buffers |-> IF b \in Stacks THEN kept[b] ELSE runs[c].held[b]]
      <2>1. /\ runs'[c] = Run(Prog(c), "running", held, ~SlotsFit(c))
            /\ UNCHANGED warm /\ runs[c].at = "taken"
            /\ captures' = IF SlotsFit(c) THEN captures ELSE Prog(c).captures
            BY <1>4 DEF TakeStacks, At, Moved, IInv
      <2>2. /\ runs'[c].at = "running" /\ runs'[c].held = held
            /\ Prog(c)' = Prog(c) /\ runs'[c].allocated = ~SlotsFit(c)
            BY <2>1 DEF Run, Prog
      <2>3. \A b \in Buffers : Found(c, b)' = Found(c, b)
            BY <2>1, <2>2 DEF Found
      <2>4. \A q \in warm, b \in Buffers : q.needs[b] <= Found(c, b)
            BY <1>0, <2>1 DEF Busy
      <2>5. Prog(c) \in Programs
            BY <2>1, BusyHas DEF Busy, Prog, IInv
      <2>6. captures' \in Nat /\ captures <= captures'
            BY <1>0, <2>1, <2>5, ScratchLifeAssumption DEF SlotsFit
      <2>7. \A q \in warm : Placed(q)'
            BY <1>0, <2>6, ScratchLifeAssumption DEF Placed
      <2>8. Prog(c) \in warm => SlotsFit(c)
            BY <1>0 DEF Placed, SlotsFit
      <2>9. Placed(Prog(c))'
            BY <1>0, <2>1, <2>2, <2>5, ScratchLifeAssumption DEF Placed, SlotsFit
      <2> HIDE DEF held
      <2> QED BY <1>0, <2>1, <2>2, <2>3, <2>4, <2>6, <2>7, <2>8, <2>9, WarmFor DEF Busy
<1>5. ASSUME NEW c \in Callers, SlotsFail(c) PROVE WInv'
      <2>1. /\ runs'[c].at = "over" /\ warm' = {} /\ captures' = 0
            BY <1>5 DEF SlotsFail, Moved, IInv, Run
      <2> QED BY <2>1, WarmFor DEF Busy
<1>6. ASSUME NEW c \in Callers, Grow(c) PROVE WInv'
      <2>1. /\ runs[c].at = "running" /\ UNCHANGED <<captures, kept, warm>>
            /\ runs[c].held \in [Buffers -> Nat] /\ Prog(c) \in Programs
            BY <1>6, BusyHas DEF Grow, At, IInv, Busy, Prog
      <2>2. PICK b \in Short(c) : runs'[c] =
                Run(Prog(c), "running", [runs[c].held EXCEPT ![b] = Prog(c).needs[b]], TRUE)
            BY <1>6 DEF Grow, Moved, IInv
      <2> DEFINE held == [runs[c].held EXCEPT ![b] = Prog(c).needs[b]]
      <2>3. runs'[c].at = "running" /\ runs'[c].held = held /\ Prog(c)' = Prog(c)
            BY <2>2 DEF Run, Prog
      <2>4. /\ \A q \in warm, d \in Buffers : q.needs[d] <= runs[c].held[d]
            /\ \A q \in warm, d \in Buffers : q.needs[d] \in Nat
            BY <1>0, <2>1, ScratchLifeAssumption DEF Busy, Found
      <2>5. b \in Buffers /\ runs[c].held[b] < Prog(c).needs[b]
            BY DEF Short
      <2>6. \A d \in Buffers : held[d] \in Nat /\ runs[c].held[d] <= held[d]
            BY <2>1, <2>5, ScratchLifeAssumption
      <2>7. Prog(c) \notin warm
            BY <2>1, <2>4, <2>5
      <2> HIDE DEF held
      <2>8. \A q \in warm, d \in Buffers : q.needs[d] <= Found(c, d)'
            <3>1. \A d \in Buffers : runs[c].held[d] \in Nat
                  BY <2>1
            <3> QED BY <2>3, <2>4, <2>6, <3>1 DEF Found
      <2>9. Placed(Prog(c))'
            BY <2>1, <2>3 DEF WInv, Placed
      <2> QED BY <1>0, <2>1, <2>3, <2>7, <2>8, <2>9, WarmFor DEF Busy, Placed
<1>7. ASSUME NEW c \in Callers, GiveBack(c) PROVE WInv'
      <2>1. /\ runs[c].at = "running" /\ kept' = runs[c].held
            /\ runs[c].held \in [Buffers -> Nat] /\ Prog(c) \in Programs
            /\ warm' = (IF Short(c) = {} THEN warm \cup {Prog(c)} ELSE warm)
            /\ captures' = captures
            BY <1>7, BusyHas DEF GiveBack, At, AllBack, IInv, Busy, Prog
      <2>2. runs'[c].at = "over"
            BY <1>7 DEF GiveBack, Moved, IInv, Run
      <2>3. \A b \in Buffers : Found(c, b)' = runs[c].held[b]
            BY <2>1, <2>2 DEF Found
      <2>4. \A q \in warm, b \in Buffers : q.needs[b] <= runs[c].held[b]
            BY <1>0, <2>1 DEF Busy, Found
      <2>5. Short(c) = {} => \A b \in Buffers : Prog(c).needs[b] <= runs[c].held[b]
            <3>1. \A b \in Buffers : Prog(c).needs[b] \in Nat /\ runs[c].held[b] \in Nat
                  BY <2>1, ScratchLifeAssumption
            <3> QED BY <3>1 DEF Short
      <2>6. Placed(Prog(c))
            BY <2>1 DEF WInv
      <2> QED BY <1>0, <2>1, <2>2, <2>3, <2>4, <2>5, <2>6, WarmFor DEF Busy, Placed
<1>8. ASSUME NEW c \in Callers, Release(c) PROVE WInv'
      <2>1. runs[c].at = "over" /\ UNCHANGED <<captures, kept, warm>>
            BY <1>8 DEF Release, At
      <2>2. \A d \in Callers : ~Busy(d)'
            BY <1>8, <2>1 DEF Release, Moved, IInv, Busy, Out
      <2>3. \A q \in warm, b \in Buffers : q.needs[b] <= kept[b]
            BY <1>0, <2>1 DEF Busy, Found
      <2>4. Warmed'
            BY <1>0, <2>1, <2>2, <2>3 DEF Warmed, Placed
      <2> QED BY <1>0, <2>1, <2>2, <2>4 DEF WInv, Busy
<1>9. CASE UNCHANGED vars
      BY <1>9 DEF vars, WInv, Warmed, Placed, Found, Busy, Prog
<1> QED BY <1>1, <1>2, <1>3, <1>4, <1>5, <1>6, <1>7, <1>8, <1>9 DEF Next

(* "A warm `Scratch` runs without allocating" (core.zig:142): whatever     *)
(* other programs ran or ran out of memory in between, a program that ran  *)
(* to its end finds buffers and slots of the size it needs.                *)
THEOREM WarmAlwaysRunsFree == Spec => []WarmRunsFree
<1>1. Init => WInv
      <2> SUFFICES ASSUME Init PROVE WInv
          OBVIOUS
      <2>1. \A c \in Callers : runs[c].at = "out"
            BY DEF Init, Out
      <2> QED BY <2>1 DEF Init, WInv, Warmed
<1>2. IInv /\ WInv => WarmRunsFree
      <2> SUFFICES ASSUME IInv, WInv, NEW c \in Callers, runs[c].at = "running",
                          Prog(c) \in warm
                   PROVE  Short(c) = {} /\ ~runs[c].allocated
          BY DEF WarmRunsFree
      <2>1. \A b \in Buffers : Prog(c).needs[b] <= runs[c].held[b]
            BY DEF WInv, Warmed, Busy, Found
      <2>2. \A b \in Buffers : Prog(c).needs[b] \in Nat /\ runs[c].held[b] \in Nat
            BY BusyHas, ScratchLifeAssumption DEF IInv, Busy, WInv, Warmed
      <2>3. Short(c) = {}
            BY <2>1, <2>2 DEF Short
      <2> QED BY <2>3 DEF WInv
<1>3. IInv /\ IInv' /\ WInv /\ [Next]_vars => WInv'
      BY StepWarm
<1> QED BY <1>1, <1>2, <1>3, Invariant, PTL DEF Spec
=============================================================================
