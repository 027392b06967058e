----------------------------- MODULE ScratchLife -----------------------------
(***************************************************************************)
(* The life of a Scratch (tier2/executor/core.zig, backtrack.zig,          *)
(* matcher.zig): an execution takes its buffers, grows them, and gives     *)
(* them back grown, so that a warm Scratch runs without allocating.  Any   *)
(* allocation may fail.  Callers overlap: a Scratch in use panics in safe  *)
(* builds.  The two lines of `acquire` run with none of another thread's   *)
(* in between; a race there is beyond a flag that is not atomic.           *)
(***************************************************************************)
EXTENDS Integers, FiniteSets

CONSTANTS
    Callers,        \* threads
    Programs,       \* [captures, needs]: slots, and how large each buffer gets
    Inline          \* INLINE_CAPTURES

Guards  == {"loop_guard", "positions"}      \* taken by the core
Stacks  == {"choices", "trail"}             \* taken by the backtracker
Buffers == Guards \cup Stacks

ASSUME ScratchLifeAssumption ==
    /\ Inline \in Nat
    /\ \A p \in Programs : p.captures \in Nat /\ p.needs \in [Buffers -> Nat]

VARIABLES
    in_use,     \* Scratch.in_use
    captures,   \* Scratch.captures' length
    kept,       \* the capacity of each buffer while it is in the Scratch
    runs,       \* what each caller is doing
    panicked,   \* the process stopped
    lost,       \* history: buffers no one can free or reuse any more
    warm        \* history: programs this Scratch has run to their end since an
                \* allocation of slots last failed

vars == <<in_use, captures, kept, runs, panicked, lost, warm>>

NoBuffers == [b \in Buffers |-> 0]
Out == [at |-> "out"]
Run(p, at, held, alloc) ==
    [at |-> at, prog |-> p, held |-> held, allocated |-> alloc]

Init ==
    /\ in_use = FALSE /\ captures = 0 /\ kept = NoBuffers
    /\ runs = [c \in Callers |-> Out] /\ panicked = FALSE
    /\ lost = {} /\ warm = {}

At(c, at) == ~panicked /\ runs[c].at = at
Prog(c)   == runs[c].prog
Moved(c, run) == runs' = [runs EXCEPT ![c] = run]

(* acquire.  Mutant: the flag is set, and never looked at.                 *)
LetsIn == TRUE
Free == ~in_use
Acquire(c, p) ==
    /\ At(c, "out") /\ Free
    /\ in_use' = TRUE
    /\ Moved(c, Run(p, "acquired", NoBuffers, FALSE))
    /\ UNCHANGED <<captures, kept, panicked, lost, warm>>
Panic(c) ==
    /\ At(c, "out") /\ ~Free
    /\ panicked' = TRUE
    /\ UNCHANGED <<in_use, captures, kept, runs, lost, warm>>

(* The core takes its two buffers.                                         *)
Take(c) ==
    /\ At(c, "acquired")
    /\ Moved(c, Run(Prog(c), "taken", [b \in Buffers |-> IF b \in Guards THEN kept[b] ELSE 0],
                    FALSE))
    /\ kept' = [b \in Buffers |-> IF b \in Guards THEN 0 ELSE kept[b]]
    /\ UNCHANGED <<in_use, captures, panicked, lost, warm>>

(* The slots that do not fit inline, the old ones freed first; then the    *)
(* backtracker's stacks.                                                   *)
SlotsFit(c) == Prog(c).captures <= Inline \/ Prog(c).captures <= captures
TakeStacks(c) ==
    /\ At(c, "taken")
    /\ captures' = IF SlotsFit(c) THEN captures ELSE Prog(c).captures
    /\ Moved(c, Run(Prog(c), "running",
                    [b \in Buffers |-> IF b \in Stacks THEN kept[b] ELSE runs[c].held[b]],
                    ~SlotsFit(c)))
    /\ kept' = [b \in Buffers |-> IF b \in Stacks THEN 0 ELSE kept[b]]
    /\ UNCHANGED <<in_use, panicked, lost, warm>>

(* No memory for the slots: `exec` returns before its releaseScratch is    *)
(* deferred, and the core goes out of scope with what it had taken.        *)
SlotsFail(c) ==
    /\ At(c, "taken") /\ ~SlotsFit(c)
    /\ captures' = 0 /\ warm' = {}
    /\ lost' = lost \cup {b \in Guards : runs[c].held[b] > 0}
    /\ Moved(c, Run(Prog(c), "over", NoBuffers, TRUE))
    /\ UNCHANGED <<in_use, kept, panicked>>

(* A buffer that is too small grows, or ends the execution.                *)
Short(c) == {b \in Buffers : runs[c].held[b] < Prog(c).needs[b]}
Grow(c) ==
    /\ At(c, "running")
    /\ \E b \in Short(c) :
          Moved(c, Run(Prog(c), "running",
                       [runs[c].held EXCEPT ![b] = Prog(c).needs[b]], TRUE))
    /\ UNCHANGED <<in_use, captures, kept, panicked, lost, warm>>

(* The buffers go back, after an answer or an error (out of memory, a      *)
(* limit).  Mutant: the core's stay behind.                                *)
StacksBack(held) == [b \in Buffers |-> IF b \in Stacks THEN held[b] ELSE kept[b]]
AllBack(held) == held
GiveBack(c) ==
    /\ At(c, "running")
    /\ kept' = AllBack(runs[c].held)
    /\ Moved(c, Run(Prog(c), "over", NoBuffers, runs[c].allocated))
    /\ warm' = IF Short(c) = {} THEN warm \cup {Prog(c)} ELSE warm
    /\ UNCHANGED <<in_use, captures, panicked, lost>>

(* `release`, deferred since `acquire`.                                    *)
Release(c) ==
    /\ At(c, "over")
    /\ in_use' = FALSE
    /\ Moved(c, Out)
    /\ UNCHANGED <<captures, kept, panicked, lost, warm>>

Next == \E c \in Callers :
            \/ \E p \in Programs : Acquire(c, p)
            \/ Panic(c) \/ Take(c) \/ TakeStacks(c) \/ SlotsFail(c)
            \/ Grow(c) \/ GiveBack(c) \/ Release(c)

Spec == Init /\ [][Next]_vars
-----------------------------------------------------------------------------
(* A buffer is in one place: with the Scratch, or with the one execution   *)
(* under way, whatever overlaps and fails (core.zig:145).                  *)
Exclusive ==
    \A b \in Buffers :
        Cardinality({c \in Callers : runs[c].at # "out" /\ runs[c].held[b] > 0})
            + (IF kept[b] > 0 THEN 1 ELSE 0) <= 1

(* The flag is up as long as an execution has the Scratch, and down again  *)
(* after every failure (matcher.zig:199).                                  *)
FlagTells == in_use <=> \E c \in Callers : runs[c].at # "out"

(* "A warm `Scratch` runs without allocating" (core.zig:142): what ran to  *)
(* its end finds room ever after, whatever else ran or failed in between,   *)
(* until the slots fail: their old ones are gone by then.  Nothing is warm  *)
(* after such a failure; what it loses is for NothingLost.                  *)
WarmRunsFree ==
    \A c \in Callers :
        runs[c].at = "running" /\ Prog(c) \in warm => Short(c) = {} /\ ~runs[c].allocated

(* "Everything a match allocates, kept between executions" (core.zig:142). *)
NothingLost == lost = {}
=============================================================================
