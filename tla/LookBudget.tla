----------------------------- MODULE LookBudget -----------------------------
(***************************************************************************)
(* The steps of the backtracker and of the VM it delegates lookarounds to  *)
(* (tier2/executor/backtrack.zig, utils/budget.zig): the VM is lent what   *)
(* the limit leaves in a Budget of its own, and what it spent is charged   *)
(* when it answers.  What a VM's step costs is its live threads (external  *)
(* here; PikeVM.tla has them).  The limit is not 0, which is no limit.     *)
(***************************************************************************)
EXTENDS Integers

CONSTANTS
    MaxSteps,   \* ExecLimits.max_steps
    Costs,      \* what one position costs the VM
    MaxStarts   \* bound: start positions of an execution

VARIABLES
    phase,      \* "between" start positions, "start" of one, "exec" an
                \* instruction, "vm", "answered", "exceeded"
    steps,      \* the backtracker's counter
    before,     \* lookLinear: what the VM was lent
    remaining,  \* Budget.remaining
    starts      \* start positions tried

vars == <<phase, steps, before, remaining, starts>>

Init ==
    /\ phase = "between" /\ steps = 0 /\ before = 0 /\ remaining = 0
    /\ starts = 0

(* Another start position: `reset`.                                        *)
Run ==
    /\ phase = "between" /\ starts < MaxStarts
    /\ phase' = "start" /\ steps' = 0 /\ starts' = starts + 1
    /\ UNCHANGED <<before, remaining>>

(* An instruction: one step.  Mutant: the step that reaches the limit is   *)
(* still executed.                                                         *)
Passed(n)  == n > MaxSteps
Reached(n) == n >= MaxSteps
Dispatch ==
    /\ phase \in {"start", "exec", "answered"}
    /\ steps' = steps + 1
    /\ phase' = IF Reached(steps + 1) THEN "exceeded" ELSE "exec"
    /\ UNCHANGED <<before, remaining, starts>>

(* The instruction is a lookaround the memo does not know.                 *)
Lend ==
    /\ phase = "exec"
    /\ before' = MaxSteps - steps /\ remaining' = MaxSteps - steps
    /\ phase' = "vm"
    /\ UNCHANGED <<steps, starts>>

(* Budget.charge.                                                          *)
Charged(n) == IF remaining < n THEN "exceeded" ELSE "vm"
Charge(n) ==
    /\ phase = "vm"
    /\ phase' = Charged(n)
    /\ remaining' = IF remaining < n THEN 0 ELSE remaining - n
    /\ UNCHANGED <<steps, before, starts>>

(* The VM answers.  Mutant: what it spent is not charged.                  *)
NotRepaid == steps
Repaid == steps + (before - remaining)
Answer ==
    /\ phase = "vm"
    /\ phase' = "answered" /\ steps' = Repaid
    /\ UNCHANGED <<before, remaining, starts>>

(* A match here, or none.                                                  *)
Done ==
    /\ phase \in {"exec", "answered"}
    /\ phase' = "between"
    /\ UNCHANGED <<steps, before, remaining, starts>>

Next == Run \/ Dispatch \/ Lend \/ (\E n \in Costs : Charge(n)) \/ Answer \/ Done

Spec == Init /\ [][Next]_vars
-----------------------------------------------------------------------------
(* Lent, spent and repaid, the steps of both executors are one counter     *)
(* within one limit, and neither gives up before (backtrack.zig:660).      *)
Allowed == INSTANCE Allowance WITH
    spent <- CASE phase = "exceeded" -> MaxSteps
               [] phase = "vm"       -> steps + (before - remaining)
               [] OTHER              -> steps,
    running <- phase \notin {"between", "exceeded"}
OneCounter == Allowed!Spec

(* The VM is lent what the limit leaves, and that is something: no         *)
(* subtraction of backtrack.zig:660 and 667 wraps.                         *)
LendsWithin ==
    /\ phase = "exec" => steps < MaxSteps
    /\ phase = "vm" => before > 0 /\ remaining <= before /\ before + steps = MaxSteps
    /\ phase = "answered" => steps <= MaxSteps
=============================================================================
