----------------------------- MODULE Allowance -----------------------------
(***************************************************************************)
(* What ExecLimits.max_steps promises (tier2/executor/backtrack.zig): from *)
(* one start position, whoever executes, what is spent is counted once and *)
(* never passes the limit, and who cannot go on within it gives up.        *)
(***************************************************************************)
EXTENDS Integers

CONSTANTS MaxSteps,   \* the limit
          Costs       \* what a step of either executor costs, in Nat \ {0}

VARIABLES spent, running

Init == spent = 0 /\ running = FALSE

(* The next start position has the whole limit. *)
Begin == ~running /\ running' = TRUE /\ spent' = 0

Spend(n) ==
    /\ running /\ spent + n <= MaxSteps
    /\ spent' = spent + n /\ UNCHANGED running

(* A step that would reach the limit may be refused, one that passes it is. *)
GiveUp(n) ==
    /\ running /\ spent + n >= MaxSteps
    /\ spent' = MaxSteps /\ running' = FALSE

Stop == running /\ running' = FALSE /\ UNCHANGED spent

Next == Begin \/ Stop \/ \E n \in Costs \cup {1} : Spend(n) \/ GiveUp(n)

Spec == Init /\ [][Next]_<<spent, running>>
=============================================================================
