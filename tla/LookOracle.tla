----------------------------- MODULE LookOracle -----------------------------
(***************************************************************************)
(* What an execution is promised when it delegates a lookaround            *)
(* (LookLinear): each question, "does the body of program i match anchored *)
(* at p?", is answered with the truth for this subject, or the execution   *)
(* gives up.  LookMemo implements it with tables that outlive executions.  *)
(***************************************************************************)
EXTENDS Naturals

CONSTANTS
    Jobs,        \* executions: [programs, size, limit, truth], truth[i] being
                 \* the positions where the body of program i matches
    Positions,   \* the positions lookarounds are evaluated at
    Idle         \* no execution under way

VARIABLES
    job,         \* the execution under way, or Idle
    answer       \* the answers to its last question: none or one

Question(i, p) == job # Idle /\ i \in 1..job.programs /\ p \in Positions /\ p <= job.size

Truth(i, p) == p \in job.truth[i]

Init == job = Idle /\ answer = {}

Begin  == job = Idle /\ job' \in Jobs /\ answer' = {}
Ask    == \E i \in 1..job.programs, p \in Positions :
            /\ Question(i, p)
            /\ answer' = {[program |-> i, pos |-> p, found |-> Truth(i, p)]}
            /\ UNCHANGED job
Finish == job # Idle /\ job' = Idle /\ answer' = {}

Next == Begin \/ (job # Idle /\ Ask) \/ Finish

Spec == Init /\ [][Next]_<<job, answer>>
=============================================================================
