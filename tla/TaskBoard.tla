----------------------------- MODULE TaskBoard -----------------------------
(* What a pool of test workers promises to whoever reads its report: every  *)
(* task is decided once, by a verdict about that very task, a decision is    *)
(* final, and the report is written once, by the step that decides the last  *)
(* task.  How tasks travel, who answers and what dies on the way is left to  *)
(* the implementation (TestPool, DiffParent).                                *)
EXTENDS Naturals

CONSTANTS Tasks,      \* the tasks to decide
          Undecided,  \* the value of a task without a verdict
          VerdictsOf  \* [Tasks -> set of the verdicts that may decide a task]

VARIABLES verdict,    \* [Tasks -> verdict]
          reports     \* how many times the report was written

boardVars == <<verdict, reports>>

AllDecided(v) == \A t \in Tasks : v[t] # Undecided

BoardInit ==
    /\ verdict = [t \in Tasks |-> Undecided]
    /\ reports = IF Tasks = {} THEN 1 ELSE 0

Decide(t, v) ==
    /\ verdict[t] = Undecided
    /\ verdict' = [verdict EXCEPT ![t] = v]
    /\ reports' = IF AllDecided(verdict') THEN reports + 1 ELSE reports

BoardNext == \E t \in Tasks : \E v \in VerdictsOf[t] : Decide(t, v)

BoardSpec == BoardInit /\ [][BoardNext]_boardVars
=============================================================================
