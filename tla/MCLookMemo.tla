----------------------------- MODULE MCLookMemo -----------------------------
(* The memo tables over executions of one and two delegated lookarounds, on *)
(* subjects of one and of two bytes of table.                               *)
EXTENDS LookMemo

CONSTANTS Sizes, MemoLimits

MCJobs ==
    {[programs |-> n, size |-> s, limit |-> l, truth |-> t] :
        n \in {1}, s \in Sizes, l \in MemoLimits, t \in [1..1 -> SUBSET Positions]}
    \cup
    {[programs |-> n, size |-> s, limit |-> l, truth |-> t] :
        n \in {2}, s \in {5}, l \in {2}, t \in [1..2 -> {{}, {0}, Positions}]}
=============================================================================
