----------------------------- MODULE GuardStack -----------------------------
(***************************************************************************)
(* What the backtracker is promised of its loop guards: entering a loop    *)
(* head at a position is refused exactly when that guard is active on the  *)
(* current path.  GuardSet implements it with a stack and a hash set.      *)
(***************************************************************************)
EXTENDS Naturals, Sequences

CONSTANT Keys        \* the loop guards, a loop head and a position

VARIABLES
    guards,          \* the active guards, newest last
    answer           \* how the last entry ended

Init == guards = <<>> /\ answer = "none"

Active(e) == \E i \in DOMAIN guards : guards[i] = e

(* enterBackEdge; "failed" is an allocation that failed. *)
Enter(e) ==
    IF Active(e) THEN answer' = "refused" /\ UNCHANGED guards
    ELSE \/ answer' = "entered" /\ guards' = Append(guards, e)
         \/ answer' = "failed" /\ UNCHANGED guards

(* truncateGuards: back to a choicepoint's height. *)
Truncate == \E h \in 0..Len(guards) :
    guards' = SubSeq(guards, 1, h) /\ answer' = "none"

Next == Truncate \/ \E e \in Keys : Enter(e)

Spec == Init /\ [][Next]_<<guards, answer>>
=============================================================================
