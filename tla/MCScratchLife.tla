--------------------------- MODULE MCScratchLife ---------------------------
(* Three programs: one that runs inline, one with many groups, one with    *)
(* more and larger stacks.                                                 *)
EXTENDS ScratchLife

Needs(g, p, c, t) ==
    [b \in Buffers |-> CASE b = "loop_guard" -> g [] b = "positions" -> p
                         [] b = "choices" -> c    [] b = "trail" -> t]
MCPrograms == {
    \* (?:a|b)*c*
    [captures |-> 1, needs |-> Needs(1, 1, 2, 0)],
    \* 20 groups
    [captures |-> 20, needs |-> Needs(0, 0, 1, 2)],
    \* 40 groups, nested loops
    [captures |-> 40, needs |-> Needs(2, 1, 1, 3)]}
=============================================================================
