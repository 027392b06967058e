------------------------------ MODULE GuardSet ------------------------------
(***************************************************************************)
(* The backtracker's loop guards (tier2/executor/backtrack.zig) and the    *)
(* open-addressing set that mirrors them once there are many (core.zig):   *)
(* linear probing, no tombstones, a removal only empties its slot.  A step *)
(* is one call, or one turn of a call's loop over the guards.              *)
(***************************************************************************)
EXTENDS Integers, Sequences

CONSTANTS
    Keys,            \* the loop guards, [pc, pos]
    Free,            \* a free slot
    Hash,            \* a key's hash
    GuardSetMin,     \* guards past this many are mirrored: 64
    MinSlots,        \* the least length of a table: 256
    Sparse,          \* a table longer than this many times its keys is
                     \* emptied key by key: 16
    Lengths          \* the lengths a table may have: the powers of two

ASSUME GuardSetAssumption ==
    /\ Free \notin Keys
    /\ Hash \in [Keys -> Nat]
    /\ GuardSetMin \in Nat /\ MinSlots \in Nat /\ Sparse \in Nat
    /\ Lengths \subseteq Nat \ {0}

VARIABLES
    guards,          \* loop_guard, newest last
    answer,          \* how the last enterBackEdge ended
    slots,           \* the table, by index from 0
    count,           \* how many keys it holds
    call             \* the loop under way: [op, i, to, keep], or Done

vars == <<guards, answer, slots, count, call>>

Done == [op |-> "done", i |-> 0, to |-> 0, keep |-> 0]

Size(t) == IF DOMAIN t = {} THEN 0 ELSE CHOOSE n \in Lengths : DOMAIN t = 0..(n - 1)
Empty(n) == [i \in 0..(n - 1) |-> Free]

(* The k-th slot e's probe looks at. *)
Probe(e, k) == (Hash[e] + k) % Size(slots)

(* find: the first slot of e's probe that is free or holds e. *)
Stops(e, k) == slots[Probe(e, k)] \in {Free, e}
Find(e) ==
    Probe(e, CHOOSE k \in 0..(Size(slots) - 1) :
                Stops(e, k) /\ \A j \in 0..(k - 1) : ~Stops(e, j))

Contains(e) == count > 0 /\ slots[Find(e)] # Free

(* guarded: a scan of the guards while they are few, else the set. *)
Guarded(e) ==
    IF Len(guards) > GuardSetMin THEN Contains(e)
    ELSE \E i \in DOMAIN guards : guards[i] = e

(* clearRetainingCapacity trusts a table without keys to be all free.      *)
Cleared == IF count = 0 THEN slots ELSE Empty(Size(slots))

-----------------------------------------------------------------------------
(* enterBackEdge *)

(* rebuild: a table long enough for `gs` (allocated unless the one at hand *)
(* is), cleared; its loop then puts them in, oldest first.                 *)
LongEnough(n) == {m \in Lengths : m >= MinSlots /\ m >= 4 * n}
LengthFor(n) == CHOOSE m \in LongEnough(n) : \A l \in LongEnough(n) : m <= l
Rebuild(gs) ==
    /\ slots' = IF Size(slots) < LengthFor(Len(gs)) THEN Empty(LengthFor(Len(gs)))
                ELSE Cleared
    /\ count' = 0
    /\ call' = [Done EXCEPT !.op = "putting", !.to = Len(gs)]

Put(e) == slots' = [slots EXCEPT ![Find(e)] = e] /\ count' = count + 1

(* Past the threshold a new guard is put in, but the set starts with all   *)
(* of them just past it, and starts over when it would be half full.       *)
Starts(gs) ==
    \/ Len(gs) = GuardSetMin + 1
    \/ Len(gs) > GuardSetMin + 1 /\ (count + 1) * 2 > Size(slots)

Refuse(e) ==
    /\ call = Done /\ Guarded(e)
    /\ answer' = "refused"
    /\ UNCHANGED <<guards, slots, count, call>>

EnterFew(e) ==
    /\ call = Done /\ ~Guarded(e)
    /\ Len(guards) < GuardSetMin
    /\ guards' = Append(guards, e) /\ answer' = "entered"
    /\ UNCHANGED <<slots, count, call>>

EnterRebuilding(e) ==
    /\ call = Done /\ ~Guarded(e)
    /\ Starts(Append(guards, e))
    /\ LongEnough(Len(guards) + 1) # {}     \* or the allocation fails
    /\ guards' = Append(guards, e) /\ answer' = "entered"
    /\ Rebuild(Append(guards, e))

(* Mutant: the set forgotten. *)
EnterUnmirrored(e) ==
    /\ call = Done /\ ~Guarded(e)
    /\ Len(guards) >= GuardSetMin /\ ~Starts(Append(guards, e))
    /\ guards' = Append(guards, e) /\ answer' = "entered"
    /\ UNCHANGED <<slots, count, call>>
EnterMirrored(e) ==
    /\ call = Done /\ ~Guarded(e)
    /\ Len(guards) >= GuardSetMin /\ ~Starts(Append(guards, e))
    /\ guards' = Append(guards, e) /\ answer' = "entered"
    /\ Put(e)
    /\ UNCHANGED call

(* No memory: for the stack, or for the table a rebuild would need.  The   *)
(* guard comes off the stack again.                                        *)
(* Mutant: the guard stays on the stack. *)
EnterFailsKeeping(e) ==
    /\ call = Done /\ ~Guarded(e)
    /\ answer' = "failed"
    /\ guards' = Append(guards, e)
    /\ UNCHANGED <<slots, count, call>>
EnterFails(e) ==
    /\ call = Done /\ ~Guarded(e)
    /\ answer' = "failed"
    /\ UNCHANGED <<guards, slots, count, call>>

(* One turn of rebuild's loop. *)
PutNext ==
    /\ call.op = "putting"
    /\ Put(guards[call.i + 1])
    /\ call' = IF call.i + 1 = call.to THEN Done ELSE [call EXCEPT !.i = @ + 1]
    /\ UNCHANGED <<guards, answer>>

-----------------------------------------------------------------------------
(* truncateGuards *)

Shrink(h) == guards' = SubSeq(guards, 1, h) /\ answer' = "none"

(* Nothing to mirror, or nothing to drop. *)
TruncateFew(h) ==
    /\ call = Done
    /\ h >= Len(guards) \/ Len(guards) <= GuardSetMin
    /\ Shrink(h)
    /\ UNCHANGED <<slots, count, call>>

(* removeAll, of a table that is not sparse. *)
TruncateClearing(h) ==
    /\ call = Done
    /\ h < Len(guards) /\ Len(guards) > GuardSetMin
    /\ h <= GuardSetMin /\ count * Sparse >= Size(slots)
    /\ Shrink(h)
    /\ slots' = Cleared /\ count' = 0
    /\ UNCHANGED call

(* Key by key, newest first: down to h, or all of them (removeAll). *)
TruncateRemoving(h) ==
    /\ call = Done
    /\ h < Len(guards) /\ Len(guards) > GuardSetMin
    /\ h > GuardSetMin \/ count * Sparse < Size(slots)
    /\ call' = [op |-> "removing", i |-> Len(guards), keep |-> h,
                to |-> IF h > GuardSetMin THEN h ELSE 0]
    /\ UNCHANGED <<guards, answer, slots, count>>

(* One turn of that loop; the last shrinks the stack. *)
(* Mutant: oldest first. *)
RemoveOldest ==
    /\ call.op = "removing"
    /\ slots' = [slots EXCEPT ![Find(guards[Len(guards) - call.i + call.to + 1])] = Free]
    /\ count' = count - 1
    /\ IF call.i - 1 = call.to THEN call' = Done /\ Shrink(call.keep)
       ELSE call' = [call EXCEPT !.i = @ - 1] /\ UNCHANGED <<guards, answer>>
RemoveNext ==
    /\ call.op = "removing"
    /\ slots' = [slots EXCEPT ![Find(guards[call.i])] = Free]
    /\ count' = count - 1
    /\ IF call.i - 1 = call.to THEN call' = Done /\ Shrink(call.keep)
       ELSE call' = [call EXCEPT !.i = @ - 1] /\ UNCHANGED <<guards, answer>>

-----------------------------------------------------------------------------

Init ==
    /\ guards = <<>> /\ answer = "none"
    /\ slots = Empty(0) /\ count = 0 /\ call = Done

Enter(e) ==
    Refuse(e) \/ EnterFew(e) \/ EnterRebuilding(e) \/ EnterMirrored(e) \/ EnterFails(e)
Truncate(h) == TruncateFew(h) \/ TruncateClearing(h) \/ TruncateRemoving(h)

Next ==
    \/ \E e \in Keys : Enter(e)
    \/ \E h \in 0..Len(guards) : Truncate(h)
    \/ PutNext \/ RemoveNext

Spec == Init /\ [][Next]_vars

-----------------------------------------------------------------------------
(* Properties. *)

(* The guards the set holds, oldest first: those put so far while it is    *)
(* rebuilt, those not yet removed while it is emptied, else all of them or *)
(* none.                                                                   *)
Mirrored ==
    CASE call.op = "done"     -> IF Len(guards) > GuardSetMin THEN Len(guards) ELSE 0
      [] call.op = "putting"  -> call.i
      [] call.op = "removing" -> call.i

(* "The set must mirror the stack exactly": it holds those guards, each    *)
(* once, and no other key; with none of them every slot is free.           *)
MirrorsStack ==
    /\ count = Mirrored
    /\ \A i \in DOMAIN slots : slots[i] # Free =>
          /\ \E g \in 1..Mirrored : guards[g] = slots[i]
          /\ \A j \in DOMAIN slots : slots[j] = slots[i] => j = i
    /\ \A g \in 1..Mirrored : \E i \in DOMAIN slots : slots[i] = guards[g]

(* "No present key's probe crosses an emptied slot": between a guard's     *)
(* first slot and its own there are only older guards.  It is why a        *)
(* removal, newest first, may just empty the slot.                         *)
ProbesCrossOlder ==
    \A g \in 1..Mirrored : \E k \in 0..(Size(slots) - 1) :
        /\ slots[Probe(guards[g], k)] = guards[g]
        /\ \A j \in 0..(k - 1) : \E o \in 1..(g - 1) :
              slots[Probe(guards[g], j)] = guards[o]

(* The set is never more than half full, so every probe ends.              *)
HalfFree == count * 2 <= Size(slots)

(* A probe finds its key if the set holds it and ends at a free slot if it *)
(* does not, whatever was removed before and however the keys collide      *)
(* (core.zig:84, 112, 136).                                                *)
Searchable == ProbesCrossOlder /\ HalfFree

(* Whatever the hash, the set cannot be told from scanning the stack.      *)
Stack == INSTANCE GuardStack
SetIsTransparent == Stack!Spec
=============================================================================
