------------------------------- MODULE PikeVM -------------------------------
(***************************************************************************)
(* T0's executors: the Pike VM's leftmost-first search (tier0/pikevm.zig), *)
(* its anchored existence test, which the backtracker delegates lookahead  *)
(* bodies to, and the two passes with captures (tier0/pikevm_tagged.zig).  *)
(* All of them share one VmScratch from call to call: what one leaves in   *)
(* the thread lists, another program's search finds there.                 *)
(*                                                                         *)
(* A thread list is dense (its pcs in priority order) and a stamp per pc:  *)
(* a pc is in the list when its stamp is the list's generation.  A thread  *)
(* carries a row of capture slots; the pass without captures only uses     *)
(* slot 0, where the match starts.  One character is one unit (Subject.tla *)
(* has the encodings).                                                     *)
(***************************************************************************)
EXTENDS Integers, Sequences, SequencesExt

CONSTANTS
    Calls,      \* [prog, input, index, sticky, want, budget]; prog: T0Compile!Compile
    Gens,       \* generations before the counter wraps (2^32 in the code)
    Word, LineEnd, None, Stale

(* What the VM relies on: every pc a program leads to is one of its pcs,   *)
(* and the slots it sets are those of groups, not of the whole match.      *)
Leads(inst, q) ==
    CASE inst.op = "jmp"   -> {inst.x}
      [] inst.op = "split" -> {inst.x, inst.y}
      [] inst.op \in {"set", "assert", "save", "clear"} -> {q + 1}
      [] OTHER             -> {}
WellFormed(p) ==
    /\ p.n \in Nat \ {0} /\ p.nslots \in Nat \ {0, 1} /\ p.undo \in Nat
    /\ \A q \in 0..p.n - 1 :
          /\ Leads(p.insts[q + 1], q) \subseteq 0..p.n - 1
          /\ p.insts[q + 1].op \in {"set", "split", "jmp", "assert", "save",
                                 "clear", "match", "fail"}
          /\ p.insts[q + 1].op = "save" => p.insts[q + 1].slot \in Nat \ {0, 1}
          /\ p.insts[q + 1].op = "clear" =>
                /\ p.insts[q + 1].lo \in Nat \ {0, 1} /\ p.insts[q + 1].hi \in Nat
                /\ p.insts[q + 1].lo <= p.insts[q + 1].hi
          /\ p.follow[q + 1].pcs \in Seq(0..p.n - 1)
ASSUME CallsAssumption == \A c \in Calls : WellFormed(c.prog) /\ c.index \in Nat /\ Len(c.input) \in Nat
ASSUME GensAssumption == Gens \in Nat /\ Gens > 1

VARIABLES
    call,       \* the call being answered
    phase,      \* where the executor is, or its answer
    pass1,      \* {} or {[start, end]}: what the first of two passes found
    from, only, \* this pass's first position; whether it is the only one
    lists,      \* VmScratch.lists: two of [dense, row, stamp, gen]
    capacity,   \* VmScratch.capacity
    cl,         \* which of the two is clist
    pos,        \* the position clist's threads are at
    i,          \* the next thread of clist to step
    best,       \* {} or {slots}: the match recorded
    into, at, then, \* addThread: its list, its position, where it returns
    curr,       \* the slots of the thread being added
    frames,     \* the closure's pending branches and slots to put back
    pc,         \* the pc the closure is at
    todo,       \* the rest of a precomputed closure
    left        \* the budget's remaining steps

scratch == <<lists, capacity>>
closure == <<into, at, then, curr, frames, pc, todo>>
control == <<call, pass1, from, only>>
search  == <<cl, pos, i, best, left>>
vars == <<scratch, closure, control, search, phase>>

Answers == {"match", "no_match", "exists", "not_exists",
            "step_limit", "mismatch"}

prog   == call.prog
input  == call.input
tagged == pass1 # {}
nl     == 3 - cl
Width  == IF tagged THEN prog.nslots ELSE 2
Inst(q) == prog.insts[q + 1]

Running == phase \notin Answers \cup {"idle"}

Member(l, q) == l.stamp[q] = l.gen

Bumped(g) == IF g + 1 = Gens THEN 0 ELSE g + 1   \* +%= 1

(* Clearing is bumping the generation; when it wraps, no stale stamp may   *)
(* equal a generation to come.  A row keeps what the last thread there     *)
(* left, here Stale.  Mutant: the stamps are kept.                         *)
ClearedKeepingStamps(l) ==
    LET g == Bumped(l.gen)
    IN  [dense |-> <<>>, gen |-> IF g = 0 THEN 1 ELSE g,
         stamp |-> l.stamp, row |-> [q \in DOMAIN l.stamp |-> Stale]]
Cleared(l) ==
    LET g == Bumped(l.gen)
    IN  [dense |-> <<>>, gen |-> IF g = 0 THEN 1 ELSE g,
         stamp |-> IF g = 0 THEN [q \in DOMAIN l.stamp |-> 0] ELSE l.stamp,
         row   |-> [q \in DOMAIN l.stamp |-> Stale]]

(* A member takes its place after the others; a pc that steps or matches   *)
(* keeps its slots (in the first pass every pc keeps its start).           *)
Inserted(l, q, slots, keep) ==
    [dense |-> Append(l.dense, q), gen |-> l.gen, stamp |-> [l.stamp EXCEPT ![q] = l.gen],
     row   |-> [l.row EXCEPT ![q] = IF keep THEN slots ELSE @]]

(* VmScratch.ensure: fresh buffers when n pcs do not fit.                  *)
Buffers(n) == [dense |-> <<>>, gen |-> 1, stamp |-> [q \in 0..n - 1 |-> 0],
               row |-> [q \in 0..n - 1 |-> Stale]]
Ensured(n) == IF n <= capacity THEN lists ELSE [l \in 1..2 |-> Buffers(n)]

(* Between calls only the scratch is left. *)
Init ==
    /\ phase = "idle" /\ call = None
    /\ pass1 = {} /\ from = 0 /\ only = FALSE
    /\ cl = 1 /\ pos = 0 /\ i = 1 /\ best = {} /\ left = 0
    /\ into = 1 /\ at = 0 /\ then = "decode" /\ curr = <<>>
    /\ frames = <<>> /\ pc = 0 /\ todo = <<>>
    /\ lists = [l \in 1..2 |-> Buffers(0)] /\ capacity = 0
-----------------------------------------------------------------------------
(* A call with an index past the end, or past 0 in an anchored program,    *)
(* has no match and touches no scratch.                                    *)
Refused(c) ==
    \/ c.index > Len(c.input)
    \/ c.want = "match" /\ c.prog.anchored /\ c.index > 0

Refuse(c) ==
    /\ phase = "idle" /\ Refused(c)
    /\ call' = c /\ pass1' = {} /\ best' = {}
    /\ phase' = IF c.want = "exists" THEN "not_exists" ELSE "no_match"
    /\ UNCHANGED <<from, only, scratch, closure, cl, pos, i, left>>

Start(c) ==
    /\ phase = "idle" /\ ~Refused(c)
    /\ call' = c /\ pass1' = {}
    /\ from' = c.index /\ only' = (c.sticky \/ c.prog.anchored \/ c.want = "exists")
    /\ LET n == c.prog.n
       IN  /\ capacity' = IF n <= capacity THEN capacity ELSE n
           /\ lists' = [Ensured(n) EXCEPT ![1] = Cleared(@)]
    /\ cl' = 1 /\ pos' = c.index /\ i' = 1 /\ best' = {} /\ left' = c.budget
    /\ phase' = "top"
    /\ UNCHANGED closure

(* addThread of the pc q at position p, with slots s, then phase t: the    *)
(* precomputed closure, or the walk.  The pass with captures walks always. *)
AddThread(l, q, p, s, t) ==
    /\ into' = l /\ at' = p /\ curr' = s /\ then' = t /\ pc' = q
    /\ \/ /\ tagged \/ prog.follow[q + 1].dynamic
          /\ phase' = "pop" /\ frames' = <<[explore |-> TRUE, pc |-> q]>> /\ todo' = <<>>
       \/ /\ ~tagged /\ ~prog.follow[q + 1].dynamic
          /\ phase' = "copy" /\ frames' = <<>> /\ todo' = prog.follow[q + 1].pcs

(* Where the search may skip to while nothing is alive: the next character *)
(* a match can start with.                                                 *)
Skips == ~tagged /\ prog.first # {} /\ best = {} /\ lists[cl].dense = <<>> /\ ~only
Landings == {p \in pos..Len(input) - 1 : \E cs \in prog.first : input[p + 1] \in cs}

SkipOut ==
    /\ phase = "top" /\ Skips /\ Landings = {}
    /\ phase' = "over"
    /\ UNCHANGED <<scratch, closure, control, search>>

(* The thread that starts here comes after those alive, until a match is   *)
(* found.                                                                  *)
Seeds == best = {} /\ (~only \/ pos = from)
Seed ==
    /\ phase = "top" /\ Seeds
    /\ Skips => Landings # {}
    /\ LET p == IF Skips THEN CHOOSE q \in Landings : \A r \in Landings : q <= r ELSE pos
       IN  /\ pos' = p
           /\ AddThread(cl, 0, p, [s \in 0..Width - 1 |-> IF s = 0 THEN p ELSE None], "decode")
    /\ UNCHANGED <<scratch, control, cl, i, best, left>>

NoSeed ==
    /\ phase = "top" /\ ~Seeds
    /\ phase' = "decode"
    /\ UNCHANGED <<scratch, closure, control, search>>

(* Mutant: running out of steps answers that nothing matches.              *)
OutOfStepsIsNo == "not_exists"
OutOfSteps == "step_limit"

(* Nothing alive and nothing to wait for; or the threads' turn, which the  *)
(* existence test pays for.                                                *)
Decode ==
    /\ phase = "decode"
    /\ LET dead == lists[cl].dense = <<>> /\ (best # {} \/ only)
           cost == IF call.want = "exists" THEN Len(lists[cl].dense) ELSE 0
       IN  \/ /\ dead /\ phase' = "over"
              /\ UNCHANGED <<lists, i, left>>
           \/ /\ ~dead /\ left < cost
              /\ phase' = OutOfSteps /\ left' = 0
              /\ UNCHANGED <<lists, i>>
           \/ /\ ~dead /\ left >= cost
              /\ phase' = "step" /\ left' = left - cost /\ i' = 1
              /\ lists' = [lists EXCEPT ![nl] = Cleared(@)]
    /\ UNCHANGED <<capacity, closure, control, cl, pos, best>>

Thread == lists[cl].dense[i]
Stepping == phase = "step" /\ i <= Len(lists[cl].dense)
Accepts(q) == /\ Inst(q).op = "set"
              /\ pos < Len(input) /\ input[pos + 1] \in Inst(q).cs

Consume ==
    /\ Stepping /\ Accepts(Thread)
    /\ i' = i + 1
    /\ AddThread(nl, Thread + 1, pos + 1, lists[cl].row[Thread], "step")
    /\ UNCHANGED <<scratch, control, cl, pos, best, left>>

Drop ==
    /\ Stepping /\ Inst(Thread).op # "match" /\ ~Accepts(Thread)
    /\ i' = i + 1
    /\ UNCHANGED <<scratch, closure, control, cl, pos, best, left, phase>>

(* A match: the threads after this one are cut.  Mutant: they go on.       *)
AfterMatchOn == i + 1
AfterMatch == Len(lists[cl].dense) + 1
RecordMatch ==
    /\ Stepping /\ Inst(Thread).op = "match"
    /\ best' = {[lists[cl].row[Thread] EXCEPT ![1] = pos]}
    /\ i' = AfterMatch
    /\ phase' = IF call.want = "exists" THEN "exists" ELSE "step"
    /\ UNCHANGED <<scratch, closure, control, cl, pos, left>>

Stops == \E m \in pass1 : pos = m.end
Advance ==
    /\ phase = "step" /\ i > Len(lists[cl].dense)
    /\ ~Stops /\ pos < Len(input)
    /\ pos' = pos + 1 /\ cl' = nl /\ phase' = "top"
    /\ UNCHANGED <<scratch, closure, control, i, best, left>>

Exhausted ==
    /\ phase = "step" /\ i > Len(lists[cl].dense)
    /\ Stops \/ pos = Len(input)
    /\ phase' = "over"
    /\ UNCHANGED <<scratch, closure, control, search>>
-----------------------------------------------------------------------------
(* A precomputed closure, pc by pc.                                        *)
CopyMember ==
    /\ phase = "copy" /\ todo # <<>>
    /\ todo' = Tail(todo)
    /\ lists' = IF Member(lists[into], Head(todo)) THEN lists
                ELSE [lists EXCEPT ![into] = Inserted(@, Head(todo), curr, TRUE)]
    /\ UNCHANGED <<capacity, into, at, then, curr, frames, pc, control, search, phase>>

CopyEnd ==
    /\ phase = "copy" /\ todo = <<>>
    /\ phase' = then
    /\ UNCHANGED <<scratch, closure, control, search>>

(* addClosure, closeTagged: the next pending branch...                     *)
Explore ==
    /\ phase = "pop" /\ frames # <<>> /\ Last(frames).explore
    /\ frames' = Front(frames) /\ pc' = Last(frames).pc /\ phase' = "visit"
    /\ UNCHANGED <<scratch, into, at, then, curr, todo, control, search>>

(* ... or a slot to put back.  Mutant: slots are not put back.             *)
NotPutBack(c, f) == c
PutBack(c, f) == [c EXCEPT ![f.slot] = f.old]
Restore ==
    /\ phase = "pop" /\ frames # <<>> /\ ~Last(frames).explore
    /\ frames' = Front(frames) /\ curr' = PutBack(curr, Last(frames))
    /\ UNCHANGED <<scratch, into, at, then, pc, todo, control, search, phase>>

CloseEnd ==
    /\ phase = "pop" /\ frames = <<>>
    /\ phase' = then
    /\ UNCHANGED <<scratch, closure, control, search>>

VisitMember ==
    /\ phase = "visit" /\ Member(lists[into], pc)
    /\ phase' = "pop"
    /\ UNCHANGED <<scratch, closure, control, search>>

HoldsAt(kind, p) ==
    LET word(k) == k \in DOMAIN input /\ input[k] \in Word
    IN  CASE kind = "string_start" -> p = 0
          [] kind = "string_end"   -> p = Len(input)
          [] kind = "line_start"   -> p > 0 => input[p] \in LineEnd
          [] kind = "line_end"     -> p < Len(input) => input[p + 1] \in LineEnd
          [] kind = "word"         -> word(p) # word(p + 1)
          [] kind = "not_word"     -> word(p) = word(p + 1)

(* A pc whose row is read later.                                           *)
Keeps(q) == ~tagged \/ Inst(q).op \in {"set", "match"}
Visiting(ops) ==
    /\ phase = "visit" /\ ~Member(lists[into], pc) /\ Inst(pc).op \in ops
    /\ lists' = [lists EXCEPT ![into] = Inserted(@, pc, curr, Keeps(pc))]

(* The branches of a split: x first, y pending.  Mutant: y first.          *)
YFirst(s) == [now |-> s.y, later |-> s.x]
XFirst(s) == [now |-> s.x, later |-> s.y]
VisitSplit ==
    /\ Visiting({"split"})
    /\ frames' = Append(frames, [explore |-> TRUE, pc |-> XFirst(Inst(pc)).later])
    /\ pc' = XFirst(Inst(pc)).now
    /\ UNCHANGED <<capacity, into, at, then, curr, todo, control, search, phase>>

VisitJmp ==
    /\ Visiting({"jmp"})
    /\ pc' = Inst(pc).x
    /\ UNCHANGED <<capacity, into, at, then, curr, frames, todo, control, search, phase>>

(* The pass without captures passes over save and clear.                   *)
PassOver ==
    /\ Visiting({"save", "clear"}) /\ ~tagged
    /\ pc' = pc + 1
    /\ UNCHANGED <<capacity, into, at, then, curr, frames, todo, control, search, phase>>

Undo(slot) == [explore |-> FALSE, slot |-> slot, old |-> curr[slot]]
VisitSave ==
    /\ Visiting({"save"}) /\ tagged
    /\ frames' = Append(frames, Undo(Inst(pc).slot))
    /\ curr' = [curr EXCEPT ![Inst(pc).slot] = at]
    /\ pc' = pc + 1
    /\ UNCHANGED <<capacity, into, at, then, todo, control, search, phase>>

(* An iteration forgets the groups of the one before.                      *)
Wiped(c, slots) == [s \in DOMAIN c |-> IF s \in slots THEN None ELSE c[s]]
VisitClear ==
    /\ Visiting({"clear"}) /\ tagged
    /\ LET lo == Inst(pc).lo hi == Inst(pc).hi
       IN  /\ frames' = frames \o [k \in 1..hi - lo |-> Undo(lo + k - 1)]
           /\ curr' = Wiped(curr, lo..hi - 1)
    /\ pc' = pc + 1
    /\ UNCHANGED <<capacity, into, at, then, todo, control, search, phase>>

VisitAssert ==
    /\ Visiting({"assert"})
    /\ \/ /\ HoldsAt(Inst(pc).kind, at)
          /\ pc' = pc + 1 /\ UNCHANGED phase
       \/ /\ ~HoldsAt(Inst(pc).kind, at)
          /\ phase' = "pop" /\ UNCHANGED pc
    /\ UNCHANGED <<capacity, into, at, then, curr, frames, todo, control, search>>

VisitEnd ==
    /\ Visiting({"set", "match", "fail"})
    /\ phase' = "pop"
    /\ UNCHANGED <<capacity, closure, control, search>>
-----------------------------------------------------------------------------
(* A pass is over: no match, ...                                           *)
NotFound ==
    /\ phase = "over" /\ best = {}
    /\ phase' = CASE tagged                              -> "mismatch"
                  [] ~tagged /\ call.want = "exists"     -> "not_exists"
                  [] ~tagged /\ call.want # "exists"     -> "no_match"
    /\ UNCHANGED <<scratch, closure, control, search>>

(* ... the match of a program without groups, ...                          *)
Found ==
    /\ phase = "over" /\ best # {} /\ ~tagged /\ prog.nslots = 2
    /\ phase' = "match"
    /\ UNCHANGED <<scratch, closure, control, search>>

(* ... the first of two passes, the second anchored where its match starts *)
(* and over after where it ends, ...                                       *)
SecondPass ==
    /\ phase = "over" /\ ~tagged /\ prog.nslots # 2
    /\ \E m \in best :
          /\ pass1' = {[start |-> m[0], end |-> m[1]]}
          /\ from' = m[0] /\ pos' = m[0]
    /\ only' = TRUE /\ cl' = 1 /\ i' = 1 /\ best' = {}
    /\ lists' = [lists EXCEPT ![1] = Cleared(@)]
    /\ phase' = "top"
    /\ UNCHANGED <<capacity, closure, call, left>>

(* ... or the second, which must end where the first did.                  *)
BothPasses ==
    /\ phase = "over" /\ tagged
    /\ \E m \in best, f \in pass1 :
          phase' = IF m[0] = f.start /\ m[1] = f.end THEN "match" ELSE "mismatch"
    /\ UNCHANGED <<scratch, closure, control, search>>

(* The caller has the answer; the next call finds the scratch as it is.    *)
Return ==
    /\ phase \in Answers
    /\ phase' = "idle" /\ call' = None
    /\ pass1' = {} /\ from' = 0 /\ only' = FALSE
    /\ cl' = 1 /\ pos' = 0 /\ i' = 1 /\ best' = {} /\ left' = 0
    /\ into' = 1 /\ at' = 0 /\ then' = "decode" /\ curr' = <<>>
    /\ frames' = <<>> /\ pc' = 0 /\ todo' = <<>>
    /\ UNCHANGED scratch

Search == \/ SkipOut \/ Seed \/ NoSeed \/ Decode \/ Consume \/ Drop
          \/ RecordMatch \/ Advance \/ Exhausted
Close  == \/ CopyMember \/ CopyEnd \/ Explore \/ Restore \/ CloseEnd
          \/ VisitMember \/ VisitSplit \/ VisitJmp \/ PassOver \/ VisitSave
          \/ VisitClear \/ VisitAssert \/ VisitEnd
End    == NotFound \/ Found \/ SecondPass \/ BothPasses

Next == \/ \E c \in Calls : Refuse(c) \/ Start(c)
        \/ Search \/ Close \/ End \/ Return

Spec == Init /\ [][Next]_vars
-----------------------------------------------------------------------------
(* Membership by stamp is membership in the list: what a list answers for  *)
(* a pc is true, whatever the executions before it left in the stamps      *)
(* (pikevm.zig:52).  A program's pcs have their places in the buffers.     *)
ListsExact ==
    \A l \in 1..2 :
        /\ DOMAIN lists[l].stamp = 0..capacity - 1
        /\ \A q \in 0..capacity - 1 :
              Member(lists[l], q) <=> q \in Range(lists[l].dense)
        /\ \A j, k \in DOMAIN lists[l].dense :
              lists[l].dense[j] = lists[l].dense[k] => j = k

(* Every frame put back, and so in each slot what the oldest frame about it *)
(* holds, the slots are those the closure began with: the y of a split sees *)
(* them as they were at the split, and the next thread's closure starts     *)
(* clean (pikevm_tagged.zig:126).                                           *)
UndoesOf(fs, s) == {k \in DOMAIN fs : ~fs[k].explore /\ fs[k].slot = s}
Oldest(fs, c, s) == LET undoes == UndoesOf(fs, s)
                    IN  IF undoes = {} THEN c[s] ELSE fs[Min(undoes)].old
Unwound == [s \in DOMAIN curr |-> Oldest(frames, curr, s)]
Begun == IF then = "step" THEN lists[cl].row[lists[cl].dense[i - 1]]
         ELSE [s \in 0..Width - 1 |-> IF s = 0 THEN pos ELSE None]
ClosureUnwinds == phase \in {"pop", "visit"} => Unwound = Begun

(* Once recorded, a match is only replaced by one that starts no later,    *)
(* the one a thread of higher priority finds (pikevm.zig:404).             *)
StartsNeverLater ==
    [][\A m \in best, m2 \in best' : pass1' = pass1 => m2[0] <= m[0]]_vars

(* The second pass ends where the first did: TwoPassMismatch, which a safe *)
(* build panics on and others answer with the backtracker, never happens   *)
(* (pikevm_tagged.zig:56, regex.zig:379).                                  *)
PassesAgree == phase # "mismatch"
=============================================================================
