----------------------------- MODULE Backtrack -----------------------------
(***************************************************************************)
(* The explicit-stack backtracker (tier2/executor/backtrack.zig and        *)
(* core.zig) driven by one Matcher.exec (matcher.zig).  A step is one      *)
(* instruction dispatched (phase "exec") or one turn of the loop that      *)
(* looks for a pending alternative (phase "back").                         *)
(*                                                                         *)
(* Abstractions: a character is one position of the subject; an address is *)
(* an instruction's index; every consuming opcode is "atom" with the set   *)
(* of characters it accepts.  LookLinear is off (t2_look_linear = false):  *)
(* LookMemo models it.  Allocation never fails here: GuardSet models that. *)
(***************************************************************************)
EXTENDS Integers, Sequences, FiniteSets

CONSTANTS
    Programs,      \* the compiled programs, [code, groups, marks]
    Inputs,        \* the subjects, sequences of characters
    Limits,        \* the ExecLimits in use, [steps, bytes]; 0 is unlimited
    Word,          \* the word characters
    LineEnd,       \* the line terminators
    None,          \* a capture edge that is not set
    GuardSetMin,   \* guards past this many are mirrored in the guard set
    ChoiceSize, TrailSize, GuardSize, PositionSize   \* bytes per entry

VARIABLES
    call,       \* the arguments of exec: program, subject, index, sticky, limits
    phase,      \* "exec", "back", or how exec ended
    start,      \* the start position being tried
    pc, pos,    \* the instruction and the subject position
    caps,       \* capture slots: the groups, then the REPEAT_MARK marks
    stack,      \* the pending alternatives (Choice), newest last
    trail,      \* the capture writes to undo
    guards,     \* the loop guards (loop_guard)
    positions,  \* the ends recorded by greedy stars
    lookTop,    \* index of the innermost lookaround barrier, 0 if none
    steps       \* instructions dispatched from this start position

vars == <<call, phase, start, pc, pos, caps, stack, trail, guards, positions,
          lookTop, steps>>

(* Whether the lookaround whose body starts at `from` is closed at `e`.    *)
Opens(inst, behind)  == inst.op = "look" /\ (inst.dir # "ahead") = behind
Closes(inst, behind) == inst.op = "look_end" /\ inst.behind = behind
Balanced(code, from, e, behind) ==
    Cardinality({i \in from..e : Closes(code[i], behind)})
      = Cardinality({i \in from..e : Opens(code[i], behind)}) + 1

(* Operands are what the code generator emits: jumps to addresses, groups  *)
(* and marks the program has, every lookaround with its END.               *)
WellFormed(p, i) ==
    LET inst == p.code[i] IN
    /\ inst.op = "goto" => inst.to \in Nat
    /\ inst.op = "split" => inst.x \in Nat /\ inst.y \in Nat
    /\ inst.op \in {"save", "clear", "backref"} => inst.group \in 1..p.groups
    /\ inst.op \in {"mark", "check"} => inst.mark \in 0..(p.marks - 1)
    /\ inst.op \in {"atom", "backref"} => inst.back \in BOOLEAN
    /\ inst.op = "look" =>
         /\ inst.negated \in BOOLEAN /\ inst.len \in Nat
         /\ \E e \in (i + 1)..Len(p.code) :
               Balanced(p.code, i + 1, e, inst.dir # "ahead")

ASSUME ProgramsAssumption ==
    \A p \in Programs :
        /\ p.groups \in Nat /\ p.marks \in Nat
        /\ Len(p.code) \in Nat /\ DOMAIN p.code = 1..Len(p.code)
        /\ \A i \in DOMAIN p.code : WellFormed(p, i)

ASSUME InputsAssumption == \A in \in Inputs : Len(in) \in Nat

ASSUME LimitsAssumption ==
    /\ \A l \in Limits : l.steps \in Nat /\ l.bytes \in Nat
    /\ {ChoiceSize, TrailSize, GuardSize, PositionSize, GuardSetMin} \subseteq Nat

Final == {"matched", "no_match", "step_limit", "stack_exhausted"}

Prog  == call.prog
Code  == Prog.code
Input == call.input
Size  == Len(Input)
Inst  == Code[pc]
Slots == 1..(Prog.groups + Prog.marks)

Unset == [start |-> None, end |-> None]

(* Mark m lives at the tail of the capture slots. *)
MarkSlot(m) == Prog.groups + Prog.marks - m

-----------------------------------------------------------------------------
(* The stacks: heights, undoing, limits. *)

Prefix(s, n) == SubSeq(s, 1, n)

Stacks == [stack |-> stack, trail |-> trail, guards |-> guards,
           positions |-> positions, lookTop |-> lookTop]
NoStacks == [stack |-> <<>>, trail |-> <<>>, guards |-> <<>>,
             positions |-> <<>>, lookTop |-> 0]
Become(m) ==
    /\ stack' = m.stack /\ trail' = m.trail /\ guards' = m.guards
    /\ positions' = m.positions /\ lookTop' = m.lookTop

(* A choicepoint of `kind` recording the current heights, `ps` being the   *)
(* positions.  `saved` is history: what resuming it has to bring back.     *)
Choice(kind, to, at, ps) ==
    [kind |-> kind, back |-> FALSE, pc |-> to, trailH |-> Len(trail),
     guardH |-> Len(guards), posH |-> Len(ps), lookTop |-> lookTop,
     pos |-> at, a |-> 0, negated |-> FALSE, anywhere |-> FALSE,
     saved |-> [caps |-> caps, guards |-> guards, positions |-> ps]]

(* Captures `cs` once the trail `tr` above height h is undone, newest      *)
(* first: a slot gets back the value its oldest write above h recorded.    *)
Writes(tr, h, s) == {i \in (h + 1)..Len(tr) : tr[i].slot = s}
Oldest(ws) == CHOOSE i \in ws : \A j \in ws : i <= j
UndoneIn(cs, tr, h) ==
    [s \in DOMAIN cs |-> IF Writes(tr, h, s) = {} THEN cs[s]
                         ELSE tr[Oldest(Writes(tr, h, s))].prev]

(* Mutant: the newest write's value instead. *)
UndoneToNewest(h) ==
    [s \in DOMAIN caps |->
        IF Writes(trail, h, s) = {} THEN caps[s]
        ELSE trail[CHOOSE i \in Writes(trail, h, s) :
                      \A j \in Writes(trail, h, s) : j <= i].prev]
Undone(h) == UndoneIn(caps, trail, h)

(* cutTo: the stacks without the choicepoints from the barrier at idx up,  *)
(* it included, and at its heights; the trail is the caller's.             *)
(* Mutant: the innermost barrier is forgotten. *)
CutToInside(idx, tr) ==
    [stack |-> Prefix(stack, idx - 1), trail |-> tr,
     guards |-> Prefix(guards, stack[idx].guardH),
     positions |-> Prefix(positions, stack[idx].posH), lookTop |-> 0]
CutTo(idx, tr) ==
    [stack |-> Prefix(stack, idx - 1), trail |-> tr,
     guards |-> Prefix(guards, stack[idx].guardH),
     positions |-> Prefix(positions, stack[idx].posH),
     lookTop |-> stack[idx].lookTop]

(* checkBytes: the stacks together against max_backtrack_stack_bytes; past *)
(* GuardSetMin every guard counts again, for its mirror.                   *)
Bytes(m) ==
    Len(m.stack) * ChoiceSize + Len(m.trail) * TrailSize
      + Len(m.positions) * PositionSize
      + GuardSize * (IF Len(m.guards) > GuardSetMin THEN 2 * Len(m.guards)
                                                    ELSE Len(m.guards))
Fits(m) == call.limits.bytes = 0 \/ Bytes(m) <= call.limits.bytes

-----------------------------------------------------------------------------
(* Where control goes. *)

Continue(to, at) == phase' = "exec" /\ pc' = to /\ pos' = at
Fail             == phase' = "back" /\ UNCHANGED <<pc, pos>>

(* The run ends and its stacks are dropped (`defer clearStacks`). *)
End(outcome) == phase' = outcome /\ Become(NoStacks) /\ UNCHANGED <<pc, pos>>

(* Go on with the grown stacks `m`, if they are within the limit. *)
Grow(m, to, at) ==
    IF Fits(m) THEN Become(m) /\ Continue(to, at) ELSE End("stack_exhausted")

(* Record the slot's value on the trail, then set it and go on. *)
(* Mutant: the trail's growth unchecked. *)
SetCaptureUnchecked(slot, value) ==
    /\ Become([Stacks EXCEPT !.trail = Append(@, [slot |-> slot, prev |-> caps[slot]])])
    /\ Continue(pc + 1, pos)
    /\ caps' = [caps EXCEPT ![slot] = value]
SetCapture(slot, value) ==
    LET m == [Stacks EXCEPT !.trail =
                 Append(@, [slot |-> slot, prev |-> caps[slot]])]
    IN  /\ Grow(m, pc + 1, pos)
        /\ caps' = IF Fits(m) THEN [caps EXCEPT ![slot] = value] ELSE caps

(* Enter a loop head through a backward edge, with stacks `m`: an active   *)
(* guard for the same head and position means an iteration that made no    *)
(* progress, which is refused.                                             *)
Guarded(m, to, at) ==
    \E i \in DOMAIN m.guards : m.guards[i] = [pc |-> to, pos |-> at]
EnterBackEdge(m, to, at) ==
    IF Guarded(m, to, at) THEN Become(m) /\ Fail
    ELSE Grow([m EXCEPT !.guards = Append(@, [pc |-> to, pos |-> at])], to, at)

-----------------------------------------------------------------------------
(* Atoms (core.zig): what an instruction consumes from a position. *)

(* How much a backreference repeats, given the captures `cs`: nothing of a *)
(* group that has not taken part, or was re-entered and not closed yet.    *)
GroupWidth(c) ==
    IF c.start = None \/ c.end = None \/ c.end < c.start THEN 0 ELSE c.end - c.start

Width(cs, inst)  == IF inst.op = "atom" THEN 1 ELSE GroupWidth(cs[inst.group])
Stride(cs, inst) == IF inst.back THEN -Width(cs, inst) ELSE Width(cs, inst)

AtomMatches(cs, inst, at) ==
    LET w  == Width(cs, inst)
        lo == IF inst.back THEN at - w ELSE at
    IN  /\ lo >= 0 /\ lo + w <= Size
        /\ IF inst.op = "atom" THEN Input[lo + 1] \in inst.cs
           ELSE \A k \in 1..w : Input[lo + k] = Input[cs[inst.group].start + k]

(* What a repeated atom needs to go on: it matches, and it moves. *)
AtomMoves(cs, inst, at) == Width(cs, inst) > 0 /\ AtomMatches(cs, inst, at)

(* consumeAll: how many times the atom repeats from `at`, and its ends,    *)
(* `at` first.                                                             *)
Nth(inst, at, n) == at + n * Stride(caps, inst)
Repetitions(inst, at) ==
    CHOOSE n \in 0..Size :
        /\ ~AtomMoves(caps, inst, Nth(inst, at, n))
        /\ \A i \in 0..(n - 1) : AtomMoves(caps, inst, Nth(inst, at, i))
(* Mutant: the end after each one. *)
EndsLate(inst, at) == [i \in 1..(Repetitions(inst, at) + 1) |-> Nth(inst, at, i)]
Ends(inst, at) == [i \in 1..(Repetitions(inst, at) + 1) |-> Nth(inst, at, i - 1)]

(* isStarConsumePath: the loop of `X*` (X; GOTO split) or of `X+` (X right *)
(* before the split), X an atom.                                           *)
ConsumePath(split, to) ==
    /\ to \in DOMAIN Code /\ Code[to].op \in {"atom", "backref"}
    /\ \/ to + 1 = split
       \/ /\ to + 1 \in DOMAIN Code
          /\ Code[to + 1].op = "goto" /\ Code[to + 1].to = split
IsStar == ConsumePath(pc, Inst.x) \/ ConsumePath(pc, Inst.y)
StarAtom == IF ConsumePath(pc, Inst.x) THEN Inst.x ELSE Inst.y
StarRest == IF ConsumePath(pc, Inst.x) THEN Inst.y ELSE Inst.x

-----------------------------------------------------------------------------
(* exec1: one action per opcode. *)

(* The instruction at pc is dispatched: one step of the budget. *)
Dispatch(op) ==
    /\ phase = "exec"
    /\ pc \in DOMAIN Code /\ Inst.op = op
    /\ IF call.limits.steps = 0 THEN steps' = steps
       ELSE steps + 1 < call.limits.steps /\ steps' = steps + 1
    /\ UNCHANGED <<call, start>>

StepLimit ==
    /\ phase = "exec"
    /\ call.limits.steps > 0 /\ steps + 1 >= call.limits.steps
    /\ steps' = steps + 1
    /\ End("step_limit")
    /\ UNCHANGED <<call, start, caps>>

Match ==
    /\ Dispatch("match")
    /\ End("matched")
    /\ UNCHANGED caps

(* Go on at `to`, `at` if the condition holds, else backtrack. *)
Test(holds, to, at) ==
    /\ IF holds THEN Continue(to, at) ELSE Fail
    /\ Become(Stacks) /\ UNCHANGED caps

Consume ==
    \E op \in {"atom", "backref"} :
        /\ Dispatch(op)
        /\ Test(AtomMatches(caps, Inst, pos), pc + 1, pos + Stride(caps, Inst))

GoTo ==
    /\ Dispatch("goto")
    /\ IF Inst.to < pc THEN EnterBackEdge(Stacks, Inst.to, pos)
       ELSE Continue(Inst.to, pos) /\ Become(Stacks)
    /\ UNCHANGED caps

SplitStarPossessive ==
    /\ Dispatch("split") /\ IsStar /\ Inst.kind = "possessive"
    /\ LET ends == Ends(Code[StarAtom], pos) IN Test(TRUE, StarRest, ends[Len(ends)])

SplitStarLazy ==
    /\ Dispatch("split") /\ IsStar /\ Inst.kind = "lazy"
    /\ LET c == [Choice("star_lazy", StarRest, pos, positions) EXCEPT !.a = StarAtom]
       IN  Grow([Stacks EXCEPT !.stack = Append(@, c)], StarRest, pos)
    /\ UNCHANGED caps

(* Every repetition count's end goes on `positions`, the longest is tried  *)
(* first; with no repetition there is nothing to come back to.             *)
SplitStarGreedy ==
    /\ Dispatch("split") /\ IsStar /\ Inst.kind \notin {"possessive", "lazy"}
    /\ LET ends == Ends(Code[StarAtom], pos)
           ps   == positions \o ends
           c    == [Choice("star_greedy", StarRest, Len(ps) - 2, ps)
                      EXCEPT !.a = Len(positions)]
           st   == IF Len(ends) > 1 THEN Append(stack, c) ELSE stack
       IN  Grow([Stacks EXCEPT !.stack = st, !.positions = ps],
                StarRest, ends[Len(ends)])
    /\ UNCHANGED caps

SplitAlternative ==
    /\ Dispatch("split") /\ ~IsStar
    /\ LET c == [Choice("alt", Inst.y, pos, positions) EXCEPT !.back = Inst.y < pc]
           m == [Stacks EXCEPT !.stack = Append(@, c)]
       IN  IF Inst.x < pc /\ Fits(m) THEN EnterBackEdge(m, Inst.x, pos)
           ELSE Grow(m, Inst.x, pos)
    /\ UNCHANGED caps

SaveEdge ==
    /\ Dispatch("save")
    /\ SetCapture(Inst.group,
                  IF Inst.edge = "start" THEN [caps[Inst.group] EXCEPT !.start = pos]
                                         ELSE [caps[Inst.group] EXCEPT !.end = pos])

ClearCapture ==
    /\ Dispatch("clear")
    /\ SetCapture(Inst.group, Unset)

RepeatMark ==
    /\ Dispatch("mark")
    /\ SetCapture(MarkSlot(Inst.mark), [Unset EXCEPT !.start = pos])

RepeatCheck ==
    /\ Dispatch("check")
    /\ Test(caps[MarkSlot(Inst.mark)].start # pos, pc + 1, pos)

(* findLookEnd: the first END after `from` that more ENDs than lookarounds *)
(* of its kind have led to.                                                *)
LookEndOf(from, behind) ==
    CHOOSE e \in from..Len(Code) :
        Balanced(Code, from, e, behind) /\ \A f \in from..(e - 1) : ~Balanced(Code, from, f, behind)

(* A lookaround's body runs above a barrier.  One of fixed length behind   *)
(* runs from that many characters back; with fewer it cannot match.        *)
LookBegin ==
    /\ Dispatch("look")
    /\ LET behind == Inst.dir # "ahead"
           after  == LookEndOf(pc + 1, behind) + 1
           from   == IF Inst.dir = "fixed" THEN pos - Inst.len ELSE pos
           c      == [Choice("look", after, pos, positions) EXCEPT
                        !.negated = Inst.negated, !.anywhere = Inst.dir = "behind"]
       IN  IF from < 0 THEN Test(Inst.negated, after, pos)
           ELSE /\ Grow([Stacks EXCEPT !.stack = Append(@, c), !.lookTop = Len(stack) + 1],
                        pc + 1, from)
                /\ UNCHANGED caps

Barrier == stack[lookTop]

(* The body matched.  (An END outside every lookaround, which no generated *)
(* code has, would be a MATCH.)  A lookbehind's must end where it stands.  *)
LookEnd(negated) ==
    Dispatch("look_end") /\ lookTop # 0 /\ Barrier.negated = negated
Misses == Inst.behind /\ ~Barrier.anywhere /\ pos # Barrier.pos

(* Negative: the assertion fails, and none of the body's captures stay.    *)
(* Mutant: the body's captures stay. *)
LookEndNegativeKeeping ==
    /\ LookEnd(TRUE)
    /\ Become(CutTo(lookTop, Prefix(trail, Barrier.trailH)))
    /\ Fail /\ UNCHANGED caps
LookEndNegative ==
    /\ LookEnd(TRUE)
    /\ IF Misses THEN Test(FALSE, pc, pos)
       ELSE /\ caps' = Undone(Barrier.trailH)
            /\ Become(CutTo(lookTop, Prefix(trail, Barrier.trailH)))
            /\ Fail

(* Positive: its alternatives go, its captures stay, on the trail; go on   *)
(* after it, where it started.                                             *)
LookEndPositive ==
    /\ LookEnd(FALSE)
    /\ IF Misses THEN Test(FALSE, pc, pos)
       ELSE /\ Become(CutTo(lookTop, trail))
            /\ Continue(Barrier.pc, Barrier.pos)
            /\ UNCHANGED caps

At(p, chars) == p \in DOMAIN Input /\ Input[p] \in chars
AssertHolds(kind) ==
    CASE kind = "string_start" -> pos = 0
      [] kind = "string_end"   -> pos = Size
      [] kind = "line_start"   -> pos = 0 \/ At(pos, LineEnd)
      [] kind = "line_end"     -> pos = Size \/ At(pos + 1, LineEnd)
      [] kind = "word"         -> At(pos, Word) # At(pos + 1, Word)
      [] kind = "not_word"     -> At(pos, Word) = At(pos + 1, Word)

Assertion ==
    /\ Dispatch("assert")
    /\ Test(AssertHolds(Inst.kind), pc + 1, pos)

Exec1 ==
    \/ Match \/ Consume \/ GoTo
    \/ SplitStarPossessive \/ SplitStarLazy \/ SplitStarGreedy \/ SplitAlternative
    \/ SaveEdge \/ ClearCapture \/ RepeatMark \/ RepeatCheck
    \/ LookBegin \/ LookEndNegative \/ LookEndPositive
    \/ Assertion

-----------------------------------------------------------------------------
(* backtrack: one action per kind of pending alternative.                  *)

Top == stack[Len(stack)]
Below == Prefix(stack, Len(stack) - 1)

(* Whatever the kind, the newest alternative's trail and guards come back. *)
Resume(kind) ==
    /\ phase = "back"
    /\ stack # <<>> /\ Top.kind = kind
    /\ caps' = Undone(Top.trailH)
    /\ UNCHANGED <<call, start, steps>>

Resumed(st, ps) ==
    [stack |-> st, trail |-> Prefix(trail, Top.trailH),
     guards |-> Prefix(guards, Top.guardH), positions |-> ps,
     lookTop |-> Top.lookTop]

ResumeAlt ==
    /\ Resume("alt")
    /\ LET m == Resumed(Below, Prefix(positions, Top.posH))
       IN  IF Top.back THEN EnterBackEdge(m, Top.pc, Top.pos)
           ELSE Become(m) /\ Continue(Top.pc, Top.pos)

(* The next shorter repetition count, down to none. *)
(* Mutant: the same count again. *)
ResumeStarGreedyAgain ==
    /\ Resume("star_greedy")
    /\ Become(Resumed(IF Top.pos > Top.a THEN Append(Below, Top) ELSE Below,
                      Prefix(positions, Top.pos + 1)))
    /\ Continue(Top.pc, positions[Top.pos + 1])
ResumeStarGreedy ==
    /\ Resume("star_greedy")
    /\ Become(Resumed(IF Top.pos > Top.a
                      THEN Append(Below, [Top EXCEPT !.pos = @ - 1]) ELSE Below,
                      Prefix(positions, Top.pos + 1)))
    /\ Continue(Top.pc, positions[Top.pos + 1])

(* One more repetition, if the atom matches (with the captures brought     *)
(* back) and moves; else the alternative is spent.                         *)
ResumeStarLazy ==
    /\ Resume("star_lazy")
    /\ LET inst == Code[Top.a]
           back == Undone(Top.trailH)
           ps   == Prefix(positions, Top.posH)
           to   == Top.pos + Stride(back, inst)
       IN  IF AtomMoves(back, inst, Top.pos)
           THEN /\ Become(Resumed(Append(Below, [Top EXCEPT !.pos = to]), ps))
                /\ Continue(Top.pc, to)
           ELSE Become(Resumed(Below, ps)) /\ Fail

(* A lookaround's body failed: a negative one holds. *)
ResumeLook ==
    /\ Resume("look")
    /\ Become(CutTo(Len(stack), Prefix(trail, Top.trailH)))
    /\ IF Top.negated THEN Continue(Top.pc, Top.pos) ELSE Fail

Backtracking == ResumeAlt \/ ResumeStarGreedy \/ ResumeStarLazy \/ ResumeLook

-----------------------------------------------------------------------------
(* Matcher.exec: one run per start position. *)

NextStart ==
    /\ phase = "back" /\ stack = <<>>
    /\ ~call.sticky /\ start < Size
    /\ start' = start + 1
    /\ Become(NoStacks)
    /\ caps' = [s \in Slots |-> Unset]
    /\ steps' = 0
    /\ Continue(1, start + 1)
    /\ UNCHANGED call

NoMatch ==
    /\ phase = "back" /\ stack = <<>>
    /\ call.sticky \/ start = Size
    /\ End("no_match")
    /\ UNCHANGED <<call, start, caps, steps>>

Init ==
    /\ \E p \in Programs, in \in Inputs, l \in Limits, s \in BOOLEAN :
         \E i \in 0..Len(in) :
             call = [prog |-> p, input |-> in, index |-> i, sticky |-> s, limits |-> l]
    /\ phase = "exec" /\ start = call.index
    /\ pc = 1 /\ pos = call.index
    /\ caps = [s \in Slots |-> Unset]
    /\ stack = <<>> /\ trail = <<>> /\ guards = <<>> /\ positions = <<>>
    /\ lookTop = 0 /\ steps = 0

Next == Exec1 \/ StepLimit \/ Backtracking \/ NextStart \/ NoMatch

Spec     == Init /\ [][Next]_vars
FairSpec == Spec /\ WF_vars(Next)

-----------------------------------------------------------------------------
(* Properties.                                                             *)

Kinds == {"alt", "star_greedy", "star_lazy", "look"}
Edge == Nat \cup {None}
CaptureType == [start : Edge, end : Edge]
CapsType == [Slots -> CaptureType]
GuardType == [pc : Nat, pos : 0..Size]
TrailType == [slot : Slots, prev : CaptureType]
ChoiceType ==
    [kind : Kinds, back : BOOLEAN, pc : Nat, trailH : Nat, guardH : Nat,
     posH : Nat, lookTop : Nat, pos : Nat, a : Nat, negated : BOOLEAN,
     anywhere : BOOLEAN,
     saved : [caps : CapsType, guards : Seq(GuardType), positions : Seq(0..Size)]]

(* Every variable has its type: positions lie in the subject, addresses    *)
(* are numbers, and there is a capture per slot.                           *)
TypeOK ==
    /\ phase \in {"exec", "back"} \cup Final
    /\ start \in 0..Size /\ pos \in 0..Size /\ pc \in Nat /\ steps \in Nat
    /\ caps \in CapsType
    /\ stack \in Seq(ChoiceType)
    /\ \A i \in DOMAIN stack : stack[i].kind # "star_greedy" => stack[i].pos <= Size
    /\ trail \in Seq(TrailType)
    /\ guards \in Seq(GuardType)
    /\ positions \in Seq(0..Size)
    /\ lookTop \in 0..Len(stack)

(* The positions an alternative still needs: a greedy star's up to the one *)
(* after the next it will try, any other's up to its own height.  Its own  *)
(* lie above its base.                                                     *)
Floor(c) == IF c.kind = "star_greedy" THEN c.pos + 2 ELSE c.posH
Base(c)  == IF c.kind = "star_greedy" THEN c.a ELSE c.posH

(* The pending alternatives are nested: the heights of an older one never  *)
(* exceed those of a newer one nor the stacks', so popping one never drops *)
(* what an older one needs, and a greedy star's positions lie above those  *)
(* of every older alternative.  This is what makes heights enough.         *)
Nested ==
    /\ \A i \in DOMAIN stack :
          /\ stack[i].trailH <= Len(trail)
          /\ stack[i].guardH <= Len(guards)
          /\ Floor(stack[i]) <= Len(positions)
          /\ stack[i].kind = "star_greedy" => stack[i].a <= stack[i].pos
    /\ \A i, j \in DOMAIN stack : i < j =>
          /\ stack[i].trailH <= stack[j].trailH
          /\ stack[i].guardH <= stack[j].guardH
          /\ Floor(stack[i]) <= Base(stack[j])

(* Whatever happened since an alternative was pushed (writes, clears, cut  *)
(* lookarounds, resumed stars), coming back to it finds the captures, the  *)
(* loop guards and the recorded positions of that moment: a group set by   *)
(* an abandoned attempt never leaks into a later one.                      *)
Restores ==
    \A i \in DOMAIN stack :
        LET c == stack[i] IN
        /\ Undone(c.trailH) = c.saved.caps
        /\ Prefix(guards, c.guardH) = c.saved.guards
        /\ Prefix(positions, Floor(c)) = Prefix(c.saved.positions, Floor(c))

(* look_top is the innermost barrier that is still on the stack, and each  *)
(* alternative remembers the one below itself: an END always closes its    *)
(* own lookaround.                                                         *)
Barriers(n) == {i \in DOMAIN stack : i < n /\ stack[i].kind = "look"}
Innermost(n, i) ==
    \/ i = 0 /\ Barriers(n) = {}
    \/ i \in Barriers(n) /\ \A j \in Barriers(n) : j <= i
LookChain ==
    /\ Innermost(Len(stack) + 1, lookTop)
    /\ \A i \in DOMAIN stack : Innermost(i, stack[i].lookTop)

(* The stacks never outgrow max_backtrack_stack_bytes, whichever of them   *)
(* grew last (BacktrackStackExhausted ends the run first).                 *)
WithinLimit == Fits(Stacks)

(* Code whose optional iterations carry the empty check leaves the loop    *)
(* guard nothing to refuse: a backward GOTO always goes round again.       *)
EmptyCheckSuffices ==
    [][phase = "exec" /\ Inst.op = "goto" => phase' # "back"]_vars

(* Without limits every exec ends, whatever the pattern repeats.           *)
Terminates == <>(phase \in Final)
=============================================================================
