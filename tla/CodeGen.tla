------------------------------ MODULE CodeGen ------------------------------
(***************************************************************************)
(* The code generator (tier2/codegen/generator.zig): from a HIR node to    *)
(* the backtracker's bytecode.  An address is an instruction's index, from *)
(* 1; a jump holds its target instead of an offset, so the operand 0 that  *)
(* SPLIT reads as "fall through" is the next address.  Every operator Gen* *)
(* yields the code a node emits at address `at`, with `mk` the generator's *)
(* next mark and `back` set inside a body matched right to left.           *)
(***************************************************************************)
EXTENDS Hir, FiniteSets, FiniteSetsExt

CONSTANT MarkValues   \* the values of the generator's mark counter: 2^16

Atom(cs, back)      == [op |-> "atom", cs |-> cs, back |-> back]
BackRefOp(g, back)  == [op |-> "backref", group |-> g, back |-> back]
Jump(target)        == [op |-> "goto", to |-> target]
Split(kind, x, y)   == [op |-> "split", kind |-> kind, x |-> x, y |-> y]
Save(edge, g)       == [op |-> "save", edge |-> edge, group |-> g]
Clear(g)            == [op |-> "clear", group |-> g]
Mark(m)             == [op |-> "mark", mark |-> m]
Check(m)            == [op |-> "check", mark |-> m]
AssertOp(kind)      == [op |-> "assert", kind |-> kind]
LookOp(dir, neg, n) == [op |-> "look", dir |-> dir, negated |-> neg, len |-> n]
LookEndOp(behind)   == [op |-> "look_end", behind |-> behind]
MatchOp             == [op |-> "match"]

(* How many marks a piece of code uses: `marks` advances by one for each,  *)
(* and past its last value starts over (where the build does not panic).   *)
Marks(code) == Cardinality({i \in DOMAIN code : code[i].op = "mark"})

RECURSIVE Gen(_, _, _, _), GenAll(_, _, _, _), GenAlt(_, _, _, _),
          Copies(_, _, _, _, _), Optionals(_, _, _, _, _, _)

(* generateIteration: the body's captures are reset, then the body.        *)
Iteration(body, at, mk, back) ==
    LET clears == [i \in DOMAIN Groups(body) |-> Clear(Groups(body)[i])]
    IN  clears \o Gen(body, at + Len(clears), mk, back)

(* generateOptionalIteration: an iteration above the minimum; if the body  *)
(* is nullable it is wrapped so that matching empty fails.                 *)
(* Mutant: no empty check. *)
OptionalIterationUnchecked(body, at, mk, back) == Iteration(body, at, mk, back)
OptionalIteration(body, at, mk, back) ==
    IF ~Nullable(body) THEN Iteration(body, at, mk, back)
    ELSE LET m == mk % MarkValues
         IN  <<Mark(m)>> \o Iteration(body, at + 1, mk + 1, back) \o <<Check(m)>>

(* A loop closed by a GOTO: generateStar, generateLazyStar,                *)
(* generatePossessiveStar (no empty check there).                          *)
Loop(policy, body, at, mk, back) ==
    LET iter == IF policy = "possessive" THEN Iteration(body, at + 1, mk, back)
                ELSE OptionalIteration(body, at + 1, mk, back)
        end  == at + Len(iter) + 2
    IN  <<IF policy = "greedy" THEN Split(policy, at + 1, end)
                               ELSE Split(policy, end, at + 1)>>
          \o iter \o <<Jump(at)>>

(* generatePlus, generateLazyPlus, generatePossessivePlus.  A body that    *)
(* cannot match empty loops back from a SPLIT at its end; otherwise (and   *)
(* always for the possessive form) one required copy, then the loop.       *)
Plus(policy, body, at, mk, back) ==
    LET iter == Iteration(body, at, mk, back)
        next == at + Len(iter)
    IN  IF policy = "possessive" \/ Nullable(body)
        THEN iter \o Loop(policy, body, next, mk + Marks(iter), back)
        ELSE iter \o <<IF policy = "greedy" THEN Split(policy, at, next + 1)
                                            ELSE Split(policy, next + 1, at)>>

(* generateQuestion, generateLazyQuestion, generatePossessiveQuestion, with *)
(* emitClearCapturesOnSkip: only the branch that skips clears.             *)
Question(policy, body, at, mk, back) ==
    LET iter   == IF policy = "possessive" THEN Iteration(body, at + 1, mk, back)
                  ELSE OptionalIteration(body, at + 1, mk, back)
        clears == [i \in DOMAIN Groups(body) |-> Clear(Groups(body)[i])]
        bare   == clears = <<>> \/ policy = "possessive"
        after  == at + 1 + Len(iter)
        skip   == IF bare THEN after ELSE after + 1
    IN  <<IF policy = "lazy" THEN Split(policy, skip, at + 1)
                             ELSE Split(policy, at + 1, skip)>>
          \o iter
          \o (IF bare THEN <<>> ELSE <<Jump(skip + Len(clears))>> \o clears)

(* generateCounted: `min` required copies, then a loop or max - min        *)
(* optional copies, none of which clears on its skip branch.               *)
Copies(n, body, at, mk, back) ==
    IF n = 0 THEN <<>>
    ELSE LET iter == Iteration(body, at, mk, back)
         IN  iter \o Copies(n - 1, body, at + Len(iter), mk + Marks(iter), back)

Optionals(n, policy, body, at, mk, back) ==
    IF n = 0 THEN <<>>
    ELSE LET iter == OptionalIteration(body, at + 1, mk, back)
             skip == at + 1 + Len(iter)
         IN  <<IF policy = "greedy" THEN Split(policy, at + 1, skip)
                                    ELSE Split(policy, skip, at + 1)>>
               \o iter
               \o Optionals(n - 1, policy, body, skip, mk + Marks(iter), back)

Counted(r, at, mk, back) ==
    LET required == Copies(r.min, r.body, at, mk, back)
        next     == at + Len(required)
        mk2      == mk + Marks(required)
    IN  required \o
        (IF r.max = Unbounded THEN Loop(r.policy, r.body, next, mk2, back)
         ELSE Optionals(Max({r.max - r.min, 0}), r.policy, r.body, next, mk2, back))

GenRepeat(r, at, mk, back) ==
    CASE r.form = "star"     -> Loop(r.policy, r.body, at, mk, back)
      [] r.form = "plus"     -> Plus(r.policy, r.body, at, mk, back)
      [] r.form = "question" -> Question(r.policy, r.body, at, mk, back)
      [] r.form = "counted"  -> Counted(r, at, mk, back)

(* generateAlternation: nested to the left, the last alternative apart.    *)
GenAlt(items, at, mk, back) ==
    IF Len(items) = 1 THEN Gen(items[1], at, mk, back)
    ELSE LET left  == GenAlt(Front(items), at + 1, mk, back)
             right == at + 2 + Len(left)
             last  == Gen(Last(items), right, mk + Marks(left), back)
         IN  <<Split("alt", at + 1, right)>> \o left
               \o <<Jump(right + Len(last))>> \o last

(* generateGroup: right to left, the group's end is reached first.         *)
GenGroup(c, at, mk, back) ==
    <<Save(IF back THEN "end" ELSE "start", c.index)>>
      \o Gen(c.body, at + 1, mk, back)
      \o <<Save(IF back THEN "start" ELSE "end", c.index)>>

(* generateLook: a lookbehind of fixed length without captures runs        *)
(* forward from `len` characters back, any other runs right to left.       *)
GenLook(l, at, mk) ==
    LET fixed    == IF l.behind /\ Groups(l.body) = <<>> THEN FixedLength(l.body)
                    ELSE {}
        variable == l.behind /\ fixed = {}
        dir      == IF ~l.behind THEN "ahead" ELSE IF variable THEN "behind" ELSE "fixed"
    IN  <<LookOp(dir, l.negated, IF fixed = {} THEN 0 ELSE CHOOSE n \in fixed : TRUE)>>
          \o Gen(l.body, at + 1, mk, variable)
          \o <<LookEndOp(l.behind)>>

GenAll(items, at, mk, back) ==
    IF items = <<>> THEN <<>>
    ELSE LET code == Gen(Head(items), at, mk, back)
         IN  code \o GenAll(Tail(items), at + Len(code), mk + Marks(code), back)

(* generateNode and generateLeaf. *)
Gen(n, at, mk, back) ==
    CASE n.k = "empty"   -> <<>>
      [] n.k = "set"     -> <<Atom(n.cs, back)>>
      [] n.k = "seq"     -> GenAll(IF back THEN Reverse(n.items) ELSE n.items, at, mk, back)
      [] n.k = "alt"     -> GenAlt(n.items, at, mk, back)
      [] n.k = "repeat"  -> GenRepeat(n, at, mk, back)
      [] n.k = "capture" -> GenGroup(n, at, mk, back)
      [] n.k = "backref" -> <<BackRefOp(n.index, back)>>
      [] n.k = "assert"  -> <<AssertOp(n.kind)>>
      [] n.k = "look"    -> GenLook(n, at, mk)

(* generate, and what compile.zig's generate keeps of it. *)
Compile(root) ==
    LET code == Gen(root, 1, 0, FALSE)
    IN  [code |-> Append(code, MatchOp), groups |-> Len(Groups(root)),
         marks |-> Marks(code) % MarkValues]
=============================================================================
