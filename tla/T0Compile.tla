----------------------------- MODULE T0Compile -----------------------------
(***************************************************************************)
(* HIR -> T0 program (tier0/compile.zig): a Thompson construction whose    *)
(* `split` order is the backtracker's priority.  An instruction is         *)
(* [op, ...]; its targets are distances until Compile makes them pcs.  Pcs *)
(* count from 0, so the one at pc q is insts[q + 1].                       *)
(* Literals and CharSets both consume one character of a set (Hir.tla), so *)
(* `char` and `set` are the op "set".                                      *)
(***************************************************************************)
EXTENDS Hir, FiniteSetsExt

Set(cs)     == [op |-> "set", cs |-> cs]
Split(x, y) == [op |-> "split", x |-> x, y |-> y]
Jmp(t)      == [op |-> "jmp", x |-> t]
Assertion(k) == [op |-> "assert", kind |-> k]
Save(n)     == [op |-> "save", slot |-> n]
Clear(l, h) == [op |-> "clear", lo |-> l, hi |-> h]
Match       == [op |-> "match"]
Fail        == [op |-> "fail"]

SlotCount(root) == 2 + 2 * Max({0} \cup ToSet(Groups(root)))

(* What keeps a pattern on the backtracker.  Mutant: the empty check's     *)
(* absence is forgotten.                                                   *)
RECURSIVE EligibleLax(_, _)
EligibleLax(n, tagged) ==
    /\ n.k \notin {"backref", "look"}
    /\ n.k = "repeat" => n.policy # "possessive"
    /\ n.k = "capture" => tagged
    /\ \A i \in DOMAIN Kids(n) : EligibleLax(Kids(n)[i], tagged)

RECURSIVE Eligible(_, _)
Eligible(n, tagged) ==
    /\ n.k \notin {"backref", "look"}
    /\ n.k = "repeat" => /\ n.policy # "possessive"
                         /\ \/ tagged \/ n.max \in 0..1 \/ ~Nullable(n.body)
    /\ n.k = "capture" => tagged
    /\ \A i \in DOMAIN Kids(n) : Eligible(Kids(n)[i], tagged)

Consumes(inst) == inst.op = "set"

(* `inst` with its targets moved by `to`. *)
Relocate(inst, to) ==
    CASE inst.op = "jmp"   -> Jmp(to[inst.x])
      [] inst.op = "split" -> Split(to[inst.x], to[inst.y])
      [] OTHER             -> inst

(* The phase product of an optional iteration of a nullable body: a copy   *)
(* in which nothing has been consumed yet, whose end fails, then the body. *)
Product(body) ==
    LET Eaten(k)  == Len(SelectSeq(SubSeq(body, 1, k), Consumes))
        map0(t)   == t + Eaten(t)
        base1     == map0(Len(body)) + 1
        phase0(i) == <<Relocate(body[i], [d \in Int |-> map0(i - 1 + d) - map0(i - 1)])>>
                       \o IF Consumes(body[i]) THEN <<Jmp(base1 + i - map0(i - 1) - 1)>> ELSE <<>>
    IN  FlattenSeq([i \in DOMAIN body |-> phase0(i)]) \o <<Fail>> \o body

(* Continue at the body or leave, in the repeat's order.                   *)
Branch(r, body, out) == IF r.policy = "lazy" THEN Split(out, body) ELSE Split(body, out)

RECURSIVE Emit(_, _), EmitAlt(_, _)

(* One iteration: `clear` of the body's groups, then the body, or its      *)
(* product when the iteration is optional and could be empty.              *)
Iteration(r, tagged, optional) ==
    LET gs   == ToSet(Groups(r.body))
        body == Emit(r.body, tagged)
    IN  (IF tagged /\ gs # {} THEN <<Clear(2 * Min(gs), 2 * Max(gs) + 2)>> ELSE <<>>)
          \o IF optional /\ tagged /\ Nullable(r.body) THEN Product(body) ELSE body

(* `k` mandatory iterations, or `k` optional ones each with an exit to the *)
(* common end.                                                             *)
Copies(r, tagged, optional, k) ==
    LET body    == Iteration(r, tagged, optional)
        copy(j) == IF optional
                   THEN <<Branch(r, 1, (k - j + 1) * (Len(body) + 1))>> \o body
                   ELSE body
    IN  FlattenSeq([j \in 1..k |-> copy(j)])

(* `x{n,}` over a body that always consumes: its last mandatory copy loops.*)
LastCopyLoops(r, tagged) ==
    LET last == Iteration(r, tagged, FALSE)
    IN  Copies(r, tagged, FALSE, r.min) \o <<Branch(r, -Len(last), 1)>>

EmitRepeat(r, tagged) ==
    LET fixed == Copies(r, tagged, FALSE, r.min)
        body  == Iteration(r, tagged, TRUE)
    IN  CASE r.max # Unbounded -> fixed \o Copies(r, tagged, TRUE, r.max - r.min)
          [] r.max = Unbounded /\ r.min >= 1 /\ ~Nullable(r.body) -> LastCopyLoops(r, tagged)
          [] OTHER -> fixed \o <<Branch(r, 1, Len(body) + 2)>> \o body \o <<Jmp(-Len(body) - 1)>>

(* Each alternative before the next.                                       *)
EmitAlt(items, tagged) ==
    LET first == Emit(Head(items), tagged)
        rest  == EmitAlt(Tail(items), tagged)
    IN  IF Len(items) = 1 THEN first
        ELSE <<Split(1, Len(first) + 2)>> \o first \o <<Jmp(Len(rest) + 1)>> \o rest

(* The instructions of a node.  Their targets are relative until Compile   *)
(* knows where they are.                                                   *)
Emit(n, tagged) ==
    CASE n.k = "empty"   -> <<>>
      [] n.k = "set"     -> <<Set(n.cs)>>
      [] n.k = "assert"  -> <<Assertion(n.kind)>>
      [] n.k = "seq"     -> FlattenSeq([i \in DOMAIN n.items |-> Emit(n.items[i], tagged)])
      [] n.k = "alt"     -> EmitAlt(n.items, tagged)
      [] n.k = "repeat"  -> EmitRepeat(n, tagged)
      [] n.k = "capture" -> <<Save(2 * n.index)>> \o Emit(n.body, tagged) \o <<Save(2 * n.index + 1)>>

(* What a pc leads to without consuming, in priority order; an assert is   *)
(* passed over.                                                            *)
Epsilons(inst, pc) ==
    CASE inst.op = "jmp"   -> <<inst.x>>
      [] inst.op = "split" -> <<inst.x, inst.y>>
      [] inst.op \in {"assert", "save", "clear"} -> <<pc + 1>>
      [] OTHER             -> <<>>

(* The pcs a depth-first walk from the stack visits, in order. *)
RECURSIVE Walk(_, _, _)
Walk(insts, stack, seen) ==
    IF stack = <<>> THEN seen
    ELSE IF Head(stack) \in ToSet(seen) THEN Walk(insts, Tail(stack), seen)
    ELSE Walk(insts, Epsilons(insts[Head(stack) + 1], Head(stack)) \o Tail(stack),
              Append(seen, Head(stack)))

(* The precomputed closure of every pc, dynamic through an assert or past  *)
(* the table's cap.                                                        *)
Dynamic == [dynamic |-> TRUE, pcs |-> <<>>]
Closures(insts, maxFollow) ==
    LET Add(acc, pc) ==
            LET all  == Walk(insts, <<pc>>, <<>>)
                used == SelectSeq(all, LAMBDA q : insts[q + 1].op \in {"set", "match"})
            IN  IF \/ \E q \in ToSet(all) : insts[q + 1].op = "assert"
                   \/ acc.total + Len(used) > maxFollow
                THEN [acc EXCEPT !.table = Append(@, Dynamic)]
                ELSE [total |-> acc.total + Len(used),
                      table |-> Append(acc.table, [dynamic |-> FALSE, pcs |-> used])]
    IN  FoldLeft(Add, [total |-> 0, table |-> <<>>],
                 [k \in DOMAIN insts |-> k - 1]).table

(* {cs}, the characters a match can start with; {} when a match can be     *)
(* empty or start anywhere.                                                *)
FirstOf(insts, alphabet) ==
    LET reach == ToSet(Walk(insts, <<0>>, <<>>))
        cs    == UNION {insts[q + 1].cs : q \in {r \in reach : insts[r + 1].op = "set"}}
    IN  IF \/ \E q \in reach : insts[q + 1].op = "match"
           \/ cs = alphabet
        THEN {} ELSE {cs}

(* The program the dispatcher runs: the one without captures when it can.  *)
Compile(root, prefilters, maxFollow, alphabet) ==
    LET tagged == ~Eligible(root, FALSE)
        code == Append(Emit(root, tagged), Match)
        insts == [i \in DOMAIN code |-> Relocate(code[i], [d \in Int |-> i - 1 + d])]
        undo == FoldLeft(LAMBDA acc, x : CASE x.op = "save"  -> acc + 1
                                            [] x.op = "clear" -> acc + x.hi - x.lo
                                            [] OTHER          -> acc, 0, insts)
    IN  [n       |-> Len(insts),
         insts   |-> insts,
         nslots  |-> IF tagged THEN SlotCount(root) ELSE 2,
         undo    |-> undo,
         follow  |-> Closures(insts, maxFollow),
         \* Prefilters hold in code-unit mode only.
         first   |-> IF prefilters THEN FirstOf(insts, alphabet) ELSE {},
         anchored |-> prefilters /\ insts[1] = Assertion("string_start")]
=============================================================================
