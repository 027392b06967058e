-------------------------------- MODULE Dfa --------------------------------
(***************************************************************************)
(* T0's DFA (tier0/dfa.zig): a program's threads merged into the states of *)
(* a forward DFA, which finds the end of the leftmost-first match, and of  *)
(* a reverse DFA, which finds its start.  Both are built with the program, *)
(* within a cap; above it the program runs on the Pike VM (PikeVM.tla).    *)
(*                                                                         *)
(* A state is its key; its number in the tables is left out.  A program    *)
(* with assertions has a context on each side of a position and resolves a *)
(* closure one character later; one without has the only context "any",    *)
(* which stands for the marks on states instead of on transitions.  Ill-   *)
(* formed bytes are left out.                                              *)
(***************************************************************************)
EXTENDS Integers, FiniteSets, Sequences, SequencesExt

CONSTANTS
    Programs,       \* compiled programs (T0Compile!Compile), with their mode
    Calls,          \* [mode, input, index, sticky]
    Caps,           \* [states, cells]: max_states, max_cells
    Characters,     \* the code space, in either mode
    Word, LineEnd,
    Lead, Trail, Pair   \* a surrogate pair and its code point

(* Code points are finitely many, and a pair is one; a text is made of     *)
(* them.                                                                   *)
CodeSpace ==
    /\ IsFiniteSet(Characters) /\ Pair \in Characters
    /\ \A c \in Calls : c.index \in Nat /\ c.input \in Seq(Characters)

VARIABLES
    prog, cap,          \* what is compiled, and within what
    fstates, ft,        \* forward: the keys interned, the rows filled
    rstates, rt,        \* reverse
    phase,              \* "forward", "reverse" tables; "ready"; "find", "back";
                        \* an answer, or "no_dfa"
    call, st, pos,      \* the search: its call, state and position
    end, start          \* {} or {what it has found}

tables == <<prog, cap, fstates, ft, rstates, rt>>
search == <<call, st, pos, end, start>>
vars == <<tables, search, phase>>

Insts == prog.insts
Pcs == 0..prog.n - 1
Asserts == \E i \in DOMAIN Insts : Insts[i].op = "assert"
Accepts(v) == {q \in Pcs : Insts[q + 1].op = "set" /\ v \in Insts[q + 1].cs}

(* The context of one side of a position.                                  *)
Contexts == IF Asserts THEN {"edge", "line", "word", "other"} ELSE {"any"}
Edge == IF Asserts THEN "edge" ELSE "any"
contextOf(v) == CASE ~Asserts -> "any"
                  [] Asserts /\ v \in LineEnd -> "line"
                  [] Asserts /\ v \in Word \ LineEnd -> "word"
                  [] OTHER -> "other"

(* Characters that no instruction and no assertion tells apart.            *)
classOf(v) == [accepts |-> Accepts(v), cat |-> contextOf(v)]
Classes == {classOf(v) : v \in Characters}

holds(kind, left, right) ==
    CASE kind = "string_start" -> left = "edge"
      [] kind = "string_end"   -> right = "edge"
      [] kind = "line_start"   -> left \in {"edge", "line"}
      [] kind = "line_end"     -> right \in {"edge", "line"}
      [] kind = "word"         -> (left = "word") # (right = "word")
      [] kind = "not_word"     -> (left = "word") = (right = "word")

(* A walk between two contexts: the pcs pending and those marked, in the   *)
(* order they were.  An assertion that does not hold leads nowhere.        *)
Leads(q, left, right) ==
    LET inst == Insts[q + 1]
    IN  CASE inst.op = "jmp"   -> <<inst.x>>
          [] inst.op = "split" -> <<inst.x, inst.y>>
          [] inst.op \in {"save", "clear"} -> <<q + 1>>
          [] inst.op = "assert" -> IF holds(inst.kind, left, right) THEN <<q + 1>> ELSE <<>>
          [] OTHER -> <<>>
Turn(w, left, right) ==
    IF w.pending = <<>> THEN w
    ELSE LET q == Head(w.pending)
         IN  IF q \in ToSet(w.seen) THEN [w EXCEPT !.pending = Tail(@)]
             ELSE [pending |-> Leads(q, left, right) \o Tail(w.pending), seen |-> Append(w.seen, q)]

(* The pcs marked from q on.  A pc is marked once and leads to two at      *)
(* most, so no walk takes more turns.                                      *)
Walked(q, left, right) ==
    LET w[k \in 0..2 * prog.n + 1] ==
            IF k = 0 THEN [pending |-> <<q>>, seen |-> <<>>] ELSE Turn(w[k - 1], left, right)
    IN  w[2 * prog.n + 1].seen

(* What a pc leads to, in priority order: the compiler's table, or a walk. *)
Follow(q, left, right) ==
    IF ~Asserts THEN prog.follow[q + 1].pcs
    ELSE SelectSeq(Walked(q, left, right), LAMBDA r : Insts[r + 1].op \in {"set", "match"})

(* Whether a DFA may be built: no closure left to the run time.            *)
eligible(p) ==
    \/ \E i \in DOMAIN p.insts : p.insts[i].op = "assert"
    \/ \A i \in DOMAIN p.follow : ~p.follow[i].dynamic

(* Room for `f` forward and `r` reverse states.  Mutant: each for itself.  *)
Columns(extra) == Cardinality(Classes) + IF Asserts THEN extra ELSE 0
FitsAlone(f, r) == /\ f <= cap.states /\ f * Columns(1) <= cap.cells
                   /\ r <= cap.states /\ r * Columns(4) <= cap.cells
Fits(f, r) == f + r <= cap.states /\ f * Columns(1) + r * Columns(4) <= cap.cells
-----------------------------------------------------------------------------
(* Forward: the VM's threads at a position before their closure, whether a *)
(* match is recorded, whether pc 0 is still seeded, the context behind.    *)
FKey(matched, seed, left, targets) ==
    [matched |-> matched, seed |-> seed, left |-> left, targets |-> targets]
FDead == FKey(FALSE, FALSE, "edge", <<>>)
FStart(sticky, left) ==
    IF sticky THEN FKey(FALSE, FALSE, left, <<0>>) ELSE FKey(FALSE, TRUE, left, <<>>)

(* The closure of a state: the threads in order, each pc once, then the    *)
(* one that starts here.                                                   *)
Closed(key, right) ==
    LET sources == key.targets \o IF key.seed /\ ~key.matched THEN <<0>> ELSE <<>>
        all == FlattenSeq([i \in DOMAIN sources |-> Follow(sources[i], key.left, right)])
    IN  FoldLeft(LAMBDA acc, q : IF q \in ToSet(acc) THEN acc ELSE Append(acc, q), <<>>, all)
IsMatch(q) == Insts[q + 1].op = "match"
MatchesAt(key, right) == \E q \in ToSet(Closed(key, right)) : IsMatch(q)

(* What has a higher priority than the match.  Mutant: what has a lower    *)
(* one goes on as well.                                                    *)
Uncut(list) == SelectSeq(list, LAMBDA q : ~IsMatch(q))
Cut(list) == IF \E i \in DOMAIN list : IsMatch(list[i])
             THEN SubSeq(list, 1, (CHOOSE i \in DOMAIN list : IsMatch(list[i])) - 1)
             ELSE list
FStep(key, c) ==
    LET list    == Cut(Closed(key, c.cat))
        next    == SelectSeq(list, LAMBDA q : q \in c.accepts)
        matched == key.matched \/ MatchesAt(key, c.cat)
    IN  IF next = <<>> /\ (matched \/ ~key.seed) THEN FDead
        ELSE FKey(matched, key.seed, c.cat, [i \in DOMAIN next |-> next[i] + 1])
FRow(key) == [to   |-> [c \in Classes |-> FStep(key, c)],
              emit |-> [right \in Contexts |-> MatchesAt(key, right)]]

(* Reverse: the consuming pcs from which the text up to the end leads to   *)
(* `match`, and the context ahead.                                         *)
RKey(right, pcs) == [right |-> right, pcs |-> pcs]
RDead == RKey("edge", {})
RStart(right) == RKey(right, {q \in Pcs : IsMatch(q)})
Meets(key, q, left) == ToSet(Follow(q, left, key.right)) \cap key.pcs # {}
RStep(key, c) ==
    LET next == {q \in c.accepts : Meets(key, q + 1, c.cat)}
    IN  IF next = {} THEN RDead ELSE RKey(c.cat, next)
RRow(key) == [to   |-> [c \in Classes |-> RStep(key, c)],
              emit |-> [left \in Contexts |-> Meets(key, 0, left)]]
-----------------------------------------------------------------------------
(* The tables of one program, started with the states a search starts in.  *)
Init ==
    /\ prog \in {p \in Programs : eligible(p)} /\ cap \in Caps
    /\ fstates = {FStart(sticky, left) : sticky \in BOOLEAN, left \in Contexts}
    /\ ft = <<>> /\ rstates = {} /\ rt = <<>>
    /\ phase = "forward"
    /\ call = <<>> /\ st = FDead /\ pos = 0 /\ end = {} /\ start = {}

Filled(table, key, row) == [k \in DOMAIN table \cup {key} |-> IF k = key THEN row ELSE table[k]]
Others(row, dead) == {row.to[c] : c \in Classes} \ {dead}

ForwardState ==
    /\ phase = "forward" /\ fstates # DOMAIN ft
    /\ Fits(Cardinality(fstates), 0)
    /\ LET key == CHOOSE k \in fstates : k \notin DOMAIN ft
           row == FRow(key)
       IN  /\ ft' = Filled(ft, key, row)
           /\ fstates' = fstates \cup Others(row, FDead)
    /\ UNCHANGED <<prog, cap, rstates, rt, search, phase>>

ForwardBuilt ==
    /\ phase = "forward" /\ fstates = DOMAIN ft
    /\ rstates' = {RStart(right) : right \in Contexts}
    /\ phase' = "reverse"
    /\ UNCHANGED <<prog, cap, fstates, ft, rt, search>>

ReverseState ==
    /\ phase = "reverse" /\ rstates # DOMAIN rt
    /\ Fits(Cardinality(fstates), Cardinality(rstates))
    /\ LET key == CHOOSE k \in rstates : k \notin DOMAIN rt
           row == RRow(key)
       IN  /\ rt' = Filled(rt, key, row)
           /\ rstates' = rstates \cup Others(row, RDead)
    /\ UNCHANGED <<prog, cap, fstates, ft, search, phase>>

ReverseBuilt ==
    /\ phase = "reverse" /\ rstates = DOMAIN rt
    /\ phase' = "ready"
    /\ UNCHANGED <<tables, search>>

(* Above the cap in either table: the program runs on the VM.              *)
GiveUp ==
    /\ \/ phase = "forward" /\ fstates # DOMAIN ft /\ ~Fits(Cardinality(fstates), 0)
       \/ /\ phase = "reverse" /\ rstates # DOMAIN rt
          /\ ~Fits(Cardinality(fstates), Cardinality(rstates))
    /\ phase' = "no_dfa"
    /\ UNCHANGED <<tables, search>>
-----------------------------------------------------------------------------
input == call.input
index == call.index

(* In code points a pair is one character; an index inside it reads its    *)
(* second half.                                                            *)
decodeAt(p) ==
    IF prog.mode = "code_point" /\ p + 2 <= Len(input) /\ input[p + 1] = Lead /\ input[p + 2] = Trail
    THEN [value |-> Pair, pos |-> p + 2]
    ELSE [value |-> input[p + 1], pos |-> p + 1]
decodeBefore(p) ==
    IF prog.mode = "code_point" /\ p >= 2 /\ input[p - 1] = Lead /\ input[p] = Trail
    THEN [value |-> Pair, pos |-> p - 2]
    ELSE [value |-> input[p], pos |-> p - 1]

contextBefore(p) == IF p = 0 THEN Edge ELSE contextOf(decodeBefore(p).value)
contextAt(p) == IF p = Len(input) THEN Edge ELSE contextOf(decodeAt(p).value)

(* A character straddling the index: from there, forward decoding saw only *)
(* its part.                                                               *)
Part(d) == IF d.pos < index THEN [value |-> decodeAt(index).value, pos |-> index] ELSE d

Refused(c) == c.index > Len(c.input) \/ (prog.anchored /\ c.index > 0)
Once == call.sticky \/ prog.anchored

Find(c) ==
    /\ phase = "ready" /\ call = <<>> /\ c.mode = prog.mode /\ ~Refused(c)
    /\ UNCHANGED <<tables, end, start>>
    /\ call' = c /\ pos' = c.index /\ phase' = "find"
    /\ st' = FStart(Once', contextBefore(c.index)')

Refuse(c) ==
    /\ phase = "ready" /\ call = <<>> /\ c.mode = prog.mode /\ Refused(c)
    /\ call' = c /\ phase' = "no_match"
    /\ UNCHANGED <<tables, st, pos, end, start>>

(* Nothing alive and no match: on to where one can start.                  *)
Skips == prog.first # {} /\ st.targets = <<>> /\ st.seed /\ ~st.matched
Landings == {p \in pos..Len(input) - 1 : \E cs \in prog.first : input[p + 1] \in cs}
Skip ==
    /\ phase = "find" /\ Skips /\ Landings # {} /\ pos \notin Landings
    /\ UNCHANGED <<tables, call, end, start, phase>>
    /\ pos' = CHOOSE p \in Landings : \A q \in Landings : p <= q
    /\ st' = FStart(FALSE, contextBefore(pos'))

(* A match ends here, or not; then the character.                          *)
Ends(right) == IF ft[st].emit[right] THEN {pos} ELSE end
Step ==
    /\ phase = "find" /\ pos < Len(input) /\ (Skips => pos \in Landings)
    /\ LET d == decodeAt(pos)
           c == classOf(d.value)
       IN  /\ end' = Ends(c.cat)
           /\ st' = ft[st].to[c]
           /\ pos' = d.pos
           /\ phase' = IF ft[st].to[c] = FDead THEN "found" ELSE phase
    /\ UNCHANGED <<tables, call, start>>

StepEnd ==
    /\ phase = "find" /\ pos = Len(input) /\ ~Skips
    /\ end' = Ends(Edge) /\ phase' = "found"
    /\ UNCHANGED <<tables, call, st, pos, start>>

SkipOut ==
    /\ phase = "find" /\ Skips /\ Landings = {}
    /\ phase' = "found"
    /\ UNCHANGED <<tables, search>>

(* The end of the forward search, and the start of the backward one.       *)
Found ==
    /\ phase = "found"
    /\ \/ /\ end = {} /\ phase' = "no_match"
          /\ UNCHANGED <<st, pos, start>>
       \/ /\ end # {} /\ Once /\ start' = {index} /\ phase' = "match"
          /\ UNCHANGED <<st, pos>>
       \/ /\ end # {} /\ ~Once
          /\ \E e \in end : pos' = e /\ st' = RStart(contextAt(e))
          /\ phase' = "back" /\ UNCHANGED start
    /\ UNCHANGED <<tables, call, end>>

Starts(left) == IF rt[st].emit[left] THEN {pos} ELSE start
StepBack ==
    /\ phase = "back" /\ pos > index
    /\ LET d == Part(decodeBefore(pos))
           c == classOf(d.value)
       IN  /\ start' = Starts(c.cat)
           /\ st' = rt[st].to[c]
           /\ pos' = d.pos
           /\ phase' = IF rt[st].to[c] = RDead THEN "started" ELSE phase
    /\ UNCHANGED <<tables, call, end>>

BackAtIndex ==
    /\ phase = "back" /\ pos <= index
    /\ start' = IF pos = index THEN Starts(contextBefore(index)) ELSE start
    /\ phase' = "started"
    /\ UNCHANGED <<tables, call, st, pos, end>>

(* The code asserts that a start was found.                                *)
Started ==
    /\ phase = "started"
    /\ phase' = IF start = {} THEN "lost" ELSE "match"
    /\ UNCHANGED <<tables, search>>

Next ==
    \/ ForwardState \/ ForwardBuilt \/ ReverseState \/ ReverseBuilt \/ GiveUp
    \/ \E c \in Calls : Find(c) \/ Refuse(c)
    \/ Skip \/ Step \/ StepEnd \/ SkipOut \/ Found
    \/ StepBack \/ BackAtIndex \/ Started

Spec == Init /\ [][Next]_vars
-----------------------------------------------------------------------------
(* The tables of a program that has a DFA are within the caps, both        *)
(* together: their states, and the cells of one column per class and of    *)
(* the ends of the input (dfa.zig:438, 485, 822 and 902).                  *)
TablesFit ==
    LET f == Cardinality(fstates)
        r == Cardinality(rstates)
        k == Cardinality(Classes)
    IN  phase \notin {"forward", "reverse", "no_dfa"} =>
            /\ f + r <= cap.states
            /\ IF Asserts THEN f * (k + 1) + r * (k + 4) <= cap.cells ELSE (f + r) * k <= cap.cells
=============================================================================
