------------------------------ MODULE MCPikeVM ------------------------------
(***************************************************************************)
(* T0's executors on programs compiled from a corpus of small patterns,    *)
(* over every subject of up to MaxLen characters, compared with ECMA-262.  *)
(* `part' says whether a fresh scratch serves one call or one scratch      *)
(* serves any number of them, one after the other.                         *)
(***************************************************************************)
EXTENDS PikeVM, TLC

CONSTANTS Alphabet, MaxLen, MaxFollow

VARIABLE part

T == INSTANCE T0Corpus
E == INSTANCE Ecma

Narrow == T!Plain \o T!Tagged
Corpus == Narrow \o T!Few

ASSUME \A p \in DOMAIN Corpus : T!Eligible(Corpus[p], TRUE)
MCPrograms == {T!Compile(Corpus[p], filters, MaxFollow, Alphabet) @@ [pattern |-> p, shared |-> p > Len(Narrow)] :
                  p \in DOMAIN Corpus, filters \in BOOLEAN}
Texts(units, n) == UNION {[1..k -> units] : k \in 0..n}
CallsOf(programs, inputs, wants, budgets) ==
    {c \in [prog : programs, input : inputs, index : 0..1, sticky : BOOLEAN,
            want : wants, budget : budgets] :
        /\ c.want = "exists" => /\ c.prog.nslots = 2 /\ c.prog.first = {} /\ ~c.prog.anchored
                                /\ ~c.sticky
        /\ c.want = "match" => c.budget = 1000
        /\ c.sticky => c.index = Len(c.input) \div 2}
MCCalls == CallsOf({p \in MCPrograms : ~p.shared}, Texts(Alphabet, MaxLen), {"match"}, {1000})
           \cup CallsOf({p \in MCPrograms : p.shared}, Texts(Alphabet, 1), {"match", "exists"}, {2, 1000})

Pattern == Corpus[prog.pattern]
Groups == T!SlotCount(Pattern) \div 2 - 1
Captured(m, g) == [start |-> m[2 * g], end |-> m[2 * g + 1]]
Answer(m) == [start |-> m[0], end |-> m[1],
              caps |-> IF tagged THEN [g \in 1..Groups |-> Captured(m, g)] ELSE <<>>]
Promised == IF call.index > Len(input) THEN {}
            ELSE E!MatchFrom(Pattern, input, call.index, call.sticky)

(* The search answers as ECMA-262 does: the same match, and the same       *)
(* captures when it has groups (pikevm.zig:198).                           *)
ResultIsEcma ==
    /\ phase = "match"    => {Answer(m) : m \in best} = Promised
    /\ phase = "no_match" => Promised = {}

(* The existence test answers for every match that starts there, not the   *)
(* first in priority, and a step limit stops it without an answer          *)
(* (pikevm.zig:437).                                                       *)
ExistsIsEcma ==
    LET ways == E!MatchFrom(Pattern, input, call.index, TRUE)
    IN  /\ phase = "exists"     => ways # {}
        /\ phase = "not_exists" => ways = {}

-----------------------------------------------------------------------------
MCInit == Init /\ part \in {"once", "shared"}

Ready == phase = "idle" /\ (part = "once" => capacity = 0)
Serves(c) == c.prog.shared = (part = "shared")

MCNext ==
    \/ Ready /\ (\E c \in Calls : Serves(c) /\ Refuse(c)) /\ UNCHANGED part
    \/ Ready /\ (\E c \in Calls : Serves(c) /\ Start(c)) /\ UNCHANGED part
    \/ Search /\ UNCHANGED part
    \/ Close /\ UNCHANGED part
    \/ End /\ UNCHANGED part
    \/ Return /\ UNCHANGED part

MCSpec == MCInit /\ [][MCNext]_<<vars, part>>
=============================================================================
