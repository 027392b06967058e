------------------------------ MODULE MCLimits ------------------------------
(***************************************************************************)
(* The steps of three start positions; and the DFAs of a corpus of small   *)
(* patterns, over every subject of up to MaxLen units, compared with       *)
(* ECMA-262; in code points, also from the middle of a surrogate pair.     *)
(***************************************************************************)
EXTENDS Limits, TLC

CONSTANTS Units, MaxLen, None

Alphabet == Characters
T == INSTANCE T0Corpus
E == INSTANCE Ecma
MCCaps == {[states |-> 1024, cells |-> 32768], [states |-> 9, cells |-> 30]}
Narrow == T!Plain \o T!Tagged
Texts(units, n) == UNION {[1..k -> units] : k \in 0..n}

PairChar == T!Chars({Pair})
low == T!Chars({Trail})
Wide == <<
    \* \uDxxx|., with u
    T!Or(low, T!dot),
    \* \uDxxxa?, with u
    T!Cat(<<low, T!Q(T!a)>>),
    \* .+b?, lazily
    T!Repeat(1, T!Inf, "lazy", "plus", T!dot),
    \* \bP|.$
    T!Or(T!Cat(<<T!Anchor("word"), T!dot>>), T!Cat(<<T!dot, T!Anchor("string_end")>>)),
    \* (?:Pa|P|low)+
    T!P(T!Alt(<<T!Cat(<<PairChar, T!a>>), PairChar, low>>)),
    \* \B.|^a
    T!Or(T!Cat(<<T!Anchor("not_word"), T!dot>>), T!Cat(<<T!Anchor("line_start"), T!a>>))
>>
Corpus == T!Plain \o T!Tagged \o Wide
MCPrograms ==
    {T!Compile(Corpus[p], filters, 1000, Alphabet) @@ [mode |-> "code_unit", pattern |-> p] :
        p \in DOMAIN Narrow, filters \in BOOLEAN}
    \cup {T!Compile(Corpus[p], FALSE, 1000, Alphabet) @@ [mode |-> "code_point", pattern |-> p] :
        p \in DOMAIN Corpus \ DOMAIN Narrow}
CallsOf(mode, units) ==
    [mode : {mode}, input : Texts(units, MaxLen), index : 0..MaxLen, sticky : BOOLEAN]
MCCalls ==
    {c \in CallsOf("code_unit", Units) \cup CallsOf("code_point", {"a", Lead, Trail}) :
        c.index <= Len(c.input) \/ c.index = 1}

(* The characters read from `index`, and the ones before it, and where     *)
(* each one starts.                                                        *)
RECURSIVE Read(_, _)
Read(text, p) ==
    IF p = Len(text) THEN <<>>
    ELSE IF /\ prog.mode = "code_point" /\ p + 2 <= Len(text)
            /\ text[p + 1] = Lead /\ text[p + 2] = Trail
         THEN <<[value |-> Pair, width |-> 2]>> \o Read(text, p + 2)
         ELSE <<[value |-> text[p + 1], width |-> 1]>> \o Read(text, p + 1)
Behind == Read(SubSeq(call.input, 1, call.index), 0)
Ahead == Read(SubSeq(call.input, call.index + 1, Len(call.input)), 0)
CharsRead == Behind \o Ahead
Position(k) == FoldLeft(LAMBDA acc, x : acc + x.width, 0, SubSeq(CharsRead, 1, k))

(* The DFA answers as ECMA-262 does: the same start and end, also from the *)
(* middle of a pair (dfa.zig:138), and the way back finds a start for      *)
(* every end found (the assertion at dfa.zig:268).                         *)
SpanIsEcma ==
    LET promised == IF Refused(call) THEN {}
                    ELSE E!MatchFrom(Corpus[prog.pattern],
                                     [k \in DOMAIN CharsRead |-> CharsRead[k].value],
                                     Len(Behind), call.sticky)
    IN  /\ phase = "match" => <<start, end>> =
              <<{Position(m.start) : m \in promised}, {Position(m.end) : m \in promised}>>
        /\ phase = "no_match" => promised = {}
        /\ phase # "lost"
=============================================================================
