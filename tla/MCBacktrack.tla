---------------------------- MODULE MCBacktrack ----------------------------
(***************************************************************************)
(* The backtracker on programs compiled from a corpus of small patterns,   *)
(* over every subject of up to MaxLen characters, compared with ECMA-262.  *)
(***************************************************************************)
EXTENDS Backtrack, TLC

CONSTANTS Corpus, Alphabet, MaxLen, MarkValues

G == INSTANCE CodeGen
E == INSTANCE Ecma

a == G!Chars({"a"})
b == G!Chars({"b"})
c == G!Chars({"c"})
dot == G!Chars({"a", "b", "c"})
S(x) == G!Repeat(0, G!Unbounded, "greedy", "star", x)
SL(x) == G!Repeat(0, G!Unbounded, "lazy", "star", x)
P(x) == G!Repeat(1, G!Unbounded, "greedy", "plus", x)
PL(x) == G!Repeat(1, G!Unbounded, "lazy", "plus", x)
Q(x) == G!Repeat(0, 1, "greedy", "question", x)
QL(x) == G!Repeat(0, 1, "lazy", "question", x)
N(m, n, x) == G!Repeat(m, n, "greedy", "counted", x)
NL(m, n, x) == G!Repeat(m, n, "lazy", "counted", x)
C(g, x) == G!Capture(g, x)
Or(x, y) == G!Alt(<<x, y>>)
Ahead(x) == G!Look(FALSE, FALSE, x)
Not(x) == G!Look(FALSE, TRUE, x)
Behind(x) == G!Look(TRUE, FALSE, x)
NotBehind(x) == G!Look(TRUE, TRUE, x)
R(g) == G!Backref(g)
Inf == G!Unbounded

Loops == <<
    \* ((a)|b)*
    S(C(1, Or(C(2, a), b))),
    \* (a*)*b
    G!Cat(<<S(C(1, S(a))), b>>),
    \* (?:a*?)*?b
    G!Cat(<<SL(SL(a)), b>>),
    \* (a|ab)(b|)
    G!Cat(<<C(1, Or(a, G!Cat(<<a, b>>))), C(2, Or(b, G!Empty))>>),
    \* (?:(a)|(b))+
    P(Or(C(1, a), C(2, b))),
    \* (a?)+b
    G!Cat(<<P(C(1, Q(a))), b>>),
    \* (a??)+?b
    G!Cat(<<PL(C(1, QL(a))), b>>),
    \* (?:(a)?b)*
    S(G!Cat(<<Q(C(1, a)), b>>)),
    \* (a){1,2}(b){0,1}
    G!Cat(<<N(1, 2, C(1, a)), N(0, 1, C(2, b))>>),
    \* (?:a|(b)){2,}?a
    G!Cat(<<NL(2, Inf, Or(a, C(1, b))), a>>),
    \* .*a.*b
    G!Cat(<<S(dot), a, S(dot), b>>),
    \* a*a+?b
    G!Cat(<<S(a), PL(a), b>>)
>>

Lookarounds == <<
    \* (?=(a+))a*b?\1
    G!Cat(<<Ahead(C(1, P(a))), S(a), Q(b), R(1)>>),
    \* (?!(a)b)(a|b)
    G!Cat(<<Not(G!Cat(<<C(1, a), b>>)), C(2, Or(a, b))>>),
    \* (?:(?!(a)b)a|a)b
    G!Cat(<<Or(G!Cat(<<Not(G!Cat(<<C(1, a), b>>)), a>>), a), b>>),
    \* (?:(?=(a*))\1b|a)+
    P(Or(G!Cat(<<Ahead(C(1, S(a))), R(1), b>>), a)),
    \* (?<=(a|b)(b)?)b
    G!Cat(<<Behind(G!Cat(<<C(1, Or(a, b)), Q(C(2, b))>>)), b>>),
    \* (?<=a*)b
    G!Cat(<<Behind(S(a)), b>>),
    \* (?<=^(a|ab)*)b
    G!Cat(<<Behind(G!Cat(<<G!Anchor("string_start"),
                                          S(C(1, Or(a, G!Cat(<<a, b>>))))>>)), b>>),
    \* (?<!a)b
    G!Cat(<<NotBehind(a), b>>),
    \* (?<!(?!a).)b(a*?)
    G!Cat(<<NotBehind(G!Cat(<<Not(a), dot>>)), b, C(1, SL(a))>>),
    \* (?<=(a+)\1)b
    G!Cat(<<Behind(G!Cat(<<C(1, P(a)), R(1)>>)), b>>),
    \* (?<=\1(a))b
    G!Cat(<<Behind(G!Cat(<<R(1), C(1, a)>>)), b>>),
    \* (?=(?!(?=b)).)(?:a|b)*
    G!Cat(<<Ahead(G!Cat(<<Not(Ahead(b)), dot>>)), S(Or(a, b))>>),
    \* (?:(?!a|(b)b)(b)|a)*
    S(Or(G!Cat(<<Not(Or(a, G!Cat(<<C(1, b), b>>))), C(2, b)>>), a)),
    \* (a\1b?)*
    S(C(1, G!Cat(<<a, R(1), Q(b)>>))),
    \* (a*)\1*b
    G!Cat(<<C(1, S(a)), S(R(1)), b>>),
    \* \ba\B.\b|$
    Or(G!Cat(<<G!Anchor("word"), a, G!Anchor("not_word"), dot,
                                          G!Anchor("word")>>), G!Anchor("string_end"))
>>

Possessive == <<
    \* a*+b
    G!Cat(<<G!Repeat(0, Inf, "possessive", "star", a), b>>),
    \* a++a
    G!Cat(<<G!Repeat(1, Inf, "possessive", "plus", a), a>>)
>>

Unruly == <<
    \* a?+a
    G!Cat(<<G!Repeat(0, 1, "possessive", "question", a), a>>),
    \* (?:ab)*+
    G!Repeat(0, Inf, "possessive", "star", G!Cat(<<a, b>>))
>>

MCPrograms == {G!Compile(Corpus[i]) @@ [pattern |-> i] : i \in DOMAIN Corpus}
MCInputs == UNION {[1..n -> Alphabet] : n \in 0..MaxLen}
Unlimited == {[steps |-> 0, bytes |-> 0]}
Tight == {[steps |-> s, bytes |-> m] : s \in {0, 12}, m \in {0, 100, 180, 260}}
MCLimits == Unlimited \cup Tight

MCAll == Loops \o Lookarounds \o Possessive

\* The execs: every pattern without a limit, and ten of them, on shorter
\* subjects, with limits that bite.
MCLimited == {1, 2, 5, 7, 8, 10} \cup {Len(Loops) + i : i \in {2, 4, 5, 13}}
MCInit ==
    /\ Init
    /\ call.limits \notin Unlimited => Prog.pattern \in MCLimited /\ Len(Input) < MaxLen
MCSpec == MCInit /\ [][Next]_vars /\ WF_vars(Next)

(* The compiler accepts every pattern of the corpus. *)
ASSUME \A i \in DOMAIN Corpus : G!LookbehindsSupported(Corpus[i], FALSE)

Answer == [start |-> start, end |-> pos,
           caps |-> [g \in 1..Prog.groups |-> caps[g]]]
Promised == E!MatchFrom(Corpus[Prog.pattern], call.input, call.index, call.sticky)

(* An exec that no limit stops answers as ECMA-262 does: the same match,   *)
(* the same end, the same captures.  The empty check, the loop guards, the *)
(* star fast paths and the cut of lookarounds are only ways to get there,  *)
(* and a limit may stop an exec but never change its answer.               *)
ResultIsEcma ==
    /\ phase = "matched"  => {Answer} = Promised
    /\ phase = "no_match" => Promised = {}

(* "Possessive quantifiers (atomic, no backtracking)" (ast.zig): such a    *)
(* quantifier takes its first way to match and never another.              *)
PossessiveIsAtomic ==
    /\ phase = "matched"  => {Answer} = Promised
    /\ phase = "no_match" => Promised = {}
=============================================================================
