------------------------------ MODULE T0Corpus ------------------------------
(* Patterns for T0's executors: what each costs to get wrong is its order, *)
(* its laziness, what it repeats and what it asserts.                      *)
EXTENDS T0Compile

CONSTANT Alphabet

a == Chars({"a"})
b == Chars({"b"})
dot == Chars(Alphabet)
Inf == Unbounded
S(x) == Repeat(0, Inf, "greedy", "star", x)
SL(x) == Repeat(0, Inf, "lazy", "star", x)
P(x) == Repeat(1, Inf, "greedy", "plus", x)
Q(x) == Repeat(0, 1, "greedy", "question", x)
QL(x) == Repeat(0, 1, "lazy", "question", x)
N(m, n, x) == Repeat(m, n, "greedy", "counted", x)
C(g, x) == Capture(g, x)
Or(x, y) == Alt(<<x, y>>)

Plain == <<
    \* ab|b
    Or(Cat(<<a, b>>), b),
    \* a|ab|
    Alt(<<a, Cat(<<a, b>>), Empty>>),
    \* (?:a|ab)(?:b|)
    Cat(<<Or(a, Cat(<<a, b>>)), Or(b, Empty)>>),
    \* .*b
    Cat(<<S(dot), b>>),
    \* a*?b
    Cat(<<SL(a), b>>),
    \* (?:ab?)+
    P(Cat(<<a, Q(b)>>)),
    \* (?:a|b){1,2}a??
    Cat(<<N(1, 2, Or(a, b)), QL(a)>>),
    \* \bb|a$
    Or(Cat(<<Anchor("word"), b>>), Cat(<<a, Anchor("string_end")>>)),
    \* ^a|b
    Cat(<<Anchor("string_start"), Or(a, b)>>),
    \* a{2,}?
    Repeat(2, Inf, "lazy", "counted", a),
    \* (?:a?b??)*
    S(Cat(<<Q(a), QL(b)>>)),
    \* ^b|a$, with m
    Or(Cat(<<Anchor("line_start"), b>>), Cat(<<a, Anchor("line_end")>>))
>>

Tagged == <<
    \* ((a)|b)*
    S(C(1, Or(C(2, a), b))),
    \* (a*)*b
    Cat(<<S(C(1, S(a))), b>>),
    \* (a|ab)(b|)
    Cat(<<C(1, Or(a, Cat(<<a, b>>))), C(2, Or(b, Empty))>>),
    \* (?:(a)|b?)+
    P(Or(C(1, a), Q(b))),
    \* (?:(a)|(b))+?$
    Cat(<<Repeat(1, Inf, "lazy", "plus", Or(C(1, a), C(2, b))), Anchor("string_end")>>),
    \* (a?)??(b)
    Cat(<<QL(C(1, Q(a))), C(2, b)>>)
>>

Few == <<
    \* ab|b
    Plain[1],
    \* \bb|a$
    Plain[8],
    \* (a)|b
    Or(C(1, a), b)
>>
=============================================================================
