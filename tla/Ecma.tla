-------------------------------- MODULE Ecma --------------------------------
(***************************************************************************)
(* The semantics the engine promises: ECMA-262's pattern matching (22.2.2) *)
(* as a function from a pattern and a state to the sequence of states its  *)
(* matchers would try, in priority order.  A continuation-passing matcher  *)
(* succeeds with the first of them its continuation accepts, so the list   *)
(* says the same without continuations.  A state is [pos, caps]; a capture *)
(* is [start, end] or both None.  The possessive quantifiers, an opt-in    *)
(* extension, keep only the first way to match.                            *)
(***************************************************************************)
EXTENDS Hir, FiniteSetsExt

CONSTANTS None, Word, LineEnd

Undefined == [start |-> None, end |-> None]

RECURSIVE Ways(_, _, _, _), WaysAll(_, _, _, _), Reps(_, _, _, _, _, _)

(* One after the other, what `F` gives from each element of `xs`. *)
Chain(F(_), xs) == FoldLeft(LAMBDA acc, x : acc \o F(x), <<>>, xs)

WaysAll(items, in, back, x) ==
    IF items = <<>> THEN <<x>>
    ELSE LET first == IF back THEN Last(items) ELSE Head(items)
             rest  == IF back THEN Front(items) ELSE Tail(items)
             heads == Ways(first, in, back, x)
         IN  Chain(LAMBDA y : WaysAll(rest, in, back, y), heads)

(* RepeatMatcher with `min` and `max` iterations still to come. *)
Reps(r, min, max, in, back, x) ==
    IF max = 0 THEN <<x>>
    ELSE LET inside == {Groups(r.body)[i] : i \in DOMAIN Groups(r.body)}
             fresh  == [x EXCEPT !.caps =
                           [g \in DOMAIN @ |-> IF g \in inside THEN Undefined ELSE @[g]]]
             once   == Ways(r.body, in, back, fresh)
             moved  == IF min = 0 THEN SelectSeq(once, LAMBDA y : y.pos # x.pos) ELSE once
             more   == Chain(LAMBDA y :
                           Reps(r, Max({min - 1, 0}),
                                IF max = Unbounded THEN max ELSE max - 1,
                                in, back, y), moved)
         IN  CASE min > 0              -> more
               [] r.policy = "lazy"    -> <<x>> \o more
               [] OTHER                -> Append(more, x)

IsWordAt(in, p) == p \in DOMAIN in /\ in[p] \in Word

Holds(kind, in, p) ==
    CASE kind = "string_start" -> p = 0
      [] kind = "string_end"   -> p = Len(in)
      [] kind = "line_start"   -> p = 0 \/ in[p] \in LineEnd
      [] kind = "line_end"     -> p = Len(in) \/ in[p + 1] \in LineEnd
      [] kind = "word"         -> IsWordAt(in, p) # IsWordAt(in, p + 1)
      [] kind = "not_word"     -> IsWordAt(in, p) = IsWordAt(in, p + 1)

(* A backreference to a group that did not take part matches empty. *)
BackrefWays(g, in, back, x) ==
    LET c    == x.caps[g]
        text == IF c = Undefined THEN <<>> ELSE SubSeq(in, c.start + 1, c.end)
        lo   == IF back THEN x.pos - Len(text) ELSE x.pos
        hi   == lo + Len(text)
    IN  IF lo >= 0 /\ hi <= Len(in) /\ SubSeq(in, lo + 1, hi) = text
        THEN <<[x EXCEPT !.pos = IF back THEN lo ELSE hi]>> ELSE <<>>

Ways(n, in, back, x) ==
    CASE n.k = "empty"   -> <<x>>
      [] n.k = "set"     ->
           LET at == IF back THEN x.pos ELSE x.pos + 1
           IN  IF at \in DOMAIN in /\ in[at] \in n.cs
               THEN <<[x EXCEPT !.pos = IF back THEN @ - 1 ELSE @ + 1]>> ELSE <<>>
      [] n.k = "seq"     -> WaysAll(n.items, in, back, x)
      [] n.k = "alt"     ->
           Chain(LAMBDA item : Ways(item, in, back, x), n.items)
      [] n.k = "repeat"  ->
           LET ways == Reps(n, n.min, n.max, in, back, x)
           IN  IF n.policy = "possessive" /\ ways # <<>> THEN <<ways[1]>> ELSE ways
      [] n.k = "capture" ->
           LET ways == Ways(n.body, in, back, x)
           IN  [i \in DOMAIN ways |->
                  [ways[i] EXCEPT !.caps[n.index] =
                      [start |-> Min({x.pos, ways[i].pos}),
                       end   |-> Max({x.pos, ways[i].pos})]]]
      [] n.k = "backref" -> BackrefWays(n.index, in, back, x)
      [] n.k = "assert"  -> IF Holds(n.kind, in, x.pos) THEN <<x>> ELSE <<>>
      [] n.k = "look"    ->
           LET ways == Ways(n.body, in, n.behind, x)
           IN  CASE n.negated  -> IF ways = <<>> THEN <<x>> ELSE <<>>
                 [] ~n.negated -> IF ways = <<>> THEN <<>>
                                  ELSE <<[x EXCEPT !.caps = ways[1].caps]>>

(* RegExpBuiltinExec: the first start from `s` to `last` with a way to     *)
(* match, and its first way; {} when there is none.                        *)
RECURSIVE FirstFrom(_, _, _, _)
FirstFrom(n, in, s, last) ==
    LET fresh == [g \in 1..Len(Groups(n)) |-> Undefined]
        ways  == IF s > last THEN <<>> ELSE Ways(n, in, FALSE, [pos |-> s, caps |-> fresh])
    IN  CASE s > last      -> {}
          [] ways # <<>>   -> {[start |-> s, end |-> ways[1].pos, caps |-> ways[1].caps]}
          [] OTHER         -> FirstFrom(n, in, s + 1, last)

(* From `index` on, or only there when sticky. *)
MatchFrom(n, in, index, sticky) ==
    FirstFrom(n, in, index, IF sticky THEN index ELSE Len(in))
=============================================================================
