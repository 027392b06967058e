-------------------------------- MODULE Hir --------------------------------
(***************************************************************************)
(* The high-level intermediate representation of a pattern (ir/hir.zig)    *)
(* and the pure functions the compiler asks of it.  A literal unit and a   *)
(* CharSet both consume one character drawn from a set, so both are the    *)
(* node "set"; flags have been applied to the sets by the lowering.        *)
(***************************************************************************)
EXTENDS Integers, Sequences, SequencesExt

Unbounded == -1   \* Repeat.max = null

Empty                  == [k |-> "empty"]
Chars(cs)              == [k |-> "set", cs |-> cs]
Cat(items)             == [k |-> "seq", items |-> items]
Alt(items)             == [k |-> "alt", items |-> items]
Capture(g, body)       == [k |-> "capture", index |-> g, body |-> body]
Backref(g)             == [k |-> "backref", index |-> g]
Anchor(kind)           == [k |-> "assert", kind |-> kind]
Look(behind, neg, body) ==
    [k |-> "look", behind |-> behind, negated |-> neg, body |-> body]
Repeat(min, max, policy, form, body) ==
    [k |-> "repeat", min |-> min, max |-> max, policy |-> policy,
     form |-> form, body |-> body]

(* The children of a node, in source order. *)
Kids(n) ==
    CASE n.k \in {"seq", "alt"}                -> n.items
      [] n.k \in {"repeat", "capture", "look"} -> <<n.body>>
      [] OTHER                                 -> <<>>

(* Whether the node can match the empty string. *)
RECURSIVE Nullable(_)
Nullable(n) ==
    CASE n.k = "set"     -> FALSE
      [] n.k = "seq"     -> \A i \in DOMAIN n.items : Nullable(n.items[i])
      [] n.k = "alt"     -> \E i \in DOMAIN n.items : Nullable(n.items[i])
      [] n.k = "repeat"  -> n.min = 0 \/ Nullable(n.body)
      [] n.k = "capture" -> Nullable(n.body)
      [] OTHER           -> TRUE

(* {len} when every match of the node consumes len characters, {} (the     *)
(* code's null) when the length can vary; `lengths` is a repeat's body's.  *)
Times(r, lengths) == IF r.max = r.min THEN {r.min * a : a \in lengths} ELSE {}
RECURSIVE FixedLength(_)
FixedLength(n) ==
    CASE n.k = "set"     -> {1}
      [] n.k = "backref" -> {}
      [] n.k = "seq"     ->
           FoldLeft(LAMBDA acc, item : {a + b : a \in acc, b \in FixedLength(item)},
                    {0}, n.items)
      [] n.k = "alt"     ->
           IF /\ \A i \in DOMAIN n.items : FixedLength(n.items[i]) # {}
              /\ \A i \in DOMAIN n.items :
                     FixedLength(n.items[i]) = FixedLength(n.items[1])
           THEN FixedLength(n.items[1]) ELSE {}
      [] n.k = "repeat"  -> Times(n, FixedLength(n.body))
      [] n.k = "capture" -> FixedLength(n.body)
      [] OTHER           -> {0}

(* The capture indices in the subtree, in pre-order: what an iteration     *)
(* clears.  captureRange is null exactly when there are none.              *)
RECURSIVE Groups(_)
Groups(n) ==
    (IF n.k = "capture" THEN <<n.index>> ELSE <<>>)
      \o FlattenSeq([i \in DOMAIN Kids(n) |-> Groups(Kids(n)[i])])

(* A lookbehind body the backtracker can run right to left: no lookaround  *)
(* inside.                                                                 *)
RECURSIVE BackwardBody(_)
BackwardBody(n) ==
    n.k # "look" /\ \A i \in DOMAIN Kids(n) : BackwardBody(Kids(n)[i])

(* Whether the compiler accepts every lookbehind of the pattern.           *)
RECURSIVE LookbehindsSupported(_, _)
LookbehindsSupported(n, codePoint) ==
    /\ (n.k = "look" /\ n.behind) =>
           \/ FixedLength(n.body) # {} /\ Groups(n.body) = <<>>
           \/ ~codePoint /\ BackwardBody(n.body)
    /\ \A i \in DOMAIN Kids(n) : LookbehindsSupported(Kids(n)[i], codePoint)
=============================================================================
