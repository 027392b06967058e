--------------------------- MODULE BacktrackProofs ---------------------------
(***************************************************************************)
(* For every set of well-formed programs, subjects and limits: every       *)
(* position lies in the subject, the alternatives are nested, coming back  *)
(* to one restores what it saved, every END closes its own lookaround, and *)
(* the stacks stay within the byte limit.                                  *)
(*                                                                         *)
(* First what the operators do to the stacks (prefixes, the oldest write   *)
(* of a slot, undoing the trail in one go or in two); then the inductive   *)
(* invariant of the stacks, as an operator on captures, choicepoints,      *)
(* trail, guards, positions and barrier, and what preserves it; then the   *)
(* instructions, one by one, and the theorems.                             *)
(***************************************************************************)
EXTENDS Backtrack, SequenceTheorems, WellFoundedInduction, TLAPS

(* A set of naturals that is not empty has a least element. *)
LEMMA LeastNat ==
    ASSUME NEW T, T \subseteq Nat, T # {}
    PROVE  \E x \in T : \A y \in T : x <= y
<1>1. \E x \in T : \A y \in T : ~(<<y, x>> \in OpToRel(<, Nat))
  BY NatLessThanWellFounded, WFMin
<1>2. \A x, y \in Nat : x < y => <<x, y>> \in OpToRel(<, Nat)
  BY Zenon DEF OpToRel
<1>3. \E x \in T : \A y \in T : ~(y < x)
  BY <1>1, <1>2, Zenon
<1>4. QED
  BY <1>3

-----------------------------------------------------------------------------
(* Prefixes. *)

(* A prefix is a sequence of the length asked for. *)
LEMMA PrefixSeq ==
    ASSUME NEW T, NEW s \in Seq(T), NEW n \in 0..Len(s)
    PROVE  /\ Prefix(s, n) \in Seq(T)
           /\ Len(Prefix(s, n)) = n
           /\ \A i \in 1..n : Prefix(s, n)[i] = s[i]
  BY SubSeqProperties DEF Prefix

(* The whole of a sequence is a prefix of it. *)
LEMMA PrefixFull ==
    ASSUME NEW T, NEW s \in Seq(T)
    PROVE  Prefix(s, Len(s)) = s
  BY SubSeqFull DEF Prefix

(* Cutting twice is cutting once, to the lower height. *)
LEMMA PrefixPrefix ==
    ASSUME NEW T, NEW s \in Seq(T), NEW n \in 0..Len(s), NEW m \in 0..n
    PROVE  Prefix(Prefix(s, n), m) = Prefix(s, m)
<1>1. /\ Prefix(s, n) \in Seq(T) /\ Len(Prefix(s, n)) = n
      /\ \A i \in 1..n : Prefix(s, n)[i] = s[i]
  BY PrefixSeq
<1>2. /\ Prefix(Prefix(s, n), m) \in Seq(T) /\ Len(Prefix(Prefix(s, n), m)) = m
      /\ \A i \in 1..m : Prefix(Prefix(s, n), m)[i] = Prefix(s, n)[i]
  BY <1>1, PrefixSeq
<1>3. /\ Prefix(s, m) \in Seq(T) /\ Len(Prefix(s, m)) = m
      /\ \A i \in 1..m : Prefix(s, m)[i] = s[i]
  BY PrefixSeq
<1>4. QED
  BY <1>1, <1>2, <1>3, SeqEqual

(* What is pushed does not change what lies under it. *)
LEMMA PrefixConcat ==
    ASSUME NEW T, NEW s \in Seq(T), NEW t \in Seq(T), NEW n \in 0..Len(s)
    PROVE  Prefix(s \o t, n) = Prefix(s, n)
  BY SubSeqOfConcat1 DEF Prefix

(* The same of a single element. *)
LEMMA PrefixAppend ==
    ASSUME NEW T, NEW s \in Seq(T), NEW e \in T, NEW n \in 0..Len(s)
    PROVE  Prefix(Append(s, e), n) = Prefix(s, n)
<1>1. <<e>> \in Seq(T) /\ Append(s, e) = s \o <<e>>
  BY AppendIsConcat
<1>2. QED
  BY <1>1, PrefixConcat

-----------------------------------------------------------------------------
(* The captures an undo brings back. *)

(* The oldest of some writes is one of them, and the only one that is not  *)
(* newer than any.                                                         *)
LEMMA OldestWrite ==
    ASSUME NEW W, W \subseteq Nat, W # {}
    PROVE  /\ Oldest(W) \in W
           /\ \A j \in W : Oldest(W) <= j
  BY LeastNat DEF Oldest

(* A write that is not newer than any is the oldest. *)
LEMMA OldestIs ==
    ASSUME NEW W, W \subseteq Nat, NEW i \in W, \A j \in W : i <= j
    PROVE  Oldest(W) = i
<1> DEFINE o == Oldest(W)
<1>1. o \in W /\ \A j \in W : o <= j
  BY OldestWrite
<1>2. o \in Nat /\ i \in Nat /\ o <= i /\ i <= o
  BY <1>1
<1> HIDE DEF o
<1>3. o = i
  BY <1>2
<1>4. QED
  BY <1>3 DEF o

(* The writes above a height lie between it and the top. *)
LEMMA WritesAbove ==
    ASSUME NEW cs \in CapsType, NEW tr \in Seq(TrailType), NEW h \in Nat, NEW s
    PROVE  /\ Writes(tr, h, s) \subseteq (h + 1)..Len(tr)
           /\ Writes(tr, h, s) \subseteq Nat
  BY DEF Writes

(* What an undo gives a slot that was not written above it, and one that   *)
(* was.                                                                    *)
LEMMA UndoneSlot ==
    ASSUME NEW cs \in CapsType, NEW tr \in Seq(TrailType), NEW h \in Nat,
           NEW s \in Slots
    PROVE  /\ Writes(tr, h, s) = {} => UndoneIn(cs, tr, h)[s] = cs[s]
           /\ Writes(tr, h, s) # {} =>
                 UndoneIn(cs, tr, h)[s] = tr[Oldest(Writes(tr, h, s))].prev
           /\ UndoneIn(cs, tr, h) = [t \in Slots |-> UndoneIn(cs, tr, h)[t]]
  BY DEF UndoneIn, CapsType

(* An undo gives captures. *)
LEMMA UndoneType ==
    ASSUME NEW cs \in CapsType, NEW tr \in Seq(TrailType), NEW h \in Nat
    PROVE  UndoneIn(cs, tr, h) \in CapsType
<1>1. ASSUME NEW s \in Slots PROVE UndoneIn(cs, tr, h)[s] \in CaptureType
  <2>1. CASE Writes(tr, h, s) = {}
    <3>1. UndoneIn(cs, tr, h)[s] = cs[s]
      BY <2>1, UndoneSlot
    <3>2. QED
      BY <3>1 DEF CapsType
  <2>2. CASE Writes(tr, h, s) # {}
    <3> DEFINE o == Oldest(Writes(tr, h, s))
    <3>1. o \in (h + 1)..Len(tr)
      BY <2>2, OldestWrite, WritesAbove
    <3>2. tr[o] \in TrailType
      BY <3>1
    <3>3. UndoneIn(cs, tr, h)[s] = tr[o].prev
      BY <2>2, UndoneSlot
    <3>4. QED
      BY <3>2, <3>3 DEF TrailType
  <2>3. QED
    BY <2>1, <2>2
<1>2. UndoneIn(cs, tr, h) = [t \in Slots |-> UndoneIn(cs, tr, h)[t]]
  BY DEF UndoneIn, CapsType
<1>3. QED
  BY <1>1, <1>2, Zenon DEF CapsType

(* Nothing is above the top of the trail. *)
LEMMA UndoneNothing ==
    ASSUME NEW cs \in CapsType, NEW tr \in Seq(TrailType)
    PROVE  UndoneIn(cs, tr, Len(tr)) = cs
<1>1. \A s : Writes(tr, Len(tr), s) = {}
  BY DEF Writes
<1>2. QED
  BY <1>1 DEF UndoneIn, CapsType

(* A recorded write does not change what an undo below it brings back. *)
LEMMA UndoneWrite ==
    ASSUME NEW cs \in CapsType, NEW tr \in Seq(TrailType),
           NEW slot \in Slots, NEW value \in CaptureType, NEW h \in 0..Len(tr)
    PROVE  UndoneIn([cs EXCEPT ![slot] = value],
                    Append(tr, [slot |-> slot, prev |-> cs[slot]]), h)
             = UndoneIn(cs, tr, h)
<1> DEFINE cs2 == [cs EXCEPT ![slot] = value]
           e   == [slot |-> slot, prev |-> cs[slot]]
           tr2 == Append(tr, e)
<1>1. /\ Len(tr2) = Len(tr) + 1 /\ tr2[Len(tr) + 1] = e
      /\ \A i \in 1..Len(tr) : tr2[i] = tr[i]
  BY AppendProperties
<1>2. cs2 \in CapsType /\ tr2 \in Seq(TrailType)
  <2>1. e \in TrailType
    BY DEF CapsType, TrailType
  <2>2. QED
    BY <2>1, AppendProperties DEF CapsType
<1>3. cs2[slot] = value /\ \A s \in Slots : s # slot => cs2[s] = cs[s]
  BY DEF CapsType
<1>4. h \in Nat /\ Len(tr) \in Nat /\ e.slot = slot /\ e.prev = cs[slot]
  OBVIOUS
<1> HIDE DEF cs2, e, tr2
<1>5. ASSUME NEW s \in Slots, s # slot
      PROVE  UndoneIn(cs2, tr2, h)[s] = UndoneIn(cs, tr, h)[s]
  <2>1. Writes(tr2, h, s) = Writes(tr, h, s)
    BY <1>1, <1>5, <1>4 DEF Writes
  <2>2. cs2[s] = cs[s]
    BY <1>5, <1>3
  <2>3. CASE Writes(tr, h, s) = {}
    BY <1>2, <1>4, <2>1, <2>2, <2>3, UndoneSlot
  <2>4. CASE Writes(tr, h, s) # {}
    <3>1. Oldest(Writes(tr, h, s)) \in 1..Len(tr)
      BY <1>4, <2>4, OldestWrite, WritesAbove
    <3>2. tr2[Oldest(Writes(tr, h, s))] = tr[Oldest(Writes(tr, h, s))]
      BY <1>1, <3>1
    <3>3. UndoneIn(cs2, tr2, h)[s] = tr2[Oldest(Writes(tr, h, s))].prev
      BY <1>2, <1>4, <2>1, <2>4, UndoneSlot
    <3>4. UndoneIn(cs, tr, h)[s] = tr[Oldest(Writes(tr, h, s))].prev
      BY <1>4, <2>4, UndoneSlot
    <3>5. QED
      BY <3>2, <3>3, <3>4
  <2>5. QED
    BY <2>3, <2>4
<1>6. UndoneIn(cs2, tr2, h)[slot] = UndoneIn(cs, tr, h)[slot]
  <2>1. Writes(tr2, h, slot) = Writes(tr, h, slot) \cup {Len(tr) + 1}
    BY <1>1, <1>4 DEF Writes
  <2>2. CASE Writes(tr, h, slot) = {}
    <3>1. Writes(tr2, h, slot) = {Len(tr) + 1}
      BY <2>1, <2>2
    <3>2. Oldest({Len(tr) + 1}) = Len(tr) + 1
      <4>1. {Len(tr) + 1} \subseteq Nat /\ {Len(tr) + 1} # {}
        BY <1>4
      <4>2. Oldest({Len(tr) + 1}) \in {Len(tr) + 1}
        BY <4>1, OldestWrite, Zenon
      <4>3. QED
        BY <4>2
    <3>3. UndoneIn(cs2, tr2, h)[slot] = tr2[Len(tr) + 1].prev
      <4>1. Writes(tr2, h, slot) # {}
        BY <3>1
      <4>2. UndoneIn(cs2, tr2, h)[slot] = tr2[Oldest(Writes(tr2, h, slot))].prev
        BY <1>2, <1>4, <4>1, UndoneSlot
      <4>3. QED
        BY <3>1, <3>2, <4>2
    <3>4. QED
      BY <1>1, <1>4, <2>2, <3>3, UndoneSlot
  <2>3. CASE Writes(tr, h, slot) # {}
    <3> DEFINE o == Oldest(Writes(tr, h, slot))
    <3>1. /\ Writes(tr, h, slot) \subseteq 1..Len(tr)
          /\ o \in Writes(tr, h, slot) /\ \A j \in Writes(tr, h, slot) : o <= j
      BY <1>4, <2>3, OldestWrite, WritesAbove
    <3>2. Oldest(Writes(tr2, h, slot)) = o
      <4>1. /\ Writes(tr2, h, slot) \subseteq Nat /\ o \in Writes(tr2, h, slot)
            /\ \A j \in Writes(tr2, h, slot) : o <= j
        BY <2>1, <3>1
      <4>2. QED
        BY <4>1, OldestIs
    <3>3. UndoneIn(cs2, tr2, h)[slot] = tr2[o].prev
      <4>1. Writes(tr2, h, slot) # {}
        BY <2>1
      <4>2. UndoneIn(cs2, tr2, h)[slot] = tr2[Oldest(Writes(tr2, h, slot))].prev
        BY <1>2, <1>4, <4>1, UndoneSlot
      <4>3. QED
        BY <3>2, <4>2
    <3>4. QED
      BY <1>1, <1>4, <2>3, <3>1, <3>3, UndoneSlot
  <2>4. QED
    BY <2>2, <2>3
<1>7. UndoneIn(cs2, tr2, h) = [t \in Slots |-> UndoneIn(cs2, tr2, h)[t]]
  BY <1>2, <1>4, UndoneSlot
<1>8. UndoneIn(cs, tr, h) = [t \in Slots |-> UndoneIn(cs, tr, h)[t]]
  BY <1>4, UndoneSlot
<1>9. UndoneIn(cs2, tr2, h) = UndoneIn(cs, tr, h)
  BY <1>5, <1>6, <1>7, <1>8
<1>10. QED
  BY <1>9 DEF cs2, tr2, e

(* Undoing down to H and then down to h is undoing down to h. *)
LEMMA UndoneTwice ==
    ASSUME NEW cs \in CapsType, NEW tr \in Seq(TrailType),
           NEW H \in 0..Len(tr), NEW h \in 0..H
    PROVE  UndoneIn(UndoneIn(cs, tr, H), Prefix(tr, H), h) = UndoneIn(cs, tr, h)
<1> DEFINE mid == UndoneIn(cs, tr, H)
           low == Prefix(tr, H)
<1>1. /\ Len(low) = H /\ \A i \in 1..H : low[i] = tr[i]
  BY PrefixSeq
<1>2. ASSUME NEW s \in Slots
      PROVE  UndoneIn(mid, low, h)[s] = UndoneIn(cs, tr, h)[s]
  <2>1. /\ Writes(tr, h, s) = Writes(low, h, s) \cup Writes(tr, H, s)
        /\ Writes(low, h, s) \subseteq (h + 1)..H
        /\ Writes(tr, H, s) \subseteq (H + 1)..Len(tr)
    BY <1>1 DEF Writes
  <2>2. CASE Writes(low, h, s) = {}
    <3>1. Writes(tr, h, s) = Writes(tr, H, s)
      BY <2>1, <2>2
    <3>2. QED
      BY <2>2, <3>1 DEF UndoneIn, CapsType
  <2>3. CASE Writes(low, h, s) # {}
    <3> DEFINE o == Oldest(Writes(low, h, s))
    <3>1. o \in Writes(low, h, s) /\ \A j \in Writes(low, h, s) : o <= j
      BY <2>1, <2>3, OldestWrite
    <3>2. Oldest(Writes(tr, h, s)) = o
      <4>1. /\ Writes(tr, h, s) \subseteq Nat /\ o \in Writes(tr, h, s)
            /\ \A j \in Writes(tr, h, s) : o <= j
        BY <2>1, <3>1
      <4>2. QED
        BY <4>1, OldestIs
    <3>3. low[o] = tr[o] /\ Writes(tr, h, s) # {}
      BY <1>1, <2>1, <3>1
    <3>4. QED
      BY <2>3, <3>2, <3>3 DEF UndoneIn, CapsType
  <2>4. QED
    BY <2>2, <2>3
<1>3. QED
  BY <1>2 DEF UndoneIn, CapsType

-----------------------------------------------------------------------------
(* The invariant of the stacks. *)

(* What a choicepoint says of itself. *)
Sound(c) ==
    /\ c.kind # "star_greedy" => c.pos <= Size
    /\ c.kind = "star_greedy" => c.a <= c.pos
    /\ c.kind = "star_lazy" => c.a \in DOMAIN Code /\ Code[c.a].op \in {"atom", "backref"}
    /\ Floor(c) <= Len(c.saved.positions)

(* Its heights are on the stacks, and coming back to them finds what it    *)
(* saved.                                                                  *)
Placed(c, cs, tr, gs, ps) ==
    /\ c.trailH <= Len(tr) /\ c.guardH <= Len(gs) /\ Floor(c) <= Len(ps)
    /\ UndoneIn(cs, tr, c.trailH) = c.saved.caps
    /\ Prefix(gs, c.guardH) = c.saved.guards
    /\ Prefix(ps, Floor(c)) = Prefix(c.saved.positions, Floor(c))

(* c lies under d. *)
Under(c, d) ==
    c.trailH <= d.trailH /\ c.guardH <= d.guardH /\ Floor(c) <= Base(d)

(* i is the innermost barrier of st under n. *)
InnermostOf(st, n, i) ==
    /\ i = 0 \/ (i \in DOMAIN st /\ i < n /\ st[i].kind = "look")
    /\ \A j \in DOMAIN st : j < n /\ st[j].kind = "look" => j <= i

Typed(cs, st, tr, gs, ps, lt) ==
    /\ cs \in CapsType /\ st \in Seq(ChoiceType) /\ tr \in Seq(TrailType)
    /\ gs \in Seq(GuardType) /\ ps \in Seq(0..Size) /\ lt \in 0..Len(st)

Inv(cs, st, tr, gs, ps, lt) ==
    /\ Typed(cs, st, tr, gs, ps, lt)
    /\ \A i \in 1..Len(st) : Sound(st[i]) /\ Placed(st[i], cs, tr, gs, ps)
    /\ \A i, j \in 1..Len(st) : i < j => Under(st[i], st[j])
    /\ InnermostOf(st, Len(st) + 1, lt)
    /\ \A i \in 1..Len(st) : InnermostOf(st, i, st[i].lookTop)

(* The fields of a choicepoint. *)
LEMMA ChoiceFields ==
    ASSUME NEW c \in ChoiceType
    PROVE  /\ c.kind \in Kinds /\ c.trailH \in Nat /\ c.guardH \in Nat
           /\ c.posH \in Nat /\ c.pos \in Nat /\ c.a \in Nat
           /\ c.lookTop \in Nat /\ c.pc \in Nat
           /\ c.back \in BOOLEAN /\ c.negated \in BOOLEAN
           /\ c.saved.caps \in CapsType /\ c.saved.guards \in Seq(GuardType)
           /\ c.saved.positions \in Seq(0..Size)
           /\ Floor(c) \in Nat /\ Base(c) \in Nat
<1>1. /\ c.kind \in Kinds /\ c.trailH \in Nat /\ c.guardH \in Nat
      /\ c.posH \in Nat /\ c.pos \in Nat /\ c.a \in Nat
      /\ c.lookTop \in Nat /\ c.pc \in Nat
      /\ c.back \in BOOLEAN /\ c.negated \in BOOLEAN
  BY DEF ChoiceType
<1>2. c.saved \in [caps : CapsType, guards : Seq(GuardType), positions : Seq(0..Size)]
  BY DEF ChoiceType
<1>3. QED
  BY <1>1, <1>2 DEF Floor, Base

(* With no choicepoint there is nothing to keep. *)
LEMMA EmptyInv ==
    ASSUME NEW cs \in CapsType
    PROVE  Inv(cs, <<>>, <<>>, <<>>, <<>>, 0)
  BY DEF Inv, Typed, InnermostOf

(* setCapture. *)
LEMMA WriteInv ==
    ASSUME NEW cs, NEW st, NEW tr, NEW gs, NEW ps, NEW lt,
           Inv(cs, st, tr, gs, ps, lt),
           NEW slot \in Slots, NEW value \in CaptureType
    PROVE  Inv([cs EXCEPT ![slot] = value], st,
               Append(tr, [slot |-> slot, prev |-> cs[slot]]), gs, ps, lt)
<1> DEFINE cs2 == [cs EXCEPT ![slot] = value]
           tr2 == Append(tr, [slot |-> slot, prev |-> cs[slot]])
<1>1. Typed(cs, st, tr, gs, ps, lt)
  BY DEF Inv
<1>2. cs2 \in CapsType /\ tr2 \in Seq(TrailType) /\ Len(tr2) = Len(tr) + 1
  <2>1. [slot |-> slot, prev |-> cs[slot]] \in TrailType
    BY <1>1 DEF Typed, CapsType, TrailType
  <2>2. QED
    BY <1>1, <2>1, AppendProperties DEF Typed, CapsType
<1>3. ASSUME NEW h \in 0..Len(tr) PROVE UndoneIn(cs2, tr2, h) = UndoneIn(cs, tr, h)
  BY <1>1, UndoneWrite DEF Typed
<1> HIDE DEF cs2, tr2
<1>4. Typed(cs2, st, tr2, gs, ps, lt)
  BY <1>1, <1>2 DEF Typed
<1>5. ASSUME NEW i \in 1..Len(st) PROVE Placed(st[i], cs2, tr2, gs, ps)
  <2>1. st[i] \in ChoiceType /\ Placed(st[i], cs, tr, gs, ps)
    BY <1>1 DEF Inv, Typed
  <2>2. st[i].trailH \in 0..Len(tr)
    BY <2>1, ChoiceFields DEF Placed
  <2>3. st[i].trailH <= Len(tr2)
    BY <1>1, <1>2, <2>2 DEF Typed
  <2>4. QED
    BY <1>3, <2>1, <2>2, <2>3 DEF Placed
<1>6. Inv(cs2, st, tr2, gs, ps, lt)
  BY <1>4, <1>5 DEF Inv
<1>7. QED
  BY <1>6 DEF cs2, tr2

(* enterBackEdge. *)
LEMMA GuardInv ==
    ASSUME NEW cs, NEW st, NEW tr, NEW gs, NEW ps, NEW lt,
           Inv(cs, st, tr, gs, ps, lt), NEW g \in GuardType
    PROVE  Inv(cs, st, tr, Append(gs, g), ps, lt)
<1> DEFINE gs2 == Append(gs, g)
<1>1. Typed(cs, st, tr, gs, ps, lt)
  BY DEF Inv
<1>2. gs2 \in Seq(GuardType) /\ Len(gs2) = Len(gs) + 1
  BY <1>1, AppendProperties DEF Typed
<1>3. ASSUME NEW n \in 0..Len(gs) PROVE Prefix(gs2, n) = Prefix(gs, n)
  BY <1>1, PrefixAppend DEF Typed
<1> HIDE DEF gs2
<1>4. Typed(cs, st, tr, gs2, ps, lt)
  BY <1>1, <1>2 DEF Typed
<1>5. ASSUME NEW i \in 1..Len(st) PROVE Placed(st[i], cs, tr, gs2, ps)
  <2>1. st[i] \in ChoiceType /\ Placed(st[i], cs, tr, gs, ps)
    BY <1>1 DEF Inv, Typed
  <2>2. st[i].guardH \in 0..Len(gs)
    BY <2>1, ChoiceFields DEF Placed
  <2>3. st[i].guardH <= Len(gs2)
    BY <1>1, <1>2, <2>2 DEF Typed
  <2>4. QED
    BY <1>3, <2>1, <2>2, <2>3 DEF Placed
<1>6. Inv(cs, st, tr, gs2, ps, lt)
  BY <1>4, <1>5 DEF Inv
<1>7. QED
  BY <1>6 DEF gs2

(* The ends a greedy star records. *)
LEMMA ExtendInv ==
    ASSUME NEW cs, NEW st, NEW tr, NEW gs, NEW ps, NEW lt,
           Inv(cs, st, tr, gs, ps, lt), NEW qs \in Seq(0..Size)
    PROVE  Inv(cs, st, tr, gs, ps \o qs, lt)
<1> DEFINE ps2 == ps \o qs
<1>1. Typed(cs, st, tr, gs, ps, lt)
  BY DEF Inv
<1>2. ps2 \in Seq(0..Size) /\ Len(ps2) = Len(ps) + Len(qs)
  BY <1>1, ConcatProperties DEF Typed
<1>3. ASSUME NEW n \in 0..Len(ps) PROVE Prefix(ps2, n) = Prefix(ps, n)
  BY <1>1, PrefixConcat DEF Typed
<1> HIDE DEF ps2
<1>4. Typed(cs, st, tr, gs, ps2, lt)
  BY <1>1, <1>2 DEF Typed
<1>5. ASSUME NEW i \in 1..Len(st) PROVE Placed(st[i], cs, tr, gs, ps2)
  <2>1. st[i] \in ChoiceType /\ Placed(st[i], cs, tr, gs, ps)
    BY <1>1 DEF Inv, Typed
  <2>2. Floor(st[i]) \in 0..Len(ps)
    BY <2>1, ChoiceFields DEF Placed
  <2>3. Floor(st[i]) <= Len(ps2)
    BY <1>1, <1>2, <2>2 DEF Typed
  <2>4. QED
    BY <1>3, <2>1, <2>2, <2>3 DEF Placed
<1>6. Inv(cs, st, tr, gs, ps2, lt)
  BY <1>4, <1>5 DEF Inv
<1>7. QED
  BY <1>6 DEF ps2

(* A new alternative at the present heights, above all there are. *)
LEMMA PushInv ==
    ASSUME NEW cs, NEW st, NEW tr, NEW gs, NEW ps, NEW lt,
           Inv(cs, st, tr, gs, ps, lt),
           NEW c \in ChoiceType, Sound(c), Placed(c, cs, tr, gs, ps),
           c.trailH = Len(tr), c.guardH = Len(gs), c.lookTop = lt,
           \A i \in 1..Len(st) : Floor(st[i]) <= Base(c)
    PROVE  Inv(cs, Append(st, c), tr, gs, ps,
               IF c.kind = "look" THEN Len(st) + 1 ELSE lt)
<1> DEFINE st2 == Append(st, c)
           lt2 == IF c.kind = "look" THEN Len(st) + 1 ELSE lt
<1>1. Typed(cs, st, tr, gs, ps, lt)
  BY DEF Inv
<1>2. /\ st2 \in Seq(ChoiceType) /\ Len(st2) = Len(st) + 1 /\ st2[Len(st) + 1] = c
      /\ \A i \in 1..Len(st) : st2[i] = st[i]
  BY <1>1, AppendProperties DEF Typed
<1>3. Len(st) \in Nat /\ lt2 \in 0..(Len(st) + 1)
  BY <1>1 DEF Typed
<1>4. (c.kind = "look" => lt2 = Len(st) + 1) /\ (c.kind # "look" => lt2 = lt)
  OBVIOUS
<1> HIDE DEF st2, lt2
<1>5. Typed(cs, st2, tr, gs, ps, lt2)
  BY <1>1, <1>2, <1>3 DEF Typed
<1>6. ASSUME NEW i \in 1..Len(st2) PROVE Sound(st2[i]) /\ Placed(st2[i], cs, tr, gs, ps)
  <2>1. CASE i \in 1..Len(st)
    BY <1>2, <2>1 DEF Inv
  <2>2. CASE i = Len(st) + 1
    BY <1>2, <2>2
  <2>3. QED
    BY <1>2, <1>3, <2>1, <2>2
<1>7. ASSUME NEW i \in 1..Len(st2), NEW j \in 1..Len(st2), i < j
      PROVE  Under(st2[i], st2[j])
  <2>1. i \in 1..Len(st) /\ st2[i] = st[i]
    BY <1>2, <1>3, <1>7
  <2>2. CASE j \in 1..Len(st)
    BY <1>2, <1>7, <2>1, <2>2 DEF Inv
  <2>3. CASE j = Len(st) + 1
    <3>1. Placed(st[i], cs, tr, gs, ps) /\ Floor(st[i]) <= Base(c)
      BY <2>1 DEF Inv
    <3>2. QED
      BY <1>2, <2>1, <2>3, <3>1 DEF Placed, Under
  <2>4. QED
    BY <1>2, <1>3, <2>2, <2>3
<1>8. ASSUME NEW n \in 1..(Len(st) + 1), NEW k, InnermostOf(st, n, k)
      PROVE  InnermostOf(st2, n, k)
  <2>1. DOMAIN st = 1..Len(st) /\ DOMAIN st2 = 1..(Len(st) + 1)
    BY <1>1, <1>2 DEF Typed
  <2>2. \A i \in DOMAIN st2 : i < n => i \in DOMAIN st /\ st2[i] = st[i]
    BY <1>2, <1>3, <2>1
  <2>3. k = 0 \/ (k \in DOMAIN st2 /\ k < n /\ st2[k].kind = "look")
    BY <1>2, <1>8, <2>1 DEF InnermostOf
  <2>4. \A j \in DOMAIN st2 : j < n /\ st2[j].kind = "look" => j <= k
    BY <1>8, <2>2 DEF InnermostOf
  <2>5. QED
    BY <2>3, <2>4 DEF InnermostOf
<1>9. InnermostOf(st2, Len(st) + 1, lt)
  BY <1>3, <1>8 DEF Inv
<1>10. InnermostOf(st2, Len(st2) + 1, lt2)
  <2>1. DOMAIN st2 = 1..(Len(st) + 1)
    BY <1>2
  <2>2. CASE c.kind = "look"
    BY <1>2, <1>3, <1>4, <2>1, <2>2 DEF InnermostOf
  <2>3. CASE c.kind # "look"
    <3>1. \A j \in DOMAIN st2 : st2[j].kind = "look" => j < Len(st) + 1
      BY <1>2, <1>3, <2>1, <2>3
    <3>2. QED
      BY <1>2, <1>3, <1>4, <1>9, <2>1, <2>3, <3>1 DEF InnermostOf
  <2>4. QED
    BY <2>2, <2>3
<1>11. ASSUME NEW i \in 1..Len(st2) PROVE InnermostOf(st2, i, st2[i].lookTop)
  <2>1. CASE i \in 1..Len(st)
    <3>1. InnermostOf(st, i, st[i].lookTop) /\ st2[i] = st[i] /\ i \in 1..(Len(st) + 1)
      BY <1>2, <1>3, <2>1 DEF Inv
    <3>2. QED
      BY <1>8, <3>1
  <2>2. CASE i = Len(st) + 1
    BY <1>2, <1>9, <2>2
  <2>3. QED
    BY <1>2, <1>3, <2>1, <2>2
<1>12. Inv(cs, st2, tr, gs, ps, lt2)
  BY <1>5, <1>6, <1>7, <1>10, <1>11 DEF Inv
<1>13. QED
  BY <1>12 DEF st2, lt2

(* The stacks cut down to what lies under a choicepoint: the older ones    *)
(* keep their places if the captures their heights lead back to are the    *)
(* same and the positions they need are kept.                              *)
LEMMA CutDownInv ==
    ASSUME NEW cs, NEW st, NEW tr, NEW gs, NEW ps, NEW lt,
           Inv(cs, st, tr, gs, ps, lt),
           NEW idx \in 1..Len(st), NEW n \in 0..Len(ps),
           \A i \in 1..(idx - 1) : Floor(st[i]) <= n,
           NEW cs2 \in CapsType, NEW tr2 \in Seq(TrailType),
           st[idx].trailH <= Len(tr2),
           \A h \in 0..st[idx].trailH : UndoneIn(cs2, tr2, h) = UndoneIn(cs, tr, h)
    PROVE  Inv(cs2, Prefix(st, idx - 1), tr2, Prefix(gs, st[idx].guardH),
               Prefix(ps, n), st[idx].lookTop)
<1> DEFINE m   == idx - 1
           st2 == Prefix(st, m)
           gs2 == Prefix(gs, st[idx].guardH)
           ps2 == Prefix(ps, n)
<1>1. Typed(cs, st, tr, gs, ps, lt)
  BY DEF Inv
<1>2. /\ st[idx] \in ChoiceType /\ Placed(st[idx], cs, tr, gs, ps)
      /\ InnermostOf(st, idx, st[idx].lookTop)
  BY <1>1 DEF Inv, Typed
<1>3. st[idx].guardH \in 0..Len(gs) /\ st[idx].trailH \in 0..Len(tr)
  BY <1>2, ChoiceFields DEF Placed
<1>4. /\ m \in 0..Len(st) /\ Len(st) \in Nat
      /\ st2 \in Seq(ChoiceType) /\ Len(st2) = m /\ \A i \in 1..m : st2[i] = st[i]
  <2>1. m \in 0..Len(st) /\ Len(st) \in Nat /\ st \in Seq(ChoiceType)
    BY <1>1 DEF Typed
  <2> HIDE DEF m
  <2>2. QED
    BY <2>1, PrefixSeq
<1>5. gs2 \in Seq(GuardType) /\ Len(gs2) = st[idx].guardH
  BY <1>1, <1>3, PrefixSeq DEF Typed
<1>6. ps2 \in Seq(0..Size) /\ Len(ps2) = n
  BY <1>1, PrefixSeq DEF Typed
<1>7. \A h \in 0..st[idx].guardH : Prefix(gs2, h) = Prefix(gs, h)
  BY <1>1, <1>3, PrefixPrefix DEF Typed
<1>8. \A h \in 0..n : Prefix(ps2, h) = Prefix(ps, h)
  BY <1>1, PrefixPrefix DEF Typed
<1>9. \A i \in 1..m : i < idx /\ i \in 1..Len(st)
  BY <1>4
<1> HIDE DEF m, st2, gs2, ps2
<1>10. /\ st[idx].lookTop \in 0..m
       /\ InnermostOf(st2, idx, st[idx].lookTop)
  <2>1. DOMAIN st = 1..Len(st) /\ DOMAIN st2 = 1..m /\ m = idx - 1
    BY <1>1, <1>4 DEF Typed, m
  <2>2. st[idx].lookTop \in 0..m
    BY <1>2, <1>4, <2>1 DEF InnermostOf
  <2>3. QED
    BY <1>2, <1>4, <1>9, <2>1, <2>2 DEF InnermostOf
<1>11. Typed(cs2, st2, tr2, gs2, ps2, st[idx].lookTop)
  BY <1>4, <1>5, <1>6, <1>10 DEF Typed
<1>12. ASSUME NEW i \in 1..m PROVE Sound(st2[i]) /\ Placed(st2[i], cs2, tr2, gs2, ps2)
  <2>1. /\ st[i] \in ChoiceType /\ Sound(st[i]) /\ Placed(st[i], cs, tr, gs, ps)
        /\ Under(st[i], st[idx]) /\ Floor(st[i]) <= n
    BY <1>1, <1>9, <1>12 DEF Inv, Typed, m
  <2>2. /\ st[i].trailH \in 0..st[idx].trailH /\ st[i].guardH \in 0..st[idx].guardH
        /\ Floor(st[i]) \in 0..n
    BY <2>1, ChoiceFields, <1>3 DEF Under
  <2>3. st[i].trailH <= Len(tr2)
    <3>1. Len(tr2) \in Nat
      OBVIOUS
    <3>2. QED
      BY <1>3, <2>2, <3>1
  <2>4. Placed(st[i], cs2, tr2, gs2, ps2)
    <3>1. UndoneIn(cs2, tr2, st[i].trailH) = st[i].saved.caps
      BY <2>1, <2>2 DEF Placed
    <3>2. st[i].guardH <= Len(gs2) /\ Prefix(gs2, st[i].guardH) = st[i].saved.guards
      BY <1>5, <1>7, <2>1, <2>2 DEF Placed
    <3>3. /\ Floor(st[i]) <= Len(ps2)
          /\ Prefix(ps2, Floor(st[i])) = Prefix(st[i].saved.positions, Floor(st[i]))
      BY <1>6, <1>8, <2>1, <2>2 DEF Placed
    <3>4. QED
      BY <2>3, <3>1, <3>2, <3>3 DEF Placed
  <2>5. QED
    BY <1>4, <2>1, <2>4
<1>13. ASSUME NEW i \in 1..m, NEW j \in 1..m, i < j PROVE Under(st2[i], st2[j])
  BY <1>4, <1>9, <1>13 DEF Inv
<1>14. ASSUME NEW i \in 1..m PROVE InnermostOf(st2, i, st2[i].lookTop)
  <2>1. InnermostOf(st, i, st[i].lookTop) /\ st2[i] = st[i]
    BY <1>4, <1>9 DEF Inv
  <2>2. DOMAIN st = 1..Len(st) /\ DOMAIN st2 = 1..m
    BY <1>1, <1>4 DEF Typed
  <2>3. \A j \in DOMAIN st : j < i => j \in DOMAIN st2 /\ st2[j] = st[j]
    BY <1>4, <2>2
  <2>4. QED
    BY <1>9, <2>1, <2>2, <2>3 DEF InnermostOf
<1>15. Inv(cs2, st2, tr2, gs2, ps2, st[idx].lookTop)
  <2>1. Len(st2) + 1 = idx
    BY <1>4 DEF m
  <2>2. QED
    BY <1>4, <1>10, <1>11, <1>12, <1>13, <1>14, <2>1 DEF Inv
<1>16. QED
  BY <1>15 DEF st2, gs2, ps2, m

(* Resuming or refusing: the captures are undone to the choicepoint's      *)
(* height.                                                                 *)
LEMMA UndoInv ==
    ASSUME NEW cs, NEW st, NEW tr, NEW gs, NEW ps, NEW lt,
           Inv(cs, st, tr, gs, ps, lt),
           NEW idx \in 1..Len(st), NEW n \in 0..Len(ps),
           \A i \in 1..(idx - 1) : Floor(st[i]) <= n
    PROVE  Inv(UndoneIn(cs, tr, st[idx].trailH), Prefix(st, idx - 1),
               Prefix(tr, st[idx].trailH), Prefix(gs, st[idx].guardH),
               Prefix(ps, n), st[idx].lookTop)
<1> DEFINE H == st[idx].trailH
<1>1. Typed(cs, st, tr, gs, ps, lt)
  BY DEF Inv
<1>2. st[idx] \in ChoiceType /\ Placed(st[idx], cs, tr, gs, ps)
  BY <1>1 DEF Inv, Typed
<1>3. H \in 0..Len(tr)
  BY <1>2, ChoiceFields DEF Placed
<1>4. UndoneIn(cs, tr, H) \in CapsType
  BY <1>1, <1>3, UndoneType DEF Typed
<1>5. Prefix(tr, H) \in Seq(TrailType) /\ Len(Prefix(tr, H)) = H
  BY <1>1, <1>3, PrefixSeq DEF Typed
<1>6. \A h \in 0..H : UndoneIn(UndoneIn(cs, tr, H), Prefix(tr, H), h) = UndoneIn(cs, tr, h)
  BY <1>1, <1>3, UndoneTwice DEF Typed
<1>7. H <= Len(Prefix(tr, H))
  BY <1>3, <1>5
<1>8. QED
  BY <1>4, <1>5, <1>6, <1>7, CutDownInv

(* Closing a positive lookaround: captures and trail stay. *)
LEMMA KeepInv ==
    ASSUME NEW cs, NEW st, NEW tr, NEW gs, NEW ps, NEW lt,
           Inv(cs, st, tr, gs, ps, lt),
           NEW idx \in 1..Len(st), NEW n \in 0..Len(ps),
           \A i \in 1..(idx - 1) : Floor(st[i]) <= n
    PROVE  Inv(cs, Prefix(st, idx - 1), tr, Prefix(gs, st[idx].guardH),
               Prefix(ps, n), st[idx].lookTop)
<1>1. Typed(cs, st, tr, gs, ps, lt) /\ Placed(st[idx], cs, tr, gs, ps)
  BY DEF Inv
<1>2. QED
  BY <1>1, CutDownInv DEF Typed, Placed

-----------------------------------------------------------------------------
(* The instructions. *)

CallOK ==
    /\ call.prog \in Programs /\ call.input \in Inputs /\ call.limits \in Limits
    /\ call.index \in 0..Size

(* What the assumptions say of the program, subject and limits in use. *)
LEMMA CallFacts ==
    ASSUME CallOK
    PROVE  /\ Prog.groups \in Nat /\ Prog.marks \in Nat /\ Size \in Nat
           /\ Len(Code) \in Nat /\ DOMAIN Code = 1..Len(Code)
           /\ \A i \in DOMAIN Code : WellFormed(Prog, i)
           /\ call.limits.steps \in Nat /\ call.limits.bytes \in Nat
  BY ProgramsAssumption, InputsAssumption, LimitsAssumption
     DEF CallOK, Prog, Code, Input, Size

-----------------------------------------------------------------------------
(* Atoms. *)

Repeatable(inst) ==
    /\ inst.op \in {"atom", "backref"} /\ inst.back \in BOOLEAN
    /\ inst.op = "backref" => inst.group \in 1..Prog.groups

(* Consuming opcodes have the operands atoms have. *)
LEMMA AtomInstruction ==
    ASSUME CallOK, NEW i \in DOMAIN Code, Code[i].op \in {"atom", "backref"}
    PROVE  Repeatable(Code[i])
<1>1. WellFormed(Prog, i)
  BY CallFacts
<1>2. QED
  BY <1>1 DEF WellFormed, Repeatable, Code

(* No atom has a negative width, not even a group closed before it opened. *)
LEMMA WidthNat ==
    ASSUME CallOK, NEW cs \in CapsType, NEW inst, Repeatable(inst)
    PROVE  Width(cs, inst) \in Nat
<1>1. CASE inst.op = "atom"
  BY <1>1 DEF Width
<1>2. CASE inst.op = "backref"
  <2>1. inst.group \in Slots
    BY <1>2, CallFacts DEF Repeatable, Slots
  <2>2. cs[inst.group] \in CaptureType
    BY <2>1 DEF CapsType
  <2>3. GroupWidth(cs[inst.group]) \in Nat
    <3> DEFINE c == cs[inst.group]
    <3>1. c.start \in Edge /\ c.end \in Edge
      BY <2>2 DEF CaptureType
    <3> HIDE DEF c
    <3>2. GroupWidth(c) \in Nat
      BY <3>1 DEF GroupWidth, Edge
    <3>3. QED
      BY <3>2 DEF c
  <2>4. QED
    BY <1>2, <2>3 DEF Width
<1>3. QED
  BY <1>1, <1>2 DEF Repeatable

(* An atom that matches ends inside the subject. *)
LEMMA AtomStays ==
    ASSUME CallOK, NEW cs \in CapsType, NEW inst, Repeatable(inst),
           NEW at \in Int, AtomMatches(cs, inst, at)
    PROVE  at + Stride(cs, inst) \in 0..Size
<1> DEFINE w == Width(cs, inst)
<1>1. w \in Nat /\ Size \in Nat
  BY WidthNat, CallFacts
<1>2. CASE inst.back
  <2>1. at - w >= 0 /\ (at - w) + w <= Size /\ Stride(cs, inst) = -w
    BY <1>2 DEF AtomMatches, Stride
  <2> HIDE DEF w
  <2>2. QED
    BY <1>1, <2>1
<1>3. CASE ~inst.back
  <2>1. at >= 0 /\ at + w <= Size /\ Stride(cs, inst) = w
    BY <1>3 DEF AtomMatches, Stride
  <2> HIDE DEF w
  <2>2. QED
    BY <1>1, <2>1
<1>4. QED
  BY <1>2, <1>3

(* One more repetition moves by one more stride. *)
LEMMA StrideStep ==
    ASSUME NEW at \in Int, NEW n \in Int, NEW d \in Int
    PROVE  at + (n + 1) * d = (at + n * d) + d
<1>1. (n + 1) * d = n * d + d
  BY SMT
<1>2. n * d \in Int
  BY SMT
<1>3. QED
  BY <1>1, <1>2

(* n repetitions of a width move at least n characters. *)
LEMMA Far ==
    ASSUME NEW n \in Nat, NEW w \in Nat, w > 0
    PROVE  n * w \in Int /\ n * w >= n /\ n * (-w) = -(n * w)
  BY SMT

(* A repeated atom that moves cannot go on for as many times as the        *)
(* subject has characters.                                                 *)
LEMMA AtomsEnd ==
    ASSUME CallOK, caps \in CapsType, NEW inst, Repeatable(inst), NEW at \in 0..Size
    PROVE  ~AtomMoves(caps, inst, Nth(inst, at, Size))
<1> DEFINE w == Width(caps, inst)
           p == Nth(inst, at, Size)
<1>1. w \in Nat /\ Size \in Nat
  BY WidthNat, CallFacts
<1>2. SUFFICES ASSUME w > 0, AtomMatches(caps, inst, p) PROVE FALSE
  BY DEF AtomMoves
<1>3. Size * w \in Int /\ Size * w >= Size /\ Size * (-w) = -(Size * w)
  <2> HIDE DEF w
  <2>1. QED
    BY <1>1, <1>2, Far
<1>4. CASE inst.back
  <2>1. p = at + Size * (-w) /\ p - w >= 0
    BY <1>2, <1>4 DEF AtomMatches, Stride, Nth
  <2> HIDE DEF w, p
  <2>2. QED
    BY <1>1, <1>2, <1>3, <2>1
<1>5. CASE ~inst.back
  <2>1. p = at + Size * w /\ p + w <= Size
    BY <1>2, <1>5 DEF AtomMatches, Stride, Nth
  <2> HIDE DEF w, p
  <2>2. QED
    BY <1>1, <1>2, <1>3, <2>1
<1>6. QED
  BY <1>4, <1>5

(* So consumeAll stops, after matches only. *)
LEMMA RepetitionsAre ==
    ASSUME CallOK, caps \in CapsType, NEW inst, Repeatable(inst), NEW at \in 0..Size
    PROVE  /\ Repetitions(inst, at) \in 0..Size
           /\ \A i \in 0..(Repetitions(inst, at) - 1) :
                 AtomMoves(caps, inst, Nth(inst, at, i))
<1> DEFINE T == {n \in Nat : ~AtomMoves(caps, inst, Nth(inst, at, n))}
<1>1. Size \in Nat /\ Size \in T
  BY AtomsEnd, CallFacts
<1>2. PICK n \in T : \A m \in T : n <= m
  BY <1>1, LeastNat
<1>3. /\ n \in 0..Size /\ ~AtomMoves(caps, inst, Nth(inst, at, n))
      /\ \A i \in 0..(n - 1) : AtomMoves(caps, inst, Nth(inst, at, i))
  <2>1. n \in Nat /\ n <= Size
    BY <1>1, <1>2
  <2>2. \A i \in 0..(n - 1) : i \in Nat /\ ~(n <= i)
    BY <2>1
  <2>3. QED
    BY <1>2, <2>1, <2>2
<1>4. QED
  BY <1>3 DEF Repetitions

(* Every recorded end lies in the subject. *)
LEMMA EndsInSubject ==
    ASSUME CallOK, caps \in CapsType, NEW inst, Repeatable(inst), NEW at \in 0..Size
    PROVE  /\ Ends(inst, at) \in Seq(0..Size)
           /\ Len(Ends(inst, at)) \in Nat \ {0}
           /\ Ends(inst, at)[Len(Ends(inst, at))] \in 0..Size
<1> DEFINE r == Repetitions(inst, at)
           d == Stride(caps, inst)
<1>1. /\ r \in 0..Size /\ Size \in Nat
      /\ \A i \in 0..(r - 1) : AtomMoves(caps, inst, Nth(inst, at, i))
  BY RepetitionsAre, CallFacts
<1>2. d \in Int
  BY WidthNat DEF Stride
<1> HIDE DEF r
<1>3. ASSUME NEW i \in 0..r PROVE Nth(inst, at, i) \in 0..Size
  <2>1. CASE i = 0
    <3>1. 0 * d = 0
      BY <1>2, SMT
    <3>2. QED
      BY <2>1, <3>1 DEF Nth
  <2>2. CASE i # 0
    <3> DEFINE j == i - 1
    <3>1. j \in Int /\ i = j + 1 /\ j \in 0..(r - 1)
      BY <1>1, <2>2
    <3>2. AtomMatches(caps, inst, Nth(inst, at, j))
      BY <1>1, <3>1 DEF AtomMoves
    <3>3. Nth(inst, at, i) = Nth(inst, at, j) + d
      <4> HIDE DEF j, d
      <4>1. at + (j + 1) * d = (at + j * d) + d
        BY <1>2, <3>1, StrideStep
      <4>2. QED
        BY <3>1, <4>1 DEF Nth, d
    <3>4. Nth(inst, at, j) \in Int
      <4> HIDE DEF j, d
      <4>1. at + j * d \in Int
        BY <1>2, <3>1, SMT
      <4>2. QED
        BY <4>1 DEF Nth, d
    <3>5. QED
      BY <3>2, <3>3, <3>4, AtomStays
  <2>3. QED
    BY <2>1, <2>2
<1>4. Ends(inst, at) = [i \in 1..(r + 1) |-> Nth(inst, at, i - 1)]
  BY DEF Ends, r
<1>5. \A i \in 1..(r + 1) : Nth(inst, at, i - 1) \in 0..Size
  BY <1>1, <1>3
<1>6. Ends(inst, at) \in [1..(r + 1) -> 0..Size] /\ r + 1 \in Nat \ {0}
  BY <1>1, <1>4, <1>5
<1>7. Ends(inst, at) \in Seq(0..Size)
  BY <1>6, SeqDef
<1>8. Len(Ends(inst, at)) = r + 1
  BY <1>6, <1>7, LenProperties
<1>9. QED
  BY <1>6, <1>7, <1>8

-----------------------------------------------------------------------------
(* The inductive invariant: a run in progress or ended, and the invariant  *)
(* of its stacks.                                                          *)

IInv ==
    /\ CallOK
    /\ phase \in {"exec", "back"} \cup Final
    /\ start \in 0..Size /\ pos \in 0..Size /\ pc \in Nat /\ steps \in Nat
    /\ Inv(caps, stack, trail, guards, positions, lookTop)

(* What a step has to show, in terms of the present call. *)
Goes ==
    /\ phase' \in {"exec", "back"} \cup Final /\ pc' \in Nat /\ pos' \in 0..Size
    /\ Inv(caps', stack', trail', guards', positions', lookTop')
Stays == call' = call /\ start' \in 0..Size /\ steps' \in Nat

(* The present call being the next one, that is enough. *)
LEMMA StepIInv ==
    ASSUME CallOK, Stays, Goes
    PROVE  IInv'
  BY DEF CallOK, Stays, Goes, IInv, Inv, Typed, Sound, Placed, Under, InnermostOf,
         CapsType, ChoiceType, TrailType, GuardType, Slots, Prog, Code, Size, Input

(* The types the invariant gives. *)
LEMMA Types ==
    ASSUME IInv
    PROVE  /\ caps \in CapsType /\ stack \in Seq(ChoiceType) /\ trail \in Seq(TrailType)
           /\ guards \in Seq(GuardType) /\ positions \in Seq(0..Size)
           /\ lookTop \in 0..Len(stack)
  BY DEF IInv, Inv, Typed

(* Dispatching leaves the call and start alone and reads a real instruction. *)
LEMMA DispatchStays ==
    ASSUME IInv, NEW op, Dispatch(op)
    PROVE  /\ Stays /\ phase = "exec" /\ pc \in DOMAIN Code /\ Inst.op = op
           /\ WellFormed(Prog, pc) /\ Prog.code[pc] = Inst
<1>1. CallOK /\ start \in 0..Size /\ steps \in Nat /\ Size \in Nat
  BY CallFacts DEF IInv
<1>2. steps' = steps \/ steps' = steps + 1
  BY DEF Dispatch
<1>3. call' = call /\ start' = start /\ pc \in DOMAIN Code /\ Inst.op = op /\ phase = "exec"
  BY DEF Dispatch
<1>4. WellFormed(Prog, pc)
  BY <1>1, <1>3, CallFacts
<1>5. QED
  BY <1>1, <1>2, <1>3, <1>4 DEF Stays, Inst, Code

(* The run ends, its stacks dropped. *)
LEMMA EndGoes ==
    ASSUME IInv, NEW o \in Final, End(o), caps' \in CapsType
    PROVE  Goes
<1>1. /\ stack' = <<>> /\ trail' = <<>> /\ guards' = <<>> /\ positions' = <<>>
      /\ lookTop' = 0
  BY DEF End, Become, NoStacks
<1>2. phase' = o /\ pc' = pc /\ pos' = pos
  BY DEF End
<1>3. QED
  BY <1>1, <1>2, EmptyInv DEF Goes, IInv

(* The stacks and captures stay as they are. *)
LEMMA SameInv ==
    ASSUME IInv, Become(Stacks), caps' = caps
    PROVE  Inv(caps', stack', trail', guards', positions', lookTop')
<1>1. /\ stack' = stack /\ trail' = trail /\ guards' = guards /\ positions' = positions
      /\ lookTop' = lookTop
  BY DEF Become, Stacks
<1>2. QED
  BY <1>1 DEF IInv

(* Going on, or failing, with the stacks as they are. *)
LEMMA TestGoes ==
    ASSUME IInv, NEW holds, NEW to, NEW at, Test(holds, to, at),
           holds => to \in Nat /\ at \in 0..Size
    PROVE  Goes
<1>1. Inv(caps', stack', trail', guards', positions', lookTop')
  BY SameInv DEF Test
<1>2. CASE holds
  BY <1>1, <1>2 DEF Test, Continue, Goes
<1>3. CASE ~holds
  <2>1. phase' = "back" /\ pc' = pc /\ pos' = pos
    BY <1>3 DEF Test, Fail
  <2>2. QED
    BY <1>1, <2>1 DEF Goes, IInv
<1>4. QED
  BY <1>2, <1>3

InvOf(cs, m) == Inv(cs, m.stack, m.trail, m.guards, m.positions, m.lookTop)

(* Going on with grown stacks, or running out of the limit. *)
LEMMA GrowGoes ==
    ASSUME IInv, NEW m, NEW to \in Nat, NEW at \in 0..Size, Grow(m, to, at),
           Fits(m) => InvOf(caps', m), caps' \in CapsType
    PROVE  Goes
<1>1. CASE Fits(m)
  BY <1>1 DEF Grow, Become, Continue, Goes, InvOf
<1>2. CASE ~Fits(m)
  BY <1>2, EndGoes DEF Grow, Final
<1>3. QED
  BY <1>1, <1>2

(* enterBackEdge, refused or not. *)
LEMMA BackEdgeGoes ==
    ASSUME IInv, NEW m, NEW to \in Nat, NEW at \in 0..Size, EnterBackEdge(m, to, at),
           InvOf(caps', m),
           m = [stack |-> m.stack, trail |-> m.trail, guards |-> m.guards,
                positions |-> m.positions, lookTop |-> m.lookTop]
    PROVE  Goes
<1>1. CASE Guarded(m, to, at)
  <2>1. Become(m) /\ phase' = "back" /\ pc' = pc /\ pos' = pos
    BY <1>1 DEF EnterBackEdge, Fail
  <2>2. QED
    BY <2>1 DEF Become, Goes, InvOf, IInv
<1>2. CASE ~Guarded(m, to, at)
  <2> DEFINE g  == [pc |-> to, pos |-> at]
             m2 == [m EXCEPT !.guards = Append(@, g)]
  <2>1. Grow(m2, to, at)
    BY <1>2 DEF EnterBackEdge
  <2>2. g \in GuardType
    BY DEF GuardType
  <2>3. /\ m2.stack = m.stack /\ m2.trail = m.trail /\ m2.guards = Append(m.guards, g)
        /\ m2.positions = m.positions /\ m2.lookTop = m.lookTop
    OBVIOUS
  <2> HIDE DEF g, m2
  <2>4. Inv(caps', m.stack, m.trail, Append(m.guards, g), m.positions, m.lookTop)
    BY <2>2, GuardInv DEF InvOf
  <2>5. InvOf(caps', m2)
    BY <2>3, <2>4 DEF InvOf
  <2>6. caps' \in CapsType
    BY DEF InvOf, Inv, Typed
  <2>7. QED
    BY <2>1, <2>5, <2>6, GrowGoes
<1>3. QED
  BY <1>1, <1>2

(* setCapture. *)
LEMMA CaptureGoes ==
    ASSUME IInv, NEW slot \in Slots, NEW value \in CaptureType, SetCapture(slot, value)
    PROVE  Goes
<1> DEFINE w == [slot |-> slot, prev |-> caps[slot]]
           m == [Stacks EXCEPT !.trail = Append(@, w)]
<1>1. /\ m.stack = stack /\ m.trail = Append(trail, w) /\ m.guards = guards
      /\ m.positions = positions /\ m.lookTop = lookTop
  BY DEF Stacks
<1>2. Grow(m, pc + 1, pos) /\ caps' = IF Fits(m) THEN [caps EXCEPT ![slot] = value] ELSE caps
  BY DEF SetCapture
<1>3. Inv([caps EXCEPT ![slot] = value], stack, Append(trail, w), guards, positions, lookTop)
  BY WriteInv DEF IInv
<1> HIDE DEF m, w
<1>4. InvOf([caps EXCEPT ![slot] = value], m)
  BY <1>1, <1>3 DEF InvOf
<1>5. caps' \in CapsType
  BY <1>2, Types DEF CapsType
<1>6. pc + 1 \in Nat /\ pos \in 0..Size
  BY DEF IInv
<1>7. QED
  BY <1>2, <1>4, <1>5, <1>6, GrowGoes

-----------------------------------------------------------------------------
(* Pushing. *)

(* A choicepoint at the present heights. *)
AtTop(c, ps) ==
    /\ c.trailH = Len(trail) /\ c.guardH = Len(guards) /\ c.posH = Len(ps)
    /\ c.lookTop = lookTop
    /\ c.saved = [caps |-> caps, guards |-> guards, positions |-> ps]

(* A new choicepoint has its type and the present heights. *)
LEMMA NewChoice ==
    ASSUME IInv, NEW kind \in Kinds, NEW to \in Nat, NEW at \in Nat,
           NEW ps \in Seq(0..Size)
    PROVE  LET c == Choice(kind, to, at, ps) IN
           /\ c \in ChoiceType /\ AtTop(c, ps)
           /\ c.kind = kind /\ c.pos = at /\ c.pc = to
<1>1. /\ Len(trail) \in Nat /\ Len(guards) \in Nat /\ Len(ps) \in Nat /\ lookTop \in Nat
  BY Types
<1>2. [caps |-> caps, guards |-> guards, positions |-> ps]
        \in [caps : CapsType, guards : Seq(GuardType), positions : Seq(0..Size)]
  BY Types
<1>3. QED
  BY <1>1, <1>2 DEF Choice, ChoiceType, AtTop

(* Fields that are no heights may be set. *)
LEMMA SetField ==
    ASSUME NEW c \in ChoiceType, NEW n \in Nat, NEW b \in BOOLEAN, NEW d \in BOOLEAN
    PROVE  /\ [c EXCEPT !.a = n] \in ChoiceType
           /\ [c EXCEPT !.back = b] \in ChoiceType
           /\ [c EXCEPT !.negated = b, !.anywhere = d] \in ChoiceType
           /\ [c EXCEPT !.pos = n] \in ChoiceType
  BY DEF ChoiceType

(* An alternative other than a greedy star's. *)
LEMMA PushPlain ==
    ASSUME IInv, NEW c \in ChoiceType, AtTop(c, positions), c.kind # "star_greedy",
           c.pos <= Size,
           c.kind = "star_lazy" => c.a \in DOMAIN Code /\ Code[c.a].op \in {"atom", "backref"}
    PROVE  Inv(caps, Append(stack, c), trail, guards, positions,
               IF c.kind = "look" THEN Len(stack) + 1 ELSE lookTop)
<1>1. Inv(caps, stack, trail, guards, positions, lookTop)
  BY DEF IInv
<1>2. /\ Floor(c) = Len(positions) /\ Base(c) = Len(positions)
      /\ c.saved.caps = caps /\ c.saved.guards = guards /\ c.saved.positions = positions
  BY DEF AtTop, Floor, Base
<1>3. Sound(c)
  BY <1>2, Types DEF Sound
<1>4. Placed(c, caps, trail, guards, positions)
  <2>1. UndoneIn(caps, trail, Len(trail)) = caps
    BY Types, UndoneNothing
  <2>2. Prefix(guards, Len(guards)) = guards
    BY Types, PrefixFull
  <2>3. Len(trail) \in Nat /\ Len(guards) \in Nat /\ Len(positions) \in Nat
    BY Types
  <2>4. QED
    BY <1>2, <2>1, <2>2, <2>3 DEF Placed, AtTop
<1>5. \A i \in 1..Len(stack) : Floor(stack[i]) <= Base(c)
  BY <1>1, <1>2 DEF Inv, Placed
<1>6. c.trailH = Len(trail) /\ c.guardH = Len(guards) /\ c.lookTop = lookTop
  BY DEF AtTop
<1>7. QED
  BY <1>1, <1>3, <1>4, <1>5, <1>6, PushInv

(* A greedy star's, above the ends it has recorded. *)
LEMMA PushStar ==
    ASSUME IInv, NEW qs \in Seq(0..Size), Len(qs) > 1,
           NEW c \in ChoiceType, AtTop(c, positions \o qs), c.kind = "star_greedy",
           c.pos = Len(positions \o qs) - 2, c.a = Len(positions)
    PROVE  Inv(caps, Append(stack, c), trail, guards, positions \o qs, lookTop)
<1> DEFINE ps == positions \o qs
<1>1. /\ Inv(caps, stack, trail, guards, ps, lookTop)
      /\ Inv(caps, stack, trail, guards, positions, lookTop)
  BY ExtendInv DEF IInv
<1>2. Len(ps) = Len(positions) + Len(qs) /\ Len(ps) \in Nat /\ Len(positions) \in Nat
  BY Types, ConcatProperties
<1> HIDE DEF ps
<1>3. /\ Floor(c) = Len(ps) /\ Base(c) = Len(positions)
      /\ c.saved.caps = caps /\ c.saved.guards = guards /\ c.saved.positions = ps
  BY <1>2 DEF AtTop, Floor, Base, ps
<1>4. Sound(c)
  BY <1>2, <1>3 DEF Sound, ps
<1>5. c.trailH = Len(trail) /\ c.guardH = Len(guards) /\ c.lookTop = lookTop
  BY DEF AtTop
<1>6. Placed(c, caps, trail, guards, ps)
  <2>1. UndoneIn(caps, trail, Len(trail)) = caps
    BY Types, UndoneNothing
  <2>2. Prefix(guards, Len(guards)) = guards
    BY Types, PrefixFull
  <2>3. Len(trail) \in Nat /\ Len(guards) \in Nat
    BY Types
  <2>4. QED
    BY <1>2, <1>3, <1>5, <2>1, <2>2, <2>3 DEF Placed
<1>7. \A i \in 1..Len(stack) : Floor(stack[i]) <= Base(c)
  BY <1>1, <1>3 DEF Inv, Placed
<1>8. Inv(caps, Append(stack, c), trail, guards, ps,
          IF c.kind = "look" THEN Len(stack) + 1 ELSE lookTop)
  BY <1>1, <1>4, <1>5, <1>6, <1>7, PushInv
<1>9. QED
  BY <1>8 DEF ps

-----------------------------------------------------------------------------
(* exec1: one lemma per action, or per group of actions. *)

(* Nor do they change the heights. *)
LEMMA AtTopField ==
    ASSUME NEW c \in ChoiceType, NEW ps, AtTop(c, ps), NEW n, NEW b, NEW d
    PROVE  /\ AtTop([c EXCEPT !.a = n], ps)
           /\ AtTop([c EXCEPT !.back = b], ps)
           /\ AtTop([c EXCEPT !.negated = b, !.anywhere = d], ps)
  BY DEF AtTop, ChoiceType

(* The budget runs out. *)
LEMMA StepLimitKeeps == ASSUME IInv, StepLimit PROVE Stays /\ Goes
<1>1. caps' \in CapsType /\ steps' \in Nat
  BY Types DEF StepLimit, IInv
<1>2. QED
  BY <1>1, EndGoes DEF StepLimit, Stays, Final, IInv

(* MATCH. *)
LEMMA MatchKeeps == ASSUME IInv, Match PROVE Stays /\ Goes
<1>1. caps' \in CapsType
  BY Types DEF Match
<1>2. QED
  BY <1>1, EndGoes, DispatchStays DEF Match, Final

(* The consuming opcodes. *)
LEMMA ConsumeKeeps == ASSUME IInv, Consume PROVE Stays /\ Goes
<1>1. PICK op \in {"atom", "backref"} :
         /\ Dispatch(op)
         /\ Test(AtomMatches(caps, Inst, pos), pc + 1, pos + Stride(caps, Inst))
  BY DEF Consume
<1>2. Stays /\ pc \in DOMAIN Code /\ Inst.op = op
  BY <1>1, DispatchStays
<1>3. CallOK /\ caps \in CapsType /\ pos \in 0..Size /\ pc \in Nat
  BY Types DEF IInv
<1>4. Repeatable(Inst)
  BY <1>2, <1>3, AtomInstruction DEF Inst
<1>5. AtomMatches(caps, Inst, pos) => pos + Stride(caps, Inst) \in 0..Size
  BY <1>3, <1>4, AtomStays
<1>6. Goes
  <2> DEFINE holds == AtomMatches(caps, Inst, pos)
             at    == pos + Stride(caps, Inst)
  <2>1. Test(holds, pc + 1, at) /\ (holds => pc + 1 \in Nat /\ at \in 0..Size)
    BY <1>1, <1>3, <1>5
  <2> HIDE DEF holds, at
  <2>2. QED
    BY <2>1, TestGoes
<1>7. QED
  BY <1>2, <1>6

(* GOTO, a backward one through the loop guard. *)
LEMMA GoToKeeps == ASSUME IInv, GoTo PROVE Stays /\ Goes
<1>1. Stays /\ Inst.op = "goto" /\ WellFormed(Prog, pc) /\ Prog.code[pc] = Inst /\ caps' = caps
  BY DispatchStays DEF GoTo
<1>2. Inst.to \in Nat /\ pos \in 0..Size
  BY <1>1 DEF WellFormed, IInv
<1>3. CASE Inst.to < pc
  <2>1. EnterBackEdge(Stacks, Inst.to, pos)
    BY <1>3 DEF GoTo
  <2>2. /\ InvOf(caps', Stacks)
        /\ Stacks = [stack |-> Stacks.stack, trail |-> Stacks.trail,
                     guards |-> Stacks.guards, positions |-> Stacks.positions,
                     lookTop |-> Stacks.lookTop]
    BY <1>1 DEF InvOf, Stacks, IInv
  <2>3. QED
    BY <1>1, <1>2, <2>1, <2>2, BackEdgeGoes
<1>4. CASE ~(Inst.to < pc)
  <2>1. Continue(Inst.to, pos) /\ Become(Stacks)
    BY <1>4 DEF GoTo
  <2>2. QED
    BY <1>1, <1>2, <2>1, SameInv DEF Continue, Goes
<1>5. QED
  BY <1>3, <1>4

(* The loop a star split heads is an atom's. *)
LEMMA StarFacts ==
    ASSUME IInv, NEW kind, Dispatch(kind), kind = "split", IsStar
    PROVE  /\ StarAtom \in DOMAIN Code /\ StarAtom \in Nat /\ StarRest \in Nat
           /\ Code[StarAtom].op \in {"atom", "backref"}
           /\ Repeatable(Code[StarAtom])
<1>1. Inst.op = "split" /\ WellFormed(Prog, pc) /\ Prog.code[pc] = Inst
  BY DispatchStays
<1>2. Inst.x \in Nat /\ Inst.y \in Nat
  BY <1>1 DEF WellFormed
<1>3. ConsumePath(pc, StarAtom) /\ StarAtom \in Nat /\ StarRest \in Nat
  BY <1>2 DEF IsStar, StarAtom, StarRest
<1>4. StarAtom \in DOMAIN Code /\ Code[StarAtom].op \in {"atom", "backref"}
  BY <1>3 DEF ConsumePath
<1>5. CallOK
  BY DEF IInv
<1>6. QED
  BY <1>3, <1>4, <1>5, AtomInstruction

(* SPLIT heading a possessive atom loop. *)
LEMMA SplitStarPossessiveKeeps == ASSUME IInv, SplitStarPossessive PROVE Stays /\ Goes
<1> DEFINE ends == Ends(Code[StarAtom], pos)
<1>1. Dispatch("split") /\ IsStar /\ Test(TRUE, StarRest, ends[Len(ends)])
  BY DEF SplitStarPossessive
<1>2. Repeatable(Code[StarAtom]) /\ StarRest \in Nat
  BY <1>1, StarFacts
<1>3. ends[Len(ends)] \in 0..Size
  BY <1>2, Types, EndsInSubject DEF IInv
<1> HIDE DEF ends
<1>4. Goes
  BY <1>1, <1>2, <1>3, TestGoes
<1>5. QED
  BY <1>1, <1>4, DispatchStays

(* SPLIT heading a lazy atom loop. *)
LEMMA SplitStarLazyKeeps == ASSUME IInv, SplitStarLazy PROVE Stays /\ Goes
<1> DEFINE c0 == Choice("star_lazy", StarRest, pos, positions)
           c  == [c0 EXCEPT !.a = StarAtom]
           m  == [Stacks EXCEPT !.stack = Append(@, c)]
<1>1. Dispatch("split") /\ IsStar /\ Grow(m, StarRest, pos) /\ caps' = caps
  BY DEF SplitStarLazy
<1>2. /\ StarAtom \in DOMAIN Code /\ StarAtom \in Nat /\ StarRest \in Nat
      /\ Code[StarAtom].op \in {"atom", "backref"}
  BY <1>1, StarFacts
<1>3. pos \in 0..Size /\ pos \in Nat /\ pos <= Size /\ caps \in CapsType
  BY Types, CallFacts DEF IInv
<1>4. c0 \in ChoiceType /\ AtTop(c0, positions) /\ c0.kind = "star_lazy" /\ c0.pos = pos
  <2>1. "star_lazy" \in Kinds /\ positions \in Seq(0..Size)
    BY Types DEF Kinds
  <2>2. QED
    BY <1>2, <1>3, <2>1, NewChoice
<1> HIDE DEF c0
<1>5. /\ c \in ChoiceType /\ AtTop(c, positions) /\ c.kind = "star_lazy"
      /\ c.pos = pos /\ c.a = StarAtom
  <2>1. c \in ChoiceType /\ AtTop(c, positions)
    BY <1>2, <1>4, SetField, AtTopField
  <2>2. QED
    BY <1>4, <2>1 DEF ChoiceType
<1>6. /\ m.stack = Append(stack, c) /\ m.trail = trail /\ m.guards = guards
      /\ m.positions = positions /\ m.lookTop = lookTop
  BY DEF Stacks
<1> HIDE DEF c, m
<1>7. Inv(caps, Append(stack, c), trail, guards, positions,
          IF c.kind = "look" THEN Len(stack) + 1 ELSE lookTop)
  BY <1>2, <1>3, <1>5, PushPlain
<1>8. InvOf(caps', m)
  BY <1>1, <1>5, <1>6, <1>7 DEF InvOf
<1>9. Goes
  BY <1>1, <1>2, <1>3, <1>8, GrowGoes
<1>10. QED
  BY <1>1, <1>9, DispatchStays

(* SPLIT heading a greedy atom loop. *)
LEMMA SplitStarGreedyKeeps == ASSUME IInv, SplitStarGreedy PROVE Stays /\ Goes
<1> DEFINE ends == Ends(Code[StarAtom], pos)
           ps   == positions \o ends
           c0   == Choice("star_greedy", StarRest, Len(ps) - 2, ps)
           c    == [c0 EXCEPT !.a = Len(positions)]
           st   == IF Len(ends) > 1 THEN Append(stack, c) ELSE stack
           m    == [Stacks EXCEPT !.stack = st, !.positions = ps]
<1>1. Dispatch("split") /\ IsStar /\ Grow(m, StarRest, ends[Len(ends)]) /\ caps' = caps
  BY DEF SplitStarGreedy
<1>2. Repeatable(Code[StarAtom]) /\ StarRest \in Nat
  BY <1>1, StarFacts
<1>3. /\ ends \in Seq(0..Size) /\ Len(ends) \in Nat \ {0} /\ ends[Len(ends)] \in 0..Size
      /\ caps \in CapsType
  BY <1>2, Types, EndsInSubject DEF IInv
<1> HIDE DEF ends
<1>4. /\ ps \in Seq(0..Size) /\ Len(ps) = Len(positions) + Len(ends)
      /\ Len(positions) \in Nat
  BY <1>3, Types, ConcatProperties
<1>5. /\ m.stack = st /\ m.trail = trail /\ m.guards = guards
      /\ m.positions = ps /\ m.lookTop = lookTop
  BY DEF Stacks
<1>6. CASE Len(ends) > 1
  <2>1. Len(ps) - 2 \in Nat
    BY <1>4, <1>6
  <2>2. c0 \in ChoiceType /\ AtTop(c0, ps) /\ c0.kind = "star_greedy" /\ c0.pos = Len(ps) - 2
    <3> HIDE DEF ps
    <3>1. "star_greedy" \in Kinds
      BY DEF Kinds
    <3>2. QED
      BY <1>2, <1>4, <2>1, <3>1, NewChoice
  <2> HIDE DEF c0
  <2>3. c \in ChoiceType /\ AtTop(c, ps)
    <3> HIDE DEF ps
    <3>1. QED
      BY <1>4, <2>2, SetField, AtTopField
  <2>4. c.kind = "star_greedy" /\ c.pos = Len(ps) - 2 /\ c.a = Len(positions)
    BY <2>2 DEF ChoiceType
  <2> HIDE DEF c
  <2>5. Inv(caps, Append(stack, c), trail, guards, ps, lookTop)
    BY <1>3, <1>6, <2>3, <2>4, PushStar
  <2>6. st = Append(stack, c)
    BY <1>6
  <2> HIDE DEF st, m, ps
  <2>7. InvOf(caps', m)
    BY <1>1, <1>5, <2>5, <2>6 DEF InvOf
  <2>8. Goes
    BY <1>1, <1>2, <1>3, <2>7, GrowGoes
  <2>9. QED
    BY <1>1, <2>8, DispatchStays
<1>7. CASE ~(Len(ends) > 1)
  <2>1. st = stack
    BY <1>7
  <2>2. Inv(caps, stack, trail, guards, ps, lookTop)
    BY <1>3, ExtendInv DEF IInv
  <2> HIDE DEF st, m, ps
  <2>3. InvOf(caps', m)
    BY <1>1, <1>5, <2>1, <2>2 DEF InvOf
  <2>4. Goes
    BY <1>1, <1>2, <1>3, <2>3, GrowGoes
  <2>5. QED
    BY <1>1, <2>4, DispatchStays
<1>8. QED
  BY <1>6, <1>7

(* Any other SPLIT. *)
LEMMA SplitAlternativeKeeps == ASSUME IInv, SplitAlternative PROVE Stays /\ Goes
<1> DEFINE c0 == Choice("alt", Inst.y, pos, positions)
           c  == [c0 EXCEPT !.back = Inst.y < pc]
           m  == [Stacks EXCEPT !.stack = Append(@, c)]
<1>1. /\ Dispatch("split") /\ caps' = caps
      /\ IF Inst.x < pc /\ Fits(m) THEN EnterBackEdge(m, Inst.x, pos)
         ELSE Grow(m, Inst.x, pos)
  BY DEF SplitAlternative
<1>2. Inst.op = "split" /\ WellFormed(Prog, pc) /\ Prog.code[pc] = Inst /\ Stays
  BY <1>1, DispatchStays
<1>3. Inst.x \in Nat /\ Inst.y \in Nat
  BY <1>2 DEF WellFormed
<1>4. pos \in 0..Size /\ pos \in Nat /\ pos <= Size /\ caps \in CapsType
  BY Types, CallFacts DEF IInv
<1>5. c0 \in ChoiceType /\ AtTop(c0, positions) /\ c0.kind = "alt" /\ c0.pos = pos
  <2>1. "alt" \in Kinds /\ positions \in Seq(0..Size)
    BY Types DEF Kinds
  <2>2. QED
    BY <1>3, <1>4, <2>1, NewChoice
<1> HIDE DEF c0
<1>6. c \in ChoiceType /\ AtTop(c, positions) /\ c.kind = "alt" /\ c.pos = pos
  <2> DEFINE b == Inst.y < pc
  <2>1. b \in BOOLEAN /\ c = [c0 EXCEPT !.back = b]
    OBVIOUS
  <2> HIDE DEF b, c
  <2>2. c \in ChoiceType /\ AtTop(c, positions)
    BY <1>5, <2>1, SetField, AtTopField
  <2>3. QED
    BY <1>5, <2>1, <2>2 DEF ChoiceType
<1>7. /\ m.stack = Append(stack, c) /\ m.trail = trail /\ m.guards = guards
      /\ m.positions = positions /\ m.lookTop = lookTop
      /\ m = [stack |-> m.stack, trail |-> m.trail, guards |-> m.guards,
              positions |-> m.positions, lookTop |-> m.lookTop]
  <2>1. m = [stack |-> Append(stack, c), trail |-> trail, guards |-> guards,
             positions |-> positions, lookTop |-> lookTop]
    BY DEF Stacks
  <2> HIDE DEF m
  <2>2. QED
    BY <2>1
<1> HIDE DEF c, m
<1>8. Inv(caps, Append(stack, c), trail, guards, positions,
          IF c.kind = "look" THEN Len(stack) + 1 ELSE lookTop)
  BY <1>4, <1>6, PushPlain
<1>9. InvOf(caps', m)
  BY <1>1, <1>6, <1>7, <1>8 DEF InvOf
<1>10. CASE Inst.x < pc /\ Fits(m)
  BY <1>1, <1>2, <1>3, <1>4, <1>7, <1>9, <1>10, BackEdgeGoes
<1>11. CASE ~(Inst.x < pc /\ Fits(m))
  BY <1>1, <1>2, <1>3, <1>4, <1>9, <1>11, GrowGoes
<1>12. QED
  BY <1>10, <1>11

(* SAVE_START and SAVE_END. *)
LEMMA SaveEdgeKeeps == ASSUME IInv, SaveEdge PROVE Stays /\ Goes
<1> DEFINE g == Inst.group
           v == IF Inst.edge = "start" THEN [caps[g] EXCEPT !.start = pos]
                                       ELSE [caps[g] EXCEPT !.end = pos]
<1>1. Dispatch("save") /\ SetCapture(g, v)
  BY DEF SaveEdge
<1>2. Inst.op = "save" /\ WellFormed(Prog, pc) /\ Prog.code[pc] = Inst /\ Stays
  BY <1>1, DispatchStays
<1>3. g \in Slots
  BY <1>2, CallFacts DEF WellFormed, Slots, IInv, Prog
<1>4. v \in CaptureType
  <2>1. caps[g] \in CaptureType /\ pos \in Nat
    BY <1>3, Types, CallFacts DEF CapsType, IInv
  <2> HIDE DEF g
  <2>2. QED
    BY <2>1 DEF CaptureType, Edge
<1> HIDE DEF g, v
<1>5. QED
  BY <1>1, <1>2, <1>3, <1>4, CaptureGoes

(* CLEAR_CAPTURE. *)
LEMMA ClearCaptureKeeps == ASSUME IInv, ClearCapture PROVE Stays /\ Goes
<1>1. Dispatch("clear") /\ SetCapture(Inst.group, Unset)
  BY DEF ClearCapture
<1>2. Inst.op = "clear" /\ WellFormed(Prog, pc) /\ Prog.code[pc] = Inst /\ Stays
  BY <1>1, DispatchStays
<1>3. Inst.group \in Slots
  BY <1>2, CallFacts DEF WellFormed, Slots, IInv, Prog
<1>4. Unset \in CaptureType
  BY DEF Unset, CaptureType, Edge
<1>5. QED
  BY <1>1, <1>2, <1>3, <1>4, CaptureGoes

(* REPEAT_MARK. *)
LEMMA RepeatMarkKeeps == ASSUME IInv, RepeatMark PROVE Stays /\ Goes
<1> DEFINE v == [Unset EXCEPT !.start = pos]
<1>1. Dispatch("mark") /\ SetCapture(MarkSlot(Inst.mark), v)
  BY DEF RepeatMark
<1>2. Inst.op = "mark" /\ WellFormed(Prog, pc) /\ Prog.code[pc] = Inst /\ Stays
  BY <1>1, DispatchStays
<1>3. MarkSlot(Inst.mark) \in Slots
  <2>1. Inst.mark \in 0..(Prog.marks - 1)
    BY <1>2 DEF WellFormed
  <2>2. Prog.groups \in Nat /\ Prog.marks \in Nat
    BY CallFacts DEF IInv
  <2>3. QED
    BY <2>1, <2>2 DEF MarkSlot, Slots
<1>4. v \in CaptureType
  <2>1. pos \in Nat
    BY CallFacts DEF IInv
  <2>2. QED
    BY <2>1 DEF Unset, CaptureType, Edge
<1> HIDE DEF v
<1>5. QED
  BY <1>1, <1>2, <1>3, <1>4, CaptureGoes

(* REPEAT_CHECK. *)
LEMMA RepeatCheckKeeps == ASSUME IInv, RepeatCheck PROVE Stays /\ Goes
<1> DEFINE holds == caps[MarkSlot(Inst.mark)].start # pos
<1>1. Dispatch("check") /\ Test(holds, pc + 1, pos)
  BY DEF RepeatCheck
<1>2. pc + 1 \in Nat /\ pos \in 0..Size
  BY DEF IInv
<1> HIDE DEF holds
<1>3. QED
  BY <1>1, <1>2, TestGoes, DispatchStays

(* The zero-width assertions. *)
LEMMA AssertionKeeps == ASSUME IInv, Assertion PROVE Stays /\ Goes
<1> DEFINE holds == AssertHolds(Inst.kind)
<1>1. Dispatch("assert") /\ Test(holds, pc + 1, pos)
  BY DEF Assertion
<1>2. pc + 1 \in Nat /\ pos \in 0..Size
  BY DEF IInv
<1> HIDE DEF holds
<1>3. QED
  BY <1>1, <1>2, TestGoes, DispatchStays

(* Every lookaround has its END. *)
LEMMA LookEndNat ==
    ASSUME CallOK, NEW from \in Nat, NEW behind,
           \E e \in from..Len(Code) : Balanced(Code, from, e, behind)
    PROVE  LookEndOf(from, behind) \in Nat
<1> DEFINE T == {e \in from..Len(Code) : Balanced(Code, from, e, behind)}
<1>1. T \subseteq Nat /\ T # {} /\ Len(Code) \in Nat
  BY CallFacts
<1>2. PICK n \in T : \A m \in T : n <= m
  BY <1>1, LeastNat
<1>3. /\ n \in from..Len(Code) /\ Balanced(Code, from, n, behind)
      /\ \A f \in from..(n - 1) : ~Balanced(Code, from, f, behind)
  <2>1. n \in Nat /\ n <= Len(Code)
    BY <1>1, <1>2
  <2>2. \A f \in from..(n - 1) : f \in from..Len(Code) /\ ~(n <= f)
    BY <1>1, <2>1
  <2>3. QED
    BY <1>2, <2>2
<1>4. LookEndOf(from, behind) \in from..Len(Code)
  BY <1>3 DEF LookEndOf
<1>5. QED
  BY <1>1, <1>4

(* LOOKAHEAD and LOOKBEHIND. *)
LEMMA LookBeginKeeps == ASSUME IInv, LookBegin PROVE Stays /\ Goes
<1> DEFINE behind == Inst.dir # "ahead"
           after  == LookEndOf(pc + 1, behind) + 1
           from   == IF Inst.dir = "fixed" THEN pos - Inst.len ELSE pos
           c0     == Choice("look", after, pos, positions)
           neg    == Inst.negated
           any    == Inst.dir = "behind"
           c      == [c0 EXCEPT !.negated = neg, !.anywhere = any]
           m      == [Stacks EXCEPT !.stack = Append(@, c), !.lookTop = Len(stack) + 1]
<1>1. /\ Dispatch("look")
      /\ IF from < 0 THEN Test(neg, after, pos)
         ELSE Grow(m, pc + 1, from) /\ caps' = caps
  BY DEF LookBegin
<1>2. Inst.op = "look" /\ WellFormed(Prog, pc) /\ Prog.code[pc] = Inst /\ Stays
  BY <1>1, DispatchStays
<1>3. /\ neg \in BOOLEAN /\ any \in BOOLEAN /\ Inst.len \in Nat
      /\ \E e \in (pc + 1)..Len(Code) : Balanced(Code, pc + 1, e, behind)
  BY <1>2 DEF WellFormed, Code
<1>4. /\ CallOK /\ pc \in Nat /\ pc + 1 \in Nat /\ pos \in 0..Size /\ Size \in Nat
      /\ pos \in Nat /\ pos <= Size /\ caps \in CapsType
  BY Types, CallFacts DEF IInv
<1>5. after \in Nat
  <2> HIDE DEF behind
  <2>1. LookEndOf(pc + 1, behind) \in Nat
    BY <1>3, <1>4, LookEndNat
  <2>2. QED
    BY <2>1
<1>6. from \in Int /\ from <= Size
  BY <1>3, <1>4
<1> HIDE DEF behind, after, from, neg, any
<1>7. c0 \in ChoiceType /\ AtTop(c0, positions) /\ c0.kind = "look" /\ c0.pos = pos
  <2>1. "look" \in Kinds /\ positions \in Seq(0..Size)
    BY Types DEF Kinds
  <2>2. QED
    BY <1>4, <1>5, <2>1, NewChoice
<1> HIDE DEF c0
<1>8. c \in ChoiceType /\ AtTop(c, positions) /\ c.kind = "look" /\ c.pos = pos
  <2>1. c \in ChoiceType /\ AtTop(c, positions)
    BY <1>3, <1>7, SetField, AtTopField
  <2>2. QED
    BY <1>7, <2>1 DEF ChoiceType
<1> HIDE DEF c
<1>9. /\ m.stack = Append(stack, c) /\ m.trail = trail /\ m.guards = guards
      /\ m.positions = positions /\ m.lookTop = Len(stack) + 1
  BY DEF Stacks
<1> HIDE DEF m
<1>10. Inv(caps, Append(stack, c), trail, guards, positions,
           IF c.kind = "look" THEN Len(stack) + 1 ELSE lookTop)
  BY <1>4, <1>8, PushPlain
<1>11. CASE from < 0
  BY <1>1, <1>2, <1>4, <1>5, <1>11, TestGoes
<1>12. CASE ~(from < 0)
  <2>1. Grow(m, pc + 1, from) /\ caps' = caps /\ from \in 0..Size
    BY <1>1, <1>4, <1>6, <1>12
  <2>2. InvOf(caps', m)
    BY <1>8, <1>9, <1>10, <2>1 DEF InvOf
  <2>3. QED
    BY <1>2, <1>4, <2>1, <2>2, GrowGoes
<1>13. QED
  BY <1>11, <1>12

(* What the choicepoint at `idx` says of those under it. *)
LEMMA ChoiceAt ==
    ASSUME IInv, NEW idx \in 1..Len(stack)
    PROVE  /\ stack[idx] \in ChoiceType /\ Sound(stack[idx])
           /\ Placed(stack[idx], caps, trail, guards, positions)
           /\ Base(stack[idx]) \in Nat /\ Base(stack[idx]) <= Floor(stack[idx])
           /\ Floor(stack[idx]) \in 0..Len(positions)
           /\ stack[idx].kind # "star_greedy" => stack[idx].posH = Floor(stack[idx])
           /\ stack[idx].trailH \in 0..Len(trail)
           /\ \A n \in Nat : Base(stack[idx]) <= n =>
                 \A i \in 1..(idx - 1) : Floor(stack[i]) <= n
<1>1. Inv(caps, stack, trail, guards, positions, lookTop) /\ Len(stack) \in Nat
  BY Types DEF IInv
<1>2. /\ stack[idx] \in ChoiceType /\ Sound(stack[idx])
      /\ Placed(stack[idx], caps, trail, guards, positions)
  BY <1>1 DEF Inv, Typed
<1>3. /\ stack[idx].trailH \in Nat /\ Floor(stack[idx]) \in Nat
      /\ Base(stack[idx]) \in Nat /\ stack[idx].pos \in Nat /\ stack[idx].a \in Nat
  BY <1>2, ChoiceFields
<1>4. Base(stack[idx]) <= Floor(stack[idx])
  BY <1>2, <1>3 DEF Sound, Base, Floor
<1>5. ASSUME NEW n \in Nat, Base(stack[idx]) <= n, NEW i \in 1..(idx - 1)
      PROVE  Floor(stack[i]) <= n
  <2>1. i \in 1..Len(stack) /\ i < idx
    BY <1>1
  <2>2. Floor(stack[i]) <= Base(stack[idx])
    BY <1>1, <2>1 DEF Inv, Under
  <2>3. Floor(stack[i]) \in Nat
    <3>1. stack[i] \in ChoiceType
      BY <1>1, <2>1 DEF Inv, Typed
    <3>2. QED
      BY <3>1, ChoiceFields
  <2>4. QED
    BY <1>3, <1>5, <2>2, <2>3
<1>6. Len(trail) \in Nat /\ Len(positions) \in Nat
  BY Types
<1>7. QED
  BY <1>2, <1>3, <1>4, <1>5, <1>6 DEF Placed, Floor

(* A lookaround's END, or its body's failure, closes it: down to its       *)
(* barrier, with the captures undone or kept.                              *)
LEMMA CutUndone ==
    ASSUME IInv, NEW idx \in 1..Len(stack), stack[idx].kind = "look",
           caps' = Undone(stack[idx].trailH),
           Become(CutTo(idx, Prefix(trail, stack[idx].trailH)))
    PROVE  Inv(caps', stack', trail', guards', positions', lookTop')
<1>1. /\ stack' = Prefix(stack, idx - 1) /\ trail' = Prefix(trail, stack[idx].trailH)
      /\ guards' = Prefix(guards, stack[idx].guardH)
      /\ positions' = Prefix(positions, stack[idx].posH)
      /\ lookTop' = stack[idx].lookTop
  BY DEF Become, CutTo
<1>2. /\ stack[idx].posH \in 0..Len(positions)
      /\ \A i \in 1..(idx - 1) : Floor(stack[i]) <= stack[idx].posH
  BY ChoiceAt
<1>3. Inv(caps, stack, trail, guards, positions, lookTop)
  BY DEF IInv
<1>4. QED
  BY <1>1, <1>2, <1>3, UndoInv DEF Undone

(* The same, keeping the captures. *)
LEMMA CutKept ==
    ASSUME IInv, NEW idx \in 1..Len(stack), stack[idx].kind = "look",
           caps' = caps, Become(CutTo(idx, trail))
    PROVE  Inv(caps', stack', trail', guards', positions', lookTop')
<1>1. /\ stack' = Prefix(stack, idx - 1) /\ trail' = trail
      /\ guards' = Prefix(guards, stack[idx].guardH)
      /\ positions' = Prefix(positions, stack[idx].posH)
      /\ lookTop' = stack[idx].lookTop
  BY DEF Become, CutTo
<1>2. /\ stack[idx].posH \in 0..Len(positions)
      /\ \A i \in 1..(idx - 1) : Floor(stack[i]) <= stack[idx].posH
  BY ChoiceAt
<1>3. Inv(caps, stack, trail, guards, positions, lookTop)
  BY DEF IInv
<1>4. QED
  BY <1>1, <1>2, <1>3, KeepInv

(* The barrier an END closes is on the stack. *)
LEMMA BarrierThere ==
    ASSUME IInv, NEW negated, LookEnd(negated)
    PROVE  /\ Stays /\ lookTop \in 1..Len(stack) /\ Barrier.kind = "look"
           /\ Barrier.pc \in Nat /\ Barrier.pos \in 0..Size
<1>1. Stays /\ lookTop # 0
  BY DispatchStays DEF LookEnd
<1>2. lookTop \in 1..Len(stack)
  BY <1>1, Types
<1>3. Barrier.kind = "look"
  BY <1>1 DEF IInv, Inv, InnermostOf, Barrier
<1>4. Barrier \in ChoiceType /\ Sound(Barrier)
  BY <1>2, ChoiceAt DEF Barrier
<1>5. Barrier.pc \in Nat /\ Barrier.pos \in Nat /\ Size \in Nat
  BY <1>4, ChoiceFields, CallFacts DEF IInv
<1>6. QED
  BY <1>1, <1>2, <1>3, <1>4, <1>5 DEF Sound

(* END of a negative lookaround. *)
LEMMA LookEndNegativeKeeps == ASSUME IInv, LookEndNegative PROVE Stays /\ Goes
<1>1. /\ Stays /\ lookTop \in 1..Len(stack) /\ stack[lookTop].kind = "look"
  BY BarrierThere DEF LookEndNegative, Barrier
<1>2. CASE Misses
  <2>1. Test(FALSE, pc, pos)
    BY <1>2 DEF LookEndNegative
  <2>2. QED
    BY <1>1, <2>1, TestGoes
<1>3. CASE ~Misses
  <2>1. /\ caps' = Undone(stack[lookTop].trailH)
        /\ Become(CutTo(lookTop, Prefix(trail, stack[lookTop].trailH)))
        /\ Fail
    BY <1>3 DEF LookEndNegative, Barrier
  <2>2. Inv(caps', stack', trail', guards', positions', lookTop')
    BY <1>1, <2>1, CutUndone
  <2>3. QED
    BY <1>1, <2>1, <2>2 DEF Fail, Goes, IInv
<1>4. QED
  BY <1>2, <1>3

(* END of a positive lookaround. *)
LEMMA LookEndPositiveKeeps == ASSUME IInv, LookEndPositive PROVE Stays /\ Goes
<1>1. /\ Stays /\ lookTop \in 1..Len(stack) /\ stack[lookTop].kind = "look"
      /\ Barrier.pc \in Nat /\ Barrier.pos \in 0..Size
  BY BarrierThere DEF LookEndPositive, Barrier
<1>2. CASE Misses
  <2>1. Test(FALSE, pc, pos)
    BY <1>2 DEF LookEndPositive
  <2>2. QED
    BY <1>1, <2>1, TestGoes
<1>3. CASE ~Misses
  <2>1. /\ caps' = caps /\ Become(CutTo(lookTop, trail))
        /\ Continue(Barrier.pc, Barrier.pos)
    BY <1>3 DEF LookEndPositive
  <2>2. Inv(caps', stack', trail', guards', positions', lookTop')
    BY <1>1, <2>1, CutKept
  <2>3. QED
    BY <1>1, <2>1, <2>2 DEF Continue, Goes
<1>4. QED
  BY <1>2, <1>3

-----------------------------------------------------------------------------
(* backtrack: one lemma per kind of alternative. *)

(* What is known of the newest alternative when it is resumed. *)
LEMMA ResumeFacts ==
    ASSUME IInv, NEW kind, Resume(kind)
    PROVE  /\ Stays /\ Len(stack) \in 1..Len(stack) /\ Top = stack[Len(stack)]
           /\ Top.kind = kind /\ caps' = UndoneIn(caps, trail, Top.trailH)
           /\ Top \in ChoiceType /\ Sound(Top) /\ caps' \in CapsType
           /\ Top.pc \in Nat /\ Top.pos \in Nat
<1>1. /\ Stays /\ stack # <<>> /\ Top.kind = kind
      /\ caps' = UndoneIn(caps, trail, Top.trailH)
  BY DEF Resume, Stays, IInv, Undone
<1>2. Len(stack) \in 1..Len(stack)
  BY <1>1, Types, EmptySeq
<1>3. Top = stack[Len(stack)] /\ Top \in ChoiceType /\ Sound(Top)
  BY <1>2, ChoiceAt DEF Top
<1>4. Top.pc \in Nat /\ Top.pos \in Nat /\ Top.trailH \in Nat
  BY <1>3, ChoiceFields
<1>5. caps' \in CapsType
  BY <1>1, <1>4, Types, UndoneType
<1>6. QED
  BY <1>1, <1>2, <1>3, <1>4, <1>5

(* The stacks once the newest alternative is off, with the positions of n. *)
LEMMA PopInv ==
    ASSUME IInv, NEW kind, Resume(kind), NEW n \in 0..Len(positions), Base(Top) <= n
    PROVE  InvOf(caps', Resumed(Below, Prefix(positions, n)))
<1> DEFINE idx == Len(stack)
<1>1. idx \in 1..Len(stack) /\ Top = stack[idx] /\ caps' = UndoneIn(caps, trail, Top.trailH)
  BY ResumeFacts
<1>2. Inv(caps, stack, trail, guards, positions, lookTop)
  BY DEF IInv
<1>3. n \in Nat
  BY Types
<1>4. \A i \in 1..(idx - 1) : Floor(stack[i]) <= n
  BY <1>1, <1>3, ChoiceAt
<1> HIDE DEF idx
<1>5. Inv(UndoneIn(caps, trail, stack[idx].trailH), Prefix(stack, idx - 1),
          Prefix(trail, stack[idx].trailH), Prefix(guards, stack[idx].guardH),
          Prefix(positions, n), stack[idx].lookTop)
  BY <1>1, <1>2, <1>4, UndoInv
<1>6. QED
  BY <1>1, <1>5 DEF InvOf, Resumed, Below, idx

(* An alternative is resumed. *)
LEMMA ResumeAltKeeps == ASSUME IInv, ResumeAlt PROVE Stays /\ Goes
<1> DEFINE m == Resumed(Below, Prefix(positions, Top.posH))
<1>1. /\ Resume("alt")
      /\ IF Top.back THEN EnterBackEdge(m, Top.pc, Top.pos)
         ELSE Become(m) /\ Continue(Top.pc, Top.pos)
  BY DEF ResumeAlt
<1>2. /\ Stays /\ Len(stack) \in 1..Len(stack) /\ Top = stack[Len(stack)]
      /\ Top.kind = "alt" /\ Top.pc \in Nat /\ Top.pos \in Nat /\ Sound(Top)
  BY <1>1, ResumeFacts
<1>3. Top.pos \in 0..Size
  BY <1>2, CallFacts DEF Sound, IInv
<1>4. Top.posH \in 0..Len(positions) /\ Base(Top) <= Top.posH
  BY <1>2, ChoiceAt
<1>5. InvOf(caps', m)
  BY <1>1, <1>4, PopInv
<1>6. m = [stack |-> m.stack, trail |-> m.trail, guards |-> m.guards,
           positions |-> m.positions, lookTop |-> m.lookTop]
  BY DEF Resumed
<1> HIDE DEF m
<1>7. CASE Top.back
  BY <1>1, <1>2, <1>3, <1>5, <1>6, <1>7, BackEdgeGoes
<1>8. CASE ~Top.back
  <2>1. Become(m) /\ Continue(Top.pc, Top.pos)
    BY <1>1, <1>8
  <2>2. QED
    BY <1>2, <1>3, <1>5, <2>1 DEF Become, Continue, InvOf, Goes
<1>9. QED
  BY <1>7, <1>8

(* A lookaround's body has failed. *)
LEMMA ResumeLookKeeps == ASSUME IInv, ResumeLook PROVE Stays /\ Goes
<1>1. /\ Resume("look") /\ Become(CutTo(Len(stack), Prefix(trail, Top.trailH)))
      /\ IF Top.negated THEN Continue(Top.pc, Top.pos) ELSE Fail
  BY DEF ResumeLook
<1>2. /\ Stays /\ Len(stack) \in 1..Len(stack) /\ Top = stack[Len(stack)]
      /\ Top.kind = "look" /\ Top.pc \in Nat /\ Top.pos \in Nat /\ Sound(Top)
      /\ caps' = Undone(Top.trailH)
  BY <1>1, ResumeFacts DEF Undone
<1>3. Top.pos \in 0..Size
  BY <1>2, CallFacts DEF Sound, IInv
<1>4. Inv(caps', stack', trail', guards', positions', lookTop')
  <2> DEFINE idx == Len(stack)
  <2>1. /\ idx \in 1..Len(stack) /\ stack[idx].kind = "look"
        /\ caps' = Undone(stack[idx].trailH)
        /\ Become(CutTo(idx, Prefix(trail, stack[idx].trailH)))
    BY <1>1, <1>2
  <2> HIDE DEF idx
  <2>2. QED
    BY <2>1, CutUndone
<1>5. CASE Top.negated
  BY <1>1, <1>2, <1>3, <1>4, <1>5 DEF Continue, Goes
<1>6. CASE ~Top.negated
  BY <1>1, <1>2, <1>4, <1>6 DEF Fail, Goes, IInv
<1>7. QED
  BY <1>5, <1>6

(* The newest alternative put back with another position of its own. *)
LEMMA PushBackInv ==
    ASSUME IInv, NEW kind, Resume(kind), NEW n \in 0..Len(positions), Base(Top) <= n,
           NEW c \in ChoiceType, Sound(c), c.kind = Top.kind, c.kind # "look",
           c.trailH = Top.trailH, c.guardH = Top.guardH, c.lookTop = Top.lookTop,
           c.saved = Top.saved, Base(c) = Base(Top),
           Floor(c) <= n, Floor(c) <= Floor(Top)
    PROVE  InvOf(caps', Resumed(Append(Below, c), Prefix(positions, n)))
<1> DEFINE tr2 == Prefix(trail, Top.trailH)
           gs2 == Prefix(guards, Top.guardH)
           ps2 == Prefix(positions, n)
<1>1. Inv(caps', Below, tr2, gs2, ps2, Top.lookTop)
  BY PopInv DEF InvOf, Resumed
<1>2. /\ Len(stack) \in 1..Len(stack) /\ Top = stack[Len(stack)] /\ Top \in ChoiceType
      /\ Sound(Top) /\ caps' = UndoneIn(caps, trail, Top.trailH) /\ caps' \in CapsType
  BY ResumeFacts
<1>3. /\ Placed(Top, caps, trail, guards, positions)
      /\ \A i \in 1..(Len(stack) - 1) : Floor(stack[i]) <= Base(Top)
  BY <1>2, ChoiceAt
<1>4. /\ Top.trailH \in 0..Len(trail) /\ Top.guardH \in 0..Len(guards)
      /\ Floor(Top) \in 0..Len(positions) /\ Floor(c) \in 0..Len(positions)
      /\ Floor(c) \in Nat /\ Floor(Top) \in Nat
  <2>1. /\ Top.trailH \in Nat /\ Top.guardH \in Nat /\ Floor(Top) \in Nat
        /\ Floor(c) \in Nat
    BY <1>2, ChoiceFields
  <2>2. Len(trail) \in Nat /\ Len(guards) \in Nat /\ Len(positions) \in Nat
    BY Types
  <2>3. QED
    BY <1>3, <2>1, <2>2 DEF Placed
<1>5. /\ tr2 \in Seq(TrailType) /\ Len(tr2) = Top.trailH
      /\ gs2 \in Seq(GuardType) /\ Len(gs2) = Top.guardH
      /\ Len(ps2) = n
  BY <1>4, Types, PrefixSeq
<1>6. Placed(c, caps', tr2, gs2, ps2)
  <2>1. UndoneIn(caps', tr2, c.trailH) = c.saved.caps
    <3>1. UndoneIn(caps', tr2, Len(tr2)) = caps'
      BY <1>2, <1>5, UndoneNothing
    <3>2. QED
      BY <1>2, <1>3, <1>5, <3>1 DEF Placed
  <2>2. Prefix(gs2, c.guardH) = c.saved.guards
    <3>1. Prefix(gs2, Len(gs2)) = gs2
      BY <1>5, PrefixFull
    <3>2. QED
      BY <1>3, <1>5, <3>1 DEF Placed
  <2>3. Prefix(ps2, Floor(c)) = Prefix(c.saved.positions, Floor(c))
    <3> DEFINE F == Floor(c)
               G == Floor(Top)
               q == Top.saved.positions
    <3>1. F \in 0..n /\ F \in 0..G /\ G \in 0..Len(positions)
      BY <1>4
    <3>2. q \in Seq(0..Size) /\ G \in 0..Len(q)
      <4>1. q \in Seq(0..Size) /\ G <= Len(q)
        BY <1>2, ChoiceFields DEF Sound
      <4>2. Len(q) \in Nat
        BY <4>1
      <4>3. QED
        BY <1>4, <4>1, <4>2
    <3>3. Prefix(positions, G) = Prefix(q, G)
      BY <1>3 DEF Placed
    <3> HIDE DEF F, G, q
    <3>4. Prefix(ps2, F) = Prefix(positions, F)
      BY <3>1, Types, PrefixPrefix
    <3>5. Prefix(Prefix(positions, G), F) = Prefix(positions, F)
      BY <3>1, Types, PrefixPrefix
    <3>6. Prefix(Prefix(q, G), F) = Prefix(q, F)
      BY <3>1, <3>2, PrefixPrefix
    <3>7. QED
      BY <3>3, <3>4, <3>5, <3>6 DEF F, q
  <2>4. c.trailH <= Len(tr2) /\ c.guardH <= Len(gs2) /\ Floor(c) <= Len(ps2)
    BY <1>4, <1>5
  <2>5. QED
    BY <2>1, <2>2, <2>3, <2>4 DEF Placed
<1>7. \A i \in 1..Len(Below) : Floor(Below[i]) <= Base(c)
  <2> DEFINE k == Len(stack) - 1
  <2>1. k \in 0..Len(stack) /\ stack \in Seq(ChoiceType)
    BY <1>2, Types
  <2> HIDE DEF k
  <2>2. Len(Prefix(stack, k)) = k /\ \A i \in 1..k : Prefix(stack, k)[i] = stack[i]
    BY <2>1, PrefixSeq
  <2>3. QED
    BY <1>3, <2>2 DEF Below, k
<1>8. Inv(caps', Append(Below, c), tr2, gs2, ps2,
          IF c.kind = "look" THEN Len(Below) + 1 ELSE Top.lookTop)
  <2> HIDE DEF tr2, gs2, ps2
  <2>1. QED
    BY <1>1, <1>5, <1>6, <1>7, PushInv
<1>9. QED
  BY <1>8 DEF InvOf, Resumed

(* A greedy star gives one repetition back. *)
LEMMA ResumeStarGreedyKeeps == ASSUME IInv, ResumeStarGreedy PROVE Stays /\ Goes
<1> DEFINE n == Top.pos + 1
           c == [Top EXCEPT !.pos = @ - 1]
           m == Resumed(IF Top.pos > Top.a THEN Append(Below, c) ELSE Below,
                        Prefix(positions, n))
<1>1. Resume("star_greedy") /\ Become(m) /\ Continue(Top.pc, positions[n])
  BY DEF ResumeStarGreedy
<1>2. /\ Stays /\ Len(stack) \in 1..Len(stack) /\ Top = stack[Len(stack)]
      /\ Top.kind = "star_greedy" /\ Top.pc \in Nat /\ Top.pos \in Nat /\ Sound(Top)
      /\ Top \in ChoiceType
  BY <1>1, ResumeFacts
<1>3. Floor(Top) \in 0..Len(positions) /\ Base(Top) \in Nat
  BY <1>2, ChoiceAt
<1>4. Top.a \in Nat /\ Top.a <= Top.pos /\ Floor(Top) = Top.pos + 2 /\ Base(Top) = Top.a
  BY <1>2, ChoiceFields DEF Sound, Floor, Base
<1>5. Len(positions) \in Nat /\ n \in 1..Len(positions) /\ n \in 0..Len(positions)
      /\ Base(Top) <= n
  BY <1>2, <1>3, <1>4, Types
<1>6. positions[n] \in 0..Size
  BY <1>5, Types, ElementOfSeq
<1>7. InvOf(caps', m)
  <2>1. CASE Top.pos > Top.a
    <3>1. Top.pos - 1 \in Nat
      BY <1>2, <1>4, <2>1
    <3>2. c \in ChoiceType
      <4> DEFINE k == Top.pos - 1
      <4>1. k \in Nat /\ c = [Top EXCEPT !.pos = k]
        BY <3>1
      <4> HIDE DEF k, c
      <4>2. QED
        BY <1>2, <4>1, SetField
    <3>3. /\ c.kind = Top.kind /\ c.trailH = Top.trailH /\ c.guardH = Top.guardH
          /\ c.lookTop = Top.lookTop /\ c.saved = Top.saved /\ c.a = Top.a
          /\ c.pos = Top.pos - 1
      BY <1>2 DEF ChoiceType
    <3> HIDE DEF c
    <3>4. Base(c) = Base(Top) /\ Floor(c) = Top.pos + 1
      BY <1>2, <3>3 DEF Base, Floor
    <3>5. Sound(c)
      <4>1. Len(Top.saved.positions) \in Nat /\ Floor(Top) <= Len(Top.saved.positions)
        BY <1>2, ChoiceFields DEF Sound
      <4>2. QED
        BY <1>2, <1>4, <2>1, <3>3, <3>4, <4>1 DEF Sound
    <3>6. Floor(c) <= n /\ Floor(c) <= Floor(Top) /\ c.kind # "look"
      BY <1>2, <1>4, <3>3, <3>4
    <3> HIDE DEF n
    <3>7. InvOf(caps', Resumed(Append(Below, c), Prefix(positions, n)))
      BY <1>1, <1>5, <3>2, <3>3, <3>4, <3>5, <3>6, PushBackInv
    <3>8. QED
      BY <2>1, <3>7
  <2>2. CASE ~(Top.pos > Top.a)
    <3> HIDE DEF n
    <3>1. InvOf(caps', Resumed(Below, Prefix(positions, n)))
      BY <1>1, <1>5, PopInv
    <3>2. QED
      BY <2>2, <3>1
  <2>3. QED
    BY <2>1, <2>2
<1> HIDE DEF m, n
<1>8. QED
  BY <1>1, <1>2, <1>6, <1>7 DEF Become, Continue, InvOf, Goes

(* A lazy star takes one more repetition. *)
LEMMA ResumeStarLazyKeeps == ASSUME IInv, ResumeStarLazy PROVE Stays /\ Goes
<1> DEFINE inst == Code[Top.a]
           back == Undone(Top.trailH)
           n    == Top.posH
           to   == Top.pos + Stride(back, inst)
           c    == [Top EXCEPT !.pos = to]
           more == AtomMoves(back, inst, Top.pos)
<1>1. /\ Resume("star_lazy")
      /\ IF more
         THEN /\ Become(Resumed(Append(Below, c), Prefix(positions, n)))
              /\ Continue(Top.pc, to)
         ELSE Become(Resumed(Below, Prefix(positions, n))) /\ Fail
  BY DEF ResumeStarLazy
<1>2. /\ Stays /\ Len(stack) \in 1..Len(stack) /\ Top = stack[Len(stack)]
      /\ Top.kind = "star_lazy" /\ Top.pc \in Nat /\ Top.pos \in Nat /\ Sound(Top)
      /\ Top \in ChoiceType /\ back \in CapsType
  BY <1>1, ResumeFacts DEF Undone
<1>3. n \in 0..Len(positions) /\ Base(Top) = n /\ Floor(Top) = n
  BY <1>2, ChoiceAt DEF Base, Floor
<1>4. CallOK /\ Size \in Nat
  BY CallFacts DEF IInv
<1>5. Repeatable(inst)
  BY <1>2, <1>4, AtomInstruction DEF Sound
<1>6. Len(positions) \in Nat /\ n \in Nat /\ n <= n
  BY <1>3, Types
<1>7. CASE more
  <2>1. AtomMatches(back, inst, Top.pos)
    BY <1>7 DEF AtomMoves
  <2>2. to \in 0..Size
    <3> HIDE DEF back, inst
    <3>1. Top.pos \in Int
      BY <1>2
    <3>2. QED
      BY <1>2, <1>4, <1>5, <2>1, <3>1, AtomStays
  <2> HIDE DEF to
  <2>3. to \in Nat /\ to <= Size
    BY <1>4, <2>2
  <2>4. c \in ChoiceType
    BY <1>2, <2>3, SetField
  <2>5. /\ c.kind = Top.kind /\ c.trailH = Top.trailH /\ c.guardH = Top.guardH
        /\ c.lookTop = Top.lookTop /\ c.saved = Top.saved /\ c.a = Top.a
        /\ c.pos = to /\ c.posH = Top.posH
    BY <1>2 DEF ChoiceType
  <2> HIDE DEF c, n, back, inst, more
  <2>6. Base(c) = Base(Top) /\ Floor(c) = Floor(Top)
    BY <1>2, <2>5 DEF Base, Floor
  <2>7. Sound(c)
    BY <1>2, <2>3, <2>5, <2>6 DEF Sound
  <2>8. Floor(c) <= n /\ Floor(c) <= Floor(Top) /\ Base(Top) <= n /\ c.kind # "look"
    BY <1>2, <1>3, <1>6, <2>5, <2>6
  <2>9. InvOf(caps', Resumed(Append(Below, c), Prefix(positions, n)))
    BY <1>1, <1>3, <2>4, <2>5, <2>6, <2>7, <2>8, PushBackInv
  <2>10. Become(Resumed(Append(Below, c), Prefix(positions, n))) /\ Continue(Top.pc, to)
    BY <1>1, <1>7
  <2>11. QED
    BY <1>2, <2>2, <2>9, <2>10 DEF Become, Continue, InvOf, Goes
<1>8. CASE ~more
  <2> HIDE DEF n, more
  <2>1. InvOf(caps', Resumed(Below, Prefix(positions, n)))
    BY <1>1, <1>3, <1>6, PopInv
  <2>2. Become(Resumed(Below, Prefix(positions, n))) /\ Fail
    BY <1>1, <1>8
  <2>3. QED
    BY <1>2, <2>1, <2>2 DEF Become, Fail, InvOf, Goes, IInv
<1>9. QED
  BY <1>7, <1>8

-----------------------------------------------------------------------------
(* Matcher.exec and the whole. *)

(* Captures all unset are captures. *)
LEMMA Fresh ==
    ASSUME CallOK
    PROVE  [s \in Slots |-> Unset] \in CapsType
<1>1. Unset \in CaptureType
  BY DEF Unset, CaptureType, Edge
<1>2. QED
  BY <1>1 DEF CapsType

(* The next start position. *)
LEMMA NextStartKeeps == ASSUME IInv, NextStart PROVE Stays /\ Goes
<1>1. start \in 0..Size /\ Size \in Nat /\ start < Size
  BY CallFacts DEF IInv, NextStart
<1>2. /\ start' = start + 1 /\ steps' = 0 /\ call' = call
      /\ phase' = "exec" /\ pc' = 1 /\ pos' = start + 1
      /\ caps' = [s \in Slots |-> Unset]
      /\ stack' = <<>> /\ trail' = <<>> /\ guards' = <<>> /\ positions' = <<>>
      /\ lookTop' = 0
  BY DEF NextStart, Become, NoStacks, Continue
<1>3. caps' \in CapsType
  BY <1>2, Fresh DEF IInv
<1>4. QED
  BY <1>1, <1>2, <1>3, EmptyInv DEF Stays, Goes

(* There is none. *)
LEMMA NoMatchKeeps == ASSUME IInv, NoMatch PROVE Stays /\ Goes
<1>1. caps' \in CapsType
  BY Types DEF NoMatch
<1>2. Stays
  BY DEF NoMatch, Stays, IInv
<1>3. QED
  BY <1>1, <1>2, EndGoes DEF NoMatch, Final

(* exec begins with nothing pushed. *)
LEMMA InitIInv == ASSUME Init PROVE IInv
<1>1. PICK p \in Programs, in \in Inputs, l \in Limits, s \in BOOLEAN :
         \E i \in 0..Len(in) :
            call = [prog |-> p, input |-> in, index |-> i, sticky |-> s, limits |-> l]
  BY DEF Init
<1>2. PICK i \in 0..Len(in) :
         call = [prog |-> p, input |-> in, index |-> i, sticky |-> s, limits |-> l]
  BY <1>1
<1>3. CallOK
  BY <1>2 DEF CallOK, Size, Input
<1>4. call.index \in 0..Size /\ caps \in CapsType
  BY <1>3, Fresh DEF CallOK, Init
<1>5. Inv(caps, stack, trail, guards, positions, lookTop)
  BY <1>4, EmptyInv DEF Init
<1>6. QED
  BY <1>3, <1>4, <1>5 DEF IInv, Init

(* Every step keeps the invariant. *)
LEMMA NextKeeps == ASSUME IInv, Next PROVE Stays /\ Goes
<1>1. CASE Exec1
  BY <1>1, MatchKeeps, ConsumeKeeps, GoToKeeps, SplitStarPossessiveKeeps,
     SplitStarLazyKeeps, SplitStarGreedyKeeps, SplitAlternativeKeeps, SaveEdgeKeeps,
     ClearCaptureKeeps, RepeatMarkKeeps, RepeatCheckKeeps, LookBeginKeeps,
     LookEndNegativeKeeps, LookEndPositiveKeeps, AssertionKeeps DEF Exec1
<1>2. CASE Backtracking
  BY <1>2, ResumeAltKeeps, ResumeStarGreedyKeeps, ResumeStarLazyKeeps, ResumeLookKeeps
     DEF Backtracking
<1>3. QED
  BY <1>1, <1>2, StepLimitKeeps, NextStartKeeps, NoMatchKeeps DEF Next

(* The invariant of the stacks holds throughout every exec, for every      *)
(* well-formed program, every subject and every limit.                     *)
THEOREM StacksInvariant == Spec => []IInv
<1>1. Init => IInv
  BY InitIInv
<1>2. IInv /\ [Next]_vars => IInv'
  <2>1. CASE Next
    BY <2>1, NextKeeps, StepIInv DEF IInv
  <2>2. CASE UNCHANGED vars
    BY <2>2 DEF vars, IInv, CallOK, Inv, Typed, Sound, Placed, Under, InnermostOf,
       CapsType, ChoiceType, TrailType, GuardType, Slots, Prog, Code, Size, Input
  <2>3. QED
    BY <2>1, <2>2
<1>3. QED
  BY <1>1, <1>2, PTL DEF Spec

(* Every variable keeps its type: no instruction moves the subject         *)
(* position outside the subject, and no capture slot the program does not  *)
(* have is ever written.                                                   *)
THEOREM TypeCorrect == Spec => []TypeOK
<1>1. IInv => TypeOK
  <2>1. SUFFICES ASSUME IInv PROVE TypeOK
    OBVIOUS
  <2>2. \A i \in DOMAIN stack : stack[i].kind # "star_greedy" => stack[i].pos <= Size
    <3>1. DOMAIN stack = 1..Len(stack)
      BY <2>1, Types
    <3>2. \A i \in 1..Len(stack) : Sound(stack[i])
      BY <2>1, ChoiceAt
    <3>3. QED
      BY <3>1, <3>2 DEF Sound
  <2>3. QED
    BY <2>1, <2>2, Types DEF TypeOK, IInv
<1>2. QED
  BY <1>1, StacksInvariant, PTL

(* The heights the alternatives recorded are nested, so that dropping the  *)
(* stacks to one's heights never takes what an older one needs.            *)
THEOREM AlternativesNested == Spec => []Nested
<1>1. IInv => Nested
  <2>1. SUFFICES ASSUME IInv PROVE Nested
    OBVIOUS
  <2>2. DOMAIN stack = 1..Len(stack)
    BY <2>1, Types
  <2>3. ASSUME NEW i \in DOMAIN stack
        PROVE  /\ stack[i].trailH <= Len(trail) /\ stack[i].guardH <= Len(guards)
               /\ Floor(stack[i]) <= Len(positions)
               /\ stack[i].kind = "star_greedy" => stack[i].a <= stack[i].pos
    BY <2>1, <2>2, ChoiceAt DEF Sound, Placed
  <2>4. ASSUME NEW i \in DOMAIN stack, NEW j \in DOMAIN stack, i < j
        PROVE  Under(stack[i], stack[j])
    BY <2>1, <2>2, <2>4 DEF IInv, Inv
  <2>5. QED
    BY <2>3, <2>4 DEF Nested, Under
<1>2. QED
  BY <1>1, StacksInvariant, PTL

(* Backtracking restores: whatever the run did since an alternative was    *)
(* pushed, popping it brings back the captures, the loop guards and the    *)
(* recorded positions of that moment.                                      *)
THEOREM BacktrackingRestores == Spec => []Restores
<1>1. IInv => Restores
  <2>1. SUFFICES ASSUME IInv, NEW i \in DOMAIN stack
                 PROVE  Placed(stack[i], caps, trail, guards, positions)
    BY DEF Restores, Placed, Undone
  <2>2. DOMAIN stack = 1..Len(stack)
    BY <2>1, Types
  <2>3. QED
    BY <2>1, <2>2, ChoiceAt
<1>2. QED
  BY <1>1, StacksInvariant, PTL

(* look_top is the innermost pending barrier and each alternative          *)
(* remembers the one under it: an END always closes its own lookaround.    *)
THEOREM EndsCloseTheirOwn == Spec => []LookChain
<1>1. IInv => LookChain
  <2>1. SUFFICES ASSUME IInv PROVE LookChain
    OBVIOUS
  <2>2. DOMAIN stack = 1..Len(stack) /\ Len(stack) \in Nat
    BY <2>1, Types
  <2>3. ASSUME NEW n, NEW i, InnermostOf(stack, n, i) PROVE Innermost(n, i)
    BY <2>2, <2>3 DEF InnermostOf, Innermost, Barriers
  <2>4. InnermostOf(stack, Len(stack) + 1, lookTop)
    BY <2>1 DEF IInv, Inv
  <2>5. \A i \in DOMAIN stack : InnermostOf(stack, i, stack[i].lookTop)
    BY <2>1, <2>2 DEF IInv, Inv
  <2>6. QED
    BY <2>3, <2>4, <2>5 DEF LookChain
<1>2. QED
  BY <1>1, StacksInvariant, PTL

-----------------------------------------------------------------------------
(* The byte limit. *)

Sized(m) == {Len(m.stack), Len(m.trail), Len(m.guards), Len(m.positions)} \subseteq Nat

(* A product with a natural is monotone. *)
LEMMA Product ==
    ASSUME NEW n \in Nat, NEW b \in Nat, NEW k \in Nat, n <= b
    PROVE  n * k \in Nat /\ b * k \in Nat /\ n * k <= b * k
  BY SMT

(* So is a sum of four. *)
LEMMA Sum ==
    ASSUME NEW a1 \in Nat, NEW a2 \in Nat, NEW a3 \in Nat, NEW a4 \in Nat,
           NEW b1 \in Nat, NEW b2 \in Nat, NEW b3 \in Nat, NEW b4 \in Nat,
           a1 <= b1, a2 <= b2, a3 <= b3, a4 <= b4
    PROVE  /\ a1 + a2 + a3 + a4 \in Nat /\ b1 + b2 + b3 + b4 \in Nat
           /\ a1 + a2 + a3 + a4 <= b1 + b2 + b3 + b4
  BY SMT

(* Stacks no higher than some that fit do fit. *)
LEMMA LowerFits ==
    ASSUME CallOK, NEW m, NEW l, Sized(m), Sized(l), Fits(m),
           Len(l.stack) <= Len(m.stack), Len(l.trail) <= Len(m.trail),
           Len(l.guards) <= Len(m.guards), Len(l.positions) <= Len(m.positions)
    PROVE  Fits(l)
<1> DEFINE Counted(q) == IF Len(q.guards) > GuardSetMin THEN 2 * Len(q.guards)
                                                        ELSE Len(q.guards)
<1>1. /\ ChoiceSize \in Nat /\ TrailSize \in Nat /\ GuardSize \in Nat
      /\ PositionSize \in Nat /\ GuardSetMin \in Nat /\ call.limits.bytes \in Nat
  BY LimitsAssumption, CallFacts
<1>2. Counted(l) \in Nat /\ Counted(m) \in Nat /\ Counted(l) <= Counted(m)
  BY <1>1 DEF Sized
<1>3. /\ Bytes(l) = Len(l.stack) * ChoiceSize + Len(l.trail) * TrailSize
                      + Len(l.positions) * PositionSize + GuardSize * Counted(l)
      /\ Bytes(m) = Len(m.stack) * ChoiceSize + Len(m.trail) * TrailSize
                      + Len(m.positions) * PositionSize + GuardSize * Counted(m)
  BY DEF Bytes
<1> DEFINE cl == Counted(l)
           cm == Counted(m)
<1>4. cl \in Nat /\ cm \in Nat /\ cl <= cm
  BY <1>2
<1>5. /\ Bytes(l) = Len(l.stack) * ChoiceSize + Len(l.trail) * TrailSize
                      + Len(l.positions) * PositionSize + GuardSize * cl
      /\ Bytes(m) = Len(m.stack) * ChoiceSize + Len(m.trail) * TrailSize
                      + Len(m.positions) * PositionSize + GuardSize * cm
  BY <1>3
<1> HIDE DEF cl, cm, Counted
<1>6. /\ GuardSize * cl = cl * GuardSize /\ GuardSize * cm = cm * GuardSize
  BY <1>1, <1>4, SMT
<1>7. /\ Len(l.stack) * ChoiceSize \in Nat /\ Len(m.stack) * ChoiceSize \in Nat
      /\ Len(l.stack) * ChoiceSize <= Len(m.stack) * ChoiceSize
  BY <1>1, Product DEF Sized
<1>8. /\ Len(l.trail) * TrailSize \in Nat /\ Len(m.trail) * TrailSize \in Nat
      /\ Len(l.trail) * TrailSize <= Len(m.trail) * TrailSize
  BY <1>1, Product DEF Sized
<1>9. /\ Len(l.positions) * PositionSize \in Nat /\ Len(m.positions) * PositionSize \in Nat
      /\ Len(l.positions) * PositionSize <= Len(m.positions) * PositionSize
  BY <1>1, Product DEF Sized
<1>10. /\ cl * GuardSize \in Nat /\ cm * GuardSize \in Nat
       /\ cl * GuardSize <= cm * GuardSize
  BY <1>1, <1>4, Product
<1>11. Bytes(l) <= Bytes(m) /\ Bytes(l) \in Nat /\ Bytes(m) \in Nat
  <2> DEFINE a1 == Len(l.stack) * ChoiceSize
             a2 == Len(l.trail) * TrailSize
             a3 == Len(l.positions) * PositionSize
             a4 == cl * GuardSize
             b1 == Len(m.stack) * ChoiceSize
             b2 == Len(m.trail) * TrailSize
             b3 == Len(m.positions) * PositionSize
             b4 == cm * GuardSize
  <2>1. Bytes(l) = a1 + a2 + a3 + a4 /\ Bytes(m) = b1 + b2 + b3 + b4
    BY <1>5, <1>6
  <2>2. /\ a1 \in Nat /\ a2 \in Nat /\ a3 \in Nat /\ a4 \in Nat
        /\ b1 \in Nat /\ b2 \in Nat /\ b3 \in Nat /\ b4 \in Nat
        /\ a1 <= b1 /\ a2 <= b2 /\ a3 <= b3 /\ a4 <= b4
    BY <1>7, <1>8, <1>9, <1>10
  <2> HIDE DEF a1, a2, a3, a4, b1, b2, b3, b4
  <2>3. QED
    BY <2>1, <2>2, Sum
<1>12. QED
  BY <1>1, <1>11 DEF Fits

(* The stacks and the dropped ones have lengths. *)
LEMMA PresentSized == ASSUME IInv PROVE Sized(Stacks) /\ Sized(NoStacks)
<1>1. /\ Len(stack) \in Nat /\ Len(trail) \in Nat /\ Len(guards) \in Nat
      /\ Len(positions) \in Nat
  BY Types
<1>2. QED
  BY <1>1 DEF Sized, Stacks, NoStacks

(* Dropped stacks fit. *)
LEMMA NoneFits == ASSUME IInv, WithinLimit PROVE Fits(NoStacks)
<1>1. /\ Len(NoStacks.stack) <= Len(Stacks.stack) /\ Len(NoStacks.trail) <= Len(Stacks.trail)
      /\ Len(NoStacks.guards) <= Len(Stacks.guards)
      /\ Len(NoStacks.positions) <= Len(Stacks.positions)
  BY Types DEF NoStacks, Stacks
<1>2. QED
  BY <1>1, PresentSized, LowerFits DEF WithinLimit, IInv

(* Stacks that fit, once taken, are within the limit. *)
LEMMA BecomeFits ==
    ASSUME NEW m, Become(m), Fits(m), call' = call
    PROVE  WithinLimit'
  BY DEF Become, WithinLimit, Fits, Bytes, Stacks

(* Growing is checked. *)
LEMMA GrowFits ==
    ASSUME IInv, WithinLimit, NEW m, NEW to, NEW at, Grow(m, to, at), call' = call
    PROVE  WithinLimit'
  BY NoneFits, BecomeFits DEF Grow, End

(* So is entering a loop guard. *)
LEMMA BackEdgeFits ==
    ASSUME IInv, WithinLimit, NEW m, NEW to, NEW at, EnterBackEdge(m, to, at),
           Fits(m), call' = call
    PROVE  WithinLimit'
  BY BecomeFits, GrowFits DEF EnterBackEdge

(* Leaving the stacks alone needs no check. *)
LEMMA SameFits ==
    ASSUME WithinLimit, Become(Stacks), call' = call
    PROVE  WithinLimit'
  BY BecomeFits DEF WithinLimit

(* Cutting and resuming only lower the stacks. *)
LEMMA CutFits ==
    ASSUME IInv, WithinLimit, NEW idx \in 1..Len(stack), stack[idx].kind = "look",
           NEW h \in {stack[idx].trailH, Len(trail)}
    PROVE  Fits(CutTo(idx, Prefix(trail, h)))
<1> DEFINE l == CutTo(idx, Prefix(trail, h))
<1>1. /\ stack[idx].posH \in 0..Len(positions) /\ stack[idx].trailH \in 0..Len(trail)
      /\ stack[idx].guardH \in 0..Len(guards)
  <2>1. stack[idx].guardH <= Len(guards) /\ stack[idx] \in ChoiceType
    BY ChoiceAt DEF Placed
  <2>2. stack[idx].guardH \in Nat /\ Len(guards) \in Nat
    BY <2>1, Types, ChoiceFields
  <2>3. QED
    BY <2>1, <2>2, ChoiceAt
<1>2. idx - 1 \in 0..Len(stack) /\ h \in 0..Len(trail) /\ Len(stack) \in Nat
      /\ Len(trail) \in Nat /\ Len(guards) \in Nat /\ Len(positions) \in Nat
  BY <1>1, Types
<1>3. /\ Len(Prefix(stack, idx - 1)) = idx - 1 /\ Len(Prefix(trail, h)) = h
      /\ Len(Prefix(guards, stack[idx].guardH)) = stack[idx].guardH
      /\ Len(Prefix(positions, stack[idx].posH)) = stack[idx].posH
  <2>1. Len(Prefix(stack, idx - 1)) = idx - 1
    BY <1>2, Types, PrefixSeq
  <2>2. Len(Prefix(trail, h)) = h
    BY <1>2, Types, PrefixSeq
  <2>3. Len(Prefix(guards, stack[idx].guardH)) = stack[idx].guardH
    BY <1>1, Types, PrefixSeq
  <2>4. Len(Prefix(positions, stack[idx].posH)) = stack[idx].posH
    BY <1>1, Types, PrefixSeq
  <2>5. QED
    BY <2>1, <2>2, <2>3, <2>4
<1>4. /\ Len(l.stack) = idx - 1 /\ Len(l.trail) = h
      /\ Len(l.guards) = stack[idx].guardH /\ Len(l.positions) = stack[idx].posH
  BY <1>3 DEF CutTo
<1> HIDE DEF l
<1>5. /\ Sized(l) /\ Len(l.stack) <= Len(stack) /\ Len(l.trail) <= Len(trail)
      /\ Len(l.guards) <= Len(guards) /\ Len(l.positions) <= Len(positions)
  BY <1>1, <1>2, <1>4 DEF Sized
<1>6. Fits(l)
  BY <1>5, PresentSized, LowerFits DEF WithinLimit, Stacks, IInv
<1>7. QED
  BY <1>6 DEF l

(* The newest alternative off, or put back. *)
LEMMA ResumedFits ==
    ASSUME IInv, WithinLimit, NEW kind, Resume(kind), NEW n \in 0..Len(positions),
           NEW st, st = Below \/ \E c \in ChoiceType : st = Append(Below, c)
    PROVE  Fits(Resumed(st, Prefix(positions, n)))
<1> DEFINE l == Resumed(st, Prefix(positions, n))
<1>1. Len(stack) \in 1..Len(stack) /\ Top = stack[Len(stack)]
  BY ResumeFacts
<1>2. Top.trailH \in 0..Len(trail) /\ Top.guardH \in 0..Len(guards)
  <2>1. Top.guardH <= Len(guards) /\ Top \in ChoiceType /\ Top.trailH \in 0..Len(trail)
    BY <1>1, ChoiceAt DEF Placed
  <2>2. Top.guardH \in Nat /\ Len(guards) \in Nat
    BY <2>1, Types, ChoiceFields
  <2>3. QED
    BY <2>1, <2>2
<1>3. /\ Len(stack) \in Nat /\ Len(trail) \in Nat /\ Len(guards) \in Nat
      /\ Len(positions) \in Nat /\ Len(stack) - 1 \in 0..Len(stack)
  BY <1>1, Types
<1>4. Below \in Seq(ChoiceType) /\ Len(Below) = Len(stack) - 1
  <2> DEFINE k == Len(stack) - 1
  <2>1. k \in 0..Len(stack)
    BY <1>3
  <2> HIDE DEF k
  <2>2. Prefix(stack, k) \in Seq(ChoiceType) /\ Len(Prefix(stack, k)) = k
    BY <2>1, Types, PrefixSeq
  <2>3. QED
    BY <2>2 DEF Below, k
<1>5. Len(st) \in Nat /\ Len(st) <= Len(stack)
  BY <1>3, <1>4, AppendProperties
<1>6. /\ Len(Prefix(trail, Top.trailH)) = Top.trailH
      /\ Len(Prefix(guards, Top.guardH)) = Top.guardH
      /\ Len(Prefix(positions, n)) = n
  BY <1>2, Types, PrefixSeq
<1>7. /\ l.stack = st /\ Len(l.trail) = Top.trailH
      /\ Len(l.guards) = Top.guardH /\ Len(l.positions) = n
  BY <1>6 DEF Resumed
<1> HIDE DEF l
<1>8. /\ Sized(l) /\ Len(l.stack) <= Len(stack) /\ Len(l.trail) <= Len(trail)
      /\ Len(l.guards) <= Len(guards) /\ Len(l.positions) <= Len(positions)
  BY <1>2, <1>3, <1>5, <1>7 DEF Sized
<1>9. Fits(l)
  BY <1>8, PresentSized, LowerFits DEF WithinLimit, Stacks, IInv
<1>10. QED
  BY <1>9 DEF l

(* No instruction takes the stacks past the limit. *)
LEMMA ExecFits == ASSUME IInv, WithinLimit, Exec1 PROVE WithinLimit'
<1>1. call' = call
  BY DEF Exec1, Match, Consume, GoTo, SplitStarPossessive, SplitStarLazy, SplitStarGreedy,
     SplitAlternative, SaveEdge, ClearCapture, RepeatMark, RepeatCheck, LookBegin,
     LookEndNegative, LookEndPositive, LookEnd, Assertion, Dispatch
<1>2. ASSUME NEW holds, NEW to, NEW at, Test(holds, to, at) PROVE WithinLimit'
  BY <1>1, <1>2, SameFits DEF Test
<1>3. ASSUME NEW slot, NEW value, SetCapture(slot, value) PROVE WithinLimit'
  BY <1>1, <1>3, GrowFits DEF SetCapture
<1>4. CASE Match
  BY <1>1, <1>4, NoneFits, BecomeFits DEF Match, End
<1>5. CASE Consume
  BY <1>2, <1>5 DEF Consume
<1>6. CASE GoTo
  BY <1>1, <1>6, SameFits, BackEdgeFits DEF GoTo, WithinLimit
<1>7. CASE SplitStarPossessive
  BY <1>2, <1>7 DEF SplitStarPossessive
<1>8. CASE SplitStarLazy
  BY <1>1, <1>8, GrowFits DEF SplitStarLazy
<1>9. CASE SplitStarGreedy
  BY <1>1, <1>9, GrowFits DEF SplitStarGreedy
<1>10. CASE SplitAlternative
  BY <1>1, <1>10, GrowFits, BackEdgeFits DEF SplitAlternative
<1>11. CASE SaveEdge \/ ClearCapture \/ RepeatMark
  BY <1>3, <1>11 DEF SaveEdge, ClearCapture, RepeatMark
<1>12. CASE RepeatCheck \/ Assertion
  BY <1>2, <1>12 DEF RepeatCheck, Assertion
<1>13. CASE LookBegin
  BY <1>1, <1>2, <1>13, GrowFits DEF LookBegin
<1>14. CASE LookEndNegative
  <2>1. lookTop \in 1..Len(stack) /\ Barrier.kind = "look"
    BY <1>14, BarrierThere DEF LookEndNegative
  <2>2. CASE Misses
    BY <1>2, <1>14, <2>2 DEF LookEndNegative
  <2>3. CASE ~Misses
    <3>1. Fits(CutTo(lookTop, Prefix(trail, stack[lookTop].trailH)))
      BY <2>1, CutFits DEF Barrier
    <3>2. Become(CutTo(lookTop, Prefix(trail, stack[lookTop].trailH)))
      BY <1>14, <2>3 DEF LookEndNegative, Barrier
    <3>3. QED
      BY <1>1, <3>1, <3>2, BecomeFits
  <2>4. QED
    BY <2>2, <2>3
<1>15. CASE LookEndPositive
  <2>1. lookTop \in 1..Len(stack) /\ Barrier.kind = "look"
    BY <1>15, BarrierThere DEF LookEndPositive
  <2>2. CASE Misses
    BY <1>2, <1>15, <2>2 DEF LookEndPositive
  <2>3. CASE ~Misses
    <3>1. Fits(CutTo(lookTop, Prefix(trail, Len(trail)))) /\ Prefix(trail, Len(trail)) = trail
      BY <2>1, CutFits, Types, PrefixFull DEF Barrier
    <3>2. Become(CutTo(lookTop, trail))
      BY <1>15, <2>3 DEF LookEndPositive
    <3>3. QED
      BY <1>1, <3>1, <3>2, BecomeFits
  <2>4. QED
    BY <2>2, <2>3
<1>16. QED
  BY <1>4, <1>5, <1>6, <1>7, <1>8, <1>9, <1>10, <1>11, <1>12, <1>13, <1>14, <1>15 DEF Exec1

(* No resumed alternative does. *)
LEMMA BacktrackingFits == ASSUME IInv, WithinLimit, Backtracking PROVE WithinLimit'
<1>1. call' = call
  BY DEF Backtracking, ResumeAlt, ResumeStarGreedy, ResumeStarLazy, ResumeLook, Resume
<1>2. CASE ResumeAlt
  <2> DEFINE m == Resumed(Below, Prefix(positions, Top.posH))
  <2>1. Resume("alt") /\ (EnterBackEdge(m, Top.pc, Top.pos) \/ Become(m))
    BY <1>2 DEF ResumeAlt
  <2>2. Top.posH \in 0..Len(positions)
    BY <2>1, ResumeFacts, ChoiceAt
  <2>3. Fits(m)
    BY <2>1, <2>2, ResumedFits
  <2> HIDE DEF m
  <2>4. QED
    BY <1>1, <2>1, <2>3, BackEdgeFits, BecomeFits
<1>3. CASE ResumeStarGreedy
  <2> DEFINE c == [Top EXCEPT !.pos = @ - 1]
             n == Top.pos + 1
             st == IF Top.pos > Top.a THEN Append(Below, c) ELSE Below
  <2>1. Resume("star_greedy") /\ Become(Resumed(st, Prefix(positions, n)))
    BY <1>3 DEF ResumeStarGreedy
  <2>2. /\ Len(stack) \in 1..Len(stack) /\ Top = stack[Len(stack)] /\ Top \in ChoiceType
        /\ Top.kind = "star_greedy" /\ Top.pos \in Nat /\ Sound(Top)
    BY <2>1, ResumeFacts
  <2>3. n \in 0..Len(positions)
    <3>1. Top.pos + 2 <= Len(positions) /\ Len(positions) \in Nat
      BY <2>2, ChoiceAt, Types DEF Floor
    <3>2. QED
      BY <2>2, <3>1
  <2>4. st = Below \/ \E d \in ChoiceType : st = Append(Below, d)
    <3>1. Top.pos > Top.a => Top.pos - 1 \in Nat
      BY <2>2, ChoiceFields
    <3>2. Top.pos > Top.a => c \in ChoiceType
      <4> DEFINE k == Top.pos - 1
      <4>1. c = [Top EXCEPT !.pos = k]
        OBVIOUS
      <4> HIDE DEF c, k
      <4>2. k \in Nat => c \in ChoiceType
        BY <2>2, <4>1, SetField
      <4>3. QED
        BY <3>1, <4>2 DEF k
    <3> HIDE DEF c
    <3>3. QED
      BY <3>2
  <2> HIDE DEF st, n
  <2>5. QED
    BY <1>1, <2>1, <2>3, <2>4, ResumedFits, BecomeFits
<1>4. CASE ResumeStarLazy
  <2> DEFINE back == Undone(Top.trailH)
             inst == Code[Top.a]
             to   == Top.pos + Stride(back, inst)
             c    == [Top EXCEPT !.pos = to]
             n    == Top.posH
  <2>1. /\ Resume("star_lazy")
        /\ \/ AtomMoves(back, inst, Top.pos)
              /\ Become(Resumed(Append(Below, c), Prefix(positions, n)))
           \/ Become(Resumed(Below, Prefix(positions, n)))
    BY <1>4 DEF ResumeStarLazy
  <2>2. /\ Len(stack) \in 1..Len(stack) /\ Top = stack[Len(stack)] /\ Top \in ChoiceType
        /\ Top.kind = "star_lazy" /\ Top.pos \in Nat /\ Sound(Top) /\ back \in CapsType
    BY <2>1, ResumeFacts DEF Undone
  <2>3. n \in 0..Len(positions)
    BY <2>2, ChoiceAt
  <2>4. AtomMoves(back, inst, Top.pos) => c \in ChoiceType
    <3>1. CallOK /\ Size \in Nat /\ Repeatable(inst)
      BY <2>2, AtomInstruction, CallFacts DEF Sound, IInv
    <3>2. AtomMoves(back, inst, Top.pos) => to \in Nat
      <4> HIDE DEF back, inst
      <4>1. Top.pos \in Int
        BY <2>2
      <4>2. QED
        BY <2>2, <3>1, <4>1, AtomStays DEF AtomMoves
    <3> HIDE DEF to
    <3>3. QED
      BY <2>2, <3>2, SetField
  <2> HIDE DEF c, n, back, inst
  <2>5. CASE AtomMoves(back, inst, Top.pos)
             /\ Become(Resumed(Append(Below, c), Prefix(positions, n)))
    <3>1. Fits(Resumed(Append(Below, c), Prefix(positions, n)))
      BY <2>1, <2>3, <2>4, <2>5, ResumedFits
    <3>2. QED
      BY <1>1, <2>5, <3>1, BecomeFits
  <2>6. CASE Become(Resumed(Below, Prefix(positions, n)))
    <3>1. Fits(Resumed(Below, Prefix(positions, n)))
      BY <2>1, <2>3, ResumedFits
    <3>2. QED
      BY <1>1, <2>6, <3>1, BecomeFits
  <2>7. QED
    BY <2>1, <2>5, <2>6
<1>5. CASE ResumeLook
  <2> DEFINE idx == Len(stack)
  <2>1. /\ idx \in 1..Len(stack) /\ stack[idx].kind = "look"
        /\ Become(CutTo(idx, Prefix(trail, stack[idx].trailH)))
    BY <1>5, ResumeFacts DEF ResumeLook
  <2> HIDE DEF idx
  <2>2. QED
    BY <1>1, <2>1, CutFits, BecomeFits
<1>6. QED
  BY <1>2, <1>3, <1>4, <1>5 DEF Backtracking

(* Within one exec the stacks never outgrow the byte limit: every push, of *)
(* any of the four, is checked against what the other three already hold,  *)
(* and cutting or resuming never grows them.                               *)
THEOREM StacksWithinLimit == Spec => []WithinLimit
<1>1. Init => IInv /\ WithinLimit
  <2>1. SUFFICES ASSUME Init PROVE IInv /\ WithinLimit
    OBVIOUS
  <2>2. IInv
    BY <2>1, InitIInv
  <2>3. /\ ChoiceSize \in Nat /\ TrailSize \in Nat /\ GuardSize \in Nat
        /\ PositionSize \in Nat /\ GuardSetMin \in Nat /\ call.limits.bytes \in Nat
    BY <2>2, LimitsAssumption, CallFacts DEF IInv
  <2>4. Stacks.stack = <<>> /\ Stacks.trail = <<>> /\ Stacks.guards = <<>>
        /\ Stacks.positions = <<>>
    BY <2>1 DEF Init, Stacks
  <2>5. Bytes(Stacks) = 0
    BY <2>3, <2>4 DEF Bytes
  <2>6. QED
    BY <2>2, <2>3, <2>5 DEF WithinLimit, Fits
<1>2. IInv /\ WithinLimit /\ [Next]_vars => WithinLimit'
  <2>1. SUFFICES ASSUME IInv, WithinLimit, [Next]_vars PROVE WithinLimit'
    OBVIOUS
  <2>2. CASE StepLimit
    BY <2>1, <2>2, NoneFits, BecomeFits DEF StepLimit, End
  <2>3. CASE NextStart
    BY <2>1, <2>3, NoneFits, BecomeFits DEF NextStart
  <2>4. CASE NoMatch
    BY <2>1, <2>4, NoneFits, BecomeFits DEF NoMatch, End
  <2>5. CASE UNCHANGED vars
    BY <2>1, <2>5 DEF vars, WithinLimit, Fits, Bytes, Stacks
  <2>6. QED
    BY <2>1, <2>2, <2>3, <2>4, <2>5, ExecFits, BacktrackingFits DEF Next
<1>3. QED
  BY <1>1, <1>2, StacksInvariant, PTL DEF Spec
==============================================================================
