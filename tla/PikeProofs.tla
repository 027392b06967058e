----------------------------- MODULE PikeProofs -----------------------------
(***************************************************************************)
(* For every set of programs, every call and every width of the generation *)
(* counter: a thread list answers for membership what it holds, whatever   *)
(* the executions before this one left in its stamps, and no list and no   *)
(* closure stack outgrows its buffer.  A list is only ever cleared, given  *)
(* a new member or replaced by a fresh buffer; each keeps it good          *)
(* (GoodList), and the closure only inserts pcs of the program.            *)
(*                                                                         *)
(* On top of that, the rows: the threads of a list come in the order they  *)
(* started, so a recorded match is only replaced by one that starts no     *)
(* later (RInv, InOrder), and what a closure has pending always puts its   *)
(* slots back as they were when it began (Adding, UndoneTo).               *)
(***************************************************************************)
EXTENDS PikeVM, FiniteSetTheorems, WellFoundedInduction, TLAPS

(* A list with room for `cap` pcs: no stamp from the future, the present   *)
(* generation on exactly the members, and no member twice.                 *)
GoodList(l, cap) ==
    /\ l = [dense |-> l.dense, gen |-> l.gen, stamp |-> l.stamp, row |-> l.row]
    /\ l.gen \in 1..Gens - 1
    /\ l.stamp \in [0..cap - 1 -> 0..Gens - 1]
    /\ \A q \in 0..cap - 1 : l.stamp[q] <= l.gen
    /\ l.dense \in Seq(0..cap - 1)
    /\ \A q \in 0..cap - 1 : Member(l, q) <=> \E j \in DOMAIN l.dense : l.dense[j] = q
    /\ \A j, k \in DOMAIN l.dense : l.dense[j] = l.dense[k] => j = k
    /\ l.row = [q \in 0..cap - 1 |-> l.row[q]]

Scratch ==
    /\ capacity \in Nat
    /\ lists = [l \in 1..2 |-> lists[l]]
    /\ \A l \in 1..2 : GoodList(lists[l], capacity)

(* The members are pcs of the program that runs. *)
Pcs == 0..prog.n - 1
OfProgram(l) == \A j \in DOMAIN l.dense : l.dense[j] \in Pcs

Closing == {"copy", "pop", "visit"}
Framed(fs) ==
    /\ \E S : fs \in Seq(S)
    /\ \A k \in DOMAIN fs : fs[k].explore => fs[k].pc \in Pcs

Control ==
    /\ cl \in 1..2 /\ i \in Nat \ {0} /\ into \in 1..2
    /\ then \in {"decode", "step"}
    /\ phase \in Answers \cup Closing \cup {"idle", "top", "decode", "step", "over"}
    /\ Running => call \in Calls /\ prog.n <= capacity /\ OfProgram(lists[cl])
    /\ phase = "step" => OfProgram(lists[nl])
    /\ phase \in Closing => /\ into = IF then = "step" THEN nl ELSE cl
                            /\ OfProgram(lists[into])
    /\ phase = "copy" => todo \in Seq(Pcs)
    /\ phase \in {"pop", "visit"} => Framed(frames)
    /\ phase = "visit" => pc \in Pcs

(* The first pass pushes one branch per member it inserts.                 *)
Stacked ==
    ~tagged =>
        /\ phase = "pop"   => Len(frames) <= 1 \/ Len(frames) <= Len(lists[into].dense)
        /\ phase = "visit" => Len(frames) <= Len(lists[into].dense)

IInv == Scratch /\ Control /\ Stacked
-----------------------------------------------------------------------------
(* VmScratch.ensure's fresh buffers are good lists (pikevm.zig:128).       *)
LEMMA BuffersGood == ASSUME NEW n \in Nat PROVE GoodList(Buffers(n), n)
BY GensAssumption DEF GoodList, Buffers, Member

(* The next generation is larger, or the counter has wrapped               *)
(* (pikevm.zig:83).                                                        *)
LEMMA BumpedIn ==
    ASSUME NEW g \in 1..Gens - 1
    PROVE  Bumped(g) \in 0..Gens - 1 /\ (Bumped(g) # 0 => Bumped(g) = g + 1)
<1>1. CASE g + 1 = Gens
  BY <1>1, GensAssumption DEF Bumped
<1>2. CASE g + 1 # Gens
  BY <1>2, GensAssumption DEF Bumped
<1> QED BY <1>1, <1>2

(* Clearing keeps a list good: a generation that wraps takes every stamp   *)
(* with it (pikevm.zig:81).                                                *)
LEMMA ClearedGood ==
    ASSUME NEW cap \in Nat, NEW l, GoodList(l, cap)
    PROVE  GoodList(Cleared(l), cap) /\ Cleared(l).dense = <<>>
<1> DEFINE c == Cleared(l)
<1>1. /\ c.dense = <<>>
      /\ c.gen = IF Bumped(l.gen) = 0 THEN 1 ELSE Bumped(l.gen)
      /\ c.stamp = IF Bumped(l.gen) = 0 THEN [q \in DOMAIN l.stamp |-> 0] ELSE l.stamp
      /\ c = [dense |-> c.dense, gen |-> c.gen, stamp |-> c.stamp, row |-> c.row]
      /\ c.row = [q \in DOMAIN l.stamp |-> Stale]
  BY DEF Cleared
<1>2. /\ l.gen \in 1..Gens - 1 /\ l.stamp \in [0..cap - 1 -> 0..Gens - 1]
      /\ \A q \in 0..cap - 1 : l.stamp[q] <= l.gen
  BY DEF GoodList
<1>3. Bumped(l.gen) \in 0..Gens - 1 /\ (Bumped(l.gen) # 0 => Bumped(l.gen) = l.gen + 1)
  BY <1>2, BumpedIn
<1> HIDE DEF c
<1>4. c.gen \in 1..Gens - 1
  BY <1>1, <1>3, GensAssumption
<1>5. c.stamp \in [0..cap - 1 -> 0..Gens - 1]
  BY <1>1, <1>2, <1>3, GensAssumption
<1>6. \A q \in 0..cap - 1 : c.stamp[q] < c.gen
  BY <1>1, <1>2, <1>3, GensAssumption
<1>7. \A q \in 0..cap - 1 : c.stamp[q] <= c.gen /\ ~Member(c, q)
  BY <1>4, <1>5, <1>6, GensAssumption DEF Member
<1>8. c.dense \in Seq(0..cap - 1) /\ DOMAIN c.dense = {}
  BY <1>1
<1>9. c.row = [q \in 0..cap - 1 |-> c.row[q]]
  BY <1>1, <1>2
<1> QED BY <1>1, <1>4, <1>5, <1>7, <1>8, <1>9 DEF GoodList, c

(* A new member keeps a list good (pikevm.zig:66).                         *)
LEMMA InsertedGood ==
    ASSUME NEW cap \in Nat, NEW l, GoodList(l, cap), NEW q \in 0..cap - 1,
           ~Member(l, q), NEW slots, NEW keep
    PROVE  /\ GoodList(Inserted(l, q, slots, keep), cap)
           /\ Inserted(l, q, slots, keep).dense = Append(l.dense, q)
<1> DEFINE c == Inserted(l, q, slots, keep)
<1>1. /\ l = [dense |-> l.dense, gen |-> l.gen, stamp |-> l.stamp, row |-> l.row]
      /\ l.gen \in 1..Gens - 1 /\ l.stamp \in [0..cap - 1 -> 0..Gens - 1]
      /\ \A r \in 0..cap - 1 : l.stamp[r] <= l.gen
      /\ l.dense \in Seq(0..cap - 1)
      /\ \A r \in 0..cap - 1 : Member(l, r) <=> \E j \in DOMAIN l.dense : l.dense[j] = r
      /\ \A j, k \in DOMAIN l.dense : l.dense[j] = l.dense[k] => j = k
      /\ l.row = [r \in 0..cap - 1 |-> l.row[r]]
  BY DEF GoodList
<1>2. /\ c.dense = Append(l.dense, q) /\ c.gen = l.gen
      /\ c.row = [r \in 0..cap - 1 |-> c.row[r]]
      /\ c.stamp = [l.stamp EXCEPT ![q] = l.gen]
      /\ c = [dense |-> c.dense, gen |-> c.gen, stamp |-> c.stamp, row |-> c.row]
  BY <1>1 DEF Inserted
<1> HIDE DEF c
<1>3. c.gen \in 1..Gens - 1 /\ c.stamp \in [0..cap - 1 -> 0..Gens - 1]
  BY <1>1, <1>2, GensAssumption
<1>4. \A r \in 0..cap - 1 : c.stamp[r] <= c.gen
  BY <1>1, <1>2, GensAssumption
<1>5. /\ c.dense \in Seq(0..cap - 1) /\ Len(c.dense) = Len(l.dense) + 1
      /\ c.dense[Len(l.dense) + 1] = q
      /\ \A j \in 1..Len(l.dense) : c.dense[j] = l.dense[j]
      /\ DOMAIN c.dense = 1..Len(l.dense) + 1 /\ DOMAIN l.dense = 1..Len(l.dense)
      /\ Len(l.dense) \in Nat
  BY <1>1, <1>2
<1>6. \A r \in 0..cap - 1 : Member(c, r) <=> Member(l, r) \/ r = q
  BY <1>1, <1>2 DEF Member
<1>7. \A r \in 0..cap - 1 : Member(c, r) <=> \E j \in DOMAIN c.dense : c.dense[j] = r
  <2> SUFFICES ASSUME NEW r \in 0..cap - 1
               PROVE  Member(c, r) <=> \E j \in DOMAIN c.dense : c.dense[j] = r
    OBVIOUS
  <2>1. CASE r = q
    <3>1. Len(l.dense) + 1 \in DOMAIN c.dense /\ c.dense[Len(l.dense) + 1] = r
      BY <1>5, <2>1
    <3> QED BY <1>6, <2>1, <3>1
  <2>2. CASE r # q
    <3>1. (\E j \in DOMAIN c.dense : c.dense[j] = r)
             <=> \E j \in DOMAIN l.dense : l.dense[j] = r
      <4>1. ASSUME NEW j \in DOMAIN c.dense, c.dense[j] = r
            PROVE  \E k \in DOMAIN l.dense : l.dense[k] = r
        <5>1. j \in 1..Len(l.dense)
          BY <1>5, <2>2, <4>1
        <5> QED BY <1>5, <4>1, <5>1
      <4>2. ASSUME NEW j \in DOMAIN l.dense, l.dense[j] = r
            PROVE  \E k \in DOMAIN c.dense : c.dense[k] = r
        <5>1. j \in DOMAIN c.dense /\ c.dense[j] = r
          BY <1>5, <4>2
        <5> QED BY <5>1
      <4> QED BY <4>1, <4>2
    <3>2. Member(l, r) <=> \E j \in DOMAIN l.dense : l.dense[j] = r
      BY <1>1
    <3> QED BY <1>6, <2>2, <3>1, <3>2
  <2> QED BY <2>1, <2>2
<1>8. \A j \in DOMAIN l.dense : l.dense[j] # q
  BY <1>1
<1>9. \A j, k \in DOMAIN c.dense : c.dense[j] = c.dense[k] => j = k
  <2> SUFFICES ASSUME NEW j \in DOMAIN c.dense, NEW k \in DOMAIN c.dense,
                      c.dense[j] = c.dense[k]
               PROVE  j = k
    OBVIOUS
  <2>1. \A h \in DOMAIN c.dense : h \in DOMAIN l.dense \/ h = Len(l.dense) + 1
    BY <1>5
  <2>2. CASE j \in DOMAIN l.dense /\ k \in DOMAIN l.dense
    BY <1>1, <1>5, <2>2
  <2>3. CASE j = Len(l.dense) + 1 /\ k \in DOMAIN l.dense
    BY <1>5, <1>8, <2>3
  <2>4. CASE j \in DOMAIN l.dense /\ k = Len(l.dense) + 1
    BY <1>5, <1>8, <2>4
  <2>5. CASE j = Len(l.dense) + 1 /\ k = Len(l.dense) + 1
    BY <2>5
  <2> QED BY <2>1, <2>2, <2>3, <2>4, <2>5
<1> QED BY <1>2, <1>3, <1>4, <1>5, <1>7, <1>9 DEF GoodList, c

(* No list outgrows its buffer: its members are distinct pcs of it.        *)
LEMMA GoodListFits ==
    ASSUME NEW cap \in Nat, NEW l, GoodList(l, cap)
    PROVE  Len(l.dense) \in Nat /\ Len(l.dense) <= cap
<1>1. /\ l.dense \in Seq(0..cap - 1)
      /\ \A j, k \in DOMAIN l.dense : l.dense[j] = l.dense[k] => j = k
  BY DEF GoodList
<1>2. Len(l.dense) \in Nat /\ DOMAIN l.dense = 1..Len(l.dense)
      /\ l.dense \in [1..Len(l.dense) -> 0..cap - 1]
  BY <1>1
<1>3. l.dense \in Injection(1..Len(l.dense), 0..cap - 1)
  BY <1>1, <1>2 DEF Injection, IsInjective
<1>4. IsFiniteSet(0..cap - 1) /\ Cardinality(0..cap - 1) = cap
  BY FS_Interval
<1>5. Cardinality(1..Len(l.dense)) = Len(l.dense)
  BY <1>2, FS_Interval
<1>6. Cardinality(1..Len(l.dense)) <= Cardinality(0..cap - 1)
  BY <1>3, <1>4, FS_Injection
<1> QED BY <1>2, <1>4, <1>5, <1>6
-----------------------------------------------------------------------------
(* The stack of the closure under a push, a pop and a run of undo frames   *)
(* (pikevm.zig:480, pikevm_tagged.zig:132).                                *)
LEMMA FramedPush ==
    ASSUME NEW fs, Framed(fs), NEW f, f.explore => f.pc \in Pcs
    PROVE  /\ Framed(Append(fs, f)) /\ Len(fs) \in Nat
           /\ Len(Append(fs, f)) = Len(fs) + 1
<1>1. PICK S : fs \in Seq(S)
  BY DEF Framed
<1>2. fs \in Seq(S \cup {f}) /\ f \in S \cup {f}
  <2>1. fs \in [1..Len(fs) -> S] /\ Len(fs) \in Nat
    BY <1>1
  <2>2. fs \in [1..Len(fs) -> S \cup {f}]
    BY <2>1
  <2> QED BY <2>1, <2>2
<1>3. /\ Append(fs, f) \in Seq(S \cup {f}) /\ Len(fs) \in Nat
      /\ Len(Append(fs, f)) = Len(fs) + 1
      /\ DOMAIN Append(fs, f) = 1..Len(fs) + 1 /\ DOMAIN fs = 1..Len(fs)
      /\ \A k \in 1..Len(fs) : Append(fs, f)[k] = fs[k]
      /\ Append(fs, f)[Len(fs) + 1] = f
  BY <1>2
<1>4. \A k \in DOMAIN fs : fs[k].explore => fs[k].pc \in Pcs
  BY DEF Framed
<1>5. \A k \in DOMAIN Append(fs, f) :
          Append(fs, f)[k].explore => Append(fs, f)[k].pc \in Pcs
  <2> SUFFICES ASSUME NEW k \in DOMAIN Append(fs, f), Append(fs, f)[k].explore
               PROVE  Append(fs, f)[k].pc \in Pcs
    OBVIOUS
  <2>1. CASE k \in 1..Len(fs)
    BY <1>3, <1>4, <2>1
  <2>2. CASE k = Len(fs) + 1
    BY <1>3, <2>2
  <2> QED BY <1>3, <2>1, <2>2
<1> QED BY <1>3, <1>5 DEF Framed

(* A pop leaves a stack with one frame less (pikevm.zig:484).              *)
LEMMA FramedPop ==
    ASSUME NEW fs, Framed(fs), fs # <<>>
    PROVE  /\ Framed(Front(fs)) /\ Len(fs) \in Nat /\ Len(Front(fs)) = Len(fs) - 1
           /\ Last(fs).explore => Last(fs).pc \in Pcs
<1>1. PICK S : fs \in Seq(S)
  BY DEF Framed
<1>2. Len(fs) \in Nat \ {0} /\ DOMAIN fs = 1..Len(fs) /\ Last(fs) = fs[Len(fs)]
  BY <1>1 DEF Last
<1>3. /\ Front(fs) \in Seq(S) /\ Len(Front(fs)) = Len(fs) - 1
      /\ \A k \in 1..Len(fs) - 1 : Front(fs)[k] = fs[k]
      /\ DOMAIN Front(fs) = 1..Len(fs) - 1
  BY <1>1, <1>2 DEF Front
<1>4. \A k \in DOMAIN fs : fs[k].explore => fs[k].pc \in Pcs
  BY DEF Framed
<1>5. \A k \in DOMAIN Front(fs) : Front(fs)[k].explore => Front(fs)[k].pc \in Pcs
  BY <1>2, <1>3, <1>4
<1> QED BY <1>2, <1>3, <1>4, <1>5 DEF Framed

(* A run of undo frames, one per cleared slot (pikevm_tagged.zig:160).     *)
LEMMA FramedUndo ==
    ASSUME NEW fs, Framed(fs), NEW m \in Nat, NEW us,
           us = [k \in 1..m |-> us[k]], \A k \in 1..m : ~us[k].explore
    PROVE  Framed(fs \o us)
<1>1. PICK S : fs \in Seq(S)
  BY DEF Framed
<1> DEFINE T == S \cup {us[k] : k \in 1..m}
<1>2. fs \in Seq(T)
  <2>1. fs \in [1..Len(fs) -> S] /\ Len(fs) \in Nat
    BY <1>1
  <2>2. fs \in [1..Len(fs) -> T]
    BY <2>1
  <2> QED BY <2>1, <2>2
<1>3. us \in Seq(T) /\ Len(us) = m
  <2>1. us \in [1..m -> T]
    OBVIOUS
  <2> QED BY <2>1
<1> HIDE DEF T
<1>4. /\ fs \o us \in Seq(T) /\ DOMAIN (fs \o us) = 1..Len(fs) + m
      /\ Len(fs) \in Nat /\ DOMAIN fs = 1..Len(fs)
      /\ \A k \in 1..Len(fs) : (fs \o us)[k] = fs[k]
      /\ \A k \in Len(fs) + 1..Len(fs) + m : (fs \o us)[k] = us[k - Len(fs)]
  BY <1>2, <1>3
<1>5. \A k \in DOMAIN fs : fs[k].explore => fs[k].pc \in Pcs
  BY DEF Framed
<1>6. \A k \in DOMAIN (fs \o us) : (fs \o us)[k].explore => (fs \o us)[k].pc \in Pcs
  <2> SUFFICES ASSUME NEW k \in DOMAIN (fs \o us), (fs \o us)[k].explore
               PROVE  (fs \o us)[k].pc \in Pcs
    OBVIOUS
  <2>1. CASE k \in 1..Len(fs)
    BY <1>4, <1>5, <2>1
  <2>2. CASE k \in Len(fs) + 1..Len(fs) + m
    <3>1. (fs \o us)[k] = us[k - Len(fs)] /\ k - Len(fs) \in 1..m
      BY <1>4, <2>2
    <3> QED BY <3>1
  <2> QED BY <1>4, <2>1, <2>2
<1> QED BY <1>4, <1>6 DEF Framed
-----------------------------------------------------------------------------
(* What runs is a well-formed program, all of whose leads are its pcs      *)
(* (program.zig:85).                                                       *)
LEMMA ProgramFacts ==
    ASSUME Running, Control
    PROVE  /\ prog.n \in Nat \ {0} /\ 0 \in Pcs
           /\ \A q \in Pcs : Leads(Inst(q), q) \subseteq Pcs
           /\ \A q \in Pcs : Inst(q).op = "clear" => /\ Inst(q).lo \in Nat
                                                     /\ Inst(q).hi \in Nat
                                                     /\ Inst(q).lo <= Inst(q).hi
           /\ \A q \in Pcs : prog.follow[q + 1].pcs \in Seq(Pcs)
<1>1. call \in Calls
  BY DEF Control
<1>2. WellFormed(prog)
  BY <1>1, CallsAssumption DEF prog
<1> QED BY <1>2 DEF WellFormed, Pcs, Inst

(* Steps that leave the lists and the call alone keep the scratch.         *)
LEMMA ScratchSame == ASSUME Scratch, UNCHANGED scratch PROVE Scratch'
BY DEF Scratch, scratch, GoodList, Member

(* addThread: the closure begins at a pc of the program (pikevm.zig:464).  *)
LEMMA AddThreadKeeps ==
    ASSUME IInv, Running, NEW l \in 1..2, NEW q \in Pcs, NEW p, NEW s,
           NEW t \in {"decode", "step"}, AddThread(l, q, p, s, t),
           OfProgram(lists[l]), l = IF t = "step" THEN nl ELSE cl,
           UNCHANGED <<scratch, call, pass1, cl>>, i' \in Nat \ {0}
    PROVE  IInv'
<1>1. prog.follow[q + 1].pcs \in Seq(Pcs)
  <2>1. Control
    BY DEF IInv
  <2> QED BY <2>1, ProgramFacts
<1>2. /\ into' = l /\ then' = t /\ UNCHANGED <<lists, capacity, call, pass1, cl>>
      /\ \/ phase' = "pop" /\ frames' = <<[explore |-> TRUE, pc |-> q]>>
         \/ phase' = "copy" /\ todo' = prog.follow[q + 1].pcs
  BY DEF AddThread, scratch
<1>3. Scratch'
  BY ScratchSame DEF IInv
<1>4. Framed(<<[explore |-> TRUE, pc |-> q]>>)
  <2> DEFINE f == [explore |-> TRUE, pc |-> q]
  <2>1. f.pc = q
    OBVIOUS
  <2> HIDE DEF f
  <2>2. <<f>> \in Seq({f}) /\ DOMAIN <<f>> = 1..1 /\ <<f>>[1] = f
    OBVIOUS
  <2>3. Framed(<<f>>)
    <3>1. \E S : <<f>> \in Seq(S)
      BY <2>2
    <3>2. \A k \in DOMAIN <<f>> : <<f>>[k] = f
      BY <2>2
    <3>3. \A k \in DOMAIN <<f>> : <<f>>[k].explore => <<f>>[k].pc \in Pcs
      BY <2>1, <3>2
    <3> QED BY <3>1, <3>3 DEF Framed
  <2> QED BY <2>3 DEF f
<1>5. Pcs' = Pcs /\ prog' = prog /\ nl' = nl
  BY <1>2 DEF Pcs, prog, nl
<1>6. Running => call \in Calls /\ prog.n <= capacity /\ OfProgram(lists[cl])
  BY DEF IInv, Control
<1>7. Control'
  <2>1. cl \in 1..2
    BY DEF IInv, Control
  <2>2. phase' \in {"pop", "copy"}
    BY <1>2
  <2>3. (phase = "pop" => Framed(frames))'
    BY <1>2, <1>4, <1>5 DEF Framed
  <2>4. (phase = "copy" => todo \in Seq(Pcs))'
    BY <1>1, <1>2, <1>5
  <2>5. OfProgram(lists[cl])' /\ OfProgram(lists[into])'
    BY <1>2, <1>5, <1>6 DEF OfProgram
  <2> QED BY <1>2, <1>5, <1>6, <2>1, <2>2, <2>3, <2>4, <2>5 DEF Control, Closing
<1>8. Stacked'
  <2>1. \A x : Len(<<x>>) <= 1
    OBVIOUS
  <2>2. phase' = "pop" => \E x : frames' = <<x>>
    BY <1>2, Zenon
  <2>3. phase' = "pop" => Len(frames') <= 1
    BY <2>1, <2>2, Zenon
  <2>4. ~(phase' = "visit")
    BY <1>2
  <2> QED BY <2>3, <2>4, Zenon DEF Stacked
<1> QED BY <1>3, <1>7, <1>8 DEF IInv

(* A member that is new joins the list the closure fills; the other list   *)
(* is untouched (pikevm.zig:66).                                           *)
LEMMA InsertKeeps ==
    ASSUME IInv, phase \in Closing, NEW q \in Pcs, ~Member(lists[into], q), NEW s, NEW k,
           lists' = [lists EXCEPT ![into] = Inserted(@, q, s, k)],
           UNCHANGED <<capacity, call, cl, into, then>>
    PROVE  /\ Scratch'
           /\ OfProgram(lists[cl])' /\ OfProgram(lists[into])'
           /\ Len(lists'[into].dense) = Len(lists[into].dense) + 1
           /\ Len(lists[into].dense) \in Nat
<1>1. /\ into \in 1..2 /\ cl \in 1..2 /\ capacity \in Nat
      /\ lists = [l \in 1..2 |-> lists[l]]
      /\ \A l \in 1..2 : GoodList(lists[l], capacity)
      /\ Running /\ prog.n <= capacity /\ OfProgram(lists[cl]) /\ OfProgram(lists[into])
  BY DEF IInv, Scratch, Control, Closing, Running, Answers
<1>2. prog.n \in Nat
  BY <1>1, ProgramFacts DEF IInv
<1>3. q \in 0..capacity - 1
  BY <1>1, <1>2 DEF Pcs
<1> DEFINE c == Inserted(lists[into], q, s, k)
<1>4. GoodList(c, capacity) /\ c.dense = Append(lists[into].dense, q)
  BY <1>1, <1>3, InsertedGood
<1> HIDE DEF c
<1>5. lists' = [l \in 1..2 |-> IF l = into THEN c ELSE lists[l]]
  BY <1>1 DEF c
<1>6. Scratch'
  <2>1. \A l \in 1..2 : GoodList(lists'[l], capacity')
    BY <1>1, <1>4, <1>5
  <2>2. \A l \in 1..2 : GoodList(lists[l], capacity)'
    BY <2>1 DEF GoodList, Member
  <2> QED BY <1>1, <1>5, <2>2 DEF Scratch
<1>7. lists[into].dense \in Seq(0..capacity - 1)
  BY <1>1 DEF GoodList
<1>8. /\ Len(c.dense) = Len(lists[into].dense) + 1 /\ Len(lists[into].dense) \in Nat
      /\ DOMAIN c.dense = 1..Len(lists[into].dense) + 1
      /\ DOMAIN lists[into].dense = 1..Len(lists[into].dense)
      /\ c.dense[Len(lists[into].dense) + 1] = q
      /\ \A j \in 1..Len(lists[into].dense) : c.dense[j] = lists[into].dense[j]
  BY <1>3, <1>4, <1>7
<1>9. OfProgram(c)
  <2> SUFFICES ASSUME NEW j \in DOMAIN c.dense PROVE c.dense[j] \in Pcs
    BY DEF OfProgram
  <2>1. CASE j = Len(lists[into].dense) + 1
    BY <1>8, <2>1
  <2>2. CASE j \in 1..Len(lists[into].dense)
    BY <1>1, <1>8, <2>2 DEF OfProgram
  <2> QED BY <1>8, <2>1, <2>2
<1>10. Pcs' = Pcs
  BY DEF Pcs, prog
<1>11. OfProgram(lists[cl])' /\ OfProgram(lists[into])'
  <2>1. \A l \in 1..2 : OfProgram(lists[l]) => \A j \in DOMAIN lists'[l].dense : lists'[l].dense[j] \in Pcs
    BY <1>5, <1>9 DEF OfProgram
  <2> QED BY <1>1, <1>10, <2>1 DEF OfProgram
<1> QED BY <1>1, <1>5, <1>6, <1>8, <1>11
-----------------------------------------------------------------------------
(* VmScratch.init: no buffers yet (pikevm.zig:106).                        *)
LEMMA InitGood == Init => IInv
<1> SUFFICES ASSUME Init PROVE IInv
  OBVIOUS
<1>1. Scratch
  <2>1. lists = [l \in 1..2 |-> Buffers(0)] /\ capacity = 0
    BY DEF Init
  <2>2. GoodList(Buffers(0), 0)
    BY BuffersGood
  <2> HIDE DEF Buffers
  <2> QED BY <2>1, <2>2 DEF Scratch
<1> QED BY <1>1 DEF Init, IInv, Control, Stacked, Closing, Running, Answers

(* Steps that only move the phase among the search's (pikevm.zig:379).     *)
LEMMA MoveKeeps ==
    ASSUME IInv, UNCHANGED <<scratch, closure, control, cl, i, pos, best>>,
           Running, phase' \in Answers \cup {"decode", "over"}
    PROVE  IInv'
<1>1. UNCHANGED <<lists, capacity, call, pass1, cl, i, into, then, frames, todo, pc>>
  BY DEF scratch, closure, control
<1>2. Scratch'
  BY ScratchSame DEF IInv
<1>3. phase' \notin Closing /\ phase' # "step" /\ phase' # "pop" /\ phase' # "visit"
      /\ phase' # "copy"
  BY DEF Closing, Answers
<1>4. Control'
  <2>1. /\ cl \in 1..2 /\ i \in Nat \ {0} /\ into \in 1..2 /\ then \in {"decode", "step"}
        /\ call \in Calls /\ prog.n <= capacity /\ OfProgram(lists[cl])
    BY DEF IInv, Control
  <2>2. call' \in Calls /\ prog'.n <= capacity' /\ OfProgram(lists[cl])'
    BY <1>1, <2>1 DEF OfProgram, Pcs, prog
  <2>3. phase' \in Answers \cup Closing \cup {"idle", "top", "decode", "step", "over"}
    OBVIOUS
  <2> QED BY <1>1, <1>3, <2>1, <2>2, <2>3 DEF Control
<1>5. Stacked'
  BY <1>3 DEF Stacked
<1> QED BY <1>2, <1>4, <1>5 DEF IInv

(* A call that is refused touches no scratch (pikevm.zig:331).             *)
LEMMA RefuseKeeps == ASSUME IInv, NEW c \in Calls, Refuse(c) PROVE IInv'
<1>1. /\ UNCHANGED <<lists, capacity, cl, i, into, then>>
      /\ phase' \in {"not_exists", "no_match"}
  BY DEF Refuse, scratch, closure
<1>2. Scratch'
  BY <1>1, ScratchSame DEF IInv, scratch
<1>3. Control'
  BY <1>1 DEF IInv, Control, Running, Answers, Closing
<1>4. Stacked'
  BY <1>1 DEF Stacked
<1> QED BY <1>2, <1>3, <1>4 DEF IInv

(* A pass begins with an empty list (pikevm.zig:376).                      *)
LEMMA StartKeeps == ASSUME IInv, NEW c \in Calls, Start(c) PROVE IInv'
<1> DEFINE n == c.prog.n
<1>1. WellFormed(c.prog)
  BY CallsAssumption
<1>2. n \in Nat \ {0}
  BY <1>1 DEF WellFormed
<1>3. /\ call' = c /\ pass1' = {} /\ cl' = 1 /\ i' = 1 /\ phase' = "top"
      /\ capacity' = (IF n <= capacity THEN capacity ELSE n)
      /\ lists' = [Ensured(n) EXCEPT ![1] = Cleared(@)]
      /\ UNCHANGED <<into, then>>
  BY DEF Start, closure
<1>4. capacity \in Nat /\ lists = [l \in 1..2 |-> lists[l]]
      /\ \A l \in 1..2 : GoodList(lists[l], capacity)
  BY DEF IInv, Scratch
<1>5. Ensured(n) = [l \in 1..2 |-> Ensured(n)[l]]
      /\ \A l \in 1..2 : GoodList(Ensured(n)[l], capacity')
  <2>1. CASE n <= capacity
    BY <1>3, <1>4, <2>1 DEF Ensured
  <2>2. CASE ~(n <= capacity)
    <3>1. GoodList(Buffers(n), n) /\ capacity' = n
      BY <1>2, <1>3, <2>2, BuffersGood
    <3>2. Ensured(n) = [l \in 1..2 |-> Buffers(n)]
      BY <2>2 DEF Ensured
    <3> QED BY <3>1, <3>2
  <2> QED BY <2>1, <2>2
<1>6. capacity' \in Nat /\ n <= capacity'
  BY <1>2, <1>3, <1>4
<1>7. GoodList(Cleared(Ensured(n)[1]), capacity') /\ Cleared(Ensured(n)[1]).dense = <<>>
  BY <1>5, <1>6, ClearedGood
<1>8. lists' = [l \in 1..2 |-> IF l = 1 THEN Cleared(Ensured(n)[1]) ELSE Ensured(n)[l]]
  BY <1>3, <1>5
<1>9. \A l \in 1..2 : GoodList(lists'[l], capacity')
  BY <1>5, <1>7, <1>8
<1>10. Scratch'
  <2>1. \A l \in 1..2 : GoodList(lists[l], capacity)'
    BY <1>9 DEF GoodList, Member
  <2> QED BY <1>6, <1>8, <2>1 DEF Scratch
<1>11. lists'[cl'].dense = <<>>
  BY <1>3, <1>7, <1>8
<1>12. OfProgram(lists[cl])'
  BY <1>11 DEF OfProgram
<1>13. prog'.n <= capacity'
  BY <1>3, <1>6 DEF prog
<1>14. Control'
  BY <1>3, <1>12, <1>13 DEF IInv, Control, Closing, Answers
<1>15. Stacked'
  BY <1>3 DEF Stacked
<1> QED BY <1>10, <1>14, <1>15 DEF IInv

(* A new thread starts at the program's entry (pikevm.zig:385).            *)
LEMMA SeedKeeps == ASSUME IInv, Seed PROVE IInv'
<1>1. Running /\ phase = "top"
  BY DEF Seed, Running, Answers
<1>2. Control
  BY DEF IInv
<1>3. 0 \in Pcs /\ cl \in 1..2 /\ i \in Nat \ {0} /\ OfProgram(lists[cl])
  BY <1>1, <1>2, ProgramFacts DEF Control
<1>4. UNCHANGED <<scratch, call, pass1, cl, i>>
  BY DEF Seed, control
<1>5. PICK p, s : AddThread(cl, 0, p, s, "decode")
  BY DEF Seed
<1> QED BY <1>1, <1>3, <1>4, <1>5, AddThreadKeeps

(* A thread that steps leads to the next pc, in the other list             *)
(* (pikevm.zig:397).                                                       *)
LEMMA ConsumeKeeps == ASSUME IInv, Consume PROVE IInv'
<1>1. /\ phase = "step" /\ i <= Len(lists[cl].dense) /\ Inst(Thread).op = "set"
      /\ i' = i + 1 /\ AddThread(nl, Thread + 1, pos + 1, lists[cl].row[Thread], "step")
      /\ UNCHANGED <<scratch, call, pass1, cl>>
  BY DEF Consume, Stepping, Accepts, control
<1>2. Running /\ Control
  BY <1>1 DEF Running, Answers, IInv
<1>3. /\ cl \in 1..2 /\ i \in Nat \ {0} /\ OfProgram(lists[cl]) /\ OfProgram(lists[nl])
  BY <1>1, <1>2 DEF Control
<1>4. lists[cl].dense \in Seq(0..capacity - 1)
  BY <1>3 DEF IInv, Scratch, GoodList
<1>5. i \in DOMAIN lists[cl].dense
  BY <1>1, <1>3, <1>4
<1>6. Thread \in Pcs
  BY <1>3, <1>5 DEF OfProgram, Thread
<1>7. Leads(Inst(Thread), Thread) \subseteq Pcs
  BY <1>2, <1>6, ProgramFacts
<1>8. Thread + 1 \in Pcs
  BY <1>1, <1>7 DEF Leads
<1>9. nl \in 1..2 /\ i' \in Nat \ {0}
  BY <1>1, <1>3 DEF nl
<1> HIDE DEF Thread
<1>10. PICK p, s : AddThread(nl, Thread + 1, p, s, "step")
  BY <1>1
<1> QED BY <1>1, <1>2, <1>3, <1>8, <1>9, <1>10, AddThreadKeeps

(* One list is cleared, and so holds no pc of another program any more     *)
(* (pikevm.zig:388).                                                       *)
LEMMA ClearKeeps ==
    ASSUME Scratch, NEW l \in 1..2, lists' = [lists EXCEPT ![l] = Cleared(@)],
           UNCHANGED capacity
    PROVE  Scratch' /\ OfProgram(lists[l])'
           /\ \A k \in 1..2 : k # l => lists'[k] = lists[k]
<1>1. /\ capacity \in Nat /\ lists = [k \in 1..2 |-> lists[k]]
      /\ \A k \in 1..2 : GoodList(lists[k], capacity)
  BY DEF Scratch
<1> DEFINE c == Cleared(lists[l])
<1>2. GoodList(c, capacity) /\ c.dense = <<>>
  BY <1>1, ClearedGood
<1>3. lists' = [k \in 1..2 |-> IF k = l THEN c ELSE lists[k]]
  BY <1>1
<1> HIDE DEF c
<1>4. \A k \in 1..2 : GoodList(lists[k], capacity)'
  <2>1. \A k \in 1..2 : GoodList(lists'[k], capacity')
    BY <1>1, <1>2, <1>3
  <2> QED BY <2>1 DEF GoodList, Member
<1>5. lists'[l].dense = <<>>
  BY <1>2, <1>3
<1> QED BY <1>1, <1>3, <1>4, <1>5 DEF Scratch, OfProgram

(* The list to fill is cleared before the threads step (pikevm.zig:388).   *)
LEMMA DecodeKeeps == ASSUME IInv, Decode PROVE IInv'
<1>1. Running /\ Scratch /\ Control
  BY DEF Decode, Running, Answers, IInv
<1>2. /\ UNCHANGED <<capacity, call, pass1, cl, into, then>>
      /\ \/ phase' \in {"over", "step_limit"} /\ UNCHANGED <<lists, i>>
         \/ phase' = "step" /\ i' = 1 /\ lists' = [lists EXCEPT ![nl] = Cleared(@)]
  BY DEF Decode, closure, control, OutOfSteps
<1>3. /\ cl \in 1..2 /\ i \in Nat \ {0} /\ into \in 1..2 /\ then \in {"decode", "step"}
      /\ call \in Calls /\ prog.n <= capacity /\ OfProgram(lists[cl])
  BY <1>1 DEF Control
<1>4. nl \in 1..2 /\ nl # cl /\ nl' = nl /\ prog' = prog /\ Pcs' = Pcs
  BY <1>2, <1>3 DEF nl, prog, Pcs
<1>5. Scratch' /\ OfProgram(lists[cl])' /\ (phase' = "step" => OfProgram(lists[nl])')
  <2>1. CASE phase' \in {"over", "step_limit"} /\ UNCHANGED <<lists, i>>
    <3>1. Scratch'
      BY <1>1, <1>2, <2>1, ScratchSame DEF scratch
    <3> QED BY <1>2, <1>3, <1>4, <2>1, <3>1 DEF OfProgram
  <2>2. CASE phase' = "step" /\ lists' = [lists EXCEPT ![nl] = Cleared(@)]
    <3>1. Scratch' /\ (\A l \in 1..2 : l = nl => OfProgram(lists[l])')
          /\ lists'[cl] = lists[cl]
      BY <1>1, <1>2, <1>3, <1>4, <2>2, ClearKeeps
    <3>2. OfProgram(lists[cl])'
      BY <1>2, <1>3, <1>4, <3>1 DEF OfProgram
    <3>3. OfProgram(lists[nl])'
      BY <1>4, <3>1
    <3> QED BY <3>1, <3>2, <3>3
  <2> QED BY <1>2, <2>1, <2>2
<1>6. i' \in Nat \ {0} /\ phase' \in {"over", "step_limit", "step"}
  BY <1>2, <1>3
<1>7. Control'
  BY <1>2, <1>3, <1>4, <1>5, <1>6 DEF Control, Closing, Answers
<1>8. Stacked'
  BY <1>6 DEF Stacked
<1> QED BY <1>5, <1>7, <1>8 DEF IInv

(* A thread that does not step, and a match, which cuts those after it     *)
(* (pikevm.zig:399).                                                       *)
LEMMA ThreadDoneKeeps == ASSUME IInv, Drop \/ RecordMatch PROVE IInv'
<1>1. /\ phase = "step" /\ UNCHANGED <<scratch, call, pass1, cl, into, then>>
      /\ phase' \in {"step", "exists"} /\ i' \in {i + 1, AfterMatch}
  BY DEF Drop, RecordMatch, Stepping, closure, control
<1>2. Running /\ Scratch /\ Control
  BY <1>1 DEF Running, Answers, IInv
<1>3. /\ cl \in 1..2 /\ i \in Nat \ {0} /\ into \in 1..2 /\ then \in {"decode", "step"}
      /\ call \in Calls /\ prog.n <= capacity /\ OfProgram(lists[cl])
      /\ OfProgram(lists[nl])
  BY <1>1, <1>2 DEF Control
<1>4. Len(lists[cl].dense) \in Nat
  BY <1>2, <1>3, GoodListFits DEF Scratch
<1>5. i' \in Nat \ {0}
  BY <1>1, <1>3, <1>4 DEF AfterMatch
<1>6. Scratch'
  BY <1>1, <1>2, ScratchSame
<1>7. OfProgram(lists[cl])' /\ OfProgram(lists[nl])' /\ prog'.n <= capacity'
  BY <1>1, <1>3 DEF OfProgram, Pcs, prog, nl, scratch
<1>8. Control'
  BY <1>1, <1>3, <1>5, <1>7 DEF Control, Closing, Answers
<1>9. Stacked'
  BY <1>1 DEF Stacked
<1> QED BY <1>6, <1>8, <1>9 DEF IInv

(* The lists change roles (pikevm.zig:409).                                *)
LEMMA AdvanceKeeps == ASSUME IInv, Advance PROVE IInv'
<1>1. /\ phase = "step" /\ phase' = "top" /\ cl' = nl
      /\ UNCHANGED <<scratch, call, pass1, i, into, then>>
  BY DEF Advance, closure, control
<1>2. Running /\ Scratch /\ Control
  BY <1>1 DEF Running, Answers, IInv
<1>3. /\ cl \in 1..2 /\ i \in Nat \ {0} /\ into \in 1..2 /\ then \in {"decode", "step"}
      /\ call \in Calls /\ prog.n <= capacity /\ OfProgram(lists[nl])
  BY <1>1, <1>2 DEF Control
<1>4. Scratch'
  BY <1>1, <1>2, ScratchSame
<1>5. OfProgram(lists[cl])' /\ prog'.n <= capacity' /\ cl' \in 1..2
  BY <1>1, <1>3 DEF OfProgram, Pcs, prog, nl, scratch
<1>6. Control'
  BY <1>1, <1>3, <1>5 DEF Control, Closing, Answers
<1>7. Stacked'
  BY <1>1 DEF Stacked
<1> QED BY <1>4, <1>6, <1>7 DEF IInv

(* The second pass begins as the first, in the same buffers                *)
(* (pikevm_tagged.zig:76).                                                 *)
LEMMA SecondPassKeeps == ASSUME IInv, SecondPass PROVE IInv'
<1>1. /\ phase = "over" /\ phase' = "top" /\ cl' = 1 /\ i' = 1
      /\ lists' = [lists EXCEPT ![1] = Cleared(@)]
      /\ UNCHANGED <<capacity, call, into, then>>
  BY DEF SecondPass, closure
<1>2. Running /\ Scratch /\ Control
  BY <1>1 DEF Running, Answers, IInv
<1>3. /\ into \in 1..2 /\ then \in {"decode", "step"}
      /\ call \in Calls /\ prog.n <= capacity
  BY <1>1, <1>2 DEF Control
<1>4. Scratch' /\ OfProgram(lists[1])'
  BY <1>1, <1>2, ClearKeeps
<1>5. OfProgram(lists[cl])' /\ prog'.n <= capacity'
  BY <1>1, <1>3, <1>4 DEF prog
<1>6. Control'
  BY <1>1, <1>3, <1>5 DEF Control, Closing, Answers
<1>7. Stacked'
  BY <1>1 DEF Stacked
<1> QED BY <1>4, <1>6, <1>7 DEF IInv

(* The scratch outlives the call (pikevm.zig:93).                          *)
LEMMA ReturnKeeps == ASSUME IInv, Return PROVE IInv'
<1>1. Scratch'
  BY ScratchSame DEF IInv, Return
<1> QED BY <1>1 DEF Return, IInv, Control, Stacked, Closing, Running, Answers

(* The end of the search and of a pass (pikevm.zig:407).                   *)
LEMMA SearchMovesKeep == ASSUME IInv, SkipOut \/ NoSeed \/ Exhausted PROVE IInv'
<1>1. /\ phase \in {"top", "step"} /\ phase' \in {"decode", "over"}
      /\ UNCHANGED <<scratch, closure, control, cl, i, pos, best>>
  BY DEF SkipOut, NoSeed, Exhausted, search
<1>2. Running
  BY <1>1 DEF Running, Answers
<1> QED BY <1>1, <1>2, MoveKeeps

(* A pass's verdict (pikevm.zig:411, pikevm_tagged.zig:63).                *)
LEMMA VerdictKeeps == ASSUME IInv, NotFound \/ Found \/ BothPasses PROVE IInv'
<1>1. /\ phase = "over"
      /\ UNCHANGED <<scratch, closure, control, cl, i, pos, best>>
  BY DEF NotFound, Found, BothPasses, search
<1>2. phase' \in {"mismatch", "not_exists", "no_match", "match"}
  BY DEF NotFound, Found, BothPasses
<1>3. Running /\ phase' \in Answers
  BY <1>1, <1>2 DEF Running, Answers
<1> QED BY <1>1, <1>3, MoveKeeps
-----------------------------------------------------------------------------
(* What a closure's step must show, the rest being as it was.              *)
LEMMA ClosureStep ==
    ASSUME IInv, phase \in {"pop", "visit"}, phase' \in {"pop", "visit"},
           UNCHANGED <<capacity, call, pass1, cl, i, into, then>>,
           Scratch', OfProgram(lists[cl])', OfProgram(lists[into])',
           Framed(frames'), phase' = "visit" => pc' \in Pcs, Stacked'
    PROVE  IInv'
<1>1. Running /\ phase \in Closing
  BY DEF Running, Answers, Closing
<1>2. /\ cl \in 1..2 /\ i \in Nat \ {0} /\ into \in 1..2 /\ then \in {"decode", "step"}
      /\ call \in Calls /\ prog.n <= capacity
      /\ into = IF then = "step" THEN nl ELSE cl
  BY <1>1 DEF IInv, Control
<1>3. prog' = prog /\ Pcs' = Pcs /\ nl' = nl
  BY DEF prog, Pcs, nl
<1>4. Framed(frames)'
  BY <1>3 DEF Framed
<1>5. Control'
  BY <1>2, <1>3, <1>4 DEF Control, Closing, Answers
<1> QED BY <1>5 DEF IInv

(* A closure that leaves the lists alone: its stack is what moves.         *)
LEMMA ClosureMove ==
    ASSUME IInv, phase \in {"pop", "visit"}, phase' \in {"pop", "visit"},
           UNCHANGED <<scratch, call, pass1, cl, i, into, then>>,
           Framed(frames'), phase' = "visit" => pc' \in Pcs, Stacked'
    PROVE  IInv'
<1>1. Scratch'
  BY ScratchSame DEF IInv
<1>2. OfProgram(lists[cl]) /\ OfProgram(lists[into])
  BY DEF IInv, Control, Running, Answers, Closing
<1>3. UNCHANGED lists /\ Pcs' = Pcs /\ UNCHANGED capacity
  BY DEF scratch, Pcs, prog
<1>4. OfProgram(lists[cl])' /\ OfProgram(lists[into])'
  BY <1>2, <1>3 DEF OfProgram
<1> QED BY <1>1, <1>3, <1>4, ClosureStep

(* The closure's walk ends where addThread was called from, its list good  *)
(* for what comes next (pikevm.zig:464).                                   *)
LEMMA CloseKeeps == ASSUME IInv, CopyEnd \/ CloseEnd PROVE IInv'
<1>1. /\ phase \in Closing /\ phase' = then
      /\ UNCHANGED <<lists, capacity, call, pass1, cl, i, into, then>>
  BY DEF CopyEnd, CloseEnd, Closing, scratch, closure, control, search
<1>2. Running /\ Scratch /\ Control
  BY <1>1 DEF Running, Answers, Closing, IInv
<1>3. /\ cl \in 1..2 /\ i \in Nat \ {0} /\ into \in 1..2 /\ then \in {"decode", "step"}
      /\ call \in Calls /\ prog.n <= capacity /\ OfProgram(lists[cl])
      /\ then = "step" => OfProgram(lists[nl])
  BY <1>1, <1>2 DEF Control
<1>4. Scratch'
  BY <1>1, <1>2, ScratchSame DEF scratch
<1>5. prog'.n <= capacity' /\ OfProgram(lists[cl])' /\ (then' = "step" => OfProgram(lists[nl])')
  BY <1>1, <1>3 DEF OfProgram, Pcs, prog, nl
<1>6. Control'
  BY <1>1, <1>3, <1>5 DEF Control, Closing, Answers
<1>7. Stacked'
  BY <1>1, <1>3 DEF Stacked
<1> QED BY <1>4, <1>6, <1>7 DEF IInv

(* A precomputed closure only holds pcs of its program (program.zig:85).   *)
LEMMA CopyMemberKeeps == ASSUME IInv, CopyMember PROVE IInv'
<1>1. /\ phase = "copy" /\ phase' = "copy" /\ todo # <<>> /\ todo' = Tail(todo)
      /\ UNCHANGED <<capacity, call, pass1, cl, i, into, then>>
      /\ lists' = IF Member(lists[into], Head(todo)) THEN lists
                  ELSE [lists EXCEPT ![into] = Inserted(@, Head(todo), curr, TRUE)]
  BY DEF CopyMember, control, search
<1>2. Running /\ phase \in Closing /\ Scratch /\ Control
  BY <1>1 DEF Running, Answers, Closing, IInv
<1>3. /\ cl \in 1..2 /\ i \in Nat \ {0} /\ into \in 1..2 /\ then \in {"decode", "step"}
      /\ call \in Calls /\ prog.n <= capacity /\ OfProgram(lists[cl])
      /\ into = (IF then = "step" THEN nl ELSE cl)
      /\ OfProgram(lists[into]) /\ todo \in Seq(Pcs)
  BY <1>1, <1>2 DEF Control
<1>4. Head(todo) \in Pcs /\ Tail(todo) \in Seq(Pcs)
  BY <1>1, <1>3
<1>5. prog' = prog /\ Pcs' = Pcs /\ nl' = nl
  BY <1>1 DEF prog, Pcs, nl
<1>6. Scratch' /\ OfProgram(lists[cl])' /\ OfProgram(lists[into])'
  <2>1. CASE Member(lists[into], Head(todo))
    <3>1. Scratch'
      BY <1>1, <1>2, <2>1, ScratchSame DEF scratch
    <3> QED BY <1>1, <1>3, <1>5, <2>1, <3>1 DEF OfProgram
  <2>2. CASE ~Member(lists[into], Head(todo))
    <3>1. lists' = [lists EXCEPT ![into] = Inserted(@, Head(todo), curr, TRUE)]
      BY <1>1, <2>2
    <3> HIDE DEF Inserted
    <3> QED BY <1>1, <1>2, <1>4, <2>2, <3>1, InsertKeeps
  <2> QED BY <2>1, <2>2
<1>7. Control'
  BY <1>1, <1>3, <1>4, <1>5, <1>6 DEF Control, Closing, Answers
<1>8. Stacked'
  BY <1>1 DEF Stacked
<1> QED BY <1>6, <1>7, <1>8 DEF IInv

(* A pending branch is taken: one frame less than there may be.            *)
LEMMA ExploreKeeps == ASSUME IInv, Explore PROVE IInv'
<1>1. /\ phase = "pop" /\ phase' = "visit" /\ frames # <<>> /\ Last(frames).explore
      /\ frames' = Front(frames) /\ pc' = Last(frames).pc
      /\ UNCHANGED <<lists, capacity, call, pass1, cl, i, into, then>>
  BY DEF Explore, scratch, control, search
<1>2. Framed(frames) /\ Stacked /\ into \in 1..2 /\ Scratch
  BY <1>1 DEF IInv, Control
<1>3. /\ Framed(Front(frames)) /\ Len(frames) \in Nat
      /\ Len(Front(frames)) = Len(frames) - 1 /\ Last(frames).pc \in Pcs
  BY <1>1, <1>2, FramedPop
<1>4. Len(lists[into].dense) \in Nat
  BY <1>2, GoodListFits DEF Scratch
<1>5. Stacked'
  BY <1>1, <1>2, <1>3, <1>4 DEF Stacked, tagged
<1> QED BY <1>1, <1>3, <1>5, ClosureMove DEF scratch

(* A slot is put back.                                                     *)
LEMMA RestoreKeeps == ASSUME IInv, Restore PROVE IInv'
<1>1. /\ phase = "pop" /\ phase' = "pop" /\ frames # <<>> /\ frames' = Front(frames)
      /\ UNCHANGED <<lists, capacity, call, pass1, cl, i, into, then>>
  BY DEF Restore, scratch, control, search
<1>2. Framed(frames) /\ Stacked /\ into \in 1..2 /\ Scratch
  BY <1>1 DEF IInv, Control
<1>3. /\ Framed(Front(frames)) /\ Len(frames) \in Nat
      /\ Len(Front(frames)) = Len(frames) - 1
  BY <1>1, <1>2, FramedPop
<1>4. Len(lists[into].dense) \in Nat
  BY <1>2, GoodListFits DEF Scratch
<1>5. Stacked'
  BY <1>1, <1>2, <1>3, <1>4 DEF Stacked, tagged
<1> QED BY <1>1, <1>3, <1>5, ClosureMove DEF scratch

(* A pc that is a member already is not entered again (pikevm.zig:486).    *)
LEMMA VisitMemberKeeps == ASSUME IInv, VisitMember PROVE IInv'
<1>1. /\ phase = "visit" /\ phase' = "pop"
      /\ UNCHANGED <<lists, capacity, frames, call, pass1, cl, i, into, then>>
  BY DEF VisitMember, scratch, closure, control, search
<1>2. Framed(frames) /\ Stacked
  BY <1>1 DEF IInv, Control
<1>3. Stacked'
  BY <1>1, <1>2 DEF Stacked, tagged
<1> QED BY <1>1, <1>2, <1>3, ClosureMove DEF scratch

(* The pc a closure enters, and what it leads to (pikevm.zig:487).         *)
LEMMA VisitFacts ==
    ASSUME IInv, NEW ops, Visiting(ops), UNCHANGED <<capacity, call, cl, into, then>>
    PROVE  /\ phase = "visit" /\ pc \in Pcs /\ Inst(pc).op \in ops
           /\ Leads(Inst(pc), pc) \subseteq Pcs
           /\ Inst(pc).op = "clear" => /\ Inst(pc).lo \in Nat /\ Inst(pc).hi \in Nat
                                       /\ Inst(pc).lo <= Inst(pc).hi
           /\ Framed(frames)
           /\ ~tagged => Len(frames) <= Len(lists[into].dense)
           /\ Scratch' /\ OfProgram(lists[cl])' /\ OfProgram(lists[into])'
           /\ Len(lists'[into].dense) = Len(lists[into].dense) + 1
           /\ Len(lists[into].dense) \in Nat
<1>1. /\ phase = "visit" /\ ~Member(lists[into], pc) /\ Inst(pc).op \in ops
      /\ lists' = [lists EXCEPT ![into] = Inserted(@, pc, curr, Keeps(pc))]
  BY DEF Visiting
<1>2. Running /\ phase \in Closing /\ Control /\ Stacked
  BY <1>1 DEF Running, Answers, Closing, IInv
<1>3. pc \in Pcs /\ Framed(frames) /\ (~tagged => Len(frames) <= Len(lists[into].dense))
  BY <1>1, <1>2 DEF Control, Stacked
<1>4. /\ Scratch' /\ OfProgram(lists[cl])' /\ OfProgram(lists[into])'
      /\ Len(lists'[into].dense) = Len(lists[into].dense) + 1
      /\ Len(lists[into].dense) \in Nat
  <2> HIDE DEF Inserted, Keeps
  <2> QED BY <1>1, <1>2, <1>3, InsertKeeps
<1>5. /\ Leads(Inst(pc), pc) \subseteq Pcs
      /\ Inst(pc).op = "clear" => /\ Inst(pc).lo \in Nat /\ Inst(pc).hi \in Nat
                                  /\ Inst(pc).lo <= Inst(pc).hi
  BY <1>2, <1>3, ProgramFacts
<1> QED BY <1>1, <1>3, <1>4, <1>5

(* A split: one member more, one frame more (pikevm.zig:490).              *)
LEMMA VisitSplitKeeps == ASSUME IInv, VisitSplit PROVE IInv'
<1>1. /\ Visiting({"split"}) /\ phase' = phase
      /\ frames' = Append(frames, [explore |-> TRUE, pc |-> XFirst(Inst(pc)).later])
      /\ pc' = XFirst(Inst(pc)).now
      /\ UNCHANGED <<capacity, call, pass1, cl, i, into, then>>
  BY DEF VisitSplit, control, search
<1>2. /\ phase = "visit" /\ Inst(pc).op = "split" /\ Leads(Inst(pc), pc) \subseteq Pcs
      /\ Framed(frames) /\ (~tagged => Len(frames) <= Len(lists[into].dense))
      /\ Scratch' /\ OfProgram(lists[cl])' /\ OfProgram(lists[into])'
      /\ Len(lists'[into].dense) = Len(lists[into].dense) + 1
      /\ Len(lists[into].dense) \in Nat
  <2> HIDE DEF Visiting
  <2> QED BY <1>1, VisitFacts
<1>3. XFirst(Inst(pc)).now \in Pcs /\ XFirst(Inst(pc)).later \in Pcs
  BY <1>2 DEF Leads, XFirst
<1> DEFINE f == [explore |-> TRUE, pc |-> XFirst(Inst(pc)).later]
<1>4. f.pc \in Pcs
  BY <1>3
<1>5. frames' = Append(frames, f)
  BY <1>1
<1> HIDE DEF f
<1>6. Framed(frames') /\ Len(frames) \in Nat /\ Len(frames') = Len(frames) + 1
  BY <1>2, <1>4, <1>5, FramedPush
<1>7. Stacked'
  BY <1>1, <1>2, <1>6 DEF Stacked, tagged
<1> QED BY <1>1, <1>2, <1>3, <1>6, <1>7, ClosureStep

(* A pc with one way on, or none: the stack stays (pikevm.zig:489).        *)
LEMMA VisitOnKeeps ==
    ASSUME IInv, VisitJmp \/ PassOver \/ VisitAssert \/ VisitEnd PROVE IInv'
<1>1. PICK ops : Visiting(ops)
  BY DEF VisitJmp, PassOver, VisitAssert, VisitEnd
<1>2. UNCHANGED <<capacity, call, pass1, cl, i, into, then, frames>>
  BY DEF VisitJmp, PassOver, VisitAssert, VisitEnd, closure, control, search
<1>3. /\ phase = "visit" /\ Leads(Inst(pc), pc) \subseteq Pcs
      /\ Framed(frames) /\ (~tagged => Len(frames) <= Len(lists[into].dense))
      /\ Scratch' /\ OfProgram(lists[cl])' /\ OfProgram(lists[into])'
      /\ Len(lists'[into].dense) = Len(lists[into].dense) + 1
      /\ Len(lists[into].dense) \in Nat
  <2> HIDE DEF Visiting
  <2> QED BY <1>1, <1>2, VisitFacts
<1>4. phase' \in {"pop", "visit"} /\ (phase' = "visit" => pc' \in Pcs)
  <2>1. CASE VisitJmp
    BY <1>3, <2>1 DEF VisitJmp, Visiting, Leads
  <2>2. CASE PassOver
    BY <1>3, <2>2 DEF PassOver, Visiting, Leads
  <2>3. CASE VisitAssert
    <3> HIDE DEF HoldsAt
    <3> QED BY <1>3, <2>3 DEF VisitAssert, Visiting, Leads
  <2>4. CASE VisitEnd
    BY <2>4 DEF VisitEnd
  <2> QED BY <2>1, <2>2, <2>3, <2>4
<1>5. Len(frames) \in Nat
  BY <1>3 DEF Framed
<1>6. Stacked'
  BY <1>2, <1>3, <1>5 DEF Stacked, tagged
<1> QED BY <1>2, <1>3, <1>4, <1>6, ClosureStep

(* A slot is set, the old value pending (pikevm_tagged.zig:154).           *)
LEMMA VisitSaveKeeps == ASSUME IInv, VisitSave PROVE IInv'
<1>1. /\ Visiting({"save"}) /\ tagged /\ phase' = phase
      /\ frames' = Append(frames, Undo(Inst(pc).slot)) /\ pc' = pc + 1
      /\ UNCHANGED <<capacity, call, pass1, cl, i, into, then>>
  BY DEF VisitSave, control, search
<1>2. /\ phase = "visit" /\ Inst(pc).op = "save" /\ Leads(Inst(pc), pc) \subseteq Pcs
      /\ Framed(frames)
      /\ Scratch' /\ OfProgram(lists[cl])' /\ OfProgram(lists[into])'
  <2> HIDE DEF Visiting
  <2> QED BY <1>1, VisitFacts
<1>3. pc + 1 \in Pcs
  BY <1>2 DEF Leads
<1> DEFINE f == Undo(Inst(pc).slot)
<1>4. ~f.explore
  BY DEF Undo
<1>5. frames' = Append(frames, f)
  BY <1>1
<1> HIDE DEF f
<1>6. Framed(frames')
  BY <1>2, <1>4, <1>5, FramedPush
<1>7. Stacked'
  BY <1>1 DEF Stacked, tagged
<1> QED BY <1>1, <1>2, <1>3, <1>6, <1>7, ClosureStep

(* A run of slots is cleared (pikevm_tagged.zig:160).                      *)
LEMMA VisitClearKeeps == ASSUME IInv, VisitClear PROVE IInv'
<1> DEFINE lo == Inst(pc).lo
           m  == Inst(pc).hi - lo
           us == [k \in 1..m |-> Undo(lo + k - 1)]
<1>1. /\ Visiting({"clear"}) /\ tagged /\ phase' = phase
      /\ frames' = frames \o us /\ pc' = pc + 1
      /\ UNCHANGED <<capacity, call, pass1, cl, i, into, then>>
  BY DEF VisitClear, control, search
<1>2. /\ phase = "visit" /\ Inst(pc).op = "clear" /\ Leads(Inst(pc), pc) \subseteq Pcs
      /\ Inst(pc).op = "clear" => /\ Inst(pc).lo \in Nat /\ Inst(pc).hi \in Nat
                                  /\ Inst(pc).lo <= Inst(pc).hi
      /\ Framed(frames)
      /\ Scratch' /\ OfProgram(lists[cl])' /\ OfProgram(lists[into])'
  <2> HIDE DEF Visiting, us
  <2> QED BY <1>1, VisitFacts
<1>3. pc + 1 \in Pcs
  BY <1>2 DEF Leads
<1>4. m \in Nat
  BY <1>2
<1>5. \A k \in 1..m : ~us[k].explore
  BY DEF Undo
<1>6. us = [k \in 1..m |-> us[k]]
  OBVIOUS
<1> HIDE DEF us, m
<1>7. Framed(frames')
  BY <1>1, <1>2, <1>4, <1>5, <1>6, FramedUndo
<1>8. Stacked'
  BY <1>1 DEF Stacked, tagged
<1> QED BY <1>1, <1>2, <1>3, <1>7, <1>8, ClosureStep
-----------------------------------------------------------------------------
(* Every step of the executors keeps the invariant, a stuttering one too   *)
(* (pikevm.zig:371, pikevm_tagged.zig:66).                                 *)
LEMMA StepKeeps == IInv /\ [Next]_vars => IInv'
<1> SUFFICES ASSUME IInv, [Next]_vars PROVE IInv'
  OBVIOUS
<1>1. ASSUME NEW c \in Calls, Refuse(c) PROVE IInv'
  BY <1>1, RefuseKeeps
<1>2. ASSUME NEW c \in Calls, Start(c) PROVE IInv'
  BY <1>2, StartKeeps
<1>3. CASE Search
  BY <1>3, SearchMovesKeep, SeedKeeps, DecodeKeeps, ConsumeKeeps, ThreadDoneKeeps,
     AdvanceKeeps DEF Search
<1>4. CASE Close
  BY <1>4, CloseKeeps, CopyMemberKeeps, ExploreKeeps, RestoreKeeps, VisitMemberKeeps,
     VisitSplitKeeps, VisitOnKeeps, VisitSaveKeeps, VisitClearKeeps DEF Close
<1>5. CASE End
  BY <1>5, VerdictKeeps, SecondPassKeeps DEF End
<1>6. CASE Return
  BY <1>6, ReturnKeeps
<1>7. CASE UNCHANGED vars
  <2>1. UNCHANGED <<lists, capacity, call, pass1, cl, i, into, then, phase, frames,
                    pc, todo>>
    BY <1>7 DEF vars, scratch, closure, control, search
  <2>2. Scratch'
    BY <2>1, ScratchSame DEF IInv, scratch
  <2>3. Control'
    BY <2>1 DEF IInv, Control, Running, OfProgram, Pcs, prog, nl, Framed
  <2>4. Stacked'
    BY <2>1 DEF IInv, Stacked, tagged
  <2> QED BY <2>2, <2>3, <2>4 DEF IInv
<1> QED BY <1>1, <1>2, <1>3, <1>4, <1>5, <1>6, <1>7 DEF Next

(* The invariant is inductive, whatever sequence of programs and inputs    *)
(* shares the scratch (pikevm.zig:93).                                     *)
THEOREM Inductive == Spec => []IInv
<1>1. Init => IInv
  BY InitGood
<1>2. IInv /\ [Next]_vars => IInv'
  BY StepKeeps
<1> QED BY <1>1, <1>2, PTL DEF Spec

(* A list answers for membership what it holds, however often the counter  *)
(* of generations has wrapped and whatever ran before (pikevm.zig:52).     *)
THEOREM ListsExactHolds == Spec => []ListsExact
<1>1. IInv => ListsExact
  <2> SUFFICES ASSUME IInv, NEW l \in 1..2
               PROVE  /\ DOMAIN lists[l].stamp = 0..capacity - 1
                      /\ \A q \in 0..capacity - 1 :
                            Member(lists[l], q) <=> q \in Range(lists[l].dense)
                      /\ \A j, k \in DOMAIN lists[l].dense :
                            lists[l].dense[j] = lists[l].dense[k] => j = k
    BY DEF ListsExact
  <2>1. GoodList(lists[l], capacity)
    BY DEF IInv, Scratch
  <2> QED BY <2>1 DEF GoodList, Range
<1> QED BY <1>1, Inductive, PTL

(* The buffers ensure made: no list and no stack of pending branches grows *)
(* past the capacity they were made for, one place per pc; the code writes *)
(* them without asking (pikevm.zig:69, :491).                              *)
BuffersSuffice ==
    /\ \A l \in 1..2 : Len(lists[l].dense) <= capacity
    /\ phase \in {"pop", "visit"} /\ ~tagged => Len(frames) <= capacity

THEOREM BuffersSufficeAlways == Spec => []BuffersSuffice
<1>1. IInv => BuffersSuffice
  <2> SUFFICES ASSUME IInv PROVE BuffersSuffice
    OBVIOUS
  <2>1. capacity \in Nat /\ \A l \in 1..2 : GoodList(lists[l], capacity)
    BY DEF IInv, Scratch
  <2>2. \A l \in 1..2 : Len(lists[l].dense) \in Nat /\ Len(lists[l].dense) <= capacity
    BY <2>1, GoodListFits
  <2>3. ASSUME phase \in {"pop", "visit"}, ~tagged PROVE Len(frames) <= capacity
    <3>1. into \in 1..2 /\ Stacked /\ Running /\ Control /\ Framed(frames)
      BY <2>3 DEF IInv, Control, Running, Answers
    <3>2. prog.n \in Nat \ {0} /\ prog.n <= capacity
      BY <3>1, ProgramFacts DEF Control
    <3>3. Len(frames) \in Nat
      BY <3>1 DEF Framed
    <3>4. Len(frames) <= 1 \/ Len(frames) <= Len(lists[into].dense)
      BY <2>3, <3>1 DEF Stacked
    <3> QED BY <2>1, <2>2, <3>1, <3>2, <3>3, <3>4
  <2> QED BY <2>2, <2>3 DEF BuffersSuffice
<1> QED BY <1>1, Inductive, PTL
-----------------------------------------------------------------------------
(* The rows of the threads. *)

(* The places of a list whose rows are read later, K being the pcs that    *)
(* step or match; the start of the thread there.                           *)
KeptIn(l, K)  == {j \in DOMAIN l.dense : l.dense[j] \in K}
StartOf(l, j) == l.row[l.dense[j]][0]

(* A row of W slots, of a thread that started at p or before.              *)
Row(r, W, p) == r = [s \in 0..W - 1 |-> r[s]] /\ r[0] \in Nat /\ r[0] <= p

RowsIn(l, K, W, p) == \A j \in KeptIn(l, K) : Row(l.row[l.dense[j]], W, p)
OrderedIn(l, K)    == \A j, k \in KeptIn(l, K) : j <= k => StartOf(l, j) <= StartOf(l, k)

(* From the k-th place on, no thread started after x, or before it.        *)
NoLater(l, K, k, x)   == \A j \in KeptIn(l, K) : k <= j => StartOf(l, j) <= x
NoEarlier(l, K, k, x) == \A j \in KeptIn(l, K) : k <= j => x <= StartOf(l, j)

Kept == {q \in Pcs : Keeps(q)}
Good(l, p) == RowsIn(l, Kept, Width, p) /\ OrderedIn(l, Kept)

Whole   == phase \in {"top", "decode"} \/ (phase \in Closing /\ then = "decode")
Stepped == phase = "step" \/ (phase \in Closing /\ then = "step")

(* Undone, the closure's frames leave in every slot what b has there; none *)
(* is about where the match starts.                                        *)
UndoneTo(fs, c, b, W) ==
    /\ \A k \in DOMAIN fs : ~fs[k].explore => fs[k].slot # 0
    /\ \A s \in 0..W - 1 : Oldest(fs, c, s) = b[s]

(* Threads come in the order they started, and the recorded match started  *)
(* no earlier than any thread still to step.                               *)
InOrder ==
    /\ pos \in Nat
    /\ \A m \in best : m[0] \in Nat
    /\ \A m, m2 \in best : m = m2
    /\ Running => Good(lists[cl], pos)
    /\ Whole => \A m \in best : NoLater(lists[cl], Kept, 1, m[0])
    /\ Stepped =>
          /\ Good(lists[nl], pos)
          /\ \A j \in KeptIn(lists[nl], Kept) : NoEarlier(lists[cl], Kept, i, StartOf(lists[nl], j))
          /\ \A m \in best : /\ NoLater(lists[cl], Kept, i, m[0])
                             /\ NoLater(lists[nl], Kept, 1, m[0])

(* The thread a closure adds comes after those of its list, and no later   *)
(* than those still to step.                                               *)
Adding ==
    phase \in Closing =>
        /\ Row(curr, Width, pos)
        /\ NoLater(lists[into], Kept, 1, curr[0])
        /\ then = "decode" => best = {}
        /\ then = "step" => /\ i - 1 \in KeptIn(lists[cl], Kept)
                            /\ NoEarlier(lists[cl], Kept, i, curr[0])
                            /\ \A m \in best : curr[0] <= m[0]
        /\ phase = "copy" => ~tagged
        /\ phase \in {"pop", "visit"} => UndoneTo(frames, curr, Begun, Width)

RInv == InOrder /\ Adding
-----------------------------------------------------------------------------
(* The oldest frame about a slot. *)

LEMMA LeastNumber ==
    ASSUME NEW T, T \subseteq Nat, T # {}
    PROVE  \E x \in T : \A y \in T : x <= y
<1>1. \E x \in T : \A y \in T : ~(<<y, x>> \in OpToRel(<, Nat))
  BY NatLessThanWellFounded, WFMin
<1>2. \A x, y \in Nat : x < y => <<x, y>> \in OpToRel(<, Nat)
  BY Zenon DEF OpToRel
<1>3. \E x \in T : \A y \in T : ~(y < x)
  BY <1>1, <1>2, Zenon
<1>4. QED
  BY <1>3

LEMMA OldestIs ==
    ASSUME NEW fs, DOMAIN fs \subseteq Nat, NEW c, NEW s, NEW k \in UndoesOf(fs, s),
           \A j \in UndoesOf(fs, s) : k <= j
    PROVE  Oldest(fs, c, s) = fs[k].old
<1> DEFINE U == UndoesOf(fs, s)
<1>1. U \subseteq Nat
  BY DEF UndoesOf
<1> HIDE DEF U
<1>2. k \in U /\ \A j \in U : k <= j
  BY DEF U
<1>3. Min(U) \in U /\ \A j \in U : Min(U) <= j
  BY <1>2, Zenon DEF Min
<1>4. Min(U) = k
  <2>1. Min(U) <= k /\ k <= Min(U) /\ Min(U) \in Nat /\ k \in Nat
    BY <1>1, <1>2, <1>3
  <2> HIDE DEF U
  <2> QED BY <2>1
<1>5. Oldest(fs, c, s) = fs[Min(U)].old
  BY <1>2 DEF Oldest, U
<1> QED BY <1>4, <1>5

(* The frames of gs on top of fs have what c has in the slot s, and d has  *)
(* it too when there is none.                                              *)
PutsBack(gs, d, fs, c, s) ==
    /\ DOMAIN fs \subseteq Nat /\ DOMAIN gs \subseteq Nat
    /\ \A k \in DOMAIN fs : k \in DOMAIN gs /\ gs[k] = fs[k]
    /\ \A k \in DOMAIN fs : \A j \in DOMAIN gs \ DOMAIN fs : k <= j
    /\ \A k \in DOMAIN gs \ DOMAIN fs : k \in UndoesOf(gs, s) => gs[k].old = c[s]
    /\ (\A k \in DOMAIN gs \ DOMAIN fs : k \notin UndoesOf(gs, s)) => d[s] = c[s]

(* Then gs and d leave in s, undone, what fs and c do: pushing frames      *)
(* keeps it, and so does popping them.                                     *)
LEMMA OldestKept ==
    ASSUME NEW fs, NEW gs, NEW c, NEW d, NEW s, PutsBack(gs, d, fs, c, s)
    PROVE  Oldest(gs, d, s) = Oldest(fs, c, s)
<1> DEFINE U == UndoesOf(fs, s)
           V == UndoesOf(gs, s)
           N == DOMAIN gs \ DOMAIN fs
<1>1. /\ U \subseteq DOMAIN fs /\ V \subseteq DOMAIN gs
      /\ \A k \in DOMAIN fs : k \in U <=> k \in V
  BY DEF UndoesOf, PutsBack
<1>2. /\ \A k \in N : k \in V => gs[k].old = c[s]
      /\ (\A k \in N : k \notin V) => d[s] = c[s]
  BY DEF PutsBack
<1>3. \A k \in DOMAIN gs : k \in DOMAIN fs \/ k \in N
  OBVIOUS
<1>4. /\ U = {} => Oldest(fs, c, s) = c[s]
      /\ V = {} => Oldest(gs, d, s) = d[s]
  BY DEF Oldest
<1>5. U \subseteq Nat /\ V \subseteq Nat /\ DOMAIN fs \subseteq Nat /\ DOMAIN gs \subseteq Nat
  BY <1>1 DEF PutsBack
<1>6. /\ \A k \in U : (\A j \in U : k <= j) => Oldest(fs, c, s) = fs[k].old
      /\ \A k \in V : (\A j \in V : k <= j) => Oldest(gs, d, s) = gs[k].old
  BY <1>5, OldestIs
<1>7. /\ \A k \in DOMAIN fs : \A j \in N : k <= j
      /\ \A k \in DOMAIN fs : gs[k] = fs[k]
  BY DEF PutsBack
<1> HIDE DEF U, V, N
<1>8. CASE U # {}
  <2>1. PICK k \in U : \A j \in U : k <= j
    BY <1>5, <1>8, LeastNumber
  <2>2. k \in V /\ k \in DOMAIN fs /\ gs[k] = fs[k]
    BY <1>1, <1>7, <2>1
  <2>3. \A j \in V : k <= j
    BY <1>1, <1>3, <1>7, <2>1, <2>2
  <2> QED BY <1>6, <2>1, <2>2, <2>3
<1>9. CASE V = {}
  <2>1. U = {}
    BY <1>1, <1>9
  <2>2. d[s] = c[s]
    BY <1>2, <1>9
  <2> QED BY <1>4, <1>9, <2>1, <2>2
<1>10. CASE U = {} /\ V # {}
  <2>1. PICK k \in V : \A j \in V : k <= j
    BY <1>5, <1>10, LeastNumber
  <2>2. k \in N
    BY <1>1, <1>3, <1>10, <2>1
  <2> QED BY <1>2, <1>4, <1>6, <1>10, <2>1, <2>2
<1> QED BY <1>8, <1>9, <1>10

(* A branch left pending, or taken: no slot is changed                     *)
(* (pikevm_tagged.zig:143).                                                *)
LEMMA UndoneBranch ==
    ASSUME NEW S, NEW fs \in Seq(S), NEW f, f.explore, NEW c, NEW b, NEW W
    PROVE  UndoneTo(fs, c, b, W) <=> UndoneTo(Append(fs, f), c, b, W)
<1> DEFINE n  == Len(fs)
           gs == Append(fs, f)
<1>1. /\ n \in Nat /\ DOMAIN fs = 1..n /\ DOMAIN gs = 1..(n + 1)
      /\ \A k \in 1..n : gs[k] = fs[k]
      /\ gs[n + 1] = f
  <2>1. fs \in [1..n -> S] /\ n \in Nat
    OBVIOUS
  <2> QED BY <2>1
<1> HIDE DEF gs, n
<1>2. \A s : n + 1 \notin UndoesOf(gs, s)
  BY <1>1 DEF UndoesOf
<1>3. \A s : Oldest(gs, c, s) = Oldest(fs, c, s)
  <2> SUFFICES ASSUME NEW s PROVE Oldest(gs, c, s) = Oldest(fs, c, s)
    OBVIOUS
  <2>1. /\ DOMAIN fs \subseteq Nat /\ DOMAIN gs \subseteq Nat
        /\ \A k \in DOMAIN fs : k \in DOMAIN gs /\ gs[k] = fs[k]
        /\ \A k \in DOMAIN gs \ DOMAIN fs : k = n + 1
    BY <1>1
  <2>2. \A k \in DOMAIN fs : \A j \in DOMAIN gs \ DOMAIN fs : k <= j
    BY <1>1
  <2>3. \A k \in DOMAIN gs \ DOMAIN fs : k \notin UndoesOf(gs, s)
    BY <1>2, <2>1
  <2>4. PutsBack(gs, c, fs, c, s)
    BY <2>1, <2>2, <2>3 DEF PutsBack
  <2> QED BY <2>4, OldestKept
<1>4. (\A k \in DOMAIN fs : ~fs[k].explore => fs[k].slot # 0)
         <=> \A k \in DOMAIN gs : ~gs[k].explore => gs[k].slot # 0
  <2>1. \A k \in 1..(n + 1) : k \in 1..n \/ k = n + 1
    BY <1>1
  <2>2. \A k \in 1..n : k \in 1..(n + 1)
    BY <1>1
  <2> QED BY <1>1, <2>1, <2>2
<1>5. UndoneTo(fs, c, b, W) <=> UndoneTo(gs, c, b, W)
  BY <1>3, <1>4 DEF UndoneTo
<1> QED BY <1>5 DEF gs

(* New frames with the values of c in the slots where d differs from it    *)
(* (pikevm_tagged.zig:154, :160).                                          *)
UndoesPushed(n, m, fs, gs, c, d, W) ==
    /\ n \in Nat /\ m \in Nat /\ DOMAIN fs = 1..n /\ DOMAIN gs = 1..(n + m)
    /\ \A k \in 1..n : gs[k] = fs[k]
    /\ \A k \in (n + 1)..(n + m) :
          ~gs[k].explore /\ gs[k].slot # 0 /\ gs[k].old = c[gs[k].slot]
    /\ \A s \in 0..W - 1 : d[s] # c[s] => \E k \in (n + 1)..(n + m) : gs[k].slot = s

(* Such frames take the walk no further from what it began with.           *)
LEMMA UndonePush ==
    ASSUME NEW n, NEW m, NEW fs, NEW gs, NEW c, NEW d, NEW b, NEW W,
           UndoesPushed(n, m, fs, gs, c, d, W), UndoneTo(fs, c, b, W)
    PROVE  UndoneTo(gs, d, b, W)
<1> /\ n \in Nat /\ m \in Nat /\ DOMAIN fs = 1..n /\ DOMAIN gs = 1..(n + m)
    /\ \A k \in 1..n : gs[k] = fs[k]
    /\ \A k \in (n + 1)..(n + m) :
          ~gs[k].explore /\ gs[k].slot # 0 /\ gs[k].old = c[gs[k].slot]
    /\ \A s \in 0..W - 1 : d[s] # c[s] => \E k \in (n + 1)..(n + m) : gs[k].slot = s
  BY DEF UndoesPushed
<1>1. \A k \in 1..(n + m) : k \in 1..n \/ k \in (n + 1)..(n + m)
  OBVIOUS
<1>2. \A k \in DOMAIN gs : ~gs[k].explore => gs[k].slot # 0
  BY <1>1 DEF UndoneTo
<1>3. ASSUME NEW s \in 0..W - 1 PROVE Oldest(gs, d, s) = b[s]
  <2>1. DOMAIN gs \ DOMAIN fs = (n + 1)..(n + m)
    OBVIOUS
  <2>2. /\ DOMAIN fs \subseteq Nat /\ DOMAIN gs \subseteq Nat
        /\ \A k \in DOMAIN fs : k \in DOMAIN gs /\ gs[k] = fs[k]
        /\ \A k \in DOMAIN fs : \A j \in DOMAIN gs \ DOMAIN fs : k <= j
    OBVIOUS
  <2>3. \A k \in DOMAIN gs \ DOMAIN fs : k \in UndoesOf(gs, s) => gs[k].old = c[s]
    BY <2>1 DEF UndoesOf
  <2>4. (\A k \in DOMAIN gs \ DOMAIN fs : k \notin UndoesOf(gs, s)) => d[s] = c[s]
    BY <2>1, <1>3 DEF UndoesOf
  <2>5. Oldest(gs, d, s) = Oldest(fs, c, s)
    <3>1. PutsBack(gs, d, fs, c, s)
      BY <2>2, <2>3, <2>4 DEF PutsBack
    <3> QED BY <3>1, OldestKept
  <2> QED BY <1>3, <2>5 DEF UndoneTo
<1> QED BY <1>2, <1>3 DEF UndoneTo

(* The last frame's slot is put back (pikevm_tagged.zig:140).              *)
LEMMA UndonePop ==
    ASSUME NEW S, NEW fs \in Seq(S), fs # <<>>, ~Last(fs).explore, NEW W, NEW c,
           c = [s \in 0..W - 1 |-> c[s]], NEW b, UndoneTo(fs, c, b, W)
    PROVE  UndoneTo(Front(fs), PutBack(c, Last(fs)), b, W)
<1> DEFINE n == Len(fs) - 1
           f == Last(fs)
           hs == Front(fs)
           d == PutBack(c, f)
<1>1. /\ n \in Nat /\ DOMAIN hs = 1..n /\ DOMAIN fs = 1..(n + 1)
      /\ \A k \in 1..n : fs[k] = hs[k]
      /\ fs[n + 1] = f
  <2>1. Len(fs) \in Nat \ {0}
    OBVIOUS
  <2> QED BY <2>1 DEF Front, Last
<1>2. /\ d = [c EXCEPT ![f.slot] = f.old]
      /\ \A s \in 0..W - 1 : d[s] = IF s = f.slot THEN f.old ELSE c[s]
  BY DEF PutBack
<1>3. ~f.explore
  OBVIOUS
<1> HIDE DEF n, f, hs, d
<1>4. \A k \in DOMAIN hs : ~hs[k].explore => hs[k].slot # 0
  <2>1. \A k \in 1..n : k \in 1..(n + 1)
    BY <1>1
  <2> QED BY <1>1, <2>1 DEF UndoneTo
<1>5. ASSUME NEW s \in 0..W - 1 PROVE Oldest(hs, d, s) = b[s]
  <2>1. /\ DOMAIN hs \subseteq Nat /\ DOMAIN fs \subseteq Nat
        /\ \A k \in DOMAIN hs : k \in DOMAIN fs /\ fs[k] = hs[k]
        /\ \A k \in DOMAIN fs \ DOMAIN hs : k = n + 1
        /\ n + 1 \in DOMAIN fs \ DOMAIN hs
    BY <1>1
  <2>2. \A k \in DOMAIN hs : \A j \in DOMAIN fs \ DOMAIN hs : k <= j
    BY <1>1, <2>1
  <2>3. \A k \in DOMAIN fs \ DOMAIN hs : k \in UndoesOf(fs, s) => fs[k].old = d[s]
    BY <1>1, <1>2, <1>5, <2>1 DEF UndoesOf
  <2>4. (\A k \in DOMAIN fs \ DOMAIN hs : k \notin UndoesOf(fs, s)) => c[s] = d[s]
    BY <1>1, <1>2, <1>3, <1>5, <2>1 DEF UndoesOf
  <2>5. Oldest(fs, c, s) = Oldest(hs, d, s)
    <3>1. PutsBack(fs, c, hs, d, s)
      BY <2>1, <2>2, <2>3, <2>4 DEF PutsBack
    <3> QED BY <3>1, OldestKept
  <2> QED BY <1>5, <2>5 DEF UndoneTo
<1>6. UndoneTo(hs, d, b, W)
  BY <1>4, <1>5 DEF UndoneTo
<1> QED BY <1>6 DEF hs, d, f
-----------------------------------------------------------------------------
(* A thread that joins its list comes after the others                     *)
(* (pikevm.zig:66).                                                        *)
LEMMA RowsInserted ==
    ASSUME NEW cap \in Nat, NEW l, GoodList(l, cap), NEW q \in 0..cap - 1, ~Member(l, q),
           NEW K, NEW W, NEW p, NEW c, Row(c, W, p), RowsIn(l, K, W, p), OrderedIn(l, K),
           NoLater(l, K, 1, c[0]), NEW keep, keep <=> q \in K, NEW h,
           h = Inserted(l, q, c, keep)
    PROVE  /\ RowsIn(h, K, W, p) /\ OrderedIn(h, K) /\ NoLater(h, K, 1, c[0])
           /\ \A j \in KeptIn(h, K) :
                 \/ StartOf(h, j) = c[0]
                 \/ j \in KeptIn(l, K) /\ StartOf(h, j) = StartOf(l, j)
<1> DEFINE n == Len(l.dense)
<1>1. /\ l.dense \in Seq(0..cap - 1) /\ l.row = [r \in 0..cap - 1 |-> l.row[r]]
      /\ \A j \in DOMAIN l.dense : l.dense[j] # q
  BY DEF GoodList
<1>2. /\ h.dense = Append(l.dense, q)
      /\ h.row = [l.row EXCEPT ![q] = IF keep THEN c ELSE l.row[q]]
  BY DEF Inserted
<1>3. /\ n \in Nat /\ DOMAIN l.dense = 1..n /\ DOMAIN h.dense = 1..(n + 1)
      /\ h.dense[n + 1] = q
      /\ \A j \in 1..n : h.dense[j] = l.dense[j] /\ l.dense[j] \in 0..cap - 1
  BY <1>1, <1>2
<1>4. ASSUME NEW j \in 1..n PROVE h.row[h.dense[j]] = l.row[l.dense[j]]
  <2> DEFINE x == l.dense[j]
  <2>1. h.dense[j] = x /\ x \in 0..cap - 1 /\ x # q
    BY <1>1, <1>3
  <2> HIDE DEF x
  <2>2. h.row[x] = l.row[x]
    BY <1>1, <1>2, <2>1
  <2> QED BY <2>1, <2>2 DEF x
<1>5. keep => h.row[q] = c
  BY <1>1, <1>2
<1> HIDE DEF n
<1>6. \A j \in KeptIn(h, K) :
         \/ j = n + 1 /\ h.row[h.dense[j]] = c /\ StartOf(h, j) = c[0]
         \/ /\ j \in 1..n /\ j \in KeptIn(l, K) /\ h.row[h.dense[j]] = l.row[l.dense[j]]
            /\ StartOf(h, j) = StartOf(l, j)
  <2> SUFFICES ASSUME NEW j \in KeptIn(h, K)
               PROVE  \/ j = n + 1 /\ h.row[h.dense[j]] = c /\ StartOf(h, j) = c[0]
                      \/ /\ j \in 1..n /\ j \in KeptIn(l, K)
                         /\ h.row[h.dense[j]] = l.row[l.dense[j]]
                         /\ StartOf(h, j) = StartOf(l, j)
    OBVIOUS
  <2>1. j \in 1..(n + 1) /\ h.dense[j] \in K
    BY <1>3 DEF KeptIn
  <2>2. CASE j = n + 1
    BY <1>3, <1>5, <2>1, <2>2 DEF StartOf
  <2>3. CASE j \in 1..n
    BY <1>3, <1>4, <2>1, <2>3 DEF StartOf, KeptIn
  <2> QED BY <1>3, <2>1, <2>2, <2>3
<1>7. RowsIn(h, K, W, p)
  BY <1>6 DEF RowsIn
<1>8. /\ \A j \in KeptIn(l, K) : StartOf(l, j) \in Nat /\ StartOf(l, j) <= c[0] /\ j \in 1..n
      /\ c[0] \in Nat
  <2>1. \A j \in KeptIn(l, K) : j \in 1..n /\ 1 <= j
    BY <1>3 DEF KeptIn
  <2> QED BY <2>1 DEF RowsIn, Row, StartOf, NoLater
<1>9. NoLater(h, K, 1, c[0])
  BY <1>6, <1>8 DEF NoLater
<1>10. OrderedIn(h, K)
  <2> SUFFICES ASSUME NEW j \in KeptIn(h, K), NEW k \in KeptIn(h, K), j <= k
               PROVE  StartOf(h, j) <= StartOf(h, k)
    BY DEF OrderedIn
  <2>1. CASE k = n + 1 /\ StartOf(h, k) = c[0]
    <3>1. 1 <= j
      BY <1>3 DEF KeptIn
    <3>2. StartOf(h, j) <= c[0]
      BY <1>9, <3>1 DEF NoLater
    <3> QED BY <2>1, <3>2
  <2>2. CASE k \in 1..n /\ k \in KeptIn(l, K) /\ StartOf(h, k) = StartOf(l, k)
    <3>1. j \in KeptIn(l, K) /\ StartOf(h, j) = StartOf(l, j)
      <4>1. j \in 1..(n + 1) /\ j # n + 1
        BY <1>3, <2>2 DEF KeptIn
      <4> QED BY <1>6, <4>1
    <3> QED BY <2>2, <3>1 DEF OrderedIn
  <2> QED BY <1>6, <2>1, <2>2
<1> QED BY <1>6, <1>7, <1>9, <1>10

(* The program that runs and the slots of its threads do not change while  *)
(* a pass does not.                                                        *)
LEMMA SamePass ==
    UNCHANGED <<call, pass1>> =>
        Kept' = Kept /\ Width' = Width /\ (tagged' <=> tagged) /\ Pcs' = Pcs
BY DEF Kept, Keeps, Pcs, Inst, Width, tagged, prog

LEMMA ClosingFacts ==
    ASSUME IInv, phase \in Closing
    PROVE  /\ Running /\ capacity \in Nat /\ Pcs \subseteq 0..capacity - 1
           /\ lists = [l \in 1..2 |-> lists[l]]
           /\ \A l \in 1..2 : GoodList(lists[l], capacity)
           /\ cl \in 1..2 /\ nl \in 1..2 /\ nl # cl /\ into \in 1..2 /\ i \in Nat \ {0}
           /\ then \in {"decode", "step"}
           /\ into = IF then = "step" THEN nl ELSE cl
<1>1. Running
  BY DEF Running, Closing, Answers
<1>2. cl \in 1..2 /\ nl \in 1..2 /\ nl # cl
  BY DEF IInv, Control, nl
<1>3. prog.n \in Nat /\ prog.n <= capacity /\ capacity \in Nat
  BY <1>1, ProgramFacts DEF IInv, Control, Scratch
<1>4. Pcs \subseteq 0..capacity - 1
  BY <1>3 DEF Pcs
<1> QED BY <1>1, <1>2, <1>3, <1>4 DEF IInv, Control, Scratch

(* What a closure's step must show, the rest being as it was.              *)
LEMMA ClosingRows ==
    ASSUME IInv, RInv, phase \in Closing, phase' \in Closing,
           UNCHANGED <<call, pass1, cl, i, pos, best, into, then>>,
           \/ lists' = lists
           \/ \E q \in Pcs : /\ ~Member(lists[into], q)
                             /\ lists' = [lists EXCEPT
                                             ![into] = Inserted(@, q, curr, Keeps(q))],
           Row(curr', Width, pos), curr'[0] = curr[0],
           phase' = "copy" => ~tagged,
           phase' \in {"pop", "visit"} => UndoneTo(frames', curr', Begun, Width)
    PROVE  RInv'
<1>1. /\ Running /\ capacity \in Nat /\ Pcs \subseteq 0..capacity - 1
      /\ lists = [l \in 1..2 |-> lists[l]]
      /\ \A l \in 1..2 : GoodList(lists[l], capacity)
      /\ cl \in 1..2 /\ nl \in 1..2 /\ nl # cl /\ into \in 1..2 /\ i \in Nat \ {0}
      /\ then \in {"decode", "step"}
      /\ into = IF then = "step" THEN nl ELSE cl
  BY ClosingFacts
<1>2. /\ Kept' = Kept /\ Width' = Width /\ (tagged' <=> tagged) /\ nl' = nl
      /\ phase' \notin {"idle", "top", "decode", "step", "over"}
  BY SamePass DEF nl, Closing
<1>3. /\ pos \in Nat /\ \A m \in best : m[0] \in Nat
      /\ \A m, m2 \in best : m = m2
      /\ Good(lists[cl], pos)
      /\ then = "step" =>
            /\ Good(lists[nl], pos)
            /\ \A j \in KeptIn(lists[nl], Kept) :
                  NoEarlier(lists[cl], Kept, i, StartOf(lists[nl], j))
            /\ \A m \in best : /\ NoLater(lists[cl], Kept, i, m[0])
                               /\ NoLater(lists[nl], Kept, 1, m[0])
      /\ Row(curr, Width, pos)
      /\ NoLater(lists[into], Kept, 1, curr[0])
      /\ then = "decode" => best = {}
      /\ then = "step" => /\ i - 1 \in KeptIn(lists[cl], Kept)
                          /\ NoEarlier(lists[cl], Kept, i, curr[0])
                          /\ \A m \in best : curr[0] <= m[0]
  BY <1>1 DEF RInv, InOrder, Adding, Stepped
<1>4. Good(lists[into], pos)
  BY <1>1, <1>3
<1> DEFINE old == lists[into]
           new == lists'[into]
<1>5. /\ RowsIn(new, Kept, Width, pos) /\ OrderedIn(new, Kept)
      /\ NoLater(new, Kept, 1, curr[0])
      /\ \A j \in KeptIn(new, Kept) :
            \/ StartOf(new, j) = curr[0]
            \/ j \in KeptIn(old, Kept) /\ StartOf(new, j) = StartOf(old, j)
      /\ \A l \in 1..2 : l # into => lists'[l] = lists[l]
  <2>1. CASE lists' = lists
    BY <1>3, <1>4, <2>1 DEF Good
  <2>2. ASSUME NEW q \in Pcs, ~Member(lists[into], q),
               lists' = [lists EXCEPT ![into] = Inserted(@, q, curr, Keeps(q))]
        PROVE  /\ RowsIn(new, Kept, Width, pos) /\ OrderedIn(new, Kept)
               /\ NoLater(new, Kept, 1, curr[0])
               /\ \A j \in KeptIn(new, Kept) :
                     \/ StartOf(new, j) = curr[0]
                     \/ j \in KeptIn(old, Kept) /\ StartOf(new, j) = StartOf(old, j)
               /\ \A l \in 1..2 : l # into => lists'[l] = lists[l]
    <3>1. /\ new = Inserted(old, q, curr, Keeps(q))
          /\ \A l \in 1..2 : l # into => lists'[l] = lists[l]
      <4> HIDE DEF Inserted, Keeps
      <4> QED BY <1>1, <2>2
    <3>2. Keeps(q) <=> q \in Kept
      BY DEF Kept
    <3>3. GoodList(old, capacity) /\ q \in 0..capacity - 1 /\ ~Member(old, q)
      BY <1>1, <2>2
    <3>4. /\ Row(curr, Width, pos) /\ RowsIn(old, Kept, Width, pos) /\ OrderedIn(old, Kept)
          /\ NoLater(old, Kept, 1, curr[0])
      BY <1>3, <1>4 DEF Good
    <3> HIDE DEF old, new, Keeps
    <3>5. /\ RowsIn(new, Kept, Width, pos) /\ OrderedIn(new, Kept)
          /\ NoLater(new, Kept, 1, curr[0])
          /\ \A j \in KeptIn(new, Kept) :
                \/ StartOf(new, j) = curr[0]
                \/ j \in KeptIn(old, Kept) /\ StartOf(new, j) = StartOf(old, j)
      BY <1>1, <3>1, <3>2, <3>3, <3>4, RowsInserted
    <3> QED BY <3>1, <3>5
  <2> QED BY <2>1, <2>2
<1>6. Begun' = Begun
  <2>1. CASE then = "step"
    <3>1. lists'[cl] = lists[cl]
      BY <1>1, <1>5, <2>1
    <3> QED BY <2>1, <3>1 DEF Begun
  <2>2. CASE then # "step"
    BY <1>2, <2>2 DEF Begun
  <2> QED BY <2>1, <2>2
<1>7. curr[0] \in Nat
  BY <1>3 DEF Row
<1>8. Adding'
  <2>1. Row(curr', Width', pos') /\ NoLater(lists'[into'], Kept', 1, curr'[0])
    BY <1>2, <1>5
  <2>2. then' = "step" => /\ i' - 1 \in KeptIn(lists'[cl'], Kept')
                          /\ NoEarlier(lists'[cl'], Kept', i', curr'[0])
                          /\ \A m \in best' : curr'[0] <= m[0]
    BY <1>1, <1>2, <1>3, <1>5
  <2>3. phase' \in {"pop", "visit"} => UndoneTo(frames', curr', Begun', Width')
    BY <1>2, <1>6
  <2> QED BY <1>2, <1>3, <2>1, <2>2, <2>3 DEF Adding
<1>9. InOrder'
  <2>1. CASE then = "decode"
    <3>1. into = cl /\ best' = {} /\ best = {}
      BY <1>1, <1>3, <2>1
    <3>2. RowsIn(lists'[cl'], Kept', Width', pos') /\ OrderedIn(lists'[cl'], Kept')
      BY <1>2, <1>5, <3>1
    <3> QED BY <1>2, <1>3, <2>1, <3>1, <3>2 DEF InOrder, Good, Stepped
  <2>2. CASE then = "step"
    <3>1. into = nl /\ lists'[cl] = lists[cl]
      BY <1>1, <1>5, <2>2
    <3>2. Good(lists'[cl], pos)
      BY <1>3, <3>1
    <3>3. \A j \in KeptIn(new, Kept) : NoEarlier(lists[cl], Kept, i, StartOf(new, j))
      BY <1>3, <1>5, <2>2, <3>1
    <3>4. \A m \in best : NoLater(new, Kept, 1, m[0])
      <4> SUFFICES ASSUME NEW m \in best, NEW j \in KeptIn(new, Kept), 1 <= j
                   PROVE  StartOf(new, j) <= m[0]
        BY DEF NoLater
      <4>1. CASE StartOf(new, j) = curr[0]
        BY <1>3, <2>2, <4>1
      <4>2. CASE j \in KeptIn(old, Kept) /\ StartOf(new, j) = StartOf(old, j)
        BY <1>3, <2>2, <3>1, <4>2 DEF NoLater
      <4> QED BY <1>5, <4>1, <4>2
    <3>5. ~(Whole')
      BY <1>2, <2>2 DEF Whole
    <3>6. Good(lists[cl], pos)'
      BY <1>2, <3>2 DEF Good
    <3>7. Good(lists[nl], pos)'
      BY <1>2, <1>5, <3>1 DEF Good
    <3>8. /\ \A j \in KeptIn(lists'[nl'], Kept') :
                NoEarlier(lists'[cl'], Kept', i', StartOf(lists'[nl'], j))
          /\ \A m \in best' : /\ NoLater(lists'[cl'], Kept', i', m[0])
                              /\ NoLater(lists'[nl'], Kept', 1, m[0])
      BY <1>2, <1>3, <2>2, <3>1, <3>3, <3>4
    <3> QED BY <1>3, <3>5, <3>6, <3>7, <3>8 DEF InOrder
  <2> QED BY <1>1, <2>1, <2>2
<1> QED BY <1>8, <1>9 DEF RInv
-----------------------------------------------------------------------------
(* The steps of a closure. *)

(* There is always a slot for the start.                                   *)
LEMMA WidthFact ==
    ASSUME Running, Control
    PROVE  Width \in Nat \ {0, 1}
<1>1. call \in Calls
  BY DEF Control
<1>2. WellFormed(prog)
  BY <1>1, CallsAssumption DEF prog
<1> QED BY <1>2 DEF WellFormed, Width

(* A precomputed closure keeps every start (pikevm.zig:468).               *)
LEMMA CopyMemberRows == ASSUME IInv, RInv, CopyMember PROVE RInv'
<1>1. /\ phase = "copy" /\ phase' = "copy" /\ todo # <<>>
      /\ lists' = IF Member(lists[into], Head(todo)) THEN lists
                  ELSE [lists EXCEPT ![into] = Inserted(@, Head(todo), curr, TRUE)]
      /\ UNCHANGED <<call, pass1, cl, i, pos, best, into, then, curr, frames>>
  BY DEF CopyMember, control, search
<1>2. phase \in Closing /\ phase' \in Closing
  BY <1>1 DEF Closing
<1>3. Row(curr, Width, pos) /\ ~tagged /\ todo \in Seq(Pcs)
  BY <1>1, <1>2 DEF RInv, Adding, IInv, Control
<1>4. Head(todo) \in Pcs /\ Keeps(Head(todo)) = TRUE
  BY <1>1, <1>3 DEF Keeps
<1> DEFINE q == Head(todo)
<1> HIDE DEF q
<1>5. \/ lists' = lists
      \/ /\ ~Member(lists[into], q)
         /\ lists' = [lists EXCEPT ![into] = Inserted(@, q, curr, Keeps(q))]
  <2>1. q = Head(todo)
    BY DEF q
  <2> HIDE DEF Inserted, Keeps, Member
  <2> QED BY <1>1, <1>4, <2>1
<1>6. q \in Pcs
  BY <1>4 DEF q
<1> HIDE DEF Inserted, Keeps, Member
<1> QED BY <1>1, <1>2, <1>3, <1>5, <1>6, ClosingRows

(* A stack is its front and its last frame.                                *)
LEMMA FrontLast ==
    ASSUME NEW S, NEW fs \in Seq(S), fs # <<>>
    PROVE  Front(fs) \in Seq(S) /\ Append(Front(fs), Last(fs)) = fs
BY DEF Front, Last

(* What the walk's steps start from.                                       *)
LEMMA WalkFacts ==
    ASSUME IInv, RInv, phase \in {"pop", "visit"}
    PROVE  /\ phase \in Closing /\ Row(curr, Width, pos)
           /\ UndoneTo(frames, curr, Begun, Width)
           /\ \E S : frames \in Seq(S)
<1>1. phase \in Closing
  BY DEF Closing
<1> QED BY <1>1 DEF RInv, Adding, IInv, Control, Framed

LEMMA ExploreRows == ASSUME IInv, RInv, Explore PROVE RInv'
<1>1. /\ phase = "pop" /\ phase' = "visit" /\ frames # <<>> /\ Last(frames).explore
      /\ frames' = Front(frames)
      /\ UNCHANGED <<lists, call, pass1, cl, i, pos, best, into, then, curr>>
  BY DEF Explore, scratch, control, search
<1>2. /\ phase \in Closing /\ Row(curr, Width, pos)
      /\ UndoneTo(frames, curr, Begun, Width)
      /\ \E S : frames \in Seq(S)
  BY <1>1, WalkFacts
<1>3. PICK S : frames \in Seq(S)
  BY <1>2
<1>4. frames' \in Seq(S) /\ Append(frames', Last(frames)) = frames
  BY <1>1, <1>3, FrontLast
<1>5. UndoneTo(frames', curr, Begun, Width)
  <2>1. UndoneTo(frames', curr, Begun, Width)
           <=> UndoneTo(Append(frames', Last(frames)), curr, Begun, Width)
    BY <1>1, <1>4, UndoneBranch
  <2> QED BY <1>2, <1>4, <2>1
<1>6. phase' \in Closing /\ phase' # "copy"
  BY <1>1 DEF Closing
<1> QED BY <1>1, <1>2, <1>5, <1>6, ClosingRows

(* A slot is put back, never the start (pikevm_tagged.zig:140).            *)
LEMMA RestoreRows == ASSUME IInv, RInv, Restore PROVE RInv'
<1>1. /\ phase = "pop" /\ phase' = "pop" /\ frames # <<>> /\ ~Last(frames).explore
      /\ frames' = Front(frames) /\ curr' = PutBack(curr, Last(frames))
      /\ UNCHANGED <<lists, call, pass1, cl, i, pos, best, into, then>>
  BY DEF Restore, scratch, control, search
<1>2. /\ phase \in Closing /\ Row(curr, Width, pos)
      /\ UndoneTo(frames, curr, Begun, Width)
      /\ \E S : frames \in Seq(S)
  BY <1>1, WalkFacts
<1>3. PICK S : frames \in Seq(S)
  BY <1>2
<1>4. curr = [s \in 0..Width - 1 |-> curr[s]]
  BY <1>2 DEF Row
<1>5. UndoneTo(frames', curr', Begun, Width)
  BY <1>1, <1>2, <1>3, <1>4, UndonePop
<1>6. Last(frames).slot # 0
  <2>1. Len(frames) \in DOMAIN frames /\ Last(frames) = frames[Len(frames)]
    BY <1>1, <1>3 DEF Last
  <2> QED BY <1>1, <1>2, <2>1 DEF UndoneTo
<1>7. Row(curr', Width, pos) /\ curr'[0] = curr[0]
  <2> DEFINE f == Last(frames)
  <2>1. curr' = [curr EXCEPT ![f.slot] = f.old] /\ f.slot # 0
    BY <1>1, <1>6 DEF PutBack
  <2> HIDE DEF f
  <2>2. curr' = [s \in 0..Width - 1 |-> IF s = f.slot THEN f.old ELSE curr[s]]
    BY <1>4, <2>1
  <2>3. curr' = [s \in 0..Width - 1 |-> curr'[s]]
    BY <2>2
  <2>4. curr'[0] = curr[0]
    BY <1>4, <2>1
  <2> QED BY <1>2, <2>3, <2>4 DEF Row
<1>8. phase' \in Closing /\ phase' # "copy"
  BY <1>1 DEF Closing
<1> QED BY <1>1, <1>2, <1>5, <1>7, <1>8, ClosingRows

LEMMA VisitMemberRows == ASSUME IInv, RInv, VisitMember PROVE RInv'
<1>1. /\ phase = "visit" /\ phase' = "pop"
      /\ UNCHANGED <<lists, call, pass1, cl, i, pos, best, into, then, curr, frames>>
  BY DEF VisitMember, scratch, closure, control, search
<1>2. /\ phase \in Closing /\ Row(curr, Width, pos) /\ UndoneTo(frames, curr, Begun, Width)
  BY <1>1, WalkFacts
<1>3. phase' \in Closing /\ phase' # "copy"
  BY <1>1 DEF Closing
<1> QED BY <1>1, <1>2, <1>3, ClosingRows

(* What a pc that is entered leaves in its list.                           *)
LEMMA VisitRows ==
    ASSUME IInv, RInv, NEW ops, Visiting(ops), phase' \in {"pop", "visit"},
           UNCHANGED <<call, pass1, cl, i, pos, best, into, then>>,
           Row(curr', Width, pos), curr'[0] = curr[0],
           UndoneTo(frames', curr', Begun, Width)
    PROVE  RInv'
<1>1. /\ phase = "visit" /\ ~Member(lists[into], pc)
      /\ lists' = [lists EXCEPT ![into] = Inserted(@, pc, curr, Keeps(pc))]
  BY DEF Visiting
<1>2. phase \in Closing /\ phase' \in Closing /\ phase' # "copy" /\ pc \in Pcs
  BY <1>1 DEF Closing, IInv, Control
<1> HIDE DEF Inserted, Keeps, Member
<1> QED BY <1>1, <1>2, ClosingRows

LEMMA VisitSplitRows == ASSUME IInv, RInv, VisitSplit PROVE RInv'
<1> DEFINE f == [explore |-> TRUE, pc |-> XFirst(Inst(pc)).later]
<1>1. /\ Visiting({"split"}) /\ phase = "visit" /\ phase' = phase
      /\ frames' = Append(frames, f)
      /\ UNCHANGED <<call, pass1, cl, i, pos, best, into, then, curr>>
  BY DEF VisitSplit, Visiting, control, search
<1>2. f.explore
  OBVIOUS
<1> HIDE DEF f
<1>3. /\ Row(curr, Width, pos) /\ UndoneTo(frames, curr, Begun, Width)
      /\ \E S : frames \in Seq(S)
  BY <1>1, WalkFacts
<1>4. UndoneTo(Append(frames, f), curr, Begun, Width)
  BY <1>2, <1>3, UndoneBranch
<1>5. UndoneTo(frames', curr', Begun, Width)
  BY <1>1, <1>4
<1> HIDE DEF Visiting
<1> QED BY <1>1, <1>3, <1>5, VisitRows

LEMMA VisitOnRows ==
    ASSUME IInv, RInv, VisitJmp \/ PassOver \/ VisitAssert \/ VisitEnd PROVE RInv'
<1>1. PICK ops : Visiting(ops)
  BY DEF VisitJmp, PassOver, VisitAssert, VisitEnd
<1>2. UNCHANGED <<call, pass1, cl, i, pos, best, into, then, curr, frames>>
  BY DEF VisitJmp, PassOver, VisitAssert, VisitEnd, closure, control, search
<1>3. phase = "visit"
  BY <1>1 DEF Visiting
<1>4. phase' \in {"pop", "visit"}
  BY <1>3 DEF VisitJmp, PassOver, VisitAssert, VisitEnd
<1>5. Row(curr, Width, pos) /\ UndoneTo(frames, curr, Begun, Width)
  BY <1>3, WalkFacts
<1> HIDE DEF Visiting
<1> QED BY <1>1, <1>2, <1>4, <1>5, VisitRows

(* A group's slot is set, its old value pending (pikevm_tagged.zig:154).   *)
LEMMA VisitSaveRows == ASSUME IInv, RInv, VisitSave PROVE RInv'
<1> DEFINE slot == Inst(pc).slot
           n == Len(frames)
<1>1. /\ Visiting({"save"}) /\ phase = "visit" /\ phase' = phase /\ Inst(pc).op = "save"
      /\ frames' = Append(frames, Undo(slot)) /\ curr' = [curr EXCEPT ![slot] = at]
      /\ UNCHANGED <<call, pass1, cl, i, pos, best, into, then>>
  BY DEF VisitSave, Visiting, control, search
<1>2. /\ Row(curr, Width, pos) /\ UndoneTo(frames, curr, Begun, Width)
      /\ \E S : frames \in Seq(S)
  BY <1>1, WalkFacts
<1>3. slot # 0
  <2>1. call \in Calls /\ pc \in Pcs
    BY <1>1 DEF IInv, Control, Running, Answers
  <2>2. WellFormed(prog)
    BY <2>1, CallsAssumption DEF prog
  <2> QED BY <1>1, <2>1, <2>2 DEF WellFormed, Pcs, Inst
<1>4. Undo(slot) = [explore |-> FALSE, slot |-> slot, old |-> curr[slot]]
  BY DEF Undo
<1> DEFINE f == Undo(slot)
<1>5. ~f.explore /\ f.slot = slot /\ f.old = curr[slot]
  BY <1>4
<1> HIDE DEF slot, f
<1>6. /\ n \in Nat /\ DOMAIN frames = 1..n /\ DOMAIN frames' = 1..(n + 1)
      /\ \A k \in 1..n : frames'[k] = frames[k]
      /\ frames'[n + 1] = f
  <2>1. PICK S : frames \in Seq(S)
    BY <1>2
  <2>2. frames \in [1..n -> S] /\ n \in Nat /\ frames' = Append(frames, f)
    BY <1>1, <2>1 DEF f
  <2> QED BY <2>2
<1>7. curr = [s \in 0..Width - 1 |-> curr[s]]
  BY <1>2 DEF Row
<1>8. curr' = [s \in 0..Width - 1 |-> IF s = slot THEN at ELSE curr[s]]
  BY <1>1, <1>7
<1>9. Row(curr', Width, pos) /\ curr'[0] = curr[0]
  <2>1. curr' = [s \in 0..Width - 1 |-> curr'[s]]
    BY <1>8
  <2>2. curr'[0] = curr[0]
    BY <1>1, <1>3, <1>7
  <2> QED BY <1>2, <2>1, <2>2 DEF Row
<1> HIDE DEF n
<1>10. UndoneTo(frames', curr', Begun, Width)
  <2>1. \A k \in (n + 1)..(n + 1) : ~frames'[k].explore /\ frames'[k].slot # 0
                                    /\ frames'[k].old = curr[frames'[k].slot]
    BY <1>3, <1>5, <1>6
  <2>2. \A s \in 0..Width - 1 : curr'[s] # curr[s] =>
             \E k \in (n + 1)..(n + 1) : frames'[k].slot = s
    BY <1>5, <1>6, <1>8
  <2>3. UndoesPushed(n, 1, frames, frames', curr, curr', Width)
    BY <1>6, <2>1, <2>2 DEF UndoesPushed
  <2> QED BY <1>2, <2>3, UndonePush
<1> HIDE DEF Visiting
<1> QED BY <1>1, <1>9, <1>10, VisitRows

(* A run of slots is cleared, their old values pending                     *)
(* (pikevm_tagged.zig:160).                                                *)
LEMMA VisitClearRows == ASSUME IInv, RInv, VisitClear PROVE RInv'
<1> DEFINE lo == Inst(pc).lo
           hi == Inst(pc).hi
           m  == hi - lo
           us == [k \in 1..m |-> Undo(lo + k - 1)]
           n  == Len(frames)
<1>1. /\ Visiting({"clear"}) /\ phase = "visit" /\ phase' = phase /\ Inst(pc).op = "clear"
      /\ frames' = frames \o us /\ curr' = Wiped(curr, lo..hi - 1)
      /\ UNCHANGED <<call, pass1, cl, i, pos, best, into, then>>
  BY DEF VisitClear, Visiting, control, search
<1>2. /\ Row(curr, Width, pos) /\ UndoneTo(frames, curr, Begun, Width)
      /\ \E S : frames \in Seq(S)
  BY <1>1, WalkFacts
<1>3. lo \in Nat \ {0} /\ hi \in Nat /\ lo <= hi
  <2>1. call \in Calls /\ pc \in Pcs
    BY <1>1 DEF IInv, Control, Running, Answers
  <2>2. WellFormed(prog)
    BY <2>1, CallsAssumption DEF prog
  <2> QED BY <1>1, <2>1, <2>2 DEF WellFormed, Pcs, Inst
<1> HIDE DEF lo, hi
<1>4. \A k \in 1..m : ~us[k].explore /\ us[k].slot = lo + k - 1 /\ us[k].old = curr[lo + k - 1]
  BY DEF Undo
<1>5. /\ n \in Nat /\ DOMAIN frames = 1..n /\ DOMAIN frames' = 1..(n + m) /\ m \in Nat
      /\ \A k \in 1..n : frames'[k] = frames[k]
      /\ \A k \in (n + 1)..(n + m) : k - n \in 1..m /\ frames'[k] = us[k - n]
  <2>1. PICK S : frames \in Seq(S)
    BY <1>2
  <2>2. frames \in [1..n -> S] /\ n \in Nat /\ m \in Nat
    BY <1>3, <2>1
  <2> HIDE DEF m
  <2>3. us \in Seq({us[k] : k \in 1..m}) /\ Len(us) = m
    <3>1. us \in [1..m -> {us[k] : k \in 1..m}]
      OBVIOUS
    <3> HIDE DEF us
    <3> QED BY <2>2, <3>1
  <2> DEFINE T == S \cup {us[k] : k \in 1..m}
  <2>4. frames \in Seq(T) /\ us \in Seq(T)
    <3>1. frames \in [1..n -> T] /\ us \in [1..m -> T]
      BY <2>2
    <3> HIDE DEF T, us
    <3> QED BY <2>2, <3>1
  <2> HIDE DEF T, us
  <2> QED BY <1>1, <2>2, <2>3, <2>4
<1> HIDE DEF us
<1>6. curr = [s \in 0..Width - 1 |-> curr[s]]
  BY <1>2 DEF Row
<1>7. curr' = [s \in 0..Width - 1 |-> IF s \in lo..hi - 1 THEN None ELSE curr[s]]
  BY <1>1, <1>6 DEF Wiped
<1>8. Row(curr', Width, pos) /\ curr'[0] = curr[0]
  <2>1. curr' = [s \in 0..Width - 1 |-> curr'[s]]
    BY <1>7
  <2>2. Width \in Nat \ {0}
    BY <1>1, WidthFact DEF IInv, Running, Answers
  <2>3. curr'[0] = curr[0]
    BY <1>3, <1>7, <2>2
  <2> QED BY <1>2, <2>1, <2>3 DEF Row
<1>9. UndoneTo(frames', curr', Begun, Width)
  <2>1. \A k \in (n + 1)..(n + m) : ~frames'[k].explore /\ frames'[k].slot # 0
                                    /\ frames'[k].old = curr[frames'[k].slot]
    <3> SUFFICES ASSUME NEW k \in (n + 1)..(n + m)
                 PROVE  ~frames'[k].explore /\ frames'[k].slot # 0
                        /\ frames'[k].old = curr[frames'[k].slot]
      OBVIOUS
    <3> DEFINE x == k - n
    <3>1. x \in 1..m /\ frames'[k] = us[x]
      BY <1>5
    <3> HIDE DEF x
    <3>2. lo + x - 1 # 0
      BY <1>3, <3>1
    <3> QED BY <1>4, <3>1, <3>2
  <2>2. \A s \in 0..Width - 1 : curr'[s] # curr[s] =>
             \E k \in (n + 1)..(n + m) : frames'[k].slot = s
    <3> SUFFICES ASSUME NEW s \in 0..Width - 1, curr'[s] # curr[s]
                 PROVE  \E k \in (n + 1)..(n + m) : frames'[k].slot = s
      OBVIOUS
    <3>1. s \in lo..hi - 1
      BY <1>7
    <3> DEFINE x == s - lo + 1
               k == n + x
    <3>2. x \in 1..m /\ lo + x - 1 = s /\ k \in (n + 1)..(n + m) /\ k - n = x
      BY <1>3, <1>5, <3>1
    <3>3. frames'[k] = us[x] /\ us[x].slot = s
      <4> HIDE DEF x, k
      <4> QED BY <1>4, <1>5, <3>2
    <3> HIDE DEF x, k
    <3> QED BY <3>2, <3>3
  <2>3. /\ n \in Nat /\ m \in Nat /\ DOMAIN frames = 1..n /\ DOMAIN frames' = 1..(n + m)
        /\ \A k \in 1..n : frames'[k] = frames[k]
    BY <1>5
  <2>4. UndoneTo(frames, curr, Begun, Width)
    BY <1>2
  <2> HIDE DEF n, m
  <2>5. UndoesPushed(n, m, frames, frames', curr, curr', Width)
    BY <2>1, <2>2, <2>3 DEF UndoesPushed
  <2> QED BY <2>4, <2>5, UndonePush
<1> HIDE DEF Visiting
<1> QED BY <1>1, <1>8, <1>9, VisitRows
-----------------------------------------------------------------------------
(* The steps of the search. *)

(* Nothing is known of the rows where no member is.                        *)
LEMMA EmptyRows ==
    ASSUME NEW l, l.dense = <<>>
    PROVE  /\ \A K : KeptIn(l, K) = {}
           /\ \A K, W, p : RowsIn(l, K, W, p)
           /\ \A K : OrderedIn(l, K)
           /\ \A K, k, x : NoLater(l, K, k, x)
<1>1. \A K : KeptIn(l, K) = {}
  BY DEF KeptIn
<1> QED BY <1>1 DEF RowsIn, OrderedIn, NoLater

(* A closure begins with nothing to put back (pikevm_tagged.zig:133).      *)
LEMMA UndoneFirst ==
    ASSUME NEW q, NEW c, NEW W
    PROVE  UndoneTo(<<[explore |-> TRUE, pc |-> q]>>, c, c, W)
<1> DEFINE f == [explore |-> TRUE, pc |-> q]
<1>1. f.explore
  OBVIOUS
<1> HIDE DEF f
<1>2. DOMAIN <<f>> = {1} /\ <<f>>[1] = f
  OBVIOUS
<1>3. \A s : UndoesOf(<<f>>, s) = {}
  BY <1>1, <1>2 DEF UndoesOf
<1>4. \A s : Oldest(<<f>>, c, s) = c[s]
  BY <1>3 DEF Oldest
<1>5. UndoneTo(<<f>>, c, c, W)
  BY <1>1, <1>2, <1>4 DEF UndoneTo
<1> QED BY <1>5 DEF f

(* Between calls, and with an answer, nothing is asked of the lists.       *)
LEMMA AnswerRows ==
    ASSUME phase' \in Answers \cup {"idle"}, pos' \in Nat,
           \A m \in best' : m[0] \in Nat, \A m, m2 \in best' : m = m2
    PROVE  RInv'
<1>1. ~(Running') /\ ~(Whole') /\ ~(Stepped') /\ phase' \notin Closing
  BY DEF Running, Answers, Whole, Stepped, Closing
<1> QED BY <1>1 DEF RInv, InOrder, Adding

(* A step that only ends the pass, or leaves the threads to their turn.    *)
LEMMA TurnRows ==
    ASSUME RInv, IInv, phase \in {"top", "decode", "step"}, phase' \in {"over", "decode"},
           phase' = "decode" => phase = "top",
           UNCHANGED <<lists, call, pass1, cl, pos, best, i>>
    PROVE  RInv'
<1>1. Kept' = Kept /\ Width' = Width
  BY SamePass
<1>2. Good(lists[cl], pos) /\ phase' \notin Closing /\ ~(Stepped')
  BY DEF RInv, InOrder, Running, Answers, Closing, Stepped
<1>3. Good(lists[cl], pos)'
  BY <1>1, <1>2 DEF Good
<1>4. Whole' => Whole /\ \A m \in best : NoLater(lists[cl], Kept, 1, m[0])
  BY <1>2 DEF Whole, RInv, InOrder
<1>5. InOrder'
  BY <1>1, <1>2, <1>3, <1>4 DEF RInv, InOrder
<1> QED BY <1>2, <1>5 DEF RInv, Adding

LEMMA InitRows == Init => RInv
<1> SUFFICES ASSUME Init PROVE RInv
  OBVIOUS
<1>1. phase = "idle" /\ best = {} /\ pos = 0
  BY DEF Init
<1>2. ~Running /\ ~Whole /\ ~Stepped /\ phase \notin Closing
  BY <1>1 DEF Running, Answers, Whole, Stepped, Closing
<1> QED BY <1>1, <1>2 DEF RInv, InOrder, Adding

LEMMA OverRows ==
    ASSUME IInv, RInv, \/ \E c \in Calls : Refuse(c)
                       \/ NotFound \/ Found \/ BothPasses \/ Return
    PROVE  RInv'
<1>1. pos \in Nat /\ (\A m \in best : m[0] \in Nat) /\ \A m, m2 \in best : m = m2
  BY DEF RInv, InOrder
<1>2. CASE \E c \in Calls : Refuse(c)
  <2>1. phase' \in Answers /\ pos' = pos /\ best' = {}
    BY <1>2 DEF Refuse, Answers
  <2> QED BY <1>1, <2>1, AnswerRows
<1>3. CASE NotFound
  <2>1. phase' \in Answers
    BY <1>3 DEF NotFound, Answers
  <2>2. pos' = pos /\ best' = best
    BY <1>3 DEF NotFound, search
  <2> QED BY <1>1, <2>1, <2>2, AnswerRows
<1>4. CASE Found
  <2>1. phase' \in Answers /\ pos' = pos /\ best' = best
    BY <1>4 DEF Found, Answers, search
  <2> QED BY <1>1, <2>1, AnswerRows
<1>5. CASE BothPasses
  <2>1. phase' \in Answers
    BY <1>5 DEF BothPasses, Answers
  <2>2. pos' = pos /\ best' = best
    BY <1>5 DEF BothPasses, search
  <2> QED BY <1>1, <2>1, <2>2, AnswerRows
<1>6. CASE Return
  <2>1. phase' = "idle" /\ pos' = 0 /\ best' = {}
    BY <1>6 DEF Return
  <2> QED BY <2>1, AnswerRows
<1> QED BY <1>2, <1>3, <1>4, <1>5, <1>6

(* A pass that begins on an empty list has no rows yet (pikevm.zig:375).   *)
LEMMA FreshRows ==
    ASSUME phase' = "top", cl' = 1, lists'[1].dense = <<>>, best' = {}, pos' \in Nat
    PROVE  RInv'
<1>1. phase' \notin Closing /\ ~(Stepped')
  BY DEF Closing, Stepped
<1>2. Good(lists[1], pos)'
  BY EmptyRows DEF Good
<1> QED BY <1>1, <1>2 DEF RInv, InOrder, Adding

LEMMA StartRows == ASSUME IInv, NEW c \in Calls, Start(c) PROVE RInv'
<1>1. /\ phase' = "top" /\ cl' = 1 /\ best' = {} /\ pos' = c.index
      /\ lists' = [Ensured(c.prog.n) EXCEPT ![1] = Cleared(@)]
  BY DEF Start
<1>2. lists = [l \in 1..2 |-> lists[l]]
  BY DEF IInv, Scratch
<1>3. 1 \in DOMAIN Ensured(c.prog.n)
  BY <1>2 DEF Ensured
<1>4. lists'[1] = Cleared(Ensured(c.prog.n)[1])
  <2> HIDE DEF Cleared, Ensured
  <2> QED BY <1>1, <1>3
<1>5. lists'[1].dense = <<>>
  <2> HIDE DEF Ensured
  <2> QED BY <1>4 DEF Cleared
<1>6. c.index \in Nat
  BY CallsAssumption
<1> QED BY <1>1, <1>5, <1>6, FreshRows

LEMMA SecondPassRows == ASSUME IInv, RInv, SecondPass PROVE RInv'
<1>1. /\ phase' = "top" /\ cl' = 1 /\ best' = {}
      /\ lists' = [lists EXCEPT ![1] = Cleared(@)]
      /\ \E m \in best : pos' = m[0]
  BY DEF SecondPass
<1>2. pos' \in Nat
  BY <1>1 DEF RInv, InOrder
<1>3. lists = [l \in 1..2 |-> lists[l]]
  BY DEF IInv, Scratch
<1>4. lists'[1] = Cleared(lists[1])
  <2> HIDE DEF Cleared
  <2> QED BY <1>1, <1>3
<1>5. lists'[1].dense = <<>>
  BY <1>4 DEF Cleared
<1> QED BY <1>1, <1>2, <1>5, FreshRows

(* The thread seeded starts no earlier than the position, where every      *)
(* other one started by then (pikevm.zig:381).                             *)
LEMMA SeedRows == ASSUME IInv, RInv, Seed PROVE RInv'
<1> DEFINE p == IF Skips THEN CHOOSE q \in Landings : \A r \in Landings : q <= r ELSE pos
           c == [s \in 0..Width - 1 |-> IF s = 0 THEN p ELSE None]
<1>1. /\ phase = "top" /\ best = {} /\ (Skips => Landings # {}) /\ pos' = p
      /\ AddThread(cl, 0, p, c, "decode")
      /\ UNCHANGED <<lists, call, pass1, cl, i, best>>
  BY DEF Seed, Seeds, scratch, control
<1>2. /\ pos \in Nat /\ Good(lists[cl], pos)
  BY <1>1 DEF RInv, InOrder, Running, Answers
<1>3. p \in Nat /\ pos <= p
  <2>1. CASE Skips
    <3>1. Landings \subseteq Nat /\ Landings # {} /\ \A q \in Landings : pos <= q
      <4>1. call \in Calls
        BY <1>1 DEF IInv, Control, Running, Answers
      <4>2. Len(input) \in Nat
        BY <4>1, CallsAssumption DEF input
      <4> QED BY <1>1, <1>2, <2>1, <4>2 DEF Landings
    <3>2. \E q \in Landings : \A r \in Landings : q <= r
      <4> HIDE DEF Landings
      <4> QED BY <3>1, LeastNumber, Zenon
    <3>3. p \in Landings
      <4> HIDE DEF Landings
      <4> QED BY <2>1, <3>2
    <3> QED BY <3>1, <3>3
  <2>2. CASE ~Skips
    BY <1>2, <2>2
  <2> QED BY <2>1, <2>2
<1>4. Width \in Nat \ {0, 1}
  BY <1>1, WidthFact DEF IInv, Running, Answers
<1>5. Kept' = Kept /\ Width' = Width
  BY <1>1, SamePass
<1> HIDE DEF p
<1>6. /\ into' = cl /\ then' = "decode" /\ curr' = c
      /\ \/ phase' = "pop" /\ frames' = <<[explore |-> TRUE, pc |-> 0]>>
         \/ phase' = "copy" /\ ~tagged
  BY <1>1 DEF AddThread
<1>7. (tagged' <=> tagged) /\ phase' \in Closing /\ ~(Stepped') /\ phase' \in {"pop", "copy"}
  BY <1>1, <1>6 DEF Closing, Stepped, tagged
<1>8. Row(c, Width, p) /\ c[0] = p
  <2>1. c = [s \in 0..Width - 1 |-> c[s]]
    OBVIOUS
  <2>2. c[0] = p
    BY <1>4
  <2> HIDE DEF c
  <2> QED BY <1>3, <2>1, <2>2 DEF Row
<1>9. RowsIn(lists[cl], Kept, Width, p) /\ OrderedIn(lists[cl], Kept)
      /\ NoLater(lists[cl], Kept, 1, p)
  <2>1. \A j \in KeptIn(lists[cl], Kept) :
           Row(lists[cl].row[lists[cl].dense[j]], Width, pos)
    BY <1>2 DEF Good, RowsIn
  <2>2. \A r : Row(r, Width, pos) => Row(r, Width, p) /\ r[0] <= p
    BY <1>2, <1>3 DEF Row
  <2>3. RowsIn(lists[cl], Kept, Width, p)
    BY <2>1, <2>2 DEF RowsIn
  <2>4. NoLater(lists[cl], Kept, 1, p)
    BY <2>1, <2>2 DEF NoLater, StartOf
  <2> QED BY <1>2, <2>3, <2>4 DEF Good
<1>10. Begun' = c
  BY <1>1, <1>5, <1>6 DEF Begun
<1>11. phase' = "pop" => UndoneTo(frames', c, c, Width)
  BY <1>6, UndoneFirst
<1> HIDE DEF c
<1>12. InOrder'
  <2>1. Good(lists[cl], pos)'
    BY <1>1, <1>5, <1>9 DEF Good
  <2>2. pos' \in Nat /\ best' = {}
    BY <1>1, <1>3
  <2> QED BY <1>7, <2>1, <2>2 DEF InOrder
<1>13. Adding'
  <2>1. Row(curr', Width', pos') /\ NoLater(lists'[into'], Kept', 1, curr'[0])
    BY <1>1, <1>5, <1>6, <1>8, <1>9
  <2>2. phase' \in {"pop", "visit"} => UndoneTo(frames', curr', Begun', Width')
    BY <1>5, <1>6, <1>7, <1>10, <1>11
  <2>3. phase' = "copy" => ~(tagged')
    BY <1>6, <1>7
  <2> QED BY <1>1, <1>6, <2>1, <2>2, <2>3 DEF Adding
<1> QED BY <1>12, <1>13 DEF RInv

LEMMA StepFacts ==
    ASSUME IInv, RInv, phase = "step"
    PROVE  /\ Running /\ cl \in 1..2 /\ nl \in 1..2 /\ nl # cl /\ i \in Nat \ {0}
           /\ pos \in Nat /\ (\A m \in best : m[0] \in Nat) /\ \A m, m2 \in best : m = m2
           /\ Good(lists[cl], pos) /\ Good(lists[nl], pos)
           /\ \A j \in KeptIn(lists[nl], Kept) :
                 NoEarlier(lists[cl], Kept, i, StartOf(lists[nl], j))
           /\ \A m \in best : /\ NoLater(lists[cl], Kept, i, m[0])
                              /\ NoLater(lists[nl], Kept, 1, m[0])
           /\ GoodList(lists[cl], capacity) /\ OfProgram(lists[cl])
<1>1. Running /\ Stepped
  BY DEF Running, Answers, Stepped
<1>2. cl \in 1..2 /\ i \in Nat \ {0} /\ OfProgram(lists[cl]) /\ GoodList(lists[cl], capacity)
  BY <1>1 DEF IInv, Control, Scratch
<1>3. nl \in 1..2 /\ nl # cl
  BY <1>2 DEF nl
<1> QED BY <1>1, <1>2, <1>3 DEF RInv, InOrder

(* The threads' turn: from the first one, with nobody in the next list.    *)
LEMMA DecodeRows == ASSUME IInv, RInv, Decode PROVE RInv'
<1>1. /\ phase = "decode" /\ UNCHANGED <<call, pass1, cl, pos, best>>
      /\ \/ phase' = "over" /\ UNCHANGED <<lists, i>>
         \/ phase' = "step_limit"
         \/ phase' = "step" /\ i' = 1 /\ lists' = [lists EXCEPT ![nl] = Cleared(@)]
  <2> HIDE DEF Cleared
  <2> QED BY DEF Decode, control, OutOfSteps
<1>2. /\ pos \in Nat /\ (\A m \in best : m[0] \in Nat) /\ \A m, m2 \in best : m = m2
      /\ Good(lists[cl], pos) /\ \A m \in best : NoLater(lists[cl], Kept, 1, m[0])
  BY <1>1 DEF RInv, InOrder, Running, Answers, Whole
<1>3. CASE phase' = "over" /\ UNCHANGED <<lists, i>>
  BY <1>1, <1>3, TurnRows
<1>4. CASE phase' = "step_limit"
  <2>1. phase' \in Answers
    BY <1>4 DEF Answers
  <2> QED BY <1>1, <1>2, <2>1, AnswerRows
<1>5. CASE phase' = "step" /\ i' = 1 /\ lists' = [lists EXCEPT ![nl] = Cleared(@)]
  <2>1. /\ Kept' = Kept /\ Width' = Width /\ nl' = nl /\ phase' \notin Closing
        /\ ~(Whole')
    BY <1>1, <1>5, SamePass DEF nl, Closing, Whole
  <2>2. cl \in 1..2 /\ nl \in 1..2 /\ nl # cl /\ lists = [l \in 1..2 |-> lists[l]]
    BY DEF IInv, Control, Scratch, nl
  <2>3. lists'[nl] = Cleared(lists[nl]) /\ lists'[cl] = lists[cl]
    <3> HIDE DEF Cleared
    <3> QED BY <1>5, <2>2
  <2>4. lists'[nl].dense = <<>>
    BY <2>3 DEF Cleared
  <2>5. /\ KeptIn(lists'[nl], Kept) = {} /\ RowsIn(lists'[nl], Kept, Width, pos)
        /\ OrderedIn(lists'[nl], Kept) /\ \A x : NoLater(lists'[nl], Kept, 1, x)
    BY <2>4, EmptyRows
  <2>6. Good(lists[cl], pos)' /\ Good(lists[nl], pos)'
    BY <1>1, <1>2, <2>1, <2>3, <2>5 DEF Good
  <2>7. /\ \A j \in KeptIn(lists'[nl'], Kept') :
              NoEarlier(lists'[cl'], Kept', i', StartOf(lists'[nl'], j))
        /\ \A m \in best' : /\ NoLater(lists'[cl'], Kept', i', m[0])
                            /\ NoLater(lists'[nl'], Kept', 1, m[0])
    BY <1>1, <1>2, <1>5, <2>1, <2>3, <2>5
  <2>8. InOrder'
    BY <1>1, <1>2, <2>1, <2>6, <2>7 DEF InOrder
  <2> QED BY <2>1, <2>8 DEF RInv, Adding
<1> QED BY <1>1, <1>3, <1>4, <1>5

(* From a place further on, fewer threads are compared.                    *)
LEMMA FurtherOn ==
    ASSUME NEW l, NEW K, NEW k \in Nat, NEW x, DOMAIN l.dense \subseteq Int
    PROVE  /\ NoLater(l, K, k, x) => NoLater(l, K, k + 1, x)
           /\ NoEarlier(l, K, k, x) => NoEarlier(l, K, k + 1, x)
<1>1. \A j \in KeptIn(l, K) : k + 1 <= j => k <= j
  BY DEF KeptIn
<1> QED BY <1>1 DEF NoLater, NoEarlier

(* What a list's places are.                                               *)
LEMMA PlacesOf ==
    ASSUME NEW l, NEW cap, GoodList(l, cap)
    PROVE  DOMAIN l.dense = 1..Len(l.dense) /\ Len(l.dense) \in Nat
BY DEF GoodList

(* The thread that steps is in its place, its start within the order: no   *)
(* earlier than the next list's, no later than those after it and no later *)
(* than a match that is recorded.                                          *)
LEMMA SteppingFacts ==
    ASSUME IInv, RInv, Stepping, Inst(Thread).op \in {"set", "match"}
    PROVE  /\ i \in KeptIn(lists[cl], Kept)
           /\ Row(lists[cl].row[Thread], Width, pos)
           /\ StartOf(lists[cl], i) = lists[cl].row[Thread][0]
           /\ NoLater(lists[nl], Kept, 1, lists[cl].row[Thread][0])
           /\ NoEarlier(lists[cl], Kept, i, lists[cl].row[Thread][0])
           /\ \A m \in best : lists[cl].row[Thread][0] <= m[0]
<1>1. phase = "step" /\ i <= Len(lists[cl].dense)
  BY DEF Stepping
<1>2. /\ i \in Nat \ {0} /\ Good(lists[cl], pos)
      /\ \A j \in KeptIn(lists[nl], Kept) :
            NoEarlier(lists[cl], Kept, i, StartOf(lists[nl], j))
      /\ \A m \in best : NoLater(lists[cl], Kept, i, m[0])
      /\ GoodList(lists[cl], capacity) /\ OfProgram(lists[cl])
  BY <1>1, StepFacts
<1>3. i \in DOMAIN lists[cl].dense
  BY <1>1, <1>2, PlacesOf
<1>4. Thread \in Kept
  BY <1>2, <1>3 DEF Kept, Keeps, OfProgram, Thread
<1>5. i \in KeptIn(lists[cl], Kept) /\ i <= i
  BY <1>2, <1>3, <1>4 DEF KeptIn, Thread
<1>6. StartOf(lists[cl], i) = lists[cl].row[Thread][0]
  BY DEF StartOf, Thread
<1>7. Row(lists[cl].row[Thread], Width, pos)
  BY <1>2, <1>5 DEF Good, RowsIn, Thread
<1>8. NoLater(lists[nl], Kept, 1, StartOf(lists[cl], i))
  BY <1>2, <1>5 DEF NoLater, NoEarlier
<1>9. NoEarlier(lists[cl], Kept, i, StartOf(lists[cl], i))
  BY <1>2, <1>5 DEF Good, OrderedIn, NoEarlier
<1>10. \A m \in best : StartOf(lists[cl], i) <= m[0]
  BY <1>2, <1>5 DEF NoLater
<1> QED BY <1>5, <1>6, <1>7, <1>8, <1>9, <1>10

(* What stays in order when the thread in place i has had its turn.        *)
LEMMA NextInOrder ==
    ASSUME IInv, RInv, phase = "step", i' = i + 1, Running', Stepped', ~(Whole'),
           UNCHANGED <<lists, call, pass1, cl, pos, best>>
    PROVE  InOrder'
<1>1. /\ Kept' = Kept /\ Width' = Width /\ nl' = nl
  BY SamePass DEF nl
<1>2. /\ cl \in 1..2 /\ nl \in 1..2 /\ nl # cl /\ i \in Nat \ {0}
      /\ pos \in Nat /\ (\A m \in best : m[0] \in Nat) /\ \A m, m2 \in best : m = m2
      /\ Good(lists[cl], pos) /\ Good(lists[nl], pos)
      /\ \A j \in KeptIn(lists[nl], Kept) :
            NoEarlier(lists[cl], Kept, i, StartOf(lists[nl], j))
      /\ \A m \in best : /\ NoLater(lists[cl], Kept, i, m[0])
                         /\ NoLater(lists[nl], Kept, 1, m[0])
      /\ GoodList(lists[cl], capacity)
  BY StepFacts
<1>3. DOMAIN lists[cl].dense \subseteq Int
  BY <1>2, PlacesOf
<1>4. /\ \A j \in KeptIn(lists[nl], Kept) :
            NoEarlier(lists[cl], Kept, i + 1, StartOf(lists[nl], j))
      /\ \A m \in best : NoLater(lists[cl], Kept, i + 1, m[0])
  BY <1>2, <1>3, FurtherOn
<1>5. Good(lists[cl], pos)' /\ Good(lists[nl], pos)'
  BY <1>1, <1>2 DEF Good
<1> QED BY <1>1, <1>2, <1>4, <1>5 DEF InOrder

LEMMA DropRows == ASSUME IInv, RInv, Drop PROVE RInv'
<1>1. /\ phase = "step" /\ phase' = "step" /\ i' = i + 1
      /\ UNCHANGED <<lists, call, pass1, cl, pos, best>>
  BY DEF Drop, Stepping, scratch, control
<1>2. Running' /\ Stepped' /\ ~(Whole') /\ phase' \notin Closing
  BY <1>1 DEF Running, Answers, Stepped, Whole, Closing
<1>3. InOrder'
  BY <1>1, <1>2, NextInOrder
<1> QED BY <1>2, <1>3 DEF RInv, Adding

(* A thread steps with its own row, after those that stepped before it     *)
(* (pikevm.zig:417).                                                       *)
LEMMA ConsumeRows == ASSUME IInv, RInv, Consume PROVE RInv'
<1> DEFINE c == lists[cl].row[Thread]
<1>1. /\ phase = "step" /\ Stepping /\ Inst(Thread).op = "set" /\ i' = i + 1
      /\ AddThread(nl, Thread + 1, pos + 1, c, "step")
      /\ UNCHANGED <<lists, call, pass1, cl, pos, best>>
  BY DEF Consume, Stepping, Accepts, scratch, control
<1>2. /\ i \in KeptIn(lists[cl], Kept) /\ Row(c, Width, pos)
      /\ NoLater(lists[nl], Kept, 1, c[0]) /\ NoEarlier(lists[cl], Kept, i, c[0])
      /\ \A m \in best : c[0] <= m[0]
  BY <1>1, SteppingFacts
<1>3. /\ into' = nl /\ then' = "step" /\ curr' = c
      /\ \/ phase' = "pop" /\ frames' = <<[explore |-> TRUE, pc |-> Thread + 1]>>
         \/ phase' = "copy" /\ ~tagged
  BY <1>1 DEF AddThread
<1>4. /\ (tagged' <=> tagged) /\ phase' \in Closing /\ phase' \in {"pop", "copy"}
      /\ Running' /\ Stepped' /\ ~(Whole') /\ nl' = nl /\ Kept' = Kept /\ Width' = Width
  BY <1>1, <1>3, SamePass DEF Closing, Stepped, Whole, Running, Answers, tagged, nl
<1>5. InOrder'
  BY <1>1, <1>4, NextInOrder
<1>6. i \in Nat \ {0} /\ i' - 1 = i /\ NoEarlier(lists[cl], Kept, i + 1, c[0])
  <2>1. i \in Nat \ {0} /\ GoodList(lists[cl], capacity)
    BY <1>1, StepFacts
  <2>2. DOMAIN lists[cl].dense \subseteq Int
    BY <2>1, PlacesOf
  <2>3. NoEarlier(lists[cl], Kept, i + 1, c[0])
    BY <1>2, <2>1, <2>2, FurtherOn
  <2> QED BY <1>1, <2>1, <2>3
<1>7. Begun' = c
  BY <1>1, <1>3, <1>6 DEF Begun, Thread
<1>8. phase' = "pop" => UndoneTo(frames', c, c, Width)
  BY <1>3, UndoneFirst
<1> HIDE DEF c
<1>9. Adding'
  <2>1. Row(curr', Width', pos') /\ NoLater(lists'[into'], Kept', 1, curr'[0])
    BY <1>1, <1>2, <1>3, <1>4
  <2>2. /\ i' - 1 \in KeptIn(lists'[cl'], Kept')
        /\ NoEarlier(lists'[cl'], Kept', i', curr'[0])
        /\ \A m \in best' : curr'[0] <= m[0]
    BY <1>1, <1>2, <1>3, <1>4, <1>6
  <2>3. phase' \in {"pop", "visit"} => UndoneTo(frames', curr', Begun', Width')
    BY <1>3, <1>4, <1>7, <1>8
  <2>4. phase' = "copy" => ~(tagged')
    BY <1>3, <1>4
  <2> QED BY <1>3, <2>1, <2>2, <2>3, <2>4 DEF Adding
<1> QED BY <1>5, <1>9 DEF RInv

(* A match ends the turn of those after it: none of the next list started  *)
(* after it did (pikevm.zig:404).                                          *)
LEMMA RecordFacts ==
    ASSUME IInv, RInv, RecordMatch
    PROVE  \E x \in Nat : /\ NoLater(lists[nl], Kept, 1, x)
                          /\ \A m \in best : x <= m[0]
                          /\ \A m \in best' : m[0] = x
                          /\ \A m, m2 \in best' : m = m2
<1> DEFINE r == lists[cl].row[Thread]
<1>1. Stepping /\ phase = "step" /\ Inst(Thread).op = "match" /\ best' = {[r EXCEPT ![1] = pos]}
  BY DEF RecordMatch, Stepping
<1>2. /\ Row(r, Width, pos) /\ NoLater(lists[nl], Kept, 1, r[0])
      /\ \A m \in best : r[0] <= m[0]
  BY <1>1, SteppingFacts
<1>3. Width \in Nat \ {0, 1}
  BY <1>1, WidthFact DEF IInv, Running, Answers
<1> HIDE DEF r
<1>4. [r EXCEPT ![1] = pos][0] = r[0] /\ r[0] \in Nat
  <2>1. r = [s \in 0..Width - 1 |-> r[s]] /\ 0 \in 0..Width - 1
    BY <1>2, <1>3 DEF Row
  <2> QED BY <1>2, <2>1 DEF Row
<1> QED BY <1>1, <1>2, <1>4

LEMMA RecordMatchRows == ASSUME IInv, RInv, RecordMatch PROVE RInv'
<1>1. /\ phase = "step" /\ phase' \in {"exists", "step"}
      /\ i' = Len(lists[cl].dense) + 1
      /\ UNCHANGED <<lists, call, pass1, cl, pos>>
  BY DEF RecordMatch, Stepping, AfterMatch, scratch, control
<1>2. PICK x \in Nat : /\ NoLater(lists[nl], Kept, 1, x)
                       /\ \A m \in best' : m[0] = x
                       /\ \A m, m2 \in best' : m = m2
  BY RecordFacts
<1>3. /\ pos \in Nat /\ Good(lists[cl], pos) /\ Good(lists[nl], pos)
      /\ GoodList(lists[cl], capacity)
  BY <1>1, StepFacts
<1>4. CASE phase' = "exists"
  <2>1. phase' \in Answers
    BY <1>4 DEF Answers
  <2> QED BY <1>1, <1>2, <1>3, <2>1, AnswerRows
<1>5. CASE phase' = "step"
  <2>1. /\ Kept' = Kept /\ Width' = Width /\ nl' = nl
        /\ Stepped' /\ ~(Whole') /\ phase' \notin Closing
    BY <1>1, <1>5, SamePass DEF nl, Stepped, Whole, Closing
  <2>2. \A j \in KeptIn(lists[cl], Kept) : ~(i' <= j)
    <3>1. DOMAIN lists[cl].dense = 1..Len(lists[cl].dense) /\ Len(lists[cl].dense) \in Nat
      BY <1>3, PlacesOf
    <3> QED BY <1>1, <3>1 DEF KeptIn
  <2>3. \A y : NoLater(lists[cl], Kept, i', y) /\ NoEarlier(lists[cl], Kept, i', y)
    BY <2>2 DEF NoLater, NoEarlier
  <2>4. Good(lists[cl], pos)' /\ Good(lists[nl], pos)'
    BY <1>1, <1>3, <2>1 DEF Good
  <2>5. InOrder'
    BY <1>1, <1>2, <1>3, <2>1, <2>3, <2>4 DEF InOrder
  <2> QED BY <2>1, <2>5 DEF RInv, Adding
<1> QED BY <1>1, <1>4, <1>5

(* The next position's threads started by the one before (pikevm.zig:429). *)
LEMMA AdvanceRows == ASSUME IInv, RInv, Advance PROVE RInv'
<1>1. /\ phase = "step" /\ phase' = "top" /\ pos' = pos + 1 /\ cl' = nl
      /\ UNCHANGED <<lists, call, pass1, best>>
  BY DEF Advance, scratch, control
<1>2. /\ pos \in Nat /\ (\A m \in best : m[0] \in Nat) /\ (\A m, m2 \in best : m = m2)
      /\ Good(lists[nl], pos) /\ \A m \in best : NoLater(lists[nl], Kept, 1, m[0])
  BY <1>1, StepFacts
<1>3. /\ Kept' = Kept /\ Width' = Width /\ ~(Stepped') /\ phase' \notin Closing
  BY <1>1, SamePass DEF Stepped, Closing
<1>4. \A r : Row(r, Width, pos) => Row(r, Width, pos + 1)
  BY <1>2 DEF Row
<1>5. Good(lists[cl], pos)'
  BY <1>1, <1>2, <1>3, <1>4 DEF Good, RowsIn
<1>6. InOrder'
  BY <1>1, <1>2, <1>3, <1>5 DEF InOrder
<1> QED BY <1>3, <1>6 DEF RInv, Adding

LEMMA CloseRows == ASSUME IInv, RInv, CopyEnd \/ CloseEnd PROVE RInv'
<1>1. /\ phase \in Closing /\ phase' = then
      /\ UNCHANGED <<lists, call, pass1, cl, i, pos, best, then>>
  BY DEF CopyEnd, CloseEnd, Closing, scratch, closure, control, search
<1>2. then \in {"decode", "step"} /\ Running
  BY <1>1, ClosingFacts
<1>3. /\ Kept' = Kept /\ Width' = Width /\ nl' = nl /\ phase' \notin Closing
  BY <1>1, <1>2, SamePass DEF nl, Closing
<1>4. /\ pos \in Nat /\ (\A m \in best : m[0] \in Nat) /\ (\A m, m2 \in best : m = m2)
      /\ Good(lists[cl], pos)
      /\ then = "decode" => best = {}
      /\ then = "step" =>
          /\ Good(lists[nl], pos)
          /\ \A j \in KeptIn(lists[nl], Kept) :
                NoEarlier(lists[cl], Kept, i, StartOf(lists[nl], j))
          /\ \A m \in best : /\ NoLater(lists[cl], Kept, i, m[0])
                             /\ NoLater(lists[nl], Kept, 1, m[0])
  BY <1>1, <1>2 DEF RInv, InOrder, Adding, Stepped
<1>5. Good(lists[cl], pos)' /\ (then = "step" => Good(lists[nl], pos)')
  BY <1>1, <1>3, <1>4 DEF Good
<1>6. (Whole' => then = "decode") /\ (Stepped' => then = "step")
  BY <1>1, <1>2, <1>3 DEF Whole, Stepped
<1>7. InOrder'
  BY <1>1, <1>3, <1>4, <1>5, <1>6 DEF InOrder
<1> QED BY <1>3, <1>7 DEF RInv, Adding

LEMMA SameRows == ASSUME RInv, UNCHANGED vars PROVE RInv'
<1>1. UNCHANGED <<phase, lists, call, pass1, cl, i, pos, best, into, then, curr, frames>>
  BY DEF vars, scratch, closure, control, search
<1>2. /\ Kept' = Kept /\ Width' = Width /\ nl' = nl /\ (tagged' <=> tagged)
  BY <1>1, SamePass DEF nl
<1>3. /\ (Running' <=> Running) /\ (Whole' <=> Whole) /\ (Stepped' <=> Stepped)
  BY <1>1 DEF Running, Whole, Stepped
<1>4. Begun' = Begun
  BY <1>1, <1>2 DEF Begun
<1>5. (Good(lists[cl], pos)' <=> Good(lists[cl], pos))
      /\ (Good(lists[nl], pos)' <=> Good(lists[nl], pos))
  BY <1>1, <1>2 DEF Good
<1>6. InOrder'
  BY <1>1, <1>2, <1>3, <1>5 DEF RInv, InOrder
<1>7. Adding'
  BY <1>1, <1>2, <1>4 DEF RInv, Adding
<1> QED BY <1>6, <1>7 DEF RInv

(* Every step keeps the rows in order and the closure able to unwind.      *)
LEMMA StepRows == IInv /\ RInv /\ [Next]_vars => RInv'
<1> SUFFICES ASSUME IInv, RInv, [Next]_vars PROVE RInv'
  OBVIOUS
<1>1. ASSUME NEW c \in Calls, Refuse(c) PROVE RInv'
  BY <1>1, OverRows
<1>2. ASSUME NEW c \in Calls, Start(c) PROVE RInv'
  BY <1>2, StartRows
<1>3. ASSUME SkipOut \/ NoSeed \/ Exhausted PROVE RInv'
  <2>1. /\ phase \in {"top", "decode", "step"} /\ phase' \in {"over", "decode"}
        /\ phase' = "decode" => phase = "top"
        /\ UNCHANGED <<lists, call, pass1, cl, pos, best, i>>
    BY <1>3 DEF SkipOut, NoSeed, Exhausted, scratch, closure, control, search
  <2> QED BY <2>1, TurnRows
<1>4. CASE Search
  BY <1>3, <1>4, SeedRows, DecodeRows, ConsumeRows, DropRows, RecordMatchRows,
     AdvanceRows DEF Search
<1>5. CASE Close
  BY <1>5, CloseRows, CopyMemberRows, ExploreRows, RestoreRows, VisitMemberRows,
     VisitSplitRows, VisitOnRows, VisitSaveRows, VisitClearRows DEF Close
<1>6. CASE End
  BY <1>6, OverRows, SecondPassRows DEF End
<1>7. CASE Return
  BY <1>7, OverRows
<1>8. CASE UNCHANGED vars
  BY <1>8, SameRows
<1> QED BY <1>1, <1>2, <1>4, <1>5, <1>6, <1>7, <1>8 DEF Next

(* The threads of a list come in the order they started and a recorded     *)
(* match started no earlier than any of them, whatever ran before          *)
(* (pikevm.zig:371).                                                       *)
THEOREM RowsInductive == Spec => []RInv
<1>1. Init => RInv
  BY InitRows
<1>2. IInv /\ RInv /\ [Next]_vars => RInv'
  BY StepRows
<1> QED BY <1>1, <1>2, Inductive, PTL DEF Spec

(* A closure's slots, with what is pending put back, are at every step the *)
(* slots it began with, for every program: pikevm_tagged.zig:126 needs no  *)
(* copy of the row.                                                        *)
THEOREM ClosureAlwaysUnwinds == Spec => []ClosureUnwinds
<1>1. IInv /\ RInv => ClosureUnwinds
  <2> SUFFICES ASSUME IInv, RInv, phase \in {"pop", "visit"} PROVE Unwound = Begun
    BY DEF ClosureUnwinds
  <2>1. /\ phase \in Closing /\ Row(curr, Width, pos) /\ UndoneTo(frames, curr, Begun, Width)
    BY WalkFacts
  <2>2. DOMAIN curr = 0..Width - 1
    BY <2>1 DEF Row
  <2>3. Begun = [s \in 0..Width - 1 |-> Begun[s]]
    <3>1. CASE then = "step"
      <4>1. i - 1 \in KeptIn(lists[cl], Kept) /\ Good(lists[cl], pos)
        BY <2>1, <3>1, ClosingFacts DEF RInv, Adding, InOrder
      <4>2. Row(lists[cl].row[lists[cl].dense[i - 1]], Width, pos)
        BY <4>1 DEF Good, RowsIn
      <4> QED BY <3>1, <4>2 DEF Row, Begun
    <3>2. CASE then # "step"
      BY <3>2 DEF Begun
    <3> QED BY <3>1, <3>2
  <2>4. \A s \in 0..Width - 1 : Oldest(frames, curr, s) = Begun[s]
    BY <2>1 DEF UndoneTo
  <2>5. Unwound = [s \in 0..Width - 1 |-> Begun[s]]
    BY <2>2, <2>4 DEF Unwound
  <2> QED BY <2>3, <2>5
<1> QED BY <1>1, Inductive, RowsInductive, PTL

(* A match that replaces another starts no later (pikevm.zig:404).         *)
THEOREM StartsNeverLaterAlways == Spec => StartsNeverLater
<1> DEFINE Replaced == \A m \in best, m2 \in best' : pass1' = pass1 => m2[0] <= m[0]
<1>1. IInv /\ RInv /\ [Next]_vars => Replaced
  <2> SUFFICES ASSUME IInv, RInv, [Next]_vars, NEW m \in best, NEW m2 \in best'
               PROVE  m2[0] <= m[0]
    OBVIOUS
  <2>1. CASE RecordMatch
    <3>1. PICK x \in Nat : /\ \A n \in best : x <= n[0]
                           /\ \A n \in best' : n[0] = x
      BY <2>1, RecordFacts
    <3> QED BY <3>1
  <2>2. CASE ~RecordMatch
    <3>1. best' = {} \/ best' = best
      <4>1. ASSUME NEW c \in Calls, Refuse(c) \/ Start(c) PROVE best' = {}
        BY <4>1 DEF Refuse, Start
      <4>2. ASSUME Search PROVE best' = best
        BY <2>2, <4>2 DEF Search, SkipOut, Seed, NoSeed, Decode, Consume, Drop, Advance,
           Exhausted, search
      <4>3. ASSUME Close PROVE best' = best
        BY <4>3 DEF Close, CopyMember, CopyEnd, Explore, Restore, CloseEnd, VisitMember,
           VisitSplit, VisitJmp, PassOver, VisitSave, VisitClear, VisitAssert, VisitEnd,
           search
      <4>4. ASSUME End \/ Return PROVE best' = {} \/ best' = best
        BY <4>4 DEF End, NotFound, Found, SecondPass, BothPasses, Return, search
      <4>5. ASSUME UNCHANGED vars PROVE best' = best
        BY <4>5 DEF vars, search
      <4> QED BY <4>1, <4>2, <4>3, <4>4, <4>5 DEF Next
    <3>2. best' = best /\ m[0] \in Nat /\ m2 = m
      BY <3>1 DEF RInv, InOrder
    <3> QED BY <3>2
  <2> QED BY <2>1, <2>2
<1>2. IInv /\ RInv /\ [Next]_vars => [Replaced]_vars
  BY <1>1
<1> QED BY <1>2, Inductive, RowsInductive, PTL DEF Spec, StartsNeverLater
=============================================================================
