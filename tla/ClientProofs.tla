---------------------------- MODULE ClientProofs ----------------------------
(***************************************************************************)
(* What stands around the matcher, for every suite of tests, every set of  *)
(* patterns and subjects and every sequence of calls (Clients).  Each part *)
(* has its own variables, so a step of one part only asks for that part's  *)
(* invariant; the others stand still.                                      *)
(***************************************************************************)
EXTENDS Clients, FiniteSetTheorems, SequenceTheorems, WellFoundedInduction, TLAPS

(* A set of naturals that is not empty has a least element.                *)
LEMMA LeastNat ==
    ASSUME NEW T, T \subseteq Nat, T # {}
    PROVE  \E x \in T : \A y \in T : x <= y
<1>1. \E x \in T : \A y \in T : ~(<<y, x>> \in OpToRel(<, Nat))
  BY NatLessThanWellFounded, WFMin
<1>2. \A x, y \in Nat : x < y => <<x, y>> \in OpToRel(<, Nat)
  BY Zenon DEF OpToRel
<1>3. \E x \in T : \A y \in T : ~(y < x)
  BY <1>1, <1>2, Zenon
<1>4. QED
  BY <1>3

-----------------------------------------------------------------------------
(* The baseline. *)

(* The file has every pass it was told, and the last run, when it ended    *)
(* well, had no failure of one.                                            *)
BaselineInv ==
    /\ DOMAIN file = {"sha", "entries"}
    /\ \A k \in recorded : k \in DOMAIN file.entries /\ file.entries[k] = "pass"
    /\ B!NeverForgotten

(* What a run's results say of the engine (run.mjs:340-352).               *)
LEMMA EntriesOf ==
    ASSUME NEW out
    PROVE  /\ DOMAIN B!engineEntries(out) \subseteq DOMAIN out.results
           /\ \A k \in DOMAIN B!engineEntries(out) :
                  B!engineEntries(out)[k] = out.results[k]
<1> DEFINE engine == {k \in DOMAIN out.results :
                         k \notin HostSuite /\ out.results[k] \notin B!BASELINE_SKIPS}
<1>1. B!engineEntries(out) = [k \in engine |-> out.results[k]]
  BY DEF B!engineEntries, B!Restrict
<1> QED BY <1>1

(* A check that finds nothing: what the file has as passing passes         *)
(* (run.mjs:366-391).                                                      *)
LEMMA CheckedPasses ==
    ASSUME NEW out, B!checkBaseline(out) = 0, NEW k \in DOMAIN B!engineEntries(out),
           k \in DOMAIN file.entries, file.entries[k] = "pass"
    PROVE  out.results[k] = "pass"
<1>1. B!Regressions(out) = {}
  BY DEF B!checkBaseline
<1>2. k \in B!InScope(out)
  BY EntriesOf DEF B!InScope
<1>3. B!engineEntries(out)[k] = out.results[k]
  BY EntriesOf
<1> QED BY <1>1, <1>2, <1>3 DEF B!Regressions

LEMMA BaselineStep == ASSUME BaselineInv, B!Next PROVE BaselineInv'
<1>1. PICK out : B!Check(out) \/ B!writeBaseline(out) \/ B!recordImprovements(out)
  BY DEF B!Next
<1> DEFINE now == B!engineEntries(out)
<1>2. CASE B!Check(out)
  <2>1. /\ last' = [mode |-> "--check-baseline", out |-> out, exit |-> B!checkBaseline(out)]
        /\ UNCHANGED <<file, recorded>>
    BY <1>2 DEF B!Check, B!Ran
  <2>2. last'.exit = B!checkBaseline(out) /\ last'.out = out
    BY <2>1
  <2>3. B!checkBaseline(out) = 0 => \A k \in recorded \cap DOMAIN now : out.results[k] = "pass"
    BY CheckedPasses DEF BaselineInv
  <2> QED BY <2>1, <2>2, <2>3 DEF BaselineInv, B!NeverForgotten, B!engineEntries
<1>3. CASE B!writeBaseline(out)
  <2>1. /\ file' = [sha |-> out.sha, entries |-> now] /\ recorded' = B!Passing(now)
        /\ last' = [mode |-> "--update-baseline", out |-> out, exit |-> 0]
    BY <1>3 DEF B!writeBaseline, B!Ran
  <2> HIDE DEF now
  <2>2. \A k \in recorded' : k \in DOMAIN file'.entries /\ file'.entries[k] = "pass"
    BY <2>1 DEF B!Passing
  <2>3. last'.mode = "--update-baseline" /\ DOMAIN file' = {"sha", "entries"}
    BY <2>1
  <2> QED BY <2>2, <2>3 DEF BaselineInv, B!NeverForgotten
<1>4. CASE B!recordImprovements(out)
  <2> DEFINE better == B!Improvements(out)
  <2>1. /\ last' = [mode |-> "--update-baseline-improvements", out |-> out,
                    exit |-> B!checkBaseline(out)]
        /\ IF B!checkBaseline(out) # 0
           THEN UNCHANGED <<file, recorded>>
           ELSE /\ file' = [file EXCEPT !.entries =
                                [k \in DOMAIN @ |-> IF k \in better THEN "pass" ELSE @[k]]]
                /\ recorded' = recorded \cup better
    BY <1>4 DEF B!recordImprovements, B!Ran
  <2>2. last'.exit = B!checkBaseline(out) /\ last'.out = out
    BY <2>1
  <2>3. CASE B!checkBaseline(out) # 0
    BY <2>1, <2>2, <2>3 DEF BaselineInv, B!NeverForgotten
  <2>4. CASE B!checkBaseline(out) = 0
    <3>1. \A k \in better : /\ k \in DOMAIN file.entries /\ k \in DOMAIN now
                            /\ now[k] = "pass"
      BY DEF B!Improvements, B!InScope
    <3>2. \A k \in recorded \cap DOMAIN now : out.results[k] = "pass"
      BY <2>4, CheckedPasses DEF BaselineInv
    <3>3. \A k \in better : out.results[k] = "pass"
      BY <3>1, EntriesOf
    <3>4. /\ DOMAIN file' = {"sha", "entries"}
          /\ file'.entries = [k \in DOMAIN file.entries |->
                                 IF k \in better THEN "pass" ELSE file.entries[k]]
      <4> HIDE DEF better
      <4> QED BY <2>1, <2>4 DEF BaselineInv
    <3>5. \A k \in recorded' : k \in DOMAIN file'.entries /\ file'.entries[k] = "pass"
      BY <2>1, <2>4, <3>1, <3>4 DEF BaselineInv
    <3>6. \A k \in recorded' \cap DOMAIN now : out.results[k] = "pass"
      BY <2>1, <2>4, <3>2, <3>3
    <3> QED BY <2>2, <3>4, <3>5, <3>6 DEF BaselineInv, B!NeverForgotten, B!engineEntries
  <2> QED BY <2>3, <2>4
<1> QED BY <1>1, <1>2, <1>3, <1>4

(* A test the file was ever told it passes does not fail in a run that     *)
(* ends well, whatever revisions, filters, samples and refused runs came   *)
(* between (run.mjs:366-400).                                              *)
THEOREM NeverForgottenAlways == Spec => []NeverForgotten
<1> DEFINE Inv == part = "baseline" => BaselineInv
<1>1. Init => Inv
  <2> SUFFICES ASSUME Init, part = "baseline" PROVE BaselineInv
    OBVIOUS
  <2>1. B!Init
    BY DEF Init
  <2>2. PICK out : /\ file = [sha |-> out.sha, entries |-> B!engineEntries(out)]
                   /\ last = [mode |-> "--update-baseline", out |-> out, exit |-> 0]
                   /\ recorded = B!Passing(B!engineEntries(out))
    <3>1. PICK sha \in B!Revision : \E results_ \in [FilesAt[sha] -> Status] :
              LET out == B!Out(sha, FALSE, results_)
              IN /\ file = [sha |-> sha, entries |-> B!engineEntries(out)]
                 /\ last = [mode |-> "--update-baseline", out |-> out, exit |-> 0]
                 /\ recorded = B!Passing(B!engineEntries(out))
      BY <2>1 DEF B!Init
    <3>2. \A r : B!Out(sha, FALSE, r).sha = sha
      BY DEF B!Out
    <3> QED BY <3>1, <3>2
  <2>3. last.mode = "--update-baseline" /\ DOMAIN file = {"sha", "entries"}
    BY <2>2
  <2>4. \A k \in recorded : k \in DOMAIN file.entries /\ file.entries[k] = "pass"
    BY <2>2 DEF B!Passing
  <2> QED BY <2>3, <2>4 DEF BaselineInv, B!NeverForgotten
<1>2. Inv /\ [Next]_all => Inv'
  <2> SUFFICES ASSUME Inv, [Next]_all, part' = "baseline" PROVE BaselineInv'
    OBVIOUS
  <2>1. part = "baseline" /\ BaselineInv
    BY DEF Next, InVerdict, InDiscover, InBaseline, InBridge, InHostExec, InLoops, InWalk, all
  <2>2. B!Next \/ UNCHANGED baseline
    BY <2>1 DEF Next, InVerdict, InDiscover, InBaseline, InBridge, InHostExec, InLoops, InWalk, all
  <2>3. CASE UNCHANGED baseline
    BY <2>1, <2>3 DEF baseline, BaselineInv, B!NeverForgotten, B!engineEntries
  <2> QED BY <2>1, <2>2, <2>3, BaselineStep
<1>3. Inv => NeverForgotten
  BY DEF NeverForgotten, BaselineInv
<1> QED BY <1>1, <1>2, <1>3, PTL DEF Spec
-----------------------------------------------------------------------------
(* The bridge. *)

(* The cache is of keys, and the handles in use are the cache's.           *)
BridgeInv ==
    /\ DOMAIN cache \subseteq Z!Keys
    /\ Z!HandlesOwned

(* There is always a handle to give: as many are in use as are cached.     *)
LEMMA HandleLeft == ASSUME BridgeInv PROVE Z!NewHandle \in Z!Handles \ DOMAIN live
<1> DEFINE keys == DOMAIN cache
           used == {cache[k] : k \in keys}
           f == [k \in keys |-> cache[k]]
<1>1. IsFiniteSet(Z!Keys) /\ Cardinality(Z!Keys) \in Nat
  <2>1. IsFiniteSet(DOMAIN Patterns \cup {Bad})
    BY LibraryAssumption, FS_AddElement
  <2>2. IsFiniteSet(Flags)
    BY LibraryAssumption
  <2>3. IsFiniteSet(Z!Keys)
    BY <2>1, <2>2, FS_Product DEF Z!Keys
  <2> QED BY <2>3, FS_CardinalityType
<1>2. IsFiniteSet(keys) /\ Cardinality(keys) <= Cardinality(Z!Keys)
  <2>1. keys \in SUBSET Z!Keys
    BY DEF BridgeInv
  <2> QED BY <1>1, <2>1, FS_Subset
<1>3. IsFiniteSet(used) /\ Cardinality(used) <= Cardinality(keys)
  <2>1. f \in Surjection(keys, used)
    BY DEF Surjection
  <2> HIDE DEF f, used, keys
  <2> QED BY <1>2, <2>1, FS_Surjection
<1>4. DOMAIN live = used
  BY DEF BridgeInv, Z!HandlesOwned
<1>5. Cardinality(Z!Handles) = Cardinality(Z!Keys) + 1 /\ IsFiniteSet(Z!Handles)
  <2> DEFINE last_ == Cardinality(Z!Keys) + 1
  <2>1. Cardinality(Z!Keys) \in Nat
    BY <1>1
  <2>2. last_ \in Int /\ 1 \in Int /\ ~(1 > last_) /\ last_ - 1 + 1 = last_
    BY <2>1
  <2>3. Z!Handles = 1..last_
    <3>1. ASSUME NEW X PROVE Z!Cardinality(X) = Cardinality(X)
      BY DEF Z!Cardinality, Cardinality
    <3> QED BY <3>1 DEF Z!Handles
  <2> HIDE DEF last_
  <2>4. IsFiniteSet(1..last_) /\ Cardinality(1..last_) = last_
    BY <2>2, FS_Interval
  <2> QED BY <2>3, <2>4 DEF last_
<1>6. \E h \in Z!Handles : h \notin DOMAIN live
  <2>1. SUFFICES ASSUME Z!Handles \subseteq used PROVE FALSE
    BY <1>4
  <2>2. Cardinality(Z!Handles) <= Cardinality(used)
    BY <1>3, <2>1, FS_Subset
  <2>3. Cardinality(used) \in Nat /\ Cardinality(keys) \in Nat
    BY <1>2, <1>3, FS_CardinalityType
  <2> HIDE DEF used, keys
  <2> QED BY <1>1, <1>2, <1>3, <1>5, <2>2, <2>3
<1> QED BY <1>6 DEF Z!NewHandle

(* A pattern compiled is cached under its own flags and source             *)
(* (zregex.mjs:138-169).                                                   *)
LEMMA CompileOwns == ASSUME BridgeInv, NEW key \in Z!Keys, Z!compile(key) PROVE BridgeInv'
<1>1. CASE key \in DOMAIN cache
  BY <1>1 DEF BridgeInv, Z!compile, Z!HandlesOwned, Z!Keys
<1>2. CASE key \notin DOMAIN cache
  <2> DEFINE h == Z!NewHandle
  <2>1. h \notin DOMAIN live
    BY HandleLeft
  <2>2. live' = Z!Stored(live, h, key) /\ cache' = Z!Stored(cache, key, h)
    BY <1>2 DEF Z!compile
  <2> HIDE DEF h
  <2>3. DOMAIN live' = DOMAIN live \cup {h} /\ live'[h] = key
        /\ \A x \in DOMAIN live : live'[x] = live[x]
    BY <2>1, <2>2 DEF Z!Stored
  <2>4. DOMAIN cache' = DOMAIN cache \cup {key} /\ cache'[key] = h
        /\ \A x \in DOMAIN cache : cache'[x] = cache[x]
    BY <1>2, <2>2 DEF Z!Stored
  <2>5. DOMAIN live = {cache[k] : k \in DOMAIN cache}
        /\ \A k \in DOMAIN cache : live[cache[k]] = k
    BY DEF BridgeInv, Z!HandlesOwned
  <2>6. \A k \in DOMAIN cache' : live'[cache'[k]] = k
    BY <2>3, <2>4, <2>5
  <2>7. DOMAIN live' = {cache'[k] : k \in DOMAIN cache'}
    BY <2>3, <2>4, <2>5
  <2> QED BY <2>4, <2>6, <2>7 DEF BridgeInv, Z!HandlesOwned, Z!Keys
<1> QED BY <1>1, <1>2

LEMMA BridgeStep == ASSUME BridgeInv, Z!Next PROVE BridgeInv'
<1>1. ASSUME NEW key \in Z!Keys, NEW str, NEW i, Z!Exec(key, str, i) PROVE BridgeInv'
  BY <1>1, CompileOwns DEF Z!Exec
<1>2. ASSUME NEW key \in Z!Keys, NEW str, NEW i, Z!ExecNoEncoding(key, str, i) PROVE BridgeInv'
  BY <1>2, CompileOwns DEF Z!ExecNoEncoding
<1>3. ASSUME NEW key \in Z!Keys, NEW str, Z!ExecRunsOut(key, str) PROVE BridgeInv'
  BY <1>3, CompileOwns DEF Z!ExecRunsOut
<1>4. ASSUME NEW key \in Z!Keys, Z!ExecRejected(key) \/ Z!Rejects(key) PROVE BridgeInv'
  BY <1>4 DEF Z!ExecRejected, Z!Rejects, BridgeInv, Z!HandlesOwned, Z!Keys
<1>5. CASE Z!ClearCache
  <2>1. DOMAIN live = {cache[k] : k \in DOMAIN cache}
    BY DEF BridgeInv, Z!HandlesOwned
  <2>2. DOMAIN live' = {} /\ DOMAIN cache' = {}
    BY <1>5, <2>1 DEF Z!ClearCache
  <2> QED BY <2>2 DEF BridgeInv, Z!HandlesOwned
<1> QED BY <1>1, <1>2, <1>3, <1>4, <1>5 DEF Z!Next

(* However calls that match, are rejected, run out of memory or clear the  *)
(* cache follow one another, the library's handles in use are exactly the  *)
(* cached ones, and each was compiled from the flags and the source it is  *)
(* cached under (zregex.mjs:138-169, 207-227).                             *)
THEOREM HandlesOwnedAlways == Spec => []HandlesOwned
<1> DEFINE Inv == part = "bridge" => BridgeInv
<1>1. Init => Inv
  <2> SUFFICES ASSUME Init, part = "bridge" PROVE BridgeInv
    OBVIOUS
  <2>1. cache = <<>> /\ live = <<>>
    BY DEF Init, Z!Init
  <2> QED BY <2>1 DEF BridgeInv, Z!HandlesOwned
<1>2. Inv /\ [Next]_all => Inv'
  <2> SUFFICES ASSUME Inv, [Next]_all, part' = "bridge" PROVE BridgeInv'
    OBVIOUS
  <2>1. part = "bridge" /\ BridgeInv
    BY DEF Next, InVerdict, InDiscover, InBaseline, InBridge, InHostExec, InLoops, InWalk, all
  <2>2. Z!Next \/ UNCHANGED bridge
    BY <2>1 DEF Next, InVerdict, InDiscover, InBaseline, InBridge, InHostExec, InLoops, InWalk, all
  <2>3. CASE UNCHANGED bridge
    BY <2>1, <2>3 DEF bridge, BridgeInv, Z!HandlesOwned, Z!Keys
  <2> QED BY <2>1, <2>2, <2>3, BridgeStep
<1>3. Inv => HandlesOwned
  BY DEF HandlesOwned, BridgeInv
<1> QED BY <1>1, <1>2, <1>3, PTL DEF Spec
-----------------------------------------------------------------------------
(* The verdict. *)

Counters == [execCalls : Nat, compileErrors : Nat]
Outcome  == {"goes on", "throws", "throws its type", "hangs", "rejected", "rejection caught"}
AnyOutcome == Outcome \cup {"loads", "missing"}
Error    == {"nothing", "throws", "throws its type", "hangs", "rejected"}

(* Executions end at one of them, or go on to the last.                    *)
LEMMA OutcomesTyped ==
    ASSUME NEW Steps, NEW Kinds, NEW ops \in Seq(Steps), NEW hooked \in BOOLEAN,
           \A e \in Steps : e.zregex \in Kinds /\ e.v8 \in Kinds
    PROVE  /\ V!Outcomes(ops, hooked) \in Seq(Kinds)
           /\ V!Thrown(V!Outcomes(ops, hooked)) \in {"nothing"} \cup (Kinds \ V!GoingOn)
<1> DEFINE o == [i \in DOMAIN ops |-> IF hooked THEN ops[i].zregex ELSE ops[i].v8]
           ends == {i \in DOMAIN o : o[i] \notin V!GoingOn}
           len == Len(ops)
<1>1. DOMAIN ops = 1..len /\ len \in Nat
  OBVIOUS
<1>2. \A i \in DOMAIN ops : ops[i].zregex \in Kinds /\ ops[i].v8 \in Kinds
  BY <1>1
<1>3. DOMAIN o = 1..len /\ \A i \in DOMAIN o : o[i] \in Kinds
  BY <1>1, <1>2
<1>4. o \in Seq(Kinds) /\ Len(o) = len
  <2>1. o \in [1..len -> Kinds]
    BY <1>3
  <2> HIDE DEF o, len
  <2> QED BY <1>1, <2>1
<1>5. V!Outcomes(ops, hooked) = IF ends = {} THEN o ELSE SubSeq(o, 1, V!Min(ends))
  BY DEF V!Outcomes
<1> HIDE DEF o
<1>6. CASE ends = {}
  <2>1. \A i \in DOMAIN o : o[i] \in V!GoingOn
    BY <1>6
  <2>2. o # <<>> => Len(o) \in DOMAIN o
    BY <1>4
  <2>3. o # <<>> => o[Len(o)] \in V!GoingOn
    BY <2>1, <2>2
  <2> QED BY <1>4, <1>5, <1>6, <2>3 DEF V!Thrown, V!Last
<1>7. CASE ends # {}
  <2> DEFINE m == V!Min(ends)
  <2>1. ends \in SUBSET Nat
    <3>1. \A i \in DOMAIN o : i \in Nat
      BY <1>1, <1>3
    <3> QED BY <3>1
  <2>2. m \in ends
    <3> HIDE DEF ends
    <3>1. \E x \in ends : \A y \in ends : x <= y
      BY <1>7, <2>1, LeastNat
    <3> QED BY <3>1 DEF V!Min
  <2>3. m \in 1..len /\ o[m] \in Kinds \ V!GoingOn
    BY <1>3, <2>2
  <2> HIDE DEF m, ends, len
  <2> DEFINE cut == SubSeq(o, 1, m)
  <2>4. cut \in Seq(Kinds) /\ Len(cut) = m /\ cut[m] = o[m] /\ m # 0
    <3>1. m \in 1..Len(o) /\ o \in Seq(Kinds)
      BY <1>4, <2>3
    <3>2. cut \in Seq(Kinds)
      BY <3>1, SubSeqProperties
    <3>3. Len(cut) = m /\ cut[m] = o[m]
      BY <3>1
    <3> QED BY <3>1, <3>2, <3>3
  <2>5. V!Outcomes(ops, hooked) = cut
    BY <1>5, <1>7 DEF m
  <2> HIDE DEF cut
  <2>6. cut # <<>>
    BY <2>4
  <2> QED BY <2>3, <2>4, <2>5, <2>6 DEF V!Thrown, V!Last
<1> QED BY <1>6, <1>7

(* What a realm comes to: the harness, then the body.                      *)
LEMMA RunTyped ==
    ASSUME NEW t, TestFile(t), NEW hooked \in BOOLEAN
    PROVE  /\ V!Run(t, hooked) \in Seq(AnyOutcome)
           /\ V!Thrown(V!Body(t, hooked)) \in Error
<1>1. t.harness \in Seq(HarnessStep) /\ t.body \in Seq(Execution)
  BY DEF TestFile
<1>2. \A e \in Execution : e.zregex \in Outcome /\ e.v8 \in Outcome
  BY DEF Execution, V8Outcome, Outcome
<1>3. \A e \in HarnessStep : e.zregex \in AnyOutcome /\ e.v8 \in AnyOutcome
  BY DEF HarnessStep, AnyOutcome, Outcome
<1>4. V!Harness(t) \in Seq(HarnessStep)
  <2> HIDE DEF HarnessStep
  <2>1. <<>> \in Seq(HarnessStep)
    OBVIOUS
  <2> QED BY <1>1, <2>1 DEF V!Harness
<1>5. V!SetUp(t, hooked) \in Seq(AnyOutcome)
  <2> HIDE DEF AnyOutcome, HarnessStep
  <2> QED BY <1>3, <1>4, OutcomesTyped DEF V!SetUp
<1>6. /\ V!Outcomes(t.body, hooked) \in Seq(Outcome)
      /\ V!Thrown(V!Outcomes(t.body, hooked)) \in {"nothing"} \cup (Outcome \ V!GoingOn)
  <2> HIDE DEF Outcome, Execution
  <2> QED BY <1>1, <1>2, OutcomesTyped
<1>7. V!Body(t, hooked) = <<>> \/ V!Body(t, hooked) = V!Outcomes(t.body, hooked)
  BY DEF V!Body
<1>8. V!Body(t, hooked) \in Seq(AnyOutcome)
  <2>1. Outcome \subseteq AnyOutcome
    BY DEF AnyOutcome
  <2> HIDE DEF Outcome, AnyOutcome
  <2>2. V!Outcomes(t.body, hooked) \in Seq(AnyOutcome)
    BY <1>6, <2>1
  <2>3. <<>> \in Seq(AnyOutcome)
    OBVIOUS
  <2> QED BY <1>7, <2>2, <2>3
<1>9. V!Thrown(V!Body(t, hooked)) \in Error
  <2>1. V!Thrown(<<>>) = "nothing"
    BY DEF V!Thrown
  <2>2. {"nothing"} \cup (Outcome \ V!GoingOn) \subseteq Error
    BY DEF Outcome, V!GoingOn, Error
  <2>3. "nothing" \in Error
    BY DEF Error
  <2> HIDE DEF Outcome, Error
  <2> QED BY <1>6, <1>7, <2>1, <2>2, <2>3
<1>10. V!SetUp(t, hooked) \o V!Body(t, hooked) \in Seq(AnyOutcome)
  <2> HIDE DEF AnyOutcome
  <2> QED BY <1>5, <1>8
<1> QED BY <1>9, <1>10 DEF V!Run

LEMMA Counted ==
    ASSUME NEW o \in Seq(AnyOutcome)
    PROVE  V!Rejections(o) \in Nat /\ V!Executed(o) \in Nat
<1> DEFINE refused == {i \in DOMAIN o : o[i] \in {"rejected", "rejection caught"}}
           calls   == {i \in DOMAIN o : o[i] \notin {"loads", "missing"}}
<1>1. IsFiniteSet(DOMAIN o)
  <2>1. Len(o) \in Nat /\ DOMAIN o = 1..Len(o)
    <3> HIDE DEF AnyOutcome
    <3> QED OBVIOUS
  <2> QED BY <2>1, FS_Interval
<1>2. IsFiniteSet(refused) /\ IsFiniteSet(calls)
  BY <1>1, FS_Subset
<1>3. V!Rejections(o) = V!Cardinality(refused) /\ V!Executed(o) = V!Cardinality(calls)
  BY DEF V!Rejections, V!Executed, V!Quantify
<1>4. ASSUME NEW X PROVE V!Cardinality(X) = Cardinality(X)
  BY DEF V!Cardinality, Cardinality
<1> HIDE DEF refused, calls
<1> QED BY <1>2, <1>3, <1>4, FS_CardinalityType

(* The status of a run from fresh counters: of the test alone.             *)
Refused(t, hooked) == IF hooked THEN V!Rejections(V!Run(t, TRUE)) ELSE 0
Calls(t, hooked)   == IF hooked THEN V!Executed(V!Run(t, TRUE)) ELSE 0
Ended(t, hooked) ==
    IF V!Breaks(t, hooked) THEN "harness_error"
    ELSE IF ~t.parses THEN "unparsable"
    ELSE V!BodyStatus(t, V!Thrown(V!Body(t, hooked)), Refused(t, hooked), 0)

LEMMA AddedTyped ==
    ASSUME NEW t, TestFile(t), NEW hooked \in BOOLEAN
    PROVE  Refused(t, hooked) \in Nat /\ Calls(t, hooked) \in Nat
<1>1. V!Rejections(V!Run(t, TRUE)) \in Nat /\ V!Executed(V!Run(t, TRUE)) \in Nat
  BY RunTyped, Counted
<1> QED BY <1>1 DEF Refused, Calls

(* Only what a run adds to the counters tells in its verdict               *)
(* (worker.mjs:87, 112).                                                   *)
LEMMA OnlyAddedCounts ==
    ASSUME NEW t, NEW thrown, NEW errors \in Nat, NEW before \in Nat
    PROVE  V!BodyStatus(t, thrown, before + errors, before) = V!BodyStatus(t, thrown, errors, 0)
<1>1. before + errors > before <=> errors > 0
  OBVIOUS
<1>2. before + errors = before <=> errors = 0
  OBVIOUS
<1> QED BY <1>1, <1>2 DEF V!BodyStatus

LEMMA RealmStatus ==
    ASSUME NEW t, TestFile(t), NEW hooked \in BOOLEAN, NEW c \in Counters
    PROVE  LET run == V!runInRealm(t, hooked, c)
           IN /\ run.status = Ended(t, hooked)
              /\ run.stats \in Counters
              /\ run.stats.execCalls = c.execCalls + Calls(t, hooked)
<1> DEFINE thrown == V!Thrown(V!Body(t, hooked))
           before == c.compileErrors
           run == V!runInRealm(t, hooked, c)
           after == IF hooked
                    THEN [execCalls |-> c.execCalls + V!Executed(V!Run(t, TRUE)),
                          compileErrors |-> before + V!Rejections(V!Run(t, TRUE))]
                    ELSE c
<1>1. run = [status |-> IF V!Breaks(t, hooked) THEN "harness_error"
                        ELSE IF ~t.parses THEN "unparsable"
                        ELSE V!BodyStatus(t, thrown, after.compileErrors, before),
             stats |-> after]
  BY DEF V!runInRealm, V!CompileErrorsBefore
<1>2. before \in Nat /\ c.execCalls \in Nat
  BY DEF Counters
<1>3. Refused(t, hooked) \in Nat /\ Calls(t, hooked) \in Nat
  BY AddedTyped
<1>4. after.compileErrors = before + Refused(t, hooked) /\ after.execCalls = c.execCalls + Calls(t, hooked)
  <2>1. CASE hooked = TRUE
    BY <2>1 DEF Refused, Calls
  <2>2. CASE hooked = FALSE
    BY <1>2, <2>2 DEF Refused, Calls
  <2> QED BY <2>1, <2>2
<1>5. after \in Counters
  <2>1. CASE hooked = TRUE
    <3>1. /\ before + V!Rejections(V!Run(t, TRUE)) \in Nat
          /\ c.execCalls + V!Executed(V!Run(t, TRUE)) \in Nat
      <4>1. V!Rejections(V!Run(t, TRUE)) \in Nat /\ V!Executed(V!Run(t, TRUE)) \in Nat
        BY <1>3, <2>1 DEF Refused, Calls
      <4>2. \A x, y \in Nat : x + y \in Nat
        OBVIOUS
      <4> HIDE DEF before
      <4> QED BY <1>2, <4>1, <4>2, Zenon
    <3>2. \A x, y \in Nat : [execCalls |-> x, compileErrors |-> y] \in Counters
      BY DEF Counters
    <3>3. after = [execCalls |-> c.execCalls + V!Executed(V!Run(t, TRUE)),
                   compileErrors |-> before + V!Rejections(V!Run(t, TRUE))]
      BY <2>1
    <3> HIDE DEF after, before
    <3> QED BY <3>1, <3>2, <3>3
  <2>2. CASE hooked = FALSE
    BY <2>2
  <2> QED BY <2>1, <2>2
<1> HIDE DEF after, thrown, before
<1>6. V!BodyStatus(t, thrown, after.compileErrors, before)
        = V!BodyStatus(t, thrown, Refused(t, hooked), 0)
  BY <1>2, <1>3, <1>4, OnlyAddedCounts
<1>7. run.status = Ended(t, hooked)
  BY <1>1, <1>6 DEF Ended, thrown
<1>8. run.stats = after
  BY <1>1
<1> HIDE DEF run
<1> QED BY <1>4, <1>5, <1>7, <1>8 DEF run

(* What a test says of the library: a fresh child's verdict.               *)
Status_(t) == IF Ended(t, TRUE) = "compile_error" THEN "zregex_compile_error" ELSE Ended(t, TRUE)
AddedCalls(t) == Calls(t, TRUE)
Said(t) ==
    IF t.negative = "parse" THEN V!ParseVerdict(t)
    ELSE IF Ended(t, TRUE) = "unparsable" THEN V!Verdict(t, "skipped_host", "host_feature", AddedCalls(t))
    ELSE IF Status_(t) \in {"pass", "harness_error"} THEN V!Verdict(t, Status_(t), "none", AddedCalls(t))
    ELSE IF Ended(t, FALSE) # "pass" THEN V!Verdict(t, "skipped_host", "v8_behind_spec", AddedCalls(t))
    ELSE V!Verdict(t, Status_(t), "none", AddedCalls(t))

(* It is the same in any child, whatever it ran before                     *)
(* (worker.mjs:127-174).                                                   *)
LEMMA SaidAnywhere ==
    ASSUME NEW t, TestFile(t), NEW c \in Counters
    PROVE  V!runTest(t, c) = Said(t)
<1> DEFINE hooked == V!runInRealm(t, TRUE, c)
           control == V!runInRealm(t, FALSE, hooked.stats)
<1>1. /\ hooked.status = Ended(t, TRUE) /\ hooked.stats \in Counters
      /\ hooked.stats.execCalls = c.execCalls + AddedCalls(t)
  BY RealmStatus DEF AddedCalls
<1>2. control.status = Ended(t, FALSE)
  <2> HIDE DEF hooked
  <2> QED BY <1>1, RealmStatus
<1>3. hooked.stats.execCalls - c.execCalls = AddedCalls(t)
  <2>1. c.execCalls \in Nat
    BY DEF Counters
  <2>2. AddedCalls(t) \in Nat
    BY AddedTyped DEF AddedCalls
  <2> HIDE DEF hooked
  <2> QED BY <1>1, <2>1, <2>2
<1>4. V!RunVerdict(t, c) =
        IF hooked.status = "unparsable"
        THEN V!Verdict(t, "skipped_host", "host_feature", hooked.stats.execCalls - c.execCalls)
        ELSE IF (IF hooked.status = "compile_error" THEN "zregex_compile_error" ELSE hooked.status)
                   \in {"pass", "harness_error"}
        THEN V!Verdict(t, IF hooked.status = "compile_error" THEN "zregex_compile_error" ELSE hooked.status,
                       "none", hooked.stats.execCalls - c.execCalls)
        ELSE IF control.status # "pass"
        THEN V!Verdict(t, "skipped_host", "v8_behind_spec", hooked.stats.execCalls - c.execCalls)
        ELSE V!Verdict(t, IF hooked.status = "compile_error" THEN "zregex_compile_error" ELSE hooked.status,
                       "none", hooked.stats.execCalls - c.execCalls)
  BY DEF V!RunVerdict
<1> HIDE DEF hooked, control
<1>5. t.negative # "parse" => V!RunVerdict(t, c) = Said(t)
  BY <1>1, <1>2, <1>3, <1>4 DEF Said, Status_
<1> QED BY <1>5 DEF V!runTest, Said

LEMMA SaidOf == ASSUME NEW t PROVE Said(t).task = t
BY DEF Said, V!ParseVerdict, V!Verdict

(* The result there is, is what a fresh child says of its test.            *)
VerdictInv ==
    /\ stats \in Counters
    /\ res = V!NoResult \/ (res.task \in TestFiles /\ res = Said(res.task))

LEMMA VerdictStep == ASSUME VerdictInv, V!Next PROVE VerdictInv'
<1>1. PICK t \in TestFiles : V!OnMessage(t)
  BY DEF V!Next
<1>2. TestFile(t)
  BY TestsAssumption
<1>3. res' = Said(t) /\ res'.task = t
  BY <1>1, <1>2, SaidAnywhere, SaidOf DEF V!OnMessage, VerdictInv
<1>4. stats' \in Counters
  BY <1>1, <1>2, RealmStatus DEF V!OnMessage, VerdictInv
<1> QED BY <1>3, <1>4 DEF VerdictInv, Said, Ended, Status_, AddedCalls, Calls, Refused

LEMMA VerdictStays == ASSUME VerdictInv, UNCHANGED verdict PROVE VerdictInv'
BY DEF VerdictInv, verdict, Said, Ended, Status_, AddedCalls, Calls, Refused

LEMMA VerdictAlways == Spec => []VerdictInv
<1>1. Init => VerdictInv
  BY DEF Init, V!Init, VerdictInv, V!NoStats, Counters
<1>2. VerdictInv /\ [Next]_all => VerdictInv'
  <2> SUFFICES ASSUME VerdictInv, [Next]_all PROVE VerdictInv'
    OBVIOUS
  <2>1. V!Next \/ UNCHANGED verdict
    BY DEF Next, InVerdict, InDiscover, InBaseline, InBridge, InHostExec, InLoops, InWalk, all
  <2> QED BY <2>1, VerdictStep, VerdictStays
<1> QED BY <1>1, <1>2, PTL DEF Spec

(* Nothing a child ran before a test, and no error its library counted,    *)
(* tells in the test's result (worker.mjs:87, 112, 127-136).               *)
THEOREM LikeFreshAlways == Spec => []LikeFresh
<1>1. VerdictInv => LikeFresh
  <2>1. V!NoStats \in Counters
    BY DEF V!NoStats, Counters
  <2>2. \A t \in TestFiles : V!runTest(t, V!NoStats) = Said(t)
    BY <2>1, SaidAnywhere, TestsAssumption
  <2> QED BY <2>2 DEF VerdictInv, LikeFresh, V!LikeFresh
<1> QED BY <1>1, VerdictAlways, PTL

(* What V8 alone makes of a test is its verdict (worker.mjs:152-174): with *)
(* nothing rejected, the status says whether the test ended as it should.  *)
LEMMA ControlPasses ==
    ASSUME NEW t, TestFile(t), t.negative # "parse"
    PROVE  Ended(t, FALSE) = "pass" <=> V!Passes(t, FALSE)
<1> DEFINE thrown == V!Thrown(V!Body(t, FALSE))
           whole  == ~V!Breaks(t, FALSE) /\ t.parses
           passes == IF t.negative = "runtime" THEN thrown = "throws its type" ELSE thrown = "nothing"
<1>1. Ended(t, FALSE) = "pass" <=> whole /\ V!BodyStatus(t, thrown, 0, 0) = "pass"
  BY DEF Ended, Refused
<1>2. thrown \in {"nothing", "throws", "throws its type", "hangs", "rejected"}
  BY RunTyped DEF Error
<1>3. V!Passes(t, FALSE) <=> whole /\ passes
  BY DEF V!Passes
<1>4. t.negative \in {"none", "runtime"}
  BY DEF TestFile
<1> HIDE DEF thrown, whole
<1>5. ~(0 > 0)
  OBVIOUS
<1>6. V!BodyStatus(t, thrown, 0, 0) = "pass" <=> passes
  <2>1. CASE thrown = "nothing"
    BY <1>4, <1>5, <2>1 DEF V!BodyStatus
  <2>2. CASE thrown = "rejected"
    BY <1>4, <1>5, <2>2 DEF V!BodyStatus
  <2>3. CASE thrown = "throws"
    BY <1>4, <1>5, <2>3 DEF V!BodyStatus
  <2>4. CASE thrown = "throws its type"
    BY <1>4, <1>5, <2>4 DEF V!BodyStatus
  <2>5. CASE thrown = "hangs"
    BY <1>4, <1>5, <2>5 DEF V!BodyStatus
  <2> QED BY <1>2, <2>1, <2>2, <2>3, <2>4, <2>5
<1> HIDE DEF passes
<1> QED BY <1>1, <1>3, <1>6

(* With the library a test passes only when it ends as it should; when it  *)
(* has a harness that the library does not break, it is the library's      *)
(* failure otherwise.                                                      *)
LEMMA HookedFails ==
    ASSUME NEW t, TestFile(t), t.negative # "parse", ~V!Breaks(t, TRUE), t.parses
    PROVE  /\ Ended(t, TRUE) \in {"pass", "fail", "timeout", "compile_error"}
           /\ ~V!Passes(t, TRUE) => Ended(t, TRUE) # "pass"
           /\ V!Passes(t, TRUE) /\ Ended(t, TRUE) # "pass" => Refused(t, TRUE) > 0
<1> DEFINE thrown == V!Thrown(V!Body(t, TRUE))
           errors == Refused(t, TRUE)
<1>1. Ended(t, TRUE) = V!BodyStatus(t, thrown, errors, 0)
  BY DEF Ended
<1>2. thrown \in {"nothing", "throws", "throws its type", "hangs", "rejected"}
  BY RunTyped DEF Error
<1>3. V!Passes(t, TRUE) <=> IF t.negative = "runtime" THEN thrown = "throws its type" ELSE thrown = "nothing"
  BY DEF V!Passes
<1>4. t.negative \in {"none", "runtime"}
  BY DEF TestFile
<1>5. (errors > 0 /\ errors # 0) \/ (errors = 0 /\ ~(errors > 0))
  <2>1. errors \in Nat
    BY AddedTyped
  <2> HIDE DEF errors
  <2> QED BY <2>1
<1> HIDE DEF thrown, errors
<1> DEFINE status == V!BodyStatus(t, thrown, errors, 0)
           passes == IF t.negative = "runtime" THEN thrown = "throws its type" ELSE thrown = "nothing"
           Goal   == /\ status \in {"pass", "fail", "timeout", "compile_error"}
                     /\ ~passes => status # "pass"
                     /\ passes /\ status # "pass" => errors > 0
<1>6. Goal
  <2>1. CASE thrown = "nothing"
    BY <1>4, <2>1 DEF V!BodyStatus
  <2>2. CASE thrown = "rejected"
    BY <1>4, <2>2 DEF V!BodyStatus
  <2>3. CASE thrown = "throws"
    BY <1>4, <1>5, <2>3 DEF V!BodyStatus
  <2>4. CASE thrown = "throws its type"
    BY <1>4, <1>5, <2>4 DEF V!BodyStatus
  <2>5. CASE thrown = "hangs"
    BY <1>4, <1>5, <2>5 DEF V!BodyStatus
  <2> QED BY <1>2, <2>1, <2>2, <2>3, <2>4, <2>5
<1> QED BY <1>1, <1>3, <1>6 DEF errors

(* For every test, whatever its harness and its body do in the two realms: *)
(* the library is blamed only when plain V8 passes and the library breaks  *)
(* the test or refuses a pattern of it (rule D-1, worker.mjs:152-174), and *)
(* a test that V8 passes and the library breaks is its failure, or, when   *)
(* the library breaks the harness, a harness error (worker.mjs:95-98).     *)
THEOREM BlameExactAlways == Spec => []BlameExact
<1>1. VerdictInv => BlameExact
  <2> SUFFICES ASSUME VerdictInv PROVE V!BlameExact
    BY DEF BlameExact
  <2> DEFINE t == res.task
             bad == {"fail", "timeout", "zregex_compile_error"}
  <2>1. CASE res = V!NoResult
    BY <2>1 DEF V!NoResult, V!BlameExact, V!OnlyEngineBlamed, V!NothingHidden, V!Blamed
  <2>2. CASE t \in TestFiles /\ res = Said(t)
    <3>1. TestFile(t)
      BY <2>2, TestsAssumption
    <3>2. res.status = Said(t).status
      BY <2>2
    <3> HIDE DEF t
    <3> DEFINE whole == ~V!Breaks(t, TRUE) /\ t.parses
    <3>3. ASSUME t.negative # "parse", whole
          PROVE  Said(t).status \in bad <=> Ended(t, TRUE) # "pass" /\ Ended(t, FALSE) = "pass"
      <4>1. Ended(t, TRUE) \in {"pass", "fail", "timeout", "compile_error"}
        BY <3>1, <3>3, HookedFails
      <4> QED BY <3>3, <4>1 DEF Said, Status_, V!Verdict
    <3>4. ASSUME t.negative # "parse", ~whole PROVE Said(t).status \notin bad
      <4>1. Ended(t, TRUE) \in {"harness_error", "unparsable"}
        BY <3>4 DEF Ended
      <4> QED BY <3>4, <4>1 DEF Said, Status_, V!Verdict
    <3>5. ASSUME t.negative # "parse", V!Breaks(t, TRUE) PROVE Said(t).status = "harness_error"
      <4>1. Ended(t, TRUE) = "harness_error"
        BY <3>5 DEF Ended
      <4> QED BY <3>5, <4>1 DEF Said, Status_, V!Verdict
    <3>6. t.negative # "parse" /\ Said(t).status \in bad =>
            /\ V!Passes(t, FALSE)
            /\ ~V!Passes(t, TRUE) \/ V!Rejections(V!Run(t, TRUE)) > 0
      <4> SUFFICES ASSUME t.negative # "parse", Said(t).status \in bad
                   PROVE  /\ V!Passes(t, FALSE)
                          /\ ~V!Passes(t, TRUE) \/ V!Rejections(V!Run(t, TRUE)) > 0
        OBVIOUS
      <4>1. whole
        BY <3>4
      <4>2. Ended(t, TRUE) # "pass" /\ Ended(t, FALSE) = "pass"
        BY <3>3, <4>1
      <4> QED BY <3>1, <4>1, <4>2, ControlPasses, HookedFails DEF Refused
    <3>7. t.negative # "parse" /\ V!Passes(t, FALSE) /\ ~V!Passes(t, TRUE) =>
            IF V!Breaks(t, TRUE) THEN Said(t).status = "harness_error" ELSE Said(t).status \in bad
      <4> SUFFICES ASSUME t.negative # "parse", V!Passes(t, FALSE), ~V!Passes(t, TRUE), ~V!Breaks(t, TRUE)
                   PROVE  Said(t).status \in bad
        BY <3>5
      <4>1. t.parses
        BY DEF V!Passes
      <4>2. Ended(t, TRUE) # "pass" /\ Ended(t, FALSE) = "pass"
        BY <3>1, <4>1, ControlPasses, HookedFails
      <4> QED BY <3>3, <4>1, <4>2
    <3> QED BY <3>2, <3>6, <3>7 DEF V!BlameExact, V!OnlyEngineBlamed, V!NothingHidden, V!Blamed, t
  <2> QED BY <2>1, <2>2 DEF VerdictInv
<1> QED BY <1>1, VerdictAlways, PTL
-----------------------------------------------------------------------------
(* The loops over all matches. *)

Span == [start : L!Positions, end : L!Positions]

(* The matches reported are the pattern's, in order, and behind the index; *)
(* nothing behind the index is missed.                                     *)
LoopTypes ==
    /\ \A p \in L!Positions : at[p] = -1 \/ (at[p] \in L!Positions /\ at[p] >= p)
    /\ sticky \in BOOLEAN
    /\ who = "execLoop" => sticky = FALSE
    /\ found \in Seq(Span)
Behind ==
    state = "running" =>
        /\ index \in L!Positions \cup {LoopLength + 1}
        /\ \A k \in 1..Len(found) : found[k].start < index /\ found[k].end <= index
LoopInv == LoopTypes /\ Behind /\ L!EachMatchOnce

LEMMA PositionsAre ==
    /\ L!Positions \subseteq Nat /\ LoopLength \in Nat
    /\ \A p \in L!Positions : p <= LoopLength
    /\ LoopLength + 1 \notin L!Positions
<1>1. LoopLength \in Nat
  BY LoopsAssumption
<1> QED BY <1>1 DEF L!Positions

(* The position after a character (root.zig:100-106).                      *)
LEMMA AdvanceIndexIs ==
    ASSUME NEW p \in L!Positions
    PROVE  /\ L!AdvanceIndex(p) \in L!Positions \cup {LoopLength + 1}
           /\ L!AdvanceIndex(p) > p
           /\ \A r \in L!Positions : r > p => L!AdvanceIndex(p) <= r
<1> DEFINE T == {q \in L!Positions \cup {LoopLength + 1} : q > p}
<1>1. T \subseteq Nat
  <2>1. L!Positions \subseteq Nat /\ LoopLength + 1 \in Nat
    BY PositionsAre
  <2> QED BY <2>1
<1>2. LoopLength + 1 \in T
  <2>1. LoopLength + 1 > p
    BY PositionsAre
  <2> QED BY <2>1
<1>3. \E x \in T : \A y \in T : x <= y
  <2> HIDE DEF T
  <2> QED BY <1>1, <1>2, LeastNat
<1>4. \E q \in L!Positions \cup {LoopLength + 1} : q > p /\ \A r \in L!Positions : r > p => q <= r
  BY <1>3
<1> QED BY <1>4 DEF L!AdvanceIndex

(* An index that is a position is its own character's start.               *)
LEMMA CharStartIs == ASSUME NEW i \in L!Positions PROVE L!CharStart(i) = i
<1>1. \A x, y \in L!Positions : x <= y /\ y <= x => x = y
  BY PositionsAre
<1>2. i <= i
  BY PositionsAre
<1>3. \E q \in L!Positions : q <= i /\ \A r \in L!Positions : r <= i => r <= q
  BY <1>2
<1>4. /\ L!CharStart(i) \in L!Positions /\ L!CharStart(i) <= i
      /\ \A r \in L!Positions : r <= i => r <= L!CharStart(i)
  BY <1>3 DEF L!CharStart
<1> QED BY <1>1, <1>2, <1>4

(* The first position at which the pattern matches, from where and as far  *)
(* as the search looks (exec.zig:193-218).                                 *)
Hit(p) ==
    /\ p \in L!Positions /\ index <= p /\ at[p] # -1
    /\ sticky => p = index
    /\ \A r \in L!Positions : index <= r /\ r < p => at[r] = -1
NoHit == \A r \in L!Positions : index <= r /\ (sticky => r = index) => at[r] = -1

LEMMA SearchFinds ==
    ASSUME index \in L!Positions, sticky \in BOOLEAN
    PROVE  \/ Hit(L!Search(at, index, sticky))
           \/ NoHit /\ L!Search(at, index, sticky) = -1
<1> DEFINE hits == {p \in L!Positions : index <= p /\ at[p] # -1 /\ (sticky => p = index)}
<1>1. L!Search(at, index, sticky) =
        IF hits = {} THEN -1 ELSE CHOOSE p \in hits : \A q \in hits : p <= q
  <2>1. L!CharStart(index) = index
    BY CharStartIs
  <2> QED BY <2>1 DEF L!Search, L!NoMatch
<1>2. CASE hits = {}
  BY <1>1, <1>2 DEF NoHit
<1>3. CASE hits # {}
  <2>1. hits \subseteq Nat
    BY PositionsAre
  <2> DEFINE p == L!Search(at, index, sticky)
  <2>2. p \in hits /\ \A q \in hits : p <= q
    <3> HIDE DEF hits
    <3>1. \E x \in hits : \A y \in hits : x <= y
      BY <1>3, <2>1, LeastNat
    <3> QED BY <1>1, <1>3, <3>1
  <2> HIDE DEF p
  <2>3. ASSUME NEW r \in L!Positions, index <= r, r < p, at[r] # -1 PROVE FALSE
    <3>1. p \in Nat /\ r \in Nat /\ index \in Nat
      BY <2>2, PositionsAre
    <3>2. CASE sticky
      <4>1. p = index
        BY <2>2, <3>2
      <4> QED BY <2>3, <3>1, <4>1
    <3>3. CASE ~sticky
      <4>1. r \in hits
        BY <2>3, <3>3
      <4> QED BY <2>2, <2>3, <3>1, <4>1
    <3> QED BY <3>2, <3>3
  <2> QED BY <2>2, <2>3 DEF Hit, p
<1> QED BY <1>2, <1>3

(* Where the next execution starts: behind the match, with nothing between *)
(* them that could be one.                                                 *)
After(p, next) ==
    /\ next \in L!Positions \cup {LoopLength + 1}
    /\ next > p /\ next >= at[p]
    /\ \A r \in L!Positions : p < r /\ r < next => r < at[p]

LEMMA PastIsAfter ==
    ASSUME LoopTypes, NEW p \in L!Positions, at[p] # -1
    PROVE  After(p, L!Past(p))
<1>1. at[p] \in L!Positions /\ at[p] >= p
  BY DEF LoopTypes
<1>2. p \in Nat /\ at[p] \in Nat /\ \A r \in L!Positions : r \in Nat
  BY <1>1, PositionsAre
<1>3. CASE at[p] = p
  <2> DEFINE next == L!AdvanceIndex(p)
  <2>1. L!Past(p) = next
    BY <1>3 DEF L!Past
  <2>2. /\ next \in L!Positions \cup {LoopLength + 1} /\ next > p
        /\ \A r \in L!Positions : r > p => next <= r
    BY AdvanceIndexIs
  <2> HIDE DEF next
  <2>3. next \in Nat
    BY <2>2, PositionsAre
  <2>4. next >= at[p]
    BY <1>2, <1>3, <2>2, <2>3
  <2>5. \A r \in L!Positions : p < r /\ r < next => r < at[p]
    BY <1>2, <2>2, <2>3
  <2> QED BY <2>1, <2>2, <2>4, <2>5 DEF After
<1>4. CASE at[p] # p
  <2>1. L!Past(p) = at[p]
    BY <1>4 DEF L!Past
  <2>2. at[p] > p
    BY <1>1, <1>2, <1>4
  <2>3. at[p] >= at[p]
    BY <1>2
  <2> QED BY <1>1, <2>1, <2>2, <2>3 DEF After
<1> QED BY <1>3, <1>4

(* The exec loop's one or two units are the character (v8_xbench.mjs:45-49).*)
LEMMA NextLastIndexIsAfter ==
    ASSUME LoopTypes, NEW p \in L!Positions, at[p] # -1
    PROVE  After(p, L!NextLastIndex(p))
<1>1. at[p] \in L!Positions /\ at[p] >= p
  BY DEF LoopTypes
<1>2. p \in Nat /\ at[p] \in Nat /\ \A r \in L!Positions : r \in Nat
  BY <1>1, PositionsAre
<1>3. CASE at[p] = p
  <2>1. CASE p + 1 \in LoopInside
    <3>1. L!NextLastIndex(p) = p + 2
      BY <1>2, <1>3, <2>1 DEF L!NextLastIndex
    <3>2. p + 2 \in L!Positions
      <4>1. p + 1 <= LoopLength - 1 /\ LoopLength \in Nat
        BY <1>2, <2>1, LoopsAssumption
      <4>2. p + 2 \notin LoopInside
        <5>1. p + 1 + 1 \notin LoopInside
          BY <2>1, LoopsAssumption
        <5>2. p + 1 + 1 = p + 2
          BY <1>2
        <5> QED BY <5>1, <5>2
      <4>3. p + 2 \in 0..LoopLength
        BY <1>2, <4>1
      <4> QED BY <4>2, <4>3 DEF L!Positions
    <3>3. \A r \in L!Positions : p < r => r >= p + 2
      <4>1. \A r \in L!Positions : r # p + 1
        BY <2>1 DEF L!Positions
      <4> QED BY <1>2, <4>1
    <3> QED BY <1>2, <1>3, <3>1, <3>2, <3>3 DEF After
  <2>2. CASE p + 1 \notin LoopInside
    <3>1. L!NextLastIndex(p) = p + 1
      BY <1>2, <1>3, <2>2 DEF L!NextLastIndex
    <3>2. p + 1 \in L!Positions \cup {LoopLength + 1}
      <4>1. p <= LoopLength /\ LoopLength \in Nat
        BY PositionsAre
      <4>2. p + 1 \in 0..LoopLength \/ p + 1 = LoopLength + 1
        BY <1>2, <4>1
      <4> QED BY <2>2, <4>2 DEF L!Positions
    <3> QED BY <1>2, <1>3, <3>1, <3>2 DEF After
  <2> QED BY <2>1, <2>2
<1>4. CASE at[p] # p
  <2>1. L!NextLastIndex(p) = at[p]
    BY <1>4 DEF L!NextLastIndex
  <2>2. at[p] > p
    BY <1>1, <1>2, <1>4
  <2>3. at[p] >= at[p]
    BY <1>2
  <2> QED BY <1>1, <2>1, <2>2, <2>3 DEF After
<1> QED BY <1>3, <1>4

LEMMA ReportKeeps ==
    ASSUME LoopInv, state = "running", NEW p, Hit(p), NEW next, After(p, next),
           L!Report(p, next), UNCHANGED <<at, sticky, who>>
    PROVE  LoopInv'
<1> DEFINE m == [start |-> p, end |-> at[p]]
<1>1. /\ found' = Append(found, m) /\ index' = next
      /\ state' = "running" /\ at' = at /\ sticky' = sticky /\ who' = who
  BY DEF L!Report, L!Match
<1>2. m \in Span /\ m.start = p /\ m.end = at[p] /\ p <= at[p]
  BY DEF Hit, LoopInv, LoopTypes, Span
<1>3. found \in Seq(Span) /\ Len(found) \in Nat
  BY DEF LoopInv, LoopTypes
<1> DEFINE len == Len(found)
<1>4. /\ found' \in Seq(Span) /\ Len(found') = len + 1
      /\ found'[len + 1] = m
      /\ \A k \in 1..len : found'[k] = found[k]
  <2> HIDE DEF m, Span
  <2> QED BY <1>1, <1>2, <1>3
<1> HIDE DEF m
<1>5. \A k \in 1..len : found[k].start \in Nat /\ found[k].end \in Nat
  <2>1. \A k \in 1..len : found[k] \in Span
    <3> HIDE DEF Span
    <3> QED BY <1>3
  <2>2. \A x \in Span : x.start \in Nat /\ x.end \in Nat
    BY PositionsAre DEF Span
  <2> QED BY <2>1, <2>2
<1>6. p \in Nat /\ at[p] \in Nat /\ index \in Nat /\ next \in Nat
  <2>1. \A q \in L!Positions \cup {LoopLength + 1} : q \in Nat
    BY PositionsAre
  <2>2. p \in L!Positions /\ at[p] \in L!Positions
    BY DEF Hit, LoopInv, LoopTypes
  <2>3. /\ index \in L!Positions \cup {LoopLength + 1}
        /\ next \in L!Positions \cup {LoopLength + 1}
    BY DEF After, LoopInv, Behind
  <2> QED BY <2>1, <2>2, <2>3
<1>7. index <= p /\ p < next /\ at[p] <= next
  BY <1>6 DEF Hit, After
<1>8. \A k \in 1..len : found[k].start < index /\ found[k].end <= index
  BY DEF LoopInv, Behind
<1>9. len \in Nat /\ \A k \in 1..len + 1 : k \in 1..len \/ k = len + 1
  BY <1>3
<1> HIDE DEF len
<1>10. LoopTypes'
  BY <1>1, <1>4 DEF LoopInv, LoopTypes, Span, L!Positions
<1>11. Behind'
  <2>1. index' \in L!Positions \cup {LoopLength + 1}
    BY <1>1 DEF After
  <2>2. ASSUME NEW k \in 1..len + 1 PROVE found'[k].start < index' /\ found'[k].end <= index'
    <3>1. CASE k \in 1..len
      <4>1. found'[k] = found[k] /\ found[k].start < index /\ found[k].end <= index
        BY <1>4, <1>8, <3>1
      <4> QED BY <1>1, <1>5, <1>6, <1>7, <3>1, <4>1
    <3>2. CASE k = len + 1
      BY <1>1, <1>2, <1>4, <1>6, <1>7, <3>2
    <3> QED BY <1>9, <3>1, <3>2
  <2> QED BY <1>4, <2>1, <2>2 DEF Behind, L!Positions
<1>12. L!InOrder'
  <2>1. ASSUME NEW k \in 1..len + 1 PROVE found'[k] = [start |-> found'[k].start, end |-> at[found'[k].start]]
    <3>1. CASE k \in 1..len
      <4>1. k \in DOMAIN found
        BY <1>3, <3>1 DEF len
      <4> QED BY <1>4, <3>1, <4>1 DEF LoopInv, L!EachMatchOnce, L!InOrder, L!Match
    <3>2. CASE k = len + 1
      BY <1>2, <1>4, <3>2 DEF m
    <3> QED BY <1>9, <3>1, <3>2
  <2>2. ASSUME NEW k \in 2..len + 1
        PROVE  found'[k - 1].end <= found'[k].start /\ found'[k - 1].start < found'[k].start
    <3>1. CASE k \in 2..len
      <4>1. k \in 1..len /\ k - 1 \in 1..len
        BY <1>9, <3>1
      <4>2. found'[k] = found[k] /\ found'[k - 1] = found[k - 1]
        BY <1>4, <4>1
      <4> QED BY <3>1, <4>2 DEF LoopInv, L!EachMatchOnce, L!InOrder, len
    <3>2. CASE k = len + 1
      <4>1. k - 1 \in 1..len
        BY <1>9, <3>2
      <4>2. found'[k - 1] = found[k - 1] /\ found'[k].start = p
        BY <1>2, <1>4, <3>2, <4>1
      <4>3. found[k - 1].start < index /\ found[k - 1].end <= index
            /\ found[k - 1].start \in Nat /\ found[k - 1].end \in Nat
        BY <1>5, <1>8, <4>1
      <4> QED BY <1>6, <1>7, <4>2, <4>3
    <3>3. k \in 2..len \/ k = len + 1
      BY <1>9
    <3> QED BY <3>1, <3>2, <3>3
  <2>3. DOMAIN found' = 1..len + 1
    BY <1>4, <1>9
  <2> QED BY <1>1, <1>4, <2>1, <2>2, <2>3 DEF L!InOrder, L!Match
<1>13. ASSUME NEW r \in L!Positions, r < next, at[r] # -1
       PROVE  \E k \in 1..len + 1 : found'[k].start = r \/ (found'[k].start < r /\ r < found'[k].end)
  <2>1. r \in Nat
    BY PositionsAre
  <2>2. CASE r < index
    <3>1. PICK k \in DOMAIN found : found[k].start = r \/ (found[k].start < r /\ r < found[k].end)
      BY <1>13, <2>2 DEF LoopInv, L!EachMatchOnce, L!NoneSkipped, L!Covered, L!NoMatch
    <3>2. k \in 1..len /\ k \in 1..len + 1
      BY <1>3, <1>9, <3>1 DEF len
    <3> QED BY <1>4, <3>1, <3>2
  <2>3. CASE index <= r /\ r < p
    BY <1>13, <2>3 DEF Hit
  <2>4. CASE r = p
    BY <1>2, <1>4, <1>9, <2>4
  <2>5. CASE p < r
    <3>1. r < at[p]
      BY <1>13, <2>5 DEF After
    <3>2. len + 1 \in 1..len + 1
      BY <1>9
    <3> QED BY <1>2, <1>4, <2>5, <3>1, <3>2
  <2> QED BY <1>6, <1>7, <2>1, <2>2, <2>3, <2>4, <2>5
<1>14. L!NoneSkipped'
  <2>1. DOMAIN found' = 1..len + 1
    BY <1>4, <1>9
  <2> QED BY <1>1, <1>13, <2>1 DEF L!NoneSkipped, L!Covered, L!Positions, L!NoMatch
<1> QED BY <1>10, <1>11, <1>12, <1>14 DEF LoopInv, L!EachMatchOnce

(* When a loop stops, what it has not reached does not match, or a sticky  *)
(* search stopped before it (regex.zig:125-140).                           *)
Limit == LoopLength + (IF who = "execLoop" THEN 1 ELSE 0)
NoneAhead ==
    \A r \in L!Positions : index <= r /\ r < Limit /\ (sticky => r = index) => at[r] = -1

LEMMA StopKeeps ==
    ASSUME LoopInv, state = "running", NoneAhead,
           state' = "done", UNCHANGED <<found, at, sticky, who>>
    PROVE  LoopInv'
<1>0. index \in L!Positions \cup {LoopLength + 1}
  BY DEF LoopInv, Behind
<1>1. LoopTypes' /\ Behind'
  BY DEF LoopInv, LoopTypes, Behind, Span, L!Positions
<1>2. L!InOrder'
  BY DEF LoopInv, L!EachMatchOnce, L!InOrder, L!Match
<1>3. ASSUME NEW p \in L!Positions, at[p] # -1, p < Limit
      PROVE  L!Covered(p) \/ (sticky /\ \E q \in L!Positions : q <= p /\ at[q] = -1 /\ ~L!Covered(q))
  <2>1. p \in Nat /\ index \in Nat /\ Limit \in Nat /\ p <= LoopLength /\ LoopLength \in Nat
    BY <1>0, PositionsAre DEF Limit
  <2>2. CASE p < index
    BY <1>3, <2>2 DEF LoopInv, L!EachMatchOnce, L!NoneSkipped, L!NoMatch
  <2>3. CASE ~(p < index)
    <3>1. index <= p /\ index < Limit /\ index <= index /\ index # LoopLength + 1
      BY <1>3, <2>1, <2>3
    <3>2. sticky
      BY <1>3, <3>1 DEF NoneAhead
    <3>3. index \in L!Positions /\ at[index] = -1
      BY <1>0, <3>1 DEF NoneAhead
    <3>4. ~L!Covered(index)
      <4> SUFFICES ASSUME NEW k \in DOMAIN found,
                          found[k].start = index \/ (found[k].start < index /\ index < found[k].end)
                   PROVE  FALSE
        BY DEF L!Covered
      <4>1. found \in Seq(Span)
        BY DEF LoopInv, LoopTypes
      <4>2. k \in 1..Len(found) /\ found[k] \in Span
        <5> HIDE DEF Span
        <5> QED BY <4>1
      <4>3. found[k].start \in Nat /\ found[k].end \in Nat
        BY <4>2, PositionsAre DEF Span
      <4>4. found[k].start < index /\ found[k].end <= index
        BY <4>2 DEF LoopInv, Behind
      <4> QED BY <2>1, <4>3, <4>4
    <3> QED BY <3>1, <3>2, <3>3, <3>4
  <2> QED BY <2>2, <2>3
<1>4. L!NoneSkipped'
  BY <1>3 DEF L!NoneSkipped, L!Covered, L!Positions, L!NoMatch, Limit
<1> QED BY <1>1, <1>2, <1>4 DEF LoopInv, L!EachMatchOnce

(* A loop that fails reports the matches it had, or none                   *)
(* (regex.zig:261-269).                                                    *)
LEMMA FailKeeps ==
    ASSUME LoopInv, state' = "failed", found' = found \/ found' = <<>>, UNCHANGED <<at, sticky, who>>
    PROVE  LoopInv'
<1>1. CASE found' = found
  BY <1>1 DEF LoopInv, LoopTypes, Behind, Span, L!Positions, L!EachMatchOnce, L!InOrder,
              L!NoneSkipped, L!Match
<1>2. CASE found' = <<>>
  <2>1. found' \in Seq(Span) /\ Len(found') = 0 /\ DOMAIN found' = {}
    BY <1>2
  <2>2. LoopTypes' /\ Behind'
    BY <2>1 DEF LoopInv, LoopTypes, Behind, Span, L!Positions
  <2>3. L!EachMatchOnce'
    BY <2>1 DEF L!EachMatchOnce, L!InOrder, L!NoneSkipped
  <2> QED BY <2>2, <2>3 DEF LoopInv
<1> QED BY <1>1, <1>2

LEMMA LoopStep == ASSUME LoopInv, L!Next PROVE LoopInv'
<1>1. state = "running" /\ UNCHANGED <<at, sticky, who>>
  BY DEF L!Next
<1>2. index \in L!Positions \cup {LoopLength + 1} /\ LoopTypes
  BY <1>1 DEF LoopInv, Behind
<1>3. sticky \in BOOLEAN
  BY <1>2 DEF LoopTypes
<1>4. index \in Nat /\ LoopLength \in Nat /\ (index \in L!Positions <=> ~(index > LoopLength))
  BY <1>2, PositionsAre
<1>5. CASE L!LibraryStep
  <2> DEFINE p == IF index > LoopLength THEN L!NoMatch ELSE L!Search(at, index, sticky)
  <2>1. /\ who # "execLoop"
        /\ \/ /\ index >= LoopLength \/ p = -1 \/ p >= LoopLength
              /\ L!Stop
           \/ /\ index < LoopLength /\ p # -1 /\ p < LoopLength
              /\ L!Report(p, L!Past(p))
    BY <1>5 DEF L!LibraryStep, L!NoMatch
  <2>2. CASE index >= LoopLength /\ L!Stop
    <3>1. NoneAhead
      BY <1>4, <2>1, <2>2, PositionsAre DEF NoneAhead, Limit
    <3> QED BY <1>1, <2>2, <3>1, StopKeeps DEF L!Stop
  <2>3. CASE ~(index >= LoopLength)
    <3>1. index \in L!Positions /\ p = L!Search(at, index, sticky)
      BY <1>4, <2>3
    <3>2. Hit(p) \/ (NoHit /\ p = -1)
      BY <1>3, <3>1, SearchFinds
    <3> HIDE DEF p
    <3>3. CASE NoHit /\ p = -1
      <4>1. L!Stop
        BY <2>1, <3>3
      <4>2. NoneAhead
        BY <3>3 DEF NoHit, NoneAhead
      <4> QED BY <1>1, <4>1, <4>2, StopKeeps DEF L!Stop
    <3>4. CASE Hit(p)
      <4>1. p \in L!Positions /\ at[p] # -1 /\ p \in Nat
        BY <3>4, PositionsAre DEF Hit
      <4>2. CASE L!Report(p, L!Past(p))
        <5>1. After(p, L!Past(p))
          BY <1>2, <4>1, PastIsAfter
        <5> QED BY <1>1, <3>4, <4>2, <5>1, ReportKeeps
      <4>3. CASE L!Stop /\ p >= LoopLength
        <5>1. NoneAhead
          BY <1>4, <2>1, <3>4, <4>1, <4>3, PositionsAre DEF NoneAhead, Limit, Hit
        <5> QED BY <1>1, <4>3, <5>1, StopKeeps DEF L!Stop
      <4> QED BY <1>4, <2>1, <2>3, <4>1, <4>2, <4>3
    <3> QED BY <3>2, <3>3, <3>4
  <2> QED BY <1>4, <2>1, <2>2, <2>3
<1>6. CASE L!LibraryFails
  BY <1>1, <1>6, FailKeeps DEF L!LibraryFails
<1>7. CASE L!ExecLoopStep
  <2> DEFINE p == IF index > LoopLength THEN L!NoMatch ELSE L!Search(at, index, FALSE)
  <2>1. /\ who = "execLoop"
        /\ \/ p = -1 /\ state' = "done" /\ UNCHANGED found
           \/ p # -1 /\ L!Report(p, L!NextLastIndex(p))
    BY <1>7 DEF L!ExecLoopStep, L!NoMatch
  <2>2. sticky = FALSE
    BY <1>2, <2>1 DEF LoopTypes
  <2>3. CASE index > LoopLength
    <3>1. p = -1
      BY <2>3 DEF L!NoMatch
    <3>2. NoneAhead
      BY <1>4, <2>3, PositionsAre DEF NoneAhead, Limit
    <3> HIDE DEF p
    <3> QED BY <1>1, <2>1, <3>1, <3>2, StopKeeps
  <2>4. CASE ~(index > LoopLength)
    <3>1. index \in L!Positions /\ p = L!Search(at, index, sticky)
      BY <1>4, <2>2, <2>4
    <3>2. Hit(p) \/ (NoHit /\ p = -1)
      BY <1>3, <3>1, SearchFinds
    <3> HIDE DEF p
    <3>3. CASE NoHit /\ p = -1
      <4>1. NoneAhead
        BY <3>3 DEF NoHit, NoneAhead
      <4> QED BY <1>1, <2>1, <3>3, <4>1, StopKeeps
    <3>4. CASE Hit(p)
      <4>1. p \in L!Positions /\ at[p] # -1
        BY <3>4 DEF Hit
      <4>2. L!Report(p, L!NextLastIndex(p))
        <5>1. p # -1
          BY <4>1, PositionsAre
        <5> QED BY <2>1, <5>1
      <4>3. After(p, L!NextLastIndex(p))
        BY <1>2, <4>1, NextLastIndexIsAfter
      <4> QED BY <1>1, <3>4, <4>2, <4>3, ReportKeeps
    <3> QED BY <3>2, <3>3, <3>4
  <2> QED BY <2>3, <2>4
<1> QED BY <1>5, <1>6, <1>7 DEF L!Next

(* Whatever the pattern, and whatever empty matches it has: the three      *)
(* loops report matches of it that are apart and in order, and skip none   *)
(* (regex.zig:119-143, 258-283, v8_xbench.mjs:38-52).                      *)
THEOREM EachMatchOnceAlways == Spec => []EachMatchOnce
<1> DEFINE Inv == part = "loops" => LoopInv
<1>1. Init => Inv
  <2> SUFFICES ASSUME Init, part = "loops" PROVE LoopInv
    OBVIOUS
  <2>1. /\ at \in L!Attempts /\ index = 0 /\ found = <<>> /\ state = "running"
        /\ sticky \in BOOLEAN /\ (who = "execLoop" => sticky = FALSE)
    BY DEF Init, L!Init
  <2>2. 0 \in L!Positions
    BY LoopsAssumption DEF L!Positions
  <2>3. \A p \in L!Positions : at[p] = -1 \/ (at[p] \in L!Positions /\ at[p] >= p)
    BY <2>1 DEF L!Attempts, L!NoMatch
  <2>4. found \in Seq(Span) /\ Len(found) = 0 /\ DOMAIN found = {}
    BY <2>1
  <2>5. \A p \in L!Positions : ~(p < 0)
    BY PositionsAre
  <2> QED BY <2>1, <2>2, <2>3, <2>4, <2>5
          DEF LoopInv, LoopTypes, Behind, L!EachMatchOnce, L!InOrder, L!NoneSkipped
<1>2. Inv /\ [Next]_all => Inv'
  <2> SUFFICES ASSUME Inv, [Next]_all, part' = "loops" PROVE LoopInv'
    OBVIOUS
  <2>1. part = "loops" /\ LoopInv
    BY DEF Next, InVerdict, InDiscover, InBaseline, InBridge, InHostExec, InLoops, InWalk, all
  <2>2. L!Next \/ UNCHANGED loops
    BY <2>1 DEF Next, InVerdict, InDiscover, InBaseline, InBridge, InHostExec, InLoops, InWalk, all
  <2>3. CASE UNCHANGED loops
    BY <2>1, <2>3 DEF loops, LoopInv, LoopTypes, Behind, Span, L!Positions, L!EachMatchOnce,
                      L!InOrder, L!NoneSkipped, L!Covered, L!Match
  <2> QED BY <2>1, <2>2, <2>3, LoopStep
<1>3. Inv => EachMatchOnce
  BY DEF EachMatchOnce, LoopInv
<1> QED BY <1>1, <1>2, <1>3, PTL DEF Spec
-----------------------------------------------------------------------------
(* The exec of the harness. *)

LEMMA ExecPositions ==
    /\ ExecLength \in Nat /\ 0 \in H!Positions /\ ExecLength \in H!Positions
    /\ \A p \in H!Positions : p \in Nat /\ p <= ExecLength
<1>1. ExecLength \in Nat /\ ExecInside \subseteq 1..ExecLength - 1
  BY ExecAssumption
<1> QED BY <1>1 DEF H!Positions

(* The start of the character an index is in or at.                        *)
LEMMA CharStartAt ==
    ASSUME NEW i \in 0..ExecLength
    PROVE  /\ H!CharStart(i) \in H!Positions /\ H!CharStart(i) <= i
           /\ \A q \in H!Positions : q <= i => q <= H!CharStart(i)
<1> DEFINE T == {i - p : p \in {q \in H!Positions : q <= i}}
<1>1. T \subseteq Nat /\ T # {}
  <2>1. \A p \in H!Positions : p \in Nat
    BY ExecPositions
  <2>2. T \subseteq Nat
    BY <2>1
  <2>3. 0 \in H!Positions /\ 0 <= i
    BY ExecPositions
  <2> QED BY <2>2, <2>3
<1>2. PICK t \in T : \A y \in T : t <= y
  <2> HIDE DEF T
  <2> QED BY <1>1, LeastNat
<1>3. PICK p \in H!Positions : p <= i /\ t = i - p
  BY <1>2
<1>4. \A q \in H!Positions : q <= i => q <= p
  <2> SUFFICES ASSUME NEW q \in H!Positions, q <= i PROVE q <= p
    OBVIOUS
  <2>1. i - p <= i - q
    BY <1>2, <1>3
  <2>2. p \in Nat /\ q \in Nat
    BY ExecPositions
  <2> QED BY <2>1, <2>2
<1> QED BY <1>3, <1>4 DEF H!CharStart

(* The search of the library, of the attempts it may make.                 *)
Tried(m, i, y) == {p \in H!Positions : H!CharStart(i) <= p /\ m[p] # -1 /\ (y => p = H!CharStart(i))}

LEMMA SearchOf ==
    ASSUME NEW m, NEW i \in 0..ExecLength, NEW y \in BOOLEAN
    PROVE  /\ Tried(m, i, y) = {} => H!Search(m, i, y) = -1
           /\ Tried(m, i, y) # {} =>
                  /\ H!Search(m, i, y) \in Tried(m, i, y)
                  /\ \A q \in Tried(m, i, y) : H!Search(m, i, y) <= q
<1> DEFINE T == Tried(m, i, y)
<1>1. H!Search(m, i, y) = IF T = {} THEN -1 ELSE CHOOSE p \in T : \A q \in T : p <= q
  BY DEF H!Search, H!NoMatch, Tried
<1>2. T \subseteq Nat
  BY ExecPositions DEF Tried
<1> HIDE DEF T
<1>3. T # {} => \E x \in T : \A y_ \in T : x <= y_
  BY <1>2, LeastNat
<1> QED BY <1>1, <1>3 DEF T

(* Of two searches that may make the same attempts, both find the same.    *)
LEMMA SameSearch ==
    ASSUME NEW m, NEW i \in 0..ExecLength, NEW j \in 0..ExecLength, NEW y \in BOOLEAN,
           Tried(m, i, y) = Tried(m, j, y)
    PROVE  H!Search(m, i, y) = H!Search(m, j, y)
<1>1. \A a, b_ \in Tried(m, i, y) : a <= b_ /\ b_ <= a => a = b_
  BY ExecPositions DEF Tried
<1> QED BY <1>1, SearchOf

(* The standard's next index is in the subject, at the start of a          *)
(* character, or past the end, and no character starts before it.          *)
LEMMA AdvanceOf ==
    ASSUME NEW j \in 0..ExecLength
    PROVE  LET k == H!AdvanceStringIndex(j)
           IN /\ k \in (j + 1)..(ExecLength + 1)
              /\ k <= ExecLength => k \in H!Positions
              /\ \A p \in H!Positions : j < p <=> k <= p
<1> DEFINE k == H!AdvanceStringIndex(j)
<1>1. /\ ExecLength \in Nat /\ ExecInside \subseteq 1..ExecLength - 1
      /\ \A p \in ExecInside : p + 1 \notin ExecInside
  BY ExecAssumption
<1>2. \A p \in H!Positions : p \in Nat /\ p \in 0..ExecLength /\ p \notin ExecInside
  BY ExecPositions DEF H!Positions
<1>3. CASE j + 1 \in ExecInside
  <2>1. k = j + 2 /\ j + 1 + 1 \notin ExecInside
    BY <1>1, <1>3 DEF H!AdvanceStringIndex
  <2>2. j + 1 <= ExecLength - 1
    BY <1>1, <1>3
  <2>3. k \in (j + 1)..(ExecLength + 1) /\ k \in 0..ExecLength /\ k = j + 1 + 1
    BY <1>1, <2>1, <2>2
  <2>4. k \in H!Positions
    BY <2>1, <2>3 DEF H!Positions
  <2>5. ASSUME NEW p \in H!Positions PROVE j < p <=> k <= p
    <3>1. p # j + 1 /\ p \in Nat
      BY <1>2, <1>3
    <3> QED BY <2>1, <3>1
  <2> QED BY <2>3, <2>4, <2>5
<1>4. CASE j + 1 \notin ExecInside
  <2>1. k = j + 1
    BY <1>4 DEF H!AdvanceStringIndex
  <2>2. k \in (j + 1)..(ExecLength + 1)
    BY <1>1, <2>1
  <2>3. k <= ExecLength => k \in H!Positions
    BY <1>1, <1>4, <2>1 DEF H!Positions
  <2>4. ASSUME NEW p \in H!Positions PROVE j < p <=> k <= p
    <3>1. p \in Nat
      BY <1>2
    <3> QED BY <2>1, <3>1
  <2> QED BY <2>2, <2>3, <2>4
<1> QED BY <1>3, <1>4

(* The library's search from an index, and from the standard's next one    *)
(* (host-exec.js:93-103).                                                  *)
LEMMA SearchByOne ==
    ASSUME NEW m, NEW i \in 0..ExecLength, NEW y \in BOOLEAN
    PROVE  LET k == H!AdvanceStringIndex(i)
           IN H!Search(m, i, y) =
                IF m[H!CharStart(i)] # -1 THEN H!CharStart(i)
                ELSE IF y \/ k > ExecLength THEN -1
                ELSE H!Search(m, k, y)
<1> DEFINE c == H!CharStart(i)
           k == H!AdvanceStringIndex(i)
<1>1. /\ c \in H!Positions /\ c <= i
      /\ \A q \in H!Positions : q <= i => q <= c
  BY CharStartAt
<1>2. \A p \in H!Positions : p \in Nat /\ p <= ExecLength
  BY ExecPositions
<1>3. Tried(m, i, y) = {p \in H!Positions : c <= p /\ m[p] # -1 /\ (y => p = c)}
  BY DEF Tried
<1>4. /\ k \in (i + 1)..(ExecLength + 1) /\ (k <= ExecLength => k \in H!Positions)
      /\ \A p \in H!Positions : i < p <=> k <= p
  BY AdvanceOf
<1> HIDE DEF c, k
<1>5. ASSUME m[c] = -1, ~y, NEW p \in H!Positions, m[p] # -1 PROVE c <= p <=> k <= p
  <2>1. p # c /\ p \in Nat /\ c \in Nat
    BY <1>1, <1>2, <1>5
  <2>2. c <= p <=> i < p
    <3>1. p <= i => p <= c
      BY <1>1
    <3> QED BY <1>1, <2>1, <3>1
  <2> QED BY <1>4, <2>2
<1>6. CASE m[c] # -1
  <2>1. c \in Tried(m, i, y) /\ \A q \in Tried(m, i, y) : c <= q
    BY <1>1, <1>2, <1>3, <1>6
  <2>2. H!Search(m, i, y) = c
    BY <1>2, <1>3, <2>1, SearchOf
  <2> QED BY <1>6, <2>2 DEF c
<1>7. CASE m[c] = -1 /\ y
  <2>1. Tried(m, i, y) = {}
    BY <1>3, <1>7
  <2> QED BY <1>7, <2>1, SearchOf DEF c
<1>8. CASE m[c] = -1 /\ ~y /\ k > ExecLength
  <2>1. \A p \in H!Positions : ~(k <= p)
    BY <1>2, <1>4, <1>8, ExecPositions
  <2>2. Tried(m, i, y) = {}
    BY <1>3, <1>5, <1>8, <2>1
  <2> QED BY <1>8, <2>2, SearchOf DEF c, k
<1>9. CASE m[c] = -1 /\ ~y /\ ~(k > ExecLength)
  <2>1. k \in 0..ExecLength /\ k \in H!Positions
    BY <1>4, <1>9, ExecPositions
  <2>2. Tried(m, k, y) = {p \in H!Positions : k <= p /\ m[p] # -1}
    <3>1. H!CharStart(k) \in H!Positions /\ H!CharStart(k) <= k /\ k <= H!CharStart(k)
      BY <2>1, CharStartAt
    <3>2. H!CharStart(k) = k
      <4>1. H!CharStart(k) \in Nat
        BY <1>2, <3>1
      <4> QED BY <2>1, <3>1, <4>1
    <3>3. Tried(m, k, y) = {p \in H!Positions : k <= p /\ m[p] # -1 /\ (y => p = k)}
      BY <3>2 DEF Tried
    <3> QED BY <1>9, <3>3
  <2>3. Tried(m, i, y) = Tried(m, k, y)
    BY <1>3, <1>5, <1>9, <2>2
  <2> QED BY <1>9, <2>1, <2>3, SameSearch DEF c, k
<1> QED BY <1>6, <1>7, <1>8, <1>9 DEF c, k

(* The index of the standard's match, by where the library finds it: the   *)
(* index itself when it is inside the character that matches.              *)
IndexOf(m, i, y) ==
    IF i > ExecLength \/ H!Search(m, i, y) = -1 THEN -1
    ELSE IF H!Search(m, i, y) < i THEN i
    ELSE H!Search(m, i, y)

LEMMA IndexIs ==
    ASSUME NEW m, NEW i \in 0..ExecLength, NEW y \in BOOLEAN, H!Search(m, i, y) # -1
    PROVE  /\ IndexOf(m, i, y) \in 0..ExecLength
           /\ H!CharStart(IndexOf(m, i, y)) = H!Search(m, i, y)
<1> DEFINE p == H!Search(m, i, y)
<1>1. p \in H!Positions /\ H!CharStart(i) <= p
  BY SearchOf DEF Tried
<1>2. \A q \in H!Positions : q \in Nat /\ q <= ExecLength
  BY ExecPositions
<1>3. /\ H!CharStart(i) \in H!Positions
      /\ \A q \in H!Positions : q <= i => q <= H!CharStart(i)
  BY CharStartAt
<1>4. ~(i > ExecLength) /\ ExecLength \in Nat
  BY ExecPositions
<1> HIDE DEF p
<1>5. CASE p < i
  <2>1. p <= i
    BY <1>1, <1>2, <1>5
  <2>2. H!CharStart(i) = p
    BY <1>1, <1>2, <1>3, <2>1
  <2> QED BY <1>4, <1>5, <2>2 DEF IndexOf, p
<1>6. CASE ~(p < i)
  <2>1. IndexOf(m, i, y) = p
    BY <1>4, <1>6 DEF IndexOf, p
  <2>2. p \in 0..ExecLength
    BY <1>1, <1>2, <1>4
  <2>3. H!CharStart(p) = p
    <3>1. p <= p
      BY <2>2
    <3>2. H!CharStart(p) \in H!Positions /\ H!CharStart(p) <= p /\ p <= H!CharStart(p)
      BY <1>1, <2>2, <3>1, CharStartAt
    <3> QED BY <1>2, <2>2, <3>2
  <2> QED BY <2>1, <2>2, <2>3 DEF p
<1> QED BY <1>5, <1>6

(* The attempts of the standard, one after the other, find that index.     *)
LEMMA TrialIsSearch ==
    ASSUME NEW m, NEW i \in 0..ExecLength + 1, NEW y \in BOOLEAN
    PROVE  H!Trial(m, i, y) = IndexOf(m, i, y)
<1> DEFINE Turn(g, j) == IF j > ExecLength THEN -1
                         ELSE IF m[H!CharStart(j)] # -1 THEN j
                         ELSE IF y THEN -1
                         ELSE g[H!AdvanceStringIndex(j)]
           from == CHOOSE g : g = [j \in 0..(ExecLength + 1) |->
               IF j > ExecLength THEN -1
               ELSE IF m[H!CharStart(j)] # -1 THEN j
               ELSE IF y THEN -1
               ELSE g[H!AdvanceStringIndex(j)]]
           index_ == [j \in 0..(ExecLength + 1) |-> IndexOf(m, j, y)]
<1>1. H!Trial(m, i, y) = from[i]
  BY Zenon DEF H!Trial, H!NoMatch
<1>2. ExecLength \in Nat
  BY ExecPositions
<1>3. \A j \in 0..(ExecLength + 1) : Turn(index_, j) = IndexOf(m, j, y)
  <2> SUFFICES ASSUME NEW j \in 0..(ExecLength + 1) PROVE Turn(index_, j) = IndexOf(m, j, y)
    OBVIOUS
  <2>1. CASE j > ExecLength
    BY <2>1 DEF IndexOf
  <2>2. CASE ~(j > ExecLength)
    <3> DEFINE k == H!AdvanceStringIndex(j)
               c == H!CharStart(j)
               p == H!Search(m, j, y)
    <3>1. j \in 0..ExecLength
      BY <1>2, <2>2
    <3>2. p = IF m[c] # -1 THEN c ELSE IF y \/ k > ExecLength THEN -1 ELSE H!Search(m, k, y)
      BY <3>1, SearchByOne
    <3>3. k \in (j + 1)..(ExecLength + 1) /\ (k <= ExecLength => k \in H!Positions)
      BY <3>1, AdvanceOf
    <3>4. c \in Nat /\ c <= j
      BY <3>1, CharStartAt, ExecPositions
    <3>5. index_[k] = IndexOf(m, k, y)
      <4>1. k \in 0..(ExecLength + 1)
        BY <3>1, <3>3
      <4> HIDE DEF k
      <4> QED BY <4>1
    <3>6. Turn(index_, j) = IF m[c] # -1 THEN j ELSE IF y THEN -1 ELSE IndexOf(m, k, y)
      BY <2>2, <3>5
    <3>7. IndexOf(m, j, y) = IF p = -1 THEN -1 ELSE IF p < j THEN j ELSE p
      BY <2>2 DEF IndexOf
    <3> HIDE DEF Turn, index_, k, c, p
    <3>8. CASE m[c] # -1
      BY <3>1, <3>2, <3>4, <3>6, <3>7, <3>8
    <3>9. CASE m[c] = -1 /\ y
      BY <3>2, <3>6, <3>7, <3>9
    <3>10. CASE m[c] = -1 /\ ~y /\ k > ExecLength
      BY <3>2, <3>6, <3>7, <3>10 DEF IndexOf
    <3>11. CASE m[c] = -1 /\ ~y /\ ~(k > ExecLength)
      <4>1. k \in 0..ExecLength /\ k \in H!Positions /\ ~(k <= j)
        BY <1>2, <3>1, <3>3, <3>11
      <4>2. p = H!Search(m, k, y)
        BY <3>2, <3>11
      <4>3. p # -1 => p \in Nat /\ ~(p < k) /\ ~(p < j)
        <5> SUFFICES ASSUME p # -1 PROVE p \in Nat /\ ~(p < k) /\ ~(p < j)
          OBVIOUS
        <5>1. p \in H!Positions /\ H!CharStart(k) <= p
          BY <4>1, <4>2, SearchOf DEF Tried
        <5>2. k <= H!CharStart(k) /\ H!CharStart(k) \in H!Positions
          BY <4>1, CharStartAt
        <5>3. p \in Nat /\ H!CharStart(k) \in Nat
          BY <5>1, <5>2, ExecPositions
        <5> QED BY <3>1, <4>1, <5>1, <5>2, <5>3
      <4>4. IndexOf(m, k, y) = IF p = -1 THEN -1 ELSE IF p < k THEN k ELSE p
        BY <3>11, <4>2 DEF IndexOf
      <4> QED BY <3>6, <3>7, <3>11, <4>3, <4>4
    <3> QED BY <3>8, <3>9, <3>10, <3>11
  <2> QED BY <2>1, <2>2
<1>4. index_ = [j \in 0..(ExecLength + 1) |->
               IF j > ExecLength THEN -1
               ELSE IF m[H!CharStart(j)] # -1 THEN j
               ELSE IF y THEN -1
               ELSE index_[H!AdvanceStringIndex(j)]]
  <2>1. \A j \in 0..(ExecLength + 1) : IndexOf(m, j, y) =
               IF j > ExecLength THEN -1
               ELSE IF m[H!CharStart(j)] # -1 THEN j
               ELSE IF y THEN -1
               ELSE index_[H!AdvanceStringIndex(j)]
    BY <1>3, Zenon
  <2> DEFINE Body_(j) == IF j > ExecLength THEN -1
               ELSE IF m[H!CharStart(j)] # -1 THEN j
               ELSE IF y THEN -1
               ELSE index_[H!AdvanceStringIndex(j)]
  <2>2. \A j \in 0..(ExecLength + 1) : IndexOf(m, j, y) = Body_(j)
    BY <2>1, Zenon
  <2>3. [j \in 0..(ExecLength + 1) |-> IndexOf(m, j, y)] = [j \in 0..(ExecLength + 1) |-> Body_(j)]
    <3> HIDE DEF Body_
    <3> QED BY <2>2
  <2> QED BY <2>3, Zenon
<1>5. from = [j \in 0..(ExecLength + 1) |->
               IF j > ExecLength THEN -1
               ELSE IF m[H!CharStart(j)] # -1 THEN j
               ELSE IF y THEN -1
               ELSE from[H!AdvanceStringIndex(j)]]
  <2> HIDE DEF index_
  <2> QED BY <1>4, Zenon
<1>6. ASSUME NEW j \in 0..(ExecLength + 1) PROVE from[j] = Turn(from, j)
  <2> HIDE DEF from
  <2>1. from[j] = IF j > ExecLength THEN -1
                  ELSE IF m[H!CharStart(j)] # -1 THEN j
                  ELSE IF y THEN -1
                  ELSE from[H!AdvanceStringIndex(j)]
    BY <1>5, <1>6, Zenon
  <2> QED BY <2>1
<1> DEFINE Same(j) == from[j] = index_[j]
           left == {n_ \in 0..(ExecLength + 1) : ~Same(ExecLength + 1 - n_)}
<1>7. left = {}
  <2> SUFFICES ASSUME left # {} PROVE FALSE
    OBVIOUS
  <2>1. left \subseteq Nat
    BY <1>2
  <2>2. PICK n_ \in left : \A x \in left : n_ <= x
    <3> HIDE DEF left
    <3> QED BY <2>1, LeastNat
  <2> DEFINE j == ExecLength + 1 - n_
             k == H!AdvanceStringIndex(j)
  <2>3. n_ \in 0..(ExecLength + 1) /\ ~Same(j)
    BY <2>2
  <2>4. j \in 0..(ExecLength + 1) /\ n_ = ExecLength + 1 - j
    BY <1>2, <2>3
  <2>5. from[j] = Turn(from, j) /\ index_[j] = Turn(index_, j)
    <3>1. index_[j] = IndexOf(m, j, y)
      <4> HIDE DEF j
      <4> QED BY <2>4
    <3> HIDE DEF Turn, index_, from, left, j
    <3> QED BY <1>3, <1>6, <2>4, <3>1
  <2>6. ~(j > ExecLength) => from[k] = index_[k]
    <3> SUFFICES ASSUME ~(j > ExecLength) PROVE Same(k)
      OBVIOUS
    <3>1. j \in 0..ExecLength
      BY <1>2, <2>4
    <3>2. k \in (j + 1)..(ExecLength + 1)
      BY <3>1, AdvanceOf
    <3> HIDE DEF Same, k, j
    <3>3. /\ ExecLength + 1 - k \in 0..(ExecLength + 1) /\ ~(n_ <= ExecLength + 1 - k)
          /\ ExecLength + 1 - (ExecLength + 1 - k) = k
      BY <1>2, <2>4, <3>1, <3>2
    <3> QED BY <2>2, <3>3
  <2>7. Turn(from, j) = Turn(index_, j)
    <3> HIDE DEF from, index_, j, k
    <3> QED BY <2>6 DEF k
  <2> HIDE DEF from, index_, Turn, j
  <2> QED BY <2>3, <2>5, <2>7
<1>8. from[i] = index_[i]
  <2>1. ExecLength + 1 - i \in 0..(ExecLength + 1) /\ ExecLength + 1 - (ExecLength + 1 - i) = i
    BY <1>2
  <2> HIDE DEF from, index_
  <2> QED BY <1>7, <2>1
<1>9. index_[i] = IndexOf(m, i, y)
  BY <1>2
<1> HIDE DEF from, index_
<1> QED BY <1>1, <1>8, <1>9

(* What `groups' has after k groups: for each name so far the one that     *)
(* took part, if one did.                                                  *)
Part(part_, k, x) ==
    IF \E j \in part_ : j <= k /\ Names[j] = x
    THEN CHOOSE j \in part_ : j <= k /\ Names[j] = x
    ELSE 0
Known(part_, k) == [x \in {Names[j] : j \in 1..k} |-> Part(part_, k, x)]
GroupsTurn(part_, g, k) ==
    IF k = 0 THEN [x \in {} |-> 0]
    ELSE IF k \notin part_ /\ Names[k] \in DOMAIN g[k - 1] THEN g[k - 1]
    ELSE [x \in DOMAIN g[k - 1] \cup {Names[k]} |->
             IF x # Names[k] THEN g[k - 1][x] ELSE IF k \in part_ THEN k ELSE 0]

LEMMA PartIs ==
    ASSUME NEW p \in H!Participants, NEW k, NEW x
    PROVE  /\ \A j \in p : j <= k /\ Names[j] = x => Part(p, k, x) = j
           /\ (\A j \in p : j <= k => Names[j] # x) => Part(p, k, x) = 0
<1>1. \A i, j \in p : Names[i] = Names[j] => i = j
  BY DEF H!Participants
<1>2. ASSUME NEW j \in p, j <= k, Names[j] = x PROVE Part(p, k, x) = j
  <2>1. Part(p, k, x) = CHOOSE i \in p : i <= k /\ Names[i] = x
    BY <1>2 DEF Part
  <2>2. Part(p, k, x) \in p /\ Names[Part(p, k, x)] = x
    BY <1>2, <2>1
  <2> QED BY <1>1, <1>2, <2>2
<1>3. (\A j \in p : j <= k => Names[j] # x) => Part(p, k, x) = 0
  BY DEF Part
<1> QED BY <1>2, <1>3

(* A turn of the loop (host-exec.js:136-149).                              *)
LEMMA KnownTurn ==
    ASSUME NEW p \in H!Participants, NEW k \in 0..Len(Names),
           NEW g, k # 0 => g[k - 1] = Known(p, k - 1)
    PROVE  GroupsTurn(p, g, k) = Known(p, k)
<1>1. Len(Names) \in Nat /\ DOMAIN Names = 1..Len(Names)
  BY ExecAssumption
<1>2. p \subseteq 1..Len(Names)
  BY <1>1 DEF H!Participants
<1>3. CASE k = 0
  <2>1. {Names[j] : j \in 1..k} = {}
    BY <1>3
  <2> QED BY <1>3, <2>1 DEF GroupsTurn, Known
<1>4. CASE k # 0
  <2> DEFINE before_ == Known(p, k - 1)
             behind == {Names[j] : j \in 1..k - 1}
  <2>1. /\ DOMAIN before_ = behind
        /\ \A x \in behind : before_[x] = Part(p, k - 1, x)
    BY DEF Known
  <2>2. g[k - 1] = before_
    BY <1>4
  <2>3. {Names[j] : j \in 1..k} = behind \cup {Names[k]}
    <3>1. \A j : j \in 1..k <=> j \in 1..k - 1 \/ j = k
      BY <1>1, <1>4
    <3> QED BY <3>1
  <2>4. \A j \in p : j <= k <=> j <= k - 1 \/ j = k
    BY <1>1, <1>2
  <2>5. ASSUME NEW x, x # Names[k] \/ k \notin p PROVE Part(p, k, x) = Part(p, k - 1, x)
    <3>1. \A j \in p : Names[j] = x => (j <= k <=> j <= k - 1)
      BY <2>4, <2>5
    <3>2. CASE \E j \in p : j <= k /\ Names[j] = x
      BY <3>1, <3>2, PartIs
    <3>3. CASE \A j \in p : j <= k => Names[j] # x
      <4>1. \A j \in p : j <= k - 1 => Names[j] # x
        BY <3>1, <3>3
      <4> QED BY <3>3, <4>1, PartIs
    <3> QED BY <3>2, <3>3
  <2>6. k \in p => Part(p, k, Names[k]) = k
    <3>1. k <= k
      BY <1>1
    <3> QED BY <3>1, PartIs
  <2> HIDE DEF before_, behind
  <2>7. CASE k \notin p /\ Names[k] \in behind
    <3>1. GroupsTurn(p, g, k) = before_
      BY <1>4, <2>1, <2>2, <2>7 DEF GroupsTurn
    <3>2. {Names[j] : j \in 1..k} = behind
      BY <2>3, <2>7
    <3>3. Known(p, k) = [x \in behind |-> Part(p, k - 1, x)]
      BY <2>5, <2>7, <3>2 DEF Known
    <3> QED BY <3>1, <3>3 DEF before_, behind, Known
  <2>8. CASE ~(k \notin p /\ Names[k] \in behind)
    <3>1. GroupsTurn(p, g, k) = [x \in behind \cup {Names[k]} |->
             IF x # Names[k] THEN before_[x] ELSE IF k \in p THEN k ELSE 0]
      BY <1>4, <2>1, <2>2, <2>8 DEF GroupsTurn
    <3>2. ASSUME NEW x \in behind \cup {Names[k]}
          PROVE  Part(p, k, x) = IF x # Names[k] THEN before_[x] ELSE IF k \in p THEN k ELSE 0
      <4>1. CASE x # Names[k]
        BY <2>1, <2>5, <3>2, <4>1
      <4>2. CASE x = Names[k] /\ k \in p
        BY <2>6, <4>2
      <4>3. CASE x = Names[k] /\ k \notin p
        <5>1. Names[k] \notin behind
          BY <2>8, <4>3
        <5>2. \A j \in p : j <= k => Names[j] # x
          <6> SUFFICES ASSUME NEW j \in p, j <= k, Names[j] = x PROVE FALSE
            OBVIOUS
          <6>1. j \in 1..k - 1
            BY <1>1, <1>2, <2>4, <4>3
          <6> QED BY <4>3, <5>1, <6>1 DEF behind
        <5> QED BY <4>3, <5>2, PartIs
      <4> QED BY <4>1, <4>2, <4>3
    <3>3. Known(p, k) = [x \in behind \cup {Names[k]} |-> Part(p, k, x)]
      BY <2>3 DEF Known
    <3> QED BY <3>1, <3>2, <3>3
  <2> QED BY <2>7, <2>8
<1> QED BY <1>3, <1>4

LEMMA GroupsKnown ==
    ASSUME NEW p \in H!Participants
    PROVE  H!groups(p) = Known(p, Len(Names))
<1> DEFINE obj == CHOOSE g : g = [k \in 0..Len(Names) |->
               IF k = 0 THEN [x \in {} |-> 0]
               ELSE IF k \notin p /\ Names[k] \in DOMAIN g[k - 1] THEN g[k - 1]
               ELSE [x \in DOMAIN g[k - 1] \cup {Names[k]} |->
                        IF x # Names[k] THEN g[k - 1][x] ELSE IF k \in p THEN k ELSE 0]]
           all_ == [k \in 0..Len(Names) |-> Known(p, k)]
<1>1. H!groups(p) = obj[Len(Names)]
  BY Zenon DEF H!groups
<1>2. Len(Names) \in Nat
  BY ExecAssumption
<1>3. \A k \in 0..Len(Names) : all_[k] = Known(p, k) /\ (k # 0 => all_[k - 1] = Known(p, k - 1))
  <2> SUFFICES ASSUME NEW k \in 0..Len(Names)
               PROVE  all_[k] = Known(p, k) /\ (k # 0 => all_[k - 1] = Known(p, k - 1))
    OBVIOUS
  <2>1. k # 0 => k - 1 \in 0..Len(Names)
    BY <1>2
  <2> QED BY <2>1
<1>4. \A k \in 0..Len(Names) : GroupsTurn(p, all_, k) = Known(p, k)
  <2> HIDE DEF all_
  <2> QED BY <1>3, KnownTurn
<1>5. all_ = [k \in 0..Len(Names) |->
               IF k = 0 THEN [x \in {} |-> 0]
               ELSE IF k \notin p /\ Names[k] \in DOMAIN all_[k - 1] THEN all_[k - 1]
               ELSE [x \in DOMAIN all_[k - 1] \cup {Names[k]} |->
                        IF x # Names[k] THEN all_[k - 1][x] ELSE IF k \in p THEN k ELSE 0]]
  <2>1. all_ = [k \in 0..Len(Names) |-> GroupsTurn(p, all_, k)]
    BY <1>4
  <2> HIDE DEF all_
  <2> QED BY <2>1, Zenon DEF GroupsTurn
<1>6. obj = [k \in 0..Len(Names) |->
               IF k = 0 THEN [x \in {} |-> 0]
               ELSE IF k \notin p /\ Names[k] \in DOMAIN obj[k - 1] THEN obj[k - 1]
               ELSE [x \in DOMAIN obj[k - 1] \cup {Names[k]} |->
                        IF x # Names[k] THEN obj[k - 1][x] ELSE IF k \in p THEN k ELSE 0]]
  <2> HIDE DEF all_
  <2> QED BY <1>5, Zenon
<1>7. ASSUME NEW k \in 0..Len(Names) PROVE obj[k] = GroupsTurn(p, obj, k)
  <2> HIDE DEF obj
  <2> QED BY <1>6, Zenon DEF GroupsTurn
<1> DEFINE bad == {k \in 0..Len(Names) : obj[k] # Known(p, k)}
<1>8. bad = {}
  <2> SUFFICES ASSUME bad # {} PROVE FALSE
    OBVIOUS
  <2>1. bad \subseteq Nat
    BY <1>2
  <2>2. PICK k \in bad : \A x \in bad : k <= x
    <3> HIDE DEF bad
    <3> QED BY <2>1, LeastNat
  <2>3. k \in 0..Len(Names) /\ obj[k] # Known(p, k)
    BY <2>2
  <2>4. k # 0 => obj[k - 1] = Known(p, k - 1)
    <3> SUFFICES ASSUME k # 0 PROVE obj[k - 1] = Known(p, k - 1)
      OBVIOUS
    <3>1. k - 1 \in 0..Len(Names) /\ ~(k <= k - 1)
      BY <1>2, <2>3
    <3> HIDE DEF obj
    <3> QED BY <2>2, <3>1
  <2> HIDE DEF obj
  <2> QED BY <1>7, <2>3, <2>4, KnownTurn
<1>9. Len(Names) \in 0..Len(Names)
  BY <1>2
<1> HIDE DEF obj
<1> QED BY <1>1, <1>8, <1>9

(* The RegExp and what a call has read of it.                              *)
RegExps == [source : Sources, flags : SUBSET {"g", "y"}, lastIndex : H!Values]
HostInv ==
    /\ \A s_ \in Sources : \A p \in H!Positions :
           matches[s_][p] = -1 \/ matches[s_][p] \in H!Positions
    /\ R \in RegExps
    /\ pc \in {"toString", "toLength"} => read \in RegExps

LEMMA LastIndexSet ==
    ASSUME NEW r \in RegExps, NEW v \in H!Values
    PROVE  [r EXCEPT !.lastIndex = v] \in RegExps
<1> HIDE DEF H!Values
<1> QED BY DEF RegExps

LEMMA NumIs == ASSUME NEW n_ \in -1..(ExecLength + 1) PROVE H!Num(n_) \in H!Values
BY DEF H!Num, H!Values

LEMMA LengthOf == ASSUME NEW v \in H!Values PROVE H!toLength(v) \in 0..(ExecLength + 1)
<1>1. ExecLength \in Nat
  BY ExecPositions
<1>2. v.n \in -1..(ExecLength + 1)
  BY <1>1 DEF H!Values
<1> QED BY <1>1, <1>2 DEF H!toLength

(* What builtinExec finds, and where it leaves lastIndex                   *)
(* (host-exec.js:93-115).                                                  *)
LEMMA BuiltinExecIs ==
    ASSUME HostInv, read \in RegExps
    PROVE  LET b_ == H!builtinExec(read.source, read.flags, read.lastIndex)
               m  == matches[read.source]
               j  == H!Trial(m, IF read.flags = {} THEN 0 ELSE H!toLength(read.lastIndex), "y" \in read.flags)
               p  == H!CharStart(j)
           IN /\ j = -1 => /\ b_.answer = H!Null
                           /\ b_.place = IF read.flags # {} THEN H!Num(0) ELSE R.lastIndex
              /\ j # -1 => /\ b_.answer = H!At(p, m[p])
                           /\ b_.place = IF read.flags # {} THEN H!Num(m[p]) ELSE R.lastIndex
                           /\ m[p] \in 0..ExecLength
<1> DEFINE i  == IF read.flags = {} THEN 0 ELSE H!toLength(read.lastIndex)
           m  == matches[read.source]
           y  == "y" \in read.flags
           j  == H!Trial(m, i, y)
           q  == IF i > ExecLength THEN -1 ELSE H!Search(m, i, y)
           b_ == H!builtinExec(read.source, read.flags, read.lastIndex)
<1>1. read.source \in Sources /\ read.lastIndex \in H!Values /\ ExecLength \in Nat
  <2> HIDE DEF H!Values
  <2> QED BY ExecPositions DEF RegExps
<1>2. i \in 0..(ExecLength + 1) /\ y \in BOOLEAN
  <2>1. H!toLength(read.lastIndex) \in 0..(ExecLength + 1) /\ 0 \in 0..(ExecLength + 1)
    BY <1>1, LengthOf
  <2> QED BY <2>1
<1>3. b_ = IF q = -1
           THEN [answer |-> H!Null, place |-> IF read.flags # {} THEN H!Num(0) ELSE R.lastIndex]
           ELSE [answer |-> H!At(q, m[q]), place |-> IF read.flags # {} THEN H!Num(m[q]) ELSE R.lastIndex]
  <2>1. H!From(read.flags, read.lastIndex) = i
    BY DEF H!From
  <2>2. b_ = H!FoundFrom(read.source, read.flags, i)
    BY <2>1 DEF H!builtinExec
  <2> HIDE DEF i, b_
  <2> QED BY <2>2 DEF H!FoundFrom, H!NoMatch
<1>4. j = IndexOf(m, i, y)
  <2> HIDE DEF m, i, y
  <2> QED BY <1>2, TrialIsSearch
<1> HIDE DEF i, y, j, b_, m
<1>5. CASE q = -1
  <2>1. j = -1
    BY <1>4, <1>5 DEF IndexOf
  <2> QED BY <1>3, <1>5, <2>1 DEF i, y, j, b_, m
<1>6. CASE q # -1
  <2>1. i \in 0..ExecLength /\ ~(i > ExecLength) /\ q = H!Search(m, i, y)
    BY <1>1, <1>2, <1>6
  <2> HIDE DEF q
  <2>2. j \in 0..ExecLength /\ H!CharStart(j) = q
    BY <1>2, <1>4, <1>6, <2>1, IndexIs
  <2>3. j # -1
    BY <1>1, <2>2
  <2>4. q \in H!Positions /\ m[q] # -1
    BY <1>2, <1>6, <2>1, SearchOf DEF Tried
  <2>5. m[q] \in H!Positions
    BY <1>1, <2>4 DEF HostInv, m
  <2>6. m[q] \in 0..ExecLength
    <3>1. m[q] \in Nat /\ m[q] <= ExecLength
      BY <2>5, ExecPositions
    <3> QED BY <1>1, <3>1
  <2>7. /\ b_.answer = H!At(H!CharStart(j), m[H!CharStart(j)])
        /\ b_.place = IF read.flags # {} THEN H!Num(m[H!CharStart(j)]) ELSE R.lastIndex
        /\ m[H!CharStart(j)] \in 0..ExecLength
    BY <1>3, <1>6, <2>2, <2>6
  <2> QED BY <2>3, <2>7 DEF i, y, j, b_, m
<1> QED BY <1>5, <1>6

LEMMA HostStep == ASSUME HostInv, H!Next PROVE HostInv'
<1>1. CASE H!UserCode
  <2>1. R' \in [source : Sources, flags : H!FlagSets, lastIndex : LastIndexes]
        /\ UNCHANGED <<matches, pc, read>>
    BY <1>1 DEF H!UserCode
  <2>2. R' \in RegExps
    <3> HIDE DEF H!Values
    <3> QED BY <2>1, LastIndexesAssumption DEF RegExps, H!FlagSets
  <2> QED BY <2>1, <2>2 DEF HostInv, H!Positions
<1>2. CASE H!Exec
  <2>1. read' = [H!NoRead EXCEPT !.source = R.source] /\ UNCHANGED <<matches, R>>
    BY <1>2 DEF H!Exec
  <2>2. H!Num(0) \in H!Values
    BY ExecPositions, NumIs
  <2>3. read' \in RegExps
    <3>1. read' = [source |-> R.source, flags |-> {}, lastIndex |-> H!Num(0)]
      BY <2>1 DEF H!NoRead
    <3> HIDE DEF H!Values
    <3> QED BY <2>2, <3>1 DEF HostInv, RegExps
  <2> QED BY <2>1, <2>3 DEF HostInv, H!Positions
<1>3. CASE H!ReadFlags
  <2>1. read' = [read EXCEPT !.flags = R.flags, !.lastIndex = R.lastIndex] /\ UNCHANGED <<matches, R>>
        /\ pc = "toString"
    BY <1>3 DEF H!ReadFlags
  <2>2. read' \in RegExps
    <3> HIDE DEF H!Values
    <3> QED BY <2>1 DEF HostInv, RegExps
  <2> QED BY <2>1, <2>2 DEF HostInv, H!Positions
<1>4. CASE H!Finish
  <2> DEFINE b_ == H!builtinExec(read.source, read.flags, read.lastIndex)
  <2>1. R' = [R EXCEPT !.lastIndex = b_.place] /\ UNCHANGED matches /\ pc = "toLength" /\ pc' = "idle"
    BY <1>4 DEF H!Finish
  <2>2. b_.place \in H!Values
    <3>1. R.lastIndex \in H!Values /\ ExecLength \in Nat /\ read \in RegExps
      <4> HIDE DEF H!Values
      <4> QED BY <2>1, ExecPositions DEF HostInv, RegExps
    <3>2. \A n_ \in 0..ExecLength : H!Num(n_) \in H!Values
      BY <3>1, NumIs
    <3>3. 0 \in 0..ExecLength
      BY <3>1
    <3> HIDE DEF H!Values
    <3> QED BY <3>1, <3>2, <3>3, BuiltinExecIs
  <2> HIDE DEF b_
  <2>3. R' \in RegExps
    <3> HIDE DEF H!Values
    <3> QED BY <2>1, <2>2, LastIndexSet DEF HostInv
  <2> QED BY <2>1, <2>3 DEF HostInv, H!Positions
<1>5. CASE H!ToStringThrows \/ H!ToLengthThrows \/ H!BridgeThrows
  BY <1>5 DEF H!ToStringThrows, H!ToLengthThrows, H!BridgeThrows, H!Throw, HostInv, H!Positions
<1> QED BY <1>1, <1>2, <1>3, <1>4, <1>5 DEF H!Next

(* The groups by name of a match (host-exec.js:136-149).                   *)
LEMMA NamedRight ==
    ASSUME NEW p \in H!Participants, named' = <<p, H!groups(p)>>
    PROVE  H!NamesParticipate'
<1>1. Len(Names) \in Nat /\ DOMAIN Names = 1..Len(Names) /\ p \subseteq DOMAIN Names
  BY ExecAssumption DEF H!Participants
<1> DEFINE g == Known(p, Len(Names))
<1>2. named'[1] = p /\ named'[2] = g
  BY GroupsKnown
<1>3. DOMAIN g = {Names[j] : j \in DOMAIN Names}
  BY <1>1 DEF Known
<1>4. \A k \in DOMAIN Names : g[Names[k]] = Part(p, Len(Names), Names[k])
  BY <1>1 DEF Known
<1>5. ASSUME NEW k \in DOMAIN Names
      PROVE  \/ g[Names[k]] \in {j \in p : Names[j] = Names[k]}
             \/ g[Names[k]] = 0 /\ \A j \in p : Names[j] # Names[k]
  <2>1. \A j \in p : j <= Len(Names)
    BY <1>1
  <2>2. CASE \E j \in p : Names[j] = Names[k]
    BY <1>4, <2>1, <2>2, PartIs
  <2>3. CASE \A j \in p : Names[j] # Names[k]
    BY <1>4, <2>3, PartIs
  <2> QED BY <2>2, <2>3
<1> HIDE DEF g
<1> QED BY <1>2, <1>3, <1>5 DEF H!NamesParticipate, H!ToSet

(* A call that answers, answers as RegExpBuiltinExec does.                 *)
LEMMA FinishIs ==
    ASSUME HostInv, H!Finish
    PROVE  /\ H!NamesParticipate'
           /\ LET m == matches[read.source]
                  j == H!Trial(m, IF read.flags = {} THEN 0 ELSE H!toLength(read.lastIndex), "y" \in read.flags)
                  end == m[H!CharStart(j)]
              IN /\ result' = IF j = H!NoMatch THEN H!Null ELSE H!At(H!CharStart(j), end)
                 /\ R' = [R EXCEPT !.lastIndex = IF read.flags = {} THEN @
                                                ELSE H!Num(IF j = H!NoMatch THEN 0 ELSE end)]
<1> DEFINE b_ == H!builtinExec(read.source, read.flags, read.lastIndex)
           m  == matches[read.source]
           j  == H!Trial(m, IF read.flags = {} THEN 0 ELSE H!toLength(read.lastIndex), "y" \in read.flags)
           p  == H!CharStart(j)
<1>1. /\ R' = [R EXCEPT !.lastIndex = b_.place]
      /\ result' = b_.answer
      /\ \/ b_.answer = H!Null
         \/ /\ b_.answer # H!Null
            /\ \E part_ \in H!Participants : named' = <<part_, H!groups(part_)>>
  BY DEF H!Finish
<1>2. read \in RegExps
  BY DEF HostInv, H!Finish
<1>3. /\ j = -1 => /\ b_.answer = H!Null
                   /\ b_.place = IF read.flags # {} THEN H!Num(0) ELSE R.lastIndex
      /\ j # -1 => /\ b_.answer = H!At(p, m[p])
                   /\ b_.place = IF read.flags # {} THEN H!Num(m[p]) ELSE R.lastIndex
  BY <1>2, BuiltinExecIs
<1> HIDE DEF b_, m, j, p
<1>4. H!NamesParticipate'
  <2>1. CASE b_.answer = H!Null
    BY <1>1, <2>1 DEF H!NamesParticipate, H!Null
  <2>2. CASE b_.answer # H!Null
    BY <1>1, <2>2, NamedRight
  <2> QED BY <2>1, <2>2
<1>5. /\ b_.answer = IF j = -1 THEN H!Null ELSE H!At(p, m[p])
      /\ b_.place = IF read.flags = {} THEN R.lastIndex ELSE H!Num(IF j = -1 THEN 0 ELSE m[p])
  BY <1>3
<1> QED BY <1>1, <1>4, <1>5 DEF m, j, p, H!NoMatch

(* What a call that ends has done.                                         *)
CallEnds ==
    pc = "toLength" /\ pc' = "idle" =>
        /\ result' = H!Thrown => R' = R
        /\ ~H!Converts(read.lastIndex) => result' = H!Thrown
        /\ result' # H!Thrown =>
             /\ H!NamesParticipate'
             /\ LET at_ == matches[read.source]
                    j == H!Trial(at_, IF read.flags = {} THEN 0 ELSE H!toLength(read.lastIndex), "y" \in read.flags)
                    end == at_[H!CharStart(j)]
                IN /\ result' = IF j = H!NoMatch THEN H!Null ELSE H!At(H!CharStart(j), end)
                   /\ R' = [R EXCEPT !.lastIndex = IF read.flags = {} THEN @
                                                  ELSE H!Num(IF j = H!NoMatch THEN 0 ELSE end)]

LEMMA CallEndsRight == ASSUME HostInv, H!Next PROVE CallEnds
<1> SUFFICES ASSUME pc = "toLength", pc' = "idle" PROVE CallEnds
  BY DEF CallEnds
<1>1. H!Finish \/ H!ToLengthThrows \/ H!BridgeThrows
  BY DEF H!Next, H!UserCode, H!Exec, H!ReadFlags, H!ToStringThrows
<1>2. CASE H!Finish
  <2>1. result' # H!Thrown
    <3>1. result' = H!Null \/ \E p, e : result' = H!At(p, e)
      BY <1>2 DEF H!Finish, H!builtinExec, H!FoundFrom
    <3> QED BY <3>1 DEF H!Null, H!At, H!Thrown
  <2>2. H!Converts(read.lastIndex)
    BY <1>2 DEF H!Finish
  <2> QED BY <1>2, <2>1, <2>2, FinishIs DEF CallEnds
<1>3. CASE H!ToLengthThrows \/ H!BridgeThrows
  BY <1>3 DEF H!ToLengthThrows, H!BridgeThrows, H!Throw, CallEnds
<1> QED BY <1>1, <1>2, <1>3

(* For every pattern, subject and interleaving of user code, a call that   *)
(* is not thrown out of answers what RegExpBuiltinExec answers for the     *)
(* source and the flags the call has read, leaves the lastIndex it leaves  *)
(* and names the groups that took part ("an implementation of              *)
(* RegExpBuiltinExec (ECMA-262 22.2.7.2)", host-exec.js:1-3), but for the  *)
(* index of a match found from inside a character, which is the            *)
(* character's start where the standard has lastIndex, and for a BigInt    *)
(* lastIndex, which counts as its number.  The standard reads the source   *)
(* and the flags after ToString and ToLength, the code before.  A call     *)
(* that throws leaves R as it is.                                          *)
THEOREM IsBuiltinExecAlways == Spec => IsBuiltinExec
<1> DEFINE Inv == part = "exec" => HostInv
<1>1. Init => Inv
  <2> SUFFICES ASSUME Init, part = "exec" PROVE HostInv
    OBVIOUS
  <2>1. /\ matches \in [Sources -> H!Attempts]
        /\ R \in [source : Sources, flags : H!FlagSets, lastIndex : {H!Num(0)}]
        /\ pc = "idle"
    BY DEF Init, H!Init
  <2>2. \A m \in H!Attempts : \A p \in H!Positions : m[p] = -1 \/ m[p] \in H!Positions
    BY DEF H!Attempts, H!NoMatch
  <2>3. H!Num(0) \in H!Values
    BY ExecPositions, NumIs
  <2>4. R \in RegExps
    <3> HIDE DEF H!Values
    <3> QED BY <2>1, <2>3 DEF RegExps, H!FlagSets
  <2> QED BY <2>1, <2>2, <2>4 DEF HostInv
<1>2. Inv /\ [Next]_all => Inv'
  <2> SUFFICES ASSUME Inv, [Next]_all, part' = "exec" PROVE HostInv'
    OBVIOUS
  <2>1. part = "exec" /\ HostInv
    BY DEF Next, InVerdict, InDiscover, InBaseline, InBridge, InHostExec, InLoops, InWalk, all
  <2>2. H!Next \/ UNCHANGED hostExec
    BY <2>1 DEF Next, InVerdict, InDiscover, InBaseline, InBridge, InHostExec, InLoops, InWalk, all,
                H!Next
  <2>3. CASE UNCHANGED hostExec
    BY <2>1, <2>3 DEF hostExec, HostInv, H!Positions
  <2> QED BY <2>1, <2>2, <2>3, HostStep
<1>3. Inv /\ [Next]_all => [CallEnds]_hostExec
  <2> SUFFICES ASSUME Inv, [Next]_all, hostExec' # hostExec PROVE CallEnds
    OBVIOUS
  <2>1. part = "exec" /\ H!Next
    BY DEF Next, InVerdict, InDiscover, InBaseline, InBridge, InHostExec, InLoops, InWalk, all, H!Next
  <2> QED BY <2>1, CallEndsRight
<1>4. IsBuiltinExec <=> [][CallEnds]_hostExec
  BY DEF IsBuiltinExec, H!IsBuiltinExec, H!vars, hostExec, CallEnds
<1> QED BY <1>1, <1>2, <1>3, <1>4, PTL DEF Spec

-----------------------------------------------------------------------------
(* The walk over a subject. *)

Byte == 0..255
Text == Seq(Byte)

(* Byte i of x starts a sequence that goes on past byte i + k.             *)
Over(x, i, k) == W!seqAt(x, i) > k

(* What seqAt has checked when it gives a length (root.zig:128-170).       *)
LEMMA SeqAtDef ==
    ASSUME NEW x, NEW i
    PROVE  LET m == IF i < Len(x) THEN W!SequenceLength(W!Unit(x, i)) ELSE 0
           IN \/ W!seqAt(x, i) = 0
              \/ /\ W!seqAt(x, i) = m /\ m > 0 /\ i + m <= Len(x)
                 /\ \A k \in 1..(m - 1) : W!isContinuation(W!Unit(x, i + k))
BY DEF W!seqAt

(* A sequence has at most four bytes, inside the text, and starts with     *)
(* what cannot continue one; the others continue it (root.zig:128-170).    *)
LEMMA SeqAtIs ==
    ASSUME NEW x \in Text, NEW i \in Nat
    PROVE  /\ W!seqAt(x, i) \in 0..4
           /\ W!seqAt(x, i) > 0 =>
                 /\ i + W!seqAt(x, i) <= Len(x)
                 /\ ~W!isContinuation(W!Unit(x, i))
                 /\ \A k \in 1..(W!seqAt(x, i) - 1) : W!isContinuation(W!Unit(x, i + k))
<1>1. CASE ~(i < Len(x))
  <2>1. W!seqAt(x, i) = 0
    BY <1>1 DEF W!seqAt
  <2> QED BY <2>1
<1>2. CASE i < Len(x)
  <2>1. i + 1 \in 1..Len(x)
    BY <1>2 DEF Text
  <2>2. W!Unit(x, i) \in 0..255
    <3>1. x[i + 1] \in Byte
      BY <2>1 DEF Text
    <3> QED BY <3>1 DEF W!Unit, Byte
  <2>3. /\ W!SequenceLength(W!Unit(x, i)) \in 0..4
        /\ W!SequenceLength(W!Unit(x, i)) > 0 => ~W!isContinuation(W!Unit(x, i))
    BY <2>2 DEF W!SequenceLength, W!isContinuation
  <2> QED BY <1>2, <2>3, SeqAtDef
<1> QED BY <1>1, <1>2

(* What a sequence goes over starts none, and continues it.                *)
LEMMA Inside ==
    ASSUME NEW x \in Text, NEW i \in Nat, NEW k \in 1..3, Over(x, i, k)
    PROVE  /\ W!seqAt(x, i + k) = 0
           /\ W!isContinuation(W!Unit(x, i + k))
           /\ i + k < Len(x)
<1>1. /\ W!seqAt(x, i) \in 0..4 /\ W!seqAt(x, i) > k
      /\ i + W!seqAt(x, i) <= Len(x) /\ Len(x) \in Nat
      /\ W!isContinuation(W!Unit(x, i + k))
  BY SeqAtIs DEF Over, Text
<1>2. i + k \in Nat /\ W!seqAt(x, i + k) \in 0..4
      /\ (W!seqAt(x, i + k) > 0 => ~W!isContinuation(W!Unit(x, i + k)))
  BY SeqAtIs
<1> QED BY <1>1, <1>2

(* Byte i is inside no sequence.                                           *)
Bare(x, i) == \A k \in 1..3 : k <= i => ~Over(x, i - k, k)

(* The middle of four bytes is covered by their sequence only.             *)
LEMMA MidIs ==
    ASSUME NEW x \in Text, NEW i \in Nat, W!isMid(x, i)
    PROVE  /\ i >= 2 /\ i - 2 \in Nat /\ i + 2 <= Len(x)
           /\ W!seqAt(x, i - 2) = 4 /\ W!seqAt(x, i - 1) = 0 /\ W!seqAt(x, i) = 0
           /\ W!seqAt(x, i + 1) = 0
           /\ Bare(x, i - 2)
<1>1. i >= 2 /\ i - 2 \in Nat /\ W!seqAt(x, i - 2) = 4 /\ i < Len(x)
  BY DEF W!isMid
<1>2. i - 2 + 4 <= Len(x) /\ Len(x) \in Nat
  BY <1>1, SeqAtIs DEF Text
<1>3. Over(x, i - 2, 1) /\ Over(x, i - 2, 2) /\ Over(x, i - 2, 3)
  BY <1>1 DEF Over
<1>4. W!seqAt(x, i - 2 + 1) = 0 /\ W!seqAt(x, i - 2 + 2) = 0 /\ W!seqAt(x, i - 2 + 3) = 0
  BY <1>1, <1>3, Inside
<1>5. i - 2 + 1 = i - 1 /\ i - 2 + 2 = i /\ i - 2 + 3 = i + 1
  BY <1>1
<1>6. Bare(x, i - 2)
  <2> SUFFICES ASSUME NEW k \in 1..3, k <= i - 2, Over(x, i - 2 - k, k) PROVE FALSE
    BY DEF Bare
  <2>1. i - 2 - k \in Nat /\ i - 2 - k + k = i - 2
    BY <1>1
  <2> QED BY <2>1, <1>1, Inside
<1> QED BY <1>1, <1>2, <1>4, <1>5, <1>6

(* A position is a byte that is bare, or in the middle of four.            *)
LEMMA PositionIs ==
    ASSUME NEW x \in Text, NEW i \in 0..Len(x)
    PROVE  W!wtf8IsPosition(x, i) <=> Bare(x, i) \/ W!isMid(x, i)
<1> Len(x) \in Nat
  BY DEF Text
<1>1. ASSUME Bare(x, i) PROVE W!wtf8IsPosition(x, i)
  BY <1>1 DEF W!wtf8IsPosition, Bare, Over
<1>2. ASSUME W!isMid(x, i) PROVE W!wtf8IsPosition(x, i)
  <2> SUFFICES ASSUME NEW k \in 1..3, k <= i, W!seqAt(x, i - k) > k
               PROVE  k = 2 /\ W!seqAt(x, i - k) = 4
    BY DEF W!wtf8IsPosition
  <2>1. W!seqAt(x, i - 2) = 4 /\ W!seqAt(x, i - 1) = 0 /\ i >= 2 /\ Bare(x, i - 2)
    BY <1>2, MidIs
  <2>2. CASE k = 3
    <3>1. i - 3 \in Nat /\ W!seqAt(x, i - 3) \in 0..4
      BY <2>2, SeqAtIs
    <3>2. Over(x, i - 2 - 1, 1) /\ 1 <= i - 2
      BY <2>2, <3>1 DEF Over
    <3> QED BY <3>2, <2>1 DEF Bare
  <2> QED BY <2>1, <2>2
<1>3. ASSUME W!wtf8IsPosition(x, i), ~Bare(x, i) PROVE W!isMid(x, i)
  <2>1. PICK k \in 1..3 : k <= i /\ Over(x, i - k, k)
    BY <1>3 DEF Bare
  <2>2. i - k \in Nat /\ i - k + k = i
    BY <2>1
  <2>3. i < Len(x) /\ W!isContinuation(W!Unit(x, i))
    BY <2>1, <2>2, Inside
  <2>4. k = 2 /\ W!seqAt(x, i - k) = 4
    BY <1>3, <2>1, <2>3 DEF W!wtf8IsPosition, Over
  <2> QED BY <2>1, <2>3, <2>4 DEF W!isMid
<1> QED BY <1>1, <1>2, <1>3

(* Before the middle of four bytes is their first half; before the end of  *)
(* a sequence, the one that ends there; else one byte (root.zig:197-213).  *)
LEMMA BeforeMid ==
    ASSUME NEW x \in Text, NEW m, NEW i \in 1..Len(x), W!isMid(x, i)
    PROVE  W!wtf8DecodeBefore(x, m, i) = W!Decoded(W!leadOf(W!midOf(x, i)), i - 2)
<1>1. ~(i = 0 \/ i > Len(x))
  BY DEF Text
<1> QED BY <1>1 DEF W!wtf8DecodeBefore

LEMMA BeforeByte ==
    ASSUME NEW x \in Text, NEW m, NEW i \in 1..Len(x), ~W!isMid(x, i),
           \A k \in 1..4 : k <= i => W!seqAt(x, i - k) # k
    PROVE  W!wtf8DecodeBefore(x, m, i) = W!Decoded(W!Unit(x, i - 1), i - 1)
<1>1. ~(i = 0 \/ i > Len(x))
  BY DEF Text
<1>2. {k \in 1..4 : k <= i /\ W!seqAt(x, i - k) = k} = {}
  OBVIOUS
<1> QED BY <1>1, <1>2, Zenon DEF W!wtf8DecodeBefore

LEMMA BeforeSequence ==
    ASSUME NEW x \in Text, NEW m, NEW i \in 1..Len(x), ~W!isMid(x, i),
           NEW k \in 1..4, k <= i, W!seqAt(x, i - k) = k
    PROVE  W!wtf8DecodeBefore(x, m, i) =
               IF k = 4 /\ m = "code_unit"
               THEN W!Decoded(W!trailOf(W!CodePoint(x, i - 4, 4)), i - 2)
               ELSE W!Decoded(W!CodePoint(x, i - k, k), i - k)
<1>1. ~(i = 0 \/ i > Len(x))
  BY DEF Text
<1>3. ASSUME NEW h \in 1..4, h <= i, W!seqAt(x, i - h) = h,
             NEW j \in 1..4, j < h
      PROVE  W!seqAt(x, i - j) = 0
  <2>1. /\ i - h \in Nat /\ h - j \in 1..3 /\ i - h + (h - j) = i - j
        /\ Over(x, i - h, h - j)
    BY <1>3 DEF Over
  <2> QED BY <2>1, Inside
<1>4. {h \in 1..4 : h <= i /\ W!seqAt(x, i - h) = h} = {k}
  <2> SUFFICES ASSUME NEW h \in 1..4, h <= i, W!seqAt(x, i - h) = h PROVE h = k
    OBVIOUS
  <2>1. ~(h < k) /\ ~(k < h)
    BY <1>3
  <2> QED BY <2>1
<1> DEFINE E == {h \in 1..4 : h <= i /\ W!seqAt(x, i - h) = h}
           c == CHOOSE h \in E : TRUE
<1>5. W!wtf8DecodeBefore(x, m, i) =
          IF E = {} THEN W!Decoded(W!Unit(x, i - 1), i - 1)
          ELSE IF c = 4 /\ m = "code_unit"
          THEN W!Decoded(W!trailOf(W!CodePoint(x, i - 4, 4)), i - 2)
          ELSE W!Decoded(W!CodePoint(x, i - c, c), i - c)
  BY <1>1, Zenon DEF W!wtf8DecodeBefore
<1>6. E = {k}
  BY <1>4
<1> HIDE DEF E
<1>7. E # {} /\ c = k
  BY <1>6
<1> HIDE DEF c
<1> QED BY <1>5, <1>7

Modes == {"code_point", "code_unit"}

(* Where a walk may stand: inside no sequence, or, when units are read,    *)
(* between the halves of a pair.                                           *)
Standing(x, m, i) ==
    /\ i \in 0..Len(x)
    /\ Bare(x, i) \/ W!isMid(x, i)
    /\ m = "code_point" => ~W!isMid(x, i)

(* The end of a sequence that starts at a bare byte is bare, and not in    *)
(* the middle of another.                                                  *)
LEMMA EndIsBare ==
    ASSUME NEW x \in Text, NEW i \in Nat, Bare(x, i), W!seqAt(x, i) > 0
    PROVE  /\ Bare(x, i + W!seqAt(x, i)) /\ ~W!isMid(x, i + W!seqAt(x, i))
           /\ \A k \in 1..4 : k <= i + W!seqAt(x, i) /\ W!seqAt(x, (i + W!seqAt(x, i)) - k) = k
                                 => k = W!seqAt(x, i)
<1> DEFINE len == W!seqAt(x, i)
<1>1. len \in 1..4
  BY SeqAtIs
<1> HIDE DEF len
<1>2. ASSUME NEW k \in 1..3, k < len PROVE W!seqAt(x, (i + len) - k) = 0
  <2>1. len - k \in 1..3 /\ i + (len - k) = (i + len) - k /\ Over(x, i, len - k)
    BY <1>1, <1>2 DEF Over, len
  <2> QED BY <2>1, Inside
<1>3. ASSUME NEW k \in 1..4, k > len, k <= i + len PROVE W!seqAt(x, (i + len) - k) <= k - len
  <2>1. k - len \in 1..3 /\ k - len <= i /\ i - (k - len) = (i + len) - k /\ (i + len) - k \in Nat
    BY <1>1, <1>3
  <2>2. ~Over(x, i - (k - len), k - len)
    BY <2>1 DEF Bare
  <2>3. W!seqAt(x, (i + len) - k) \in 0..4
    BY <2>1, SeqAtIs
  <2> QED BY <2>1, <2>2, <2>3 DEF Over
<1>4. W!seqAt(x, (i + len) - len) = len
  BY <1>1 DEF len
<1>5. ASSUME NEW k \in 1..4, k <= i + len, k # len PROVE W!seqAt(x, (i + len) - k) < k
  <2>1. CASE k < len
    BY <1>1, <1>2, <1>5, <2>1
  <2>2. CASE k > len
    <3>1. (i + len) - k \in Nat
      BY <1>1, <1>5
    <3>2. W!seqAt(x, (i + len) - k) \in 0..4 /\ W!seqAt(x, (i + len) - k) <= k - len
      BY <1>3, <1>5, <2>2, <3>1, SeqAtIs
    <3> QED BY <1>1, <3>2
  <2> QED BY <1>1, <1>5, <2>1, <2>2
<1>6. Bare(x, i + len)
  <2> SUFFICES ASSUME NEW k \in 1..3, k <= i + len PROVE ~(W!seqAt(x, (i + len) - k) > k)
    BY <1>1 DEF Bare, Over
  <2>1. (i + len) - k \in Nat
    BY <1>1
  <2>2. W!seqAt(x, (i + len) - k) \in 0..4
    BY <2>1, SeqAtIs
  <2>3. CASE k = len
    BY <1>1, <1>4, <2>3
  <2>4. CASE k # len
    BY <1>1, <1>5, <2>2, <2>4
  <2> QED BY <2>3, <2>4
<1>7. ~W!isMid(x, i + len)
  <2> SUFFICES ASSUME i + len >= 2, W!seqAt(x, (i + len) - 2) = 4 PROVE FALSE
    BY <1>1 DEF W!isMid
  <2>1. CASE len = 2
    BY <1>4, <2>1
  <2>2. CASE len # 2
    <3>1. W!seqAt(x, (i + len) - 2) < 2
      BY <1>5, <2>2
    <3> QED BY <3>1
  <2> QED BY <2>1, <2>2
<1>8. \A k \in 1..4 : k <= i + len /\ W!seqAt(x, (i + len) - k) = k => k = len
  BY <1>1, <1>5
<1> QED BY <1>6, <1>7, <1>8 DEF len

(* v is read forward from p up to e and backward from e down to p; when    *)
(* units are read, no position is passed over.                             *)
ReadBetween(x, m, p, v, e) ==
    /\ W!wtf8DecodeAt(x, m, p) = W!Decoded(v, e)
    /\ e \in (p + 1)..Len(x) /\ Standing(x, m, e)
    /\ W!wtf8DecodeBefore(x, m, e) = W!Decoded(v, p)
    /\ m = "code_unit" => \A q \in (p + 1)..(e - 1) : ~W!wtf8IsPosition(x, q)

(* What is read forward from where a walk stands ends at the next place to *)
(* stand, and is read again from there (root.zig:173-195).                 *)
LEMMA ForwardFinds ==
    ASSUME NEW x \in Text, NEW m \in Modes, NEW p, Standing(x, m, p), p < Len(x)
    PROVE  \E v, e : ReadBetween(x, m, p, v, e)
<1>0. p \in Nat /\ p \in 0..Len(x) /\ Len(x) \in Nat /\ p + 1 \in 1..Len(x) /\ ~(p >= Len(x))
  BY DEF Standing, Text
<1>1. CASE W!isMid(x, p)
  <2>1. m = "code_unit"
    BY <1>1 DEF Standing, Modes
  <2>2. /\ p >= 2 /\ p - 2 \in Nat /\ p + 2 <= Len(x)
        /\ W!seqAt(x, p - 2) = 4 /\ W!seqAt(x, p) = 0 /\ Bare(x, p - 2)
    BY <1>0, <1>1, MidIs
  <2>3. W!wtf8DecodeAt(x, m, p) = W!Decoded(W!trailOf(W!midOf(x, p)), p + 2)
    BY <1>0, <1>1 DEF W!wtf8DecodeAt
  <2>4. Bare(x, p + 2) /\ ~W!isMid(x, p + 2)
    <3>1. p - 2 + 4 = p + 2
      BY <1>0
    <3> QED BY <2>2, <3>1, EndIsBare
  <2>5. W!wtf8DecodeBefore(x, m, p + 2) = W!Decoded(W!trailOf(W!midOf(x, p)), p)
    <3>1. p + 2 \in 1..Len(x) /\ 4 <= p + 2 /\ (p + 2) - 4 = p - 2 /\ (p + 2) - 2 = p /\ 4 \in 1..4
      BY <1>0, <2>2
    <3>3. W!seqAt(x, (p + 2) - 4) = 4
      BY <2>2, <3>1
    <3>2. W!wtf8DecodeBefore(x, m, p + 2) =
              IF 4 = 4 /\ m = "code_unit"
              THEN W!Decoded(W!trailOf(W!CodePoint(x, (p + 2) - 4, 4)), (p + 2) - 2)
              ELSE W!Decoded(W!CodePoint(x, (p + 2) - 4, 4), (p + 2) - 4)
      BY <2>4, <3>1, <3>3, BeforeSequence
    <3> QED BY <2>1, <3>1, <3>2 DEF W!midOf
  <2>6. \A q \in (p + 1)..((p + 2) - 1) : ~W!wtf8IsPosition(x, q)
    <3>1. (p + 2) - 1 = p + 1 /\ (p + 1) - 3 = p - 2 /\ 3 <= p + 1 /\ p + 1 < Len(x)
          /\ 3 \in 1..3
      BY <1>0, <2>2
    <3>3. W!seqAt(x, (p + 1) - 3) > 3 /\ 3 # 2
      BY <2>2, <3>1
    <3>2. ~W!wtf8IsPosition(x, p + 1)
      BY <3>1, <3>3, Zenon DEF W!wtf8IsPosition
    <3> QED BY <1>0, <3>1, <3>2
  <2>7. p + 2 \in (p + 1)..Len(x)
    BY <1>0, <2>2
  <2>8. Standing(x, m, p + 2)
    BY <1>0, <2>2, <2>4 DEF Standing
  <2>9. PICK v : v = W!trailOf(W!midOf(x, p))
    OBVIOUS
  <2>10. ReadBetween(x, m, p, v, p + 2)
    BY <2>3, <2>5, <2>6, <2>7, <2>8, <2>9 DEF ReadBetween
  <2> QED BY <2>10
<1> USE DEF Standing
<1>2. CASE ~W!isMid(x, p) /\ W!seqAt(x, p) = 0
  <2>1. Bare(x, p)
    BY <1>2
  <2>2. W!wtf8DecodeAt(x, m, p) = W!Decoded(W!Unit(x, p), p + 1)
    BY <1>0, <1>2 DEF W!wtf8DecodeAt
  <2>3. ASSUME NEW k \in 1..4, k <= p + 1 PROVE W!seqAt(x, (p + 1) - k) < k
    <3>1. CASE k = 1
      <4>1. (p + 1) - k = p
        BY <1>0, <3>1
      <4> QED BY <1>2, <3>1, <4>1
    <3>2. CASE k # 1
      <4>1. k - 1 \in 1..3 /\ k - 1 <= p /\ p - (k - 1) = (p + 1) - k /\ (p + 1) - k \in Nat
        BY <1>0, <2>3, <3>2
      <4>2. ~Over(x, p - (k - 1), k - 1)
        BY <2>1, <4>1 DEF Bare
      <4>3. W!seqAt(x, (p + 1) - k) \in 0..4
        BY <4>1, SeqAtIs
      <4> QED BY <4>1, <4>2, <4>3 DEF Over
    <3> QED BY <3>1, <3>2
  <2>4. Bare(x, p + 1)
    <3> SUFFICES ASSUME NEW k \in 1..3, k <= p + 1 PROVE ~(W!seqAt(x, (p + 1) - k) > k)
      BY <1>0 DEF Bare, Over
    <3>1. (p + 1) - k \in Nat
      BY <1>0
    <3>2. W!seqAt(x, (p + 1) - k) \in 0..4
      BY <3>1, SeqAtIs
    <3> QED BY <2>3, <3>2
  <2>5. ~W!isMid(x, p + 1)
    <3> SUFFICES ASSUME p + 1 >= 2, W!seqAt(x, (p + 1) - 2) = 4 PROVE FALSE
      BY DEF W!isMid
    <3>1. W!seqAt(x, (p + 1) - 2) < 2
      BY <2>3
    <3> QED BY <3>1
  <2>6. W!wtf8DecodeBefore(x, m, p + 1) = W!Decoded(W!Unit(x, p), p)
    <3>1. \A k \in 1..4 : k <= p + 1 => W!seqAt(x, (p + 1) - k) # k
      BY <2>3
    <3>2. (p + 1) - 1 = p
      BY <1>0
    <3>3. W!wtf8DecodeBefore(x, m, p + 1) = W!Decoded(W!Unit(x, (p + 1) - 1), (p + 1) - 1)
      BY <1>0, <2>5, <3>1, BeforeByte
    <3> QED BY <3>2, <3>3
  <2>7. p + 1 \in (p + 1)..Len(x) /\ \A q \in (p + 1)..((p + 1) - 1) : FALSE
    BY <1>0
  <2>8. Standing(x, m, p + 1)
    BY <1>0, <2>4, <2>5
  <2>9. ReadBetween(x, m, p, W!Unit(x, p), p + 1)
    BY <2>2, <2>6, <2>7, <2>8 DEF ReadBetween
  <2> QED BY <2>9
<1>3. CASE ~W!isMid(x, p) /\ W!seqAt(x, p) = 4 /\ m = "code_unit"
  <2>1. W!wtf8DecodeAt(x, m, p) = W!Decoded(W!leadOf(W!CodePoint(x, p, 4)), p + 2)
    BY <1>0, <1>3 DEF W!wtf8DecodeAt
  <2>2. p + 4 <= Len(x) /\ W!isContinuation(W!Unit(x, p + 2))
    BY <1>0, <1>3, SeqAtIs
  <2>3. (p + 2) - 2 = p /\ p + 2 >= 2 /\ p + 2 < Len(x) /\ p + 2 \in 1..Len(x) /\ p + 2 \in 0..Len(x)
    BY <1>0, <2>2
  <2>4. W!isMid(x, p + 2) /\ W!midOf(x, p + 2) = W!CodePoint(x, p, 4)
    BY <1>3, <2>2, <2>3 DEF W!isMid, W!midOf
  <2>5. W!wtf8DecodeBefore(x, m, p + 2) = W!Decoded(W!leadOf(W!CodePoint(x, p, 4)), p)
    <3>1. W!wtf8DecodeBefore(x, m, p + 2) = W!Decoded(W!leadOf(W!midOf(x, p + 2)), (p + 2) - 2)
      BY <2>3, <2>4, BeforeMid
    <3> QED BY <2>3, <2>4, <3>1
  <2>6. \A q \in (p + 1)..((p + 2) - 1) : ~W!wtf8IsPosition(x, q)
    <3>1. (p + 2) - 1 = p + 1 /\ (p + 1) - 1 = p /\ 1 <= p + 1 /\ p + 1 < Len(x)
      BY <1>0, <2>2
    <3>2. ~W!wtf8IsPosition(x, p + 1)
      BY <1>3, <3>1 DEF W!wtf8IsPosition
    <3> QED BY <1>0, <3>1, <3>2
  <2>7. p + 2 \in (p + 1)..Len(x)
    BY <1>0, <2>3
  <2>8. Standing(x, m, p + 2)
    BY <1>3, <2>3, <2>4
  <2>9. ReadBetween(x, m, p, W!leadOf(W!CodePoint(x, p, 4)), p + 2)
    BY <2>1, <2>5, <2>6, <2>7, <2>8 DEF ReadBetween
  <2> QED BY <2>9
<1>4. CASE ~W!isMid(x, p) /\ W!seqAt(x, p) # 0 /\ ~(W!seqAt(x, p) = 4 /\ m = "code_unit")
  <2> DEFINE len == W!seqAt(x, p)
  <2>1. len \in 1..4 /\ p + len <= Len(x) /\ Bare(x, p) /\ len > 0
    BY <1>0, <1>4, SeqAtIs
  <2>2. W!wtf8DecodeAt(x, m, p) = W!Decoded(W!CodePoint(x, p, len), p + len)
    BY <1>0, <1>4 DEF W!wtf8DecodeAt
  <2>3. /\ Bare(x, p + len) /\ ~W!isMid(x, p + len)
    BY <1>0, <2>1, EndIsBare
  <2> HIDE DEF len
  <2>4. (p + len) - len = p /\ len <= p + len /\ p + len \in 1..Len(x) /\ p + len \in (p + 1)..Len(x)
    BY <1>0, <2>1
  <2>5. W!wtf8DecodeBefore(x, m, p + len) = W!Decoded(W!CodePoint(x, p, len), p)
    <3>1. W!seqAt(x, (p + len) - len) = len /\ ~(len = 4 /\ m = "code_unit")
      BY <1>4, <2>4 DEF len
    <3>2. W!wtf8DecodeBefore(x, m, p + len) =
              IF len = 4 /\ m = "code_unit"
              THEN W!Decoded(W!trailOf(W!CodePoint(x, (p + len) - 4, 4)), (p + len) - 2)
              ELSE W!Decoded(W!CodePoint(x, (p + len) - len, len), (p + len) - len)
      BY <2>1, <2>3, <2>4, <3>1, BeforeSequence
    <3> QED BY <2>4, <3>1, <3>2
  <2>6. ASSUME m = "code_unit", NEW q \in (p + 1)..((p + len) - 1) PROVE ~W!wtf8IsPosition(x, q)
    <3>1. len # 4
      BY <1>4, <2>6 DEF len
    <3> DEFINE k == q - p
    <3>2. k \in 1..3 /\ k < len /\ q - k = p /\ k <= q /\ q < Len(x)
      BY <1>0, <2>1, <2>6
    <3>3. W!seqAt(x, q - k) = len
      BY <3>2 DEF len
    <3> HIDE DEF k
    <3>4. ~W!wtf8IsPosition(x, q)
      BY <2>1, <3>1, <3>2, <3>3 DEF W!wtf8IsPosition
    <3> QED BY <3>4
  <2>7. Standing(x, m, p + len)
    BY <2>3, <2>4
  <2>8. PICK v : v = W!CodePoint(x, p, len)
    OBVIOUS
  <2>9. ReadBetween(x, m, p, v, p + len)
    BY <2>2, <2>4, <2>5, <2>6, <2>7, <2>8 DEF ReadBetween
  <2> QED BY <2>9
<1> QED BY <1>1, <1>2, <1>3, <1>4

(* What is read backward from where a walk stands starts at the place to   *)
(* stand before, and is read again from there (root.zig:197-213).          *)
LEMMA BackwardFinds ==
    ASSUME NEW x \in Text, NEW m \in Modes, NEW p, Standing(x, m, p), p > 0
    PROVE  \E v, e : /\ W!wtf8DecodeBefore(x, m, p) = W!Decoded(v, e)
                     /\ e \in 0..(p - 1) /\ Standing(x, m, e)
                     /\ W!wtf8DecodeAt(x, m, e) = W!Decoded(v, p)
<1>0. p \in 1..Len(x) /\ p \in Nat /\ Len(x) \in Nat
  BY DEF Standing, Text
<1>1. CASE W!isMid(x, p)
  <2>1. m = "code_unit"
    BY <1>1 DEF Standing, Modes
  <2>2. /\ p - 2 \in Nat /\ p + 2 <= Len(x) /\ W!seqAt(x, p - 2) = 4 /\ Bare(x, p - 2)
    BY <1>0, <1>1, MidIs
  <2>3. W!wtf8DecodeBefore(x, m, p) = W!Decoded(W!leadOf(W!midOf(x, p)), p - 2)
    BY <1>0, <1>1, BeforeMid
  <2>4. ~W!isMid(x, p - 2)
    <3> SUFFICES ASSUME W!isMid(x, p - 2) PROVE FALSE
      OBVIOUS
    <3> QED BY <2>2, MidIs
  <2>5. ~(p - 2 >= Len(x)) /\ (p - 2) + 2 = p /\ p - 2 \in 0..(p - 1) /\ p - 2 \in 0..Len(x)
    BY <1>0, <2>2
  <2>6. W!wtf8DecodeAt(x, m, p - 2) = W!Decoded(W!leadOf(W!midOf(x, p)), p)
    BY <2>1, <2>2, <2>4, <2>5 DEF W!wtf8DecodeAt, W!midOf
  <2>7. Standing(x, m, p - 2)
    BY <2>1, <2>2, <2>5 DEF Standing
  <2> QED BY <2>3, <2>5, <2>6, <2>7
<1> USE DEF Standing
<1>2. CASE ~W!isMid(x, p) /\ \E k \in 1..4 : k <= p /\ W!seqAt(x, p - k) = k
  <2>1. PICK k \in 1..4 : k <= p /\ W!seqAt(x, p - k) = k
    BY <1>2
  <2>2. p - k \in Nat /\ p - k \in 0..(p - 1) /\ p - k \in 0..Len(x) /\ ~(p - k >= Len(x))
        /\ (p - k) + k = p
    BY <1>0, <2>1
  <2>3. /\ Bare(x, p - k) /\ ~W!isMid(x, p - k)
    <3>1. ASSUME NEW j \in 1..3, j <= p - k, Over(x, (p - k) - j, j) PROVE FALSE
      <4>1. (p - k) - j \in Nat /\ ((p - k) - j) + j = p - k
        BY <2>2, <3>1
      <4>2. W!seqAt(x, p - k) = 0
        BY <3>1, <4>1, Inside
      <4> QED BY <2>1, <4>2
    <3>2. ASSUME W!isMid(x, p - k) PROVE FALSE
      BY <2>1, <2>2, <3>2, MidIs
    <3> QED BY <3>1, <3>2 DEF Bare
  <2>4. W!wtf8DecodeBefore(x, m, p) =
            IF k = 4 /\ m = "code_unit"
            THEN W!Decoded(W!trailOf(W!CodePoint(x, p - 4, 4)), p - 2)
            ELSE W!Decoded(W!CodePoint(x, p - k, k), p - k)
    BY <1>0, <1>2, <2>1, BeforeSequence
  <2>5. CASE k = 4 /\ m = "code_unit"
    <3>1. /\ (p - 2) - 2 = p - 4 /\ p - 2 >= 2 /\ p - 2 < Len(x) /\ ~(p - 2 >= Len(x)) /\ (p - 2) + 2 = p
          /\ p - 2 \in Nat /\ p - 2 \in 0..(p - 1) /\ p - 2 \in 0..Len(x) /\ p - 4 \in Nat
          /\ (p - 4) + 2 = p - 2
      BY <1>0, <2>1, <2>5
    <3>2. W!seqAt(x, p - 4) = 4 /\ Over(x, p - 4, 2)
      BY <2>1, <2>5 DEF Over
    <3>3. W!isContinuation(W!Unit(x, p - 2))
      BY <3>1, <3>2, Inside
    <3>4. W!isMid(x, p - 2) /\ W!midOf(x, p - 2) = W!CodePoint(x, p - 4, 4)
      BY <3>1, <3>2, <3>3 DEF W!isMid, W!midOf
    <3>5. W!wtf8DecodeAt(x, m, p - 2) = W!Decoded(W!trailOf(W!CodePoint(x, p - 4, 4)), p)
      BY <3>1, <3>4 DEF W!wtf8DecodeAt
    <3>6. Standing(x, m, p - 2)
      BY <2>5, <3>1, <3>4
    <3> QED BY <2>4, <2>5, <3>1, <3>5, <3>6
  <2>6. CASE ~(k = 4 /\ m = "code_unit")
    <3>1. W!wtf8DecodeAt(x, m, p - k) = W!Decoded(W!CodePoint(x, p - k, k), p)
      BY <2>1, <2>2, <2>3, <2>6 DEF W!wtf8DecodeAt
    <3>2. Standing(x, m, p - k)
      BY <2>2, <2>3
    <3> QED BY <2>2, <2>4, <2>6, <3>1, <3>2
  <2> QED BY <2>5, <2>6
<1>3. CASE ~W!isMid(x, p) /\ ~\E k \in 1..4 : k <= p /\ W!seqAt(x, p - k) = k
  <2>1. Bare(x, p)
    BY <1>3
  <2>2. W!wtf8DecodeBefore(x, m, p) = W!Decoded(W!Unit(x, p - 1), p - 1)
    BY <1>0, <1>3, BeforeByte
  <2>3. ASSUME NEW k \in 1..4, k <= p PROVE W!seqAt(x, p - k) < k
    <3>1. p - k \in Nat
      BY <1>0, <2>3
    <3>2. W!seqAt(x, p - k) \in 0..4 /\ W!seqAt(x, p - k) # k
      BY <1>3, <2>3, <3>1, SeqAtIs
    <3>3. CASE k \in 1..3
      <4>1. ~(W!seqAt(x, p - k) > k)
        BY <2>1, <2>3, <3>3 DEF Bare, Over
      <4> QED BY <3>2, <4>1
    <3>4. CASE k = 4
      BY <3>2, <3>4
    <3> QED BY <3>3, <3>4
  <2>4. /\ p - 1 \in Nat /\ p - 1 \in 0..(p - 1) /\ p - 1 \in 0..Len(x) /\ ~(p - 1 >= Len(x))
        /\ (p - 1) + 1 = p
    BY <1>0
  <2>5. W!seqAt(x, p - 1) = 0
    <3>1. W!seqAt(x, p - 1) \in 0..4 /\ W!seqAt(x, p - 1) < 1
      BY <1>0, <2>3, <2>4, SeqAtIs
    <3> QED BY <3>1
  <2>6. Bare(x, p - 1)
    <3> SUFFICES ASSUME NEW k \in 1..3, k <= p - 1, W!seqAt(x, (p - 1) - k) > k PROVE FALSE
      BY <1>0 DEF Bare, Over
    <3>1. k + 1 \in 1..4 /\ k + 1 <= p /\ p - (k + 1) = (p - 1) - k /\ (p - 1) - k \in Nat
      BY <1>0
    <3>2. W!seqAt(x, (p - 1) - k) < k + 1 /\ W!seqAt(x, (p - 1) - k) \in 0..4
      BY <2>3, <3>1, SeqAtIs
    <3> QED BY <3>2
  <2>7. ~W!isMid(x, p - 1)
    <3> SUFFICES ASSUME p - 1 >= 2, W!seqAt(x, (p - 1) - 2) = 4 PROVE FALSE
      BY <1>0 DEF W!isMid
    <3>1. 3 \in 1..4 /\ 3 <= p /\ p - 3 = (p - 1) - 2
      BY <1>0
    <3>2. W!seqAt(x, p - 3) < 3
      BY <2>3, <3>1
    <3> QED BY <3>1, <3>2
  <2>8. W!wtf8DecodeAt(x, m, p - 1) = W!Decoded(W!Unit(x, p - 1), p)
    BY <2>4, <2>5, <2>7 DEF W!wtf8DecodeAt
  <2>9. Standing(x, m, p - 1)
    BY <2>4, <2>6, <2>7
  <2> QED BY <2>2, <2>4, <2>8, <2>9
<1> QED BY <1>1, <1>2, <1>3

(* A turn of utf16ToWtf8Index's loop (root.zig:219-235).                   *)
NextUnit(x, q) == IF q = -1 THEN -1 ELSE W!wtf8DecodeAt(x, "code_unit", q).pos

(* The loop's positions exist for any number of turns ...                  *)
LEMMA TurnsExist ==
    ASSUME NEW x, NEW m \in Nat
    PROVE  \E g : g = [u \in 0..m |-> IF u = 0 THEN 0 ELSE NextUnit(x, g[u - 1])]
<1> DEFINE bad == {k \in Nat : ~\E g : g = [u \in 0..k |-> IF u = 0 THEN 0 ELSE NextUnit(x, g[u - 1])]}
<1>1. SUFFICES ASSUME bad # {} PROVE FALSE
  OBVIOUS
<1>2. PICK k \in bad : \A j \in bad : k <= j
  <2> HIDE DEF bad
  <2>1. bad \subseteq Nat
    BY DEF bad
  <2> QED BY <1>1, <2>1, LeastNat
<1>3. k \in Nat /\ k # 0
  <2>1. ASSUME k = 0 PROVE FALSE
    <3> DEFINE g == [u \in 0..0 |-> 0]
    <3>1. g = [u \in 0..0 |-> IF u = 0 THEN 0 ELSE NextUnit(x, g[u - 1])]
      OBVIOUS
    <3> QED BY <2>1, <3>1
  <2> QED BY <2>1
<1>4. k - 1 \in Nat /\ k - 1 \notin bad
  BY <1>2, <1>3
<1>5. PICK g : g = [u \in 0..(k - 1) |-> IF u = 0 THEN 0 ELSE NextUnit(x, g[u - 1])]
  BY <1>4
<1> DEFINE h == [u \in 0..k |-> IF u = k THEN NextUnit(x, g[k - 1]) ELSE g[u]]
<1>6. \A u \in 0..k : h[u] = IF u = 0 THEN 0 ELSE NextUnit(x, h[u - 1])
  <2> SUFFICES ASSUME NEW u \in 0..k PROVE h[u] = IF u = 0 THEN 0 ELSE NextUnit(x, h[u - 1])
    OBVIOUS
  <2>1. CASE u = 0
    <3>1. h[u] = g[u] /\ g[u] = 0
      BY <1>3, <1>5, <2>1
    <3> QED BY <2>1, <3>1
  <2>2. CASE u # 0
    <3>1. u - 1 \in 0..(k - 1) /\ u - 1 \in 0..k /\ u - 1 # k
      BY <1>3, <2>2
    <3>2. h[u - 1] = g[u - 1]
      BY <3>1
    <3>3. CASE u = k
      BY <2>2, <3>2, <3>3
    <3>4. CASE u # k
      <4>1. u \in 0..(k - 1) /\ h[u] = g[u]
        BY <1>3, <3>4
      <4>2. g[u] = NextUnit(x, g[u - 1])
        BY <1>5, <2>2, <4>1
      <4> QED BY <2>2, <3>2, <4>1, <4>2
    <3> QED BY <3>3, <3>4
  <2> QED BY <2>1, <2>2
<1>7. h = [u \in 0..k |-> h[u]]
  OBVIOUS
<1> HIDE DEF h
<1>8. h = [u \in 0..k |-> IF u = 0 THEN 0 ELSE NextUnit(x, h[u - 1])]
  BY <1>6, <1>7
<1> QED BY <1>2, <1>8

(* ... so the function has them.                                           *)
LEMMA ByteOfUnitIs ==
    ASSUME NEW x \in Text
    PROVE  /\ DOMAIN W!ByteOfUnit(x) = 0..Len(x)
           /\ W!ByteOfUnit(x)[0] = 0
           /\ \A u \in 1..Len(x) : W!ByteOfUnit(x)[u] = NextUnit(x, W!ByteOfUnit(x)[u - 1])
<1>0. Len(x) \in Nat
  BY DEF Text
<1> DEFINE after == CHOOSE g : g = [u \in 0..Len(x) |->
               IF u = 0 THEN 0
               ELSE IF g[u - 1] = -1 THEN -1
               ELSE W!wtf8DecodeAt(x, "code_unit", g[u - 1]).pos]
<1>1. W!ByteOfUnit(x) = after
  BY Zenon DEF W!ByteOfUnit
<1>2. \E g : g = [u \in 0..Len(x) |->
               IF u = 0 THEN 0
               ELSE IF g[u - 1] = -1 THEN -1
               ELSE W!wtf8DecodeAt(x, "code_unit", g[u - 1]).pos]
  BY <1>0, TurnsExist, Zenon DEF NextUnit
<1>3. after = [u \in 0..Len(x) |->
               IF u = 0 THEN 0
               ELSE IF after[u - 1] = -1 THEN -1
               ELSE W!wtf8DecodeAt(x, "code_unit", after[u - 1]).pos]
  BY <1>2, Zenon
<1> HIDE DEF after
<1>4. DOMAIN after = 0..Len(x) /\ after[0] = 0
  BY <1>0, <1>3
<1>5. \A u \in 1..Len(x) : after[u] = NextUnit(x, after[u - 1])
  <2> SUFFICES ASSUME NEW u \in 1..Len(x) PROVE after[u] = NextUnit(x, after[u - 1])
    OBVIOUS
  <2>1. u \in 0..Len(x) /\ u # 0
    BY <1>0
  <2> QED BY <1>3, <2>1, Zenon DEF NextUnit
<1> QED BY <1>1, <1>4, <1>5

(* Positions come after one another in units: from one before the end the  *)
(* next is the next position, from the end there is none.                  *)
LEMMA NextUnitIs ==
    ASSUME NEW x \in Text, NEW q \in 0..Len(x), W!wtf8IsPosition(x, q)
    PROVE  /\ q = Len(x) => NextUnit(x, q) = -1
           /\ q < Len(x) => /\ NextUnit(x, q) \in (q + 1)..Len(x)
                            /\ W!wtf8IsPosition(x, NextUnit(x, q))
                            /\ \A r \in (q + 1)..(NextUnit(x, q) - 1) : ~W!wtf8IsPosition(x, r)
<1>0. Len(x) \in Nat /\ q # -1
  BY DEF Text
<1>1. CASE q = Len(x)
  BY <1>0, <1>1 DEF NextUnit, W!wtf8DecodeAt, W!None
<1>2. CASE q < Len(x)
  <2>1. Standing(x, "code_unit", q)
    BY PositionIs DEF Standing
  <2>2. PICK v, e : ReadBetween(x, "code_unit", q, v, e)
    BY <1>2, <2>1, ForwardFinds DEF Modes
  <2>3. NextUnit(x, q) = e
    BY <1>0, <2>2 DEF NextUnit, ReadBetween, W!Decoded
  <2>4. e \in 0..Len(x) /\ W!wtf8IsPosition(x, e)
    <3>1. Standing(x, "code_unit", e)
      BY <2>2 DEF ReadBetween
    <3> QED BY <3>1, PositionIs DEF Standing
  <2> QED BY <1>0, <1>2, <2>2, <2>3, <2>4 DEF ReadBetween
<1> QED BY <1>0, <1>1, <1>2

(* After u units: a position, past those after fewer, or past the end.     *)
AfterUnits(x, u) ==
    LET byte == W!ByteOfUnit(x)
    IN  \/ byte[u] = -1
        \/ /\ byte[u] \in 0..Len(x) /\ byte[u] >= u /\ W!wtf8IsPosition(x, byte[u])
           /\ \A v \in 0..(u - 1) : byte[v] \in 0..Len(x) /\ byte[v] < byte[u]

LEMMA UnitsInOrder ==
    ASSUME NEW x \in Text, NEW u \in 0..Len(x)
    PROVE  AfterUnits(x, u)
<1>0. Len(x) \in Nat
  BY DEF Text
<1> DEFINE bad == {k \in 0..Len(x) : ~AfterUnits(x, k)}
           byte == W!ByteOfUnit(x)
<1>1. SUFFICES ASSUME bad # {} PROVE FALSE
  OBVIOUS
<1>2. PICK k \in bad : \A j \in bad : k <= j
  <2> HIDE DEF bad
  <2>1. bad \subseteq Nat
    BY <1>0 DEF bad
  <2> QED BY <1>1, <2>1, LeastNat
<1>3. k \in 0..Len(x) /\ ~AfterUnits(x, k)
  OBVIOUS
<1>4. byte[0] = 0 /\ \A j \in 1..Len(x) : byte[j] = NextUnit(x, byte[j - 1])
  BY ByteOfUnitIs
<1>5. k # 0
  <2>1. W!wtf8IsPosition(x, 0)
    BY <1>0 DEF W!wtf8IsPosition
  <2>2. AfterUnits(x, 0)
    BY <1>0, <1>4, <2>1 DEF AfterUnits
  <2> QED BY <1>3, <2>2
<1>6. k - 1 \in 0..Len(x) /\ k \in 1..Len(x) /\ k - 1 < k
  BY <1>0, <1>3, <1>5
<1>7. AfterUnits(x, k - 1)
  BY <1>2, <1>6
<1>8. byte[k] = NextUnit(x, byte[k - 1])
  BY <1>4, <1>6
<1> HIDE DEF byte, bad
<1>9. \/ byte[k - 1] = -1
      \/ /\ byte[k - 1] \in 0..Len(x) /\ byte[k - 1] >= k - 1 /\ W!wtf8IsPosition(x, byte[k - 1])
         /\ \A v \in 0..((k - 1) - 1) : byte[v] \in 0..Len(x) /\ byte[v] < byte[k - 1]
  BY <1>7 DEF AfterUnits, byte
<1>10. byte[k] # -1 => byte[k - 1] # -1 /\ byte[k - 1] < Len(x)
  <2>1. byte[k - 1] = -1 => byte[k] = -1
    BY <1>8 DEF NextUnit
  <2>2. byte[k - 1] \in 0..Len(x) /\ W!wtf8IsPosition(x, byte[k - 1]) /\ byte[k - 1] = Len(x) => byte[k] = -1
    BY <1>8, NextUnitIs
  <2> QED BY <1>0, <1>9, <2>1, <2>2
<1>11. AfterUnits(x, k)
  <2> SUFFICES ASSUME byte[k] # -1
               PROVE  /\ byte[k] \in 0..Len(x) /\ byte[k] >= k /\ W!wtf8IsPosition(x, byte[k])
                      /\ \A v \in 0..(k - 1) : byte[v] \in 0..Len(x) /\ byte[v] < byte[k]
    BY DEF AfterUnits, byte
  <2>1. /\ byte[k - 1] \in 0..Len(x) /\ byte[k - 1] >= k - 1 /\ W!wtf8IsPosition(x, byte[k - 1])
        /\ byte[k - 1] < Len(x)
        /\ \A v \in 0..((k - 1) - 1) : byte[v] \in 0..Len(x) /\ byte[v] < byte[k - 1]
    BY <1>9, <1>10
  <2>2. byte[k] \in (byte[k - 1] + 1)..Len(x) /\ W!wtf8IsPosition(x, byte[k])
    BY <1>8, <2>1, NextUnitIs
  <2>3. ASSUME NEW v \in 0..(k - 1) PROVE byte[v] \in 0..Len(x) /\ byte[v] < byte[k]
    <3>1. CASE v = k - 1
      BY <1>0, <2>1, <2>2, <3>1
    <3>2. CASE v # k - 1
      <4>1. v \in 0..((k - 1) - 1)
        BY <1>6, <3>2
      <4>2. byte[v] \in 0..Len(x) /\ byte[v] < byte[k - 1]
        BY <2>1, <4>1
      <4> QED BY <1>0, <2>1, <2>2, <4>2
    <3> QED BY <3>1, <3>2
  <2> QED BY <1>0, <1>6, <2>1, <2>2, <2>3
<1> QED BY <1>3, <1>11

(* Every position comes after some number of units.                        *)
LEMMA UnitOfPosition ==
    ASSUME NEW x \in Text, NEW q \in 0..Len(x), W!wtf8IsPosition(x, q)
    PROVE  \E u \in 0..Len(x) : W!ByteOfUnit(x)[u] = q
<1>0. Len(x) \in Nat
  BY DEF Text
<1> DEFINE byte == W!ByteOfUnit(x)
           T == {k \in 0..Len(x) : byte[k] = -1 \/ byte[k] >= q}
<1>1. Len(x) \in T
  <2>1. AfterUnits(x, Len(x)) /\ Len(x) \in 0..Len(x)
    BY <1>0, UnitsInOrder
  <2> QED BY <1>0, <2>1 DEF AfterUnits
<1>2. byte[0] = 0 /\ \A j \in 1..Len(x) : byte[j] = NextUnit(x, byte[j - 1])
  BY ByteOfUnitIs
<1>3. PICK k \in T : \A j \in T : k <= j
  <2> HIDE DEF T
  <2>1. T \subseteq Nat
    BY <1>0 DEF T
  <2> QED BY <1>1, <2>1, LeastNat
<1>4. k \in 0..Len(x) /\ (byte[k] = -1 \/ byte[k] >= q)
  OBVIOUS
<1>5. CASE k = 0
  <2>1. q = 0
    BY <1>0, <1>2, <1>4, <1>5
  <2> QED BY <1>2, <1>4, <1>5, <2>1
<1>6. CASE k # 0
  <2>1. k - 1 \in 0..Len(x) /\ k \in 1..Len(x) /\ ~(k <= k - 1)
    BY <1>0, <1>4, <1>6
  <2>2. ~(byte[k - 1] = -1) /\ ~(byte[k - 1] >= q)
    BY <1>3, <2>1
  <2>3. byte[k] = NextUnit(x, byte[k - 1]) /\ AfterUnits(x, k - 1)
    BY <1>2, <2>1, UnitsInOrder
  <2>4. byte[k - 1] \in 0..Len(x) /\ W!wtf8IsPosition(x, byte[k - 1]) /\ byte[k - 1] < q
    BY <1>0, <2>2, <2>3 DEF AfterUnits
  <2> HIDE DEF byte, T
  <2>5. /\ byte[k] \in (byte[k - 1] + 1)..Len(x)
        /\ \A r \in (byte[k - 1] + 1)..(byte[k] - 1) : ~W!wtf8IsPosition(x, r)
    BY <1>0, <2>3, <2>4, NextUnitIs
  <2>6. q \notin (byte[k - 1] + 1)..(byte[k] - 1)
    BY <2>5
  <2>7. byte[k] = q
    BY <1>0, <1>4, <2>4, <2>5, <2>6
  <2> QED BY <1>4, <2>7 DEF byte
<1> QED BY <1>5, <1>6

(* Units and positions number each other (root.zig:219-235).               *)
LEMMA UnitsNumber ==
    ASSUME NEW x \in Text, NEW q \in 0..Len(x), W!wtf8IsPosition(x, q)
    PROVE  /\ {W!ByteOfUnit(x)[u] : u \in 0..Len(x)} \ {-1} =
                  {i \in 0..Len(x) : W!wtf8IsPosition(x, i)}
           /\ W!utf16ToWtf8Index(x, W!wtf8ToUtf16Index(x, q)) = q
<1>0. Len(x) \in Nat /\ \A i \in 0..Len(x) : i # -1
  BY DEF Text
<1> DEFINE byte == W!ByteOfUnit(x)
<1>1. ASSUME NEW u \in 0..Len(x), byte[u] # -1 PROVE byte[u] \in 0..Len(x) /\ W!wtf8IsPosition(x, byte[u])
  BY <1>1, UnitsInOrder DEF AfterUnits
<1>2. ASSUME NEW i \in 0..Len(x), W!wtf8IsPosition(x, i) PROVE \E u \in 0..Len(x) : byte[u] = i
  BY <1>2, UnitOfPosition
<1>3. {byte[u] : u \in 0..Len(x)} \ {-1} = {i \in 0..Len(x) : W!wtf8IsPosition(x, i)}
  <2> HIDE DEF byte
  <2> QED BY <1>0, <1>1, <1>2
<1> DEFINE Reaches(u) == byte[u] >= q /\ \A v \in 0..(u - 1) : byte[v] < q
           c == CHOOSE u \in 0..Len(x) : byte[u] >= q /\ \A v \in 0..(u - 1) : byte[v] < q
<1>4. PICK k \in 0..Len(x) : byte[k] = q
  BY <1>2
<1>5. \A v \in 0..(k - 1) : byte[v] < q
  BY <1>0, <1>4, UnitsInOrder DEF AfterUnits
<1>6. W!wtf8ToUtf16Index(x, q) = c
  BY Zenon DEF W!wtf8ToUtf16Index
<1> HIDE DEF byte
<1>7. c \in 0..Len(x) /\ byte[c] >= q /\ \A v \in 0..(c - 1) : byte[v] < q
  <2>1. byte[k] >= q
    BY <1>0, <1>4
  <2> QED BY <1>4, <1>5, <2>1
<1> HIDE DEF c
<1>8. c = k
  <2>1. CASE c < k
    <3>1. c \in 0..(k - 1)
      BY <1>0, <1>4, <1>7, <2>1
    <3>2. byte[c] < q
      BY <1>5, <3>1
    <3>3. byte[c] # -1 => byte[c] \in 0..Len(x)
      BY <1>1, <1>7
    <3> QED BY <1>0, <1>7, <3>2, <3>3
  <2>2. CASE k < c
    <3>1. k \in 0..(c - 1)
      BY <1>0, <1>4, <1>7, <2>2
    <3> QED BY <1>0, <1>4, <1>7, <3>1
  <2> QED BY <1>0, <1>4, <1>7, <2>1, <2>2
<1>9. W!utf16ToWtf8Index(x, c) = byte[c]
  BY DEF W!utf16ToWtf8Index, byte
<1> QED BY <1>3, <1>4, <1>6, <1>8, <1>9 DEF byte

(* The walk stands where it may, in a text of bytes.                       *)
WalkInv == s \in Text /\ mode \in Modes /\ Standing(s, mode, b)

(* What the walk promises follows from where it stands.                    *)
LEMMA StandingAgrees == ASSUME WalkInv PROVE W!WalksAgree
<1>0. s \in Text /\ mode \in Modes /\ Standing(s, mode, b) /\ b \in 0..Len(s)
  BY DEF WalkInv, Standing
<1>1. W!wtf8IsPosition(s, b)
  BY <1>0, PositionIs DEF Standing
<1>2. W!OnPositions
  BY <1>0, <1>1 DEF W!OnPositions, Standing
<1>3. W!IndexesInverse
  BY <1>0, <1>1, UnitsNumber, Zenon DEF W!IndexesInverse
<1>4. ASSUME b < Len(s)
      PROVE  LET d == W!wtf8DecodeAt(s, mode, b)
             IN W!wtf8DecodeBefore(s, mode, d.pos) = [d EXCEPT !.pos = b]
  <2>1. PICK v, e : ReadBetween(s, mode, b, v, e)
    BY <1>0, <1>4, ForwardFinds
  <2> QED BY <2>1 DEF ReadBetween, W!Decoded
<1>5. ASSUME b > 0
      PROVE  LET d == W!wtf8DecodeBefore(s, mode, b)
             IN W!wtf8DecodeAt(s, mode, d.pos) = [d EXCEPT !.pos = b]
  <2>1. PICK v, e : /\ W!wtf8DecodeBefore(s, mode, b) = W!Decoded(v, e)
                    /\ W!wtf8DecodeAt(s, mode, e) = W!Decoded(v, b)
    BY <1>0, <1>5, BackwardFinds
  <2> QED BY <2>1 DEF W!Decoded
<1> QED BY <1>2, <1>3, <1>4, <1>5 DEF W!WalksAgree, W!SameBothWays

(* Reading forward and backward over any bytes in either mode is one       *)
(* numbering of the same positions, and it agrees with the index in code   *)
(* units, whatever the bytes and however long (root.zig:86-98, 173-235).   *)
THEOREM WalksAlwaysAgree == Spec => []WalksAgree
<1> DEFINE Inv == part = "walk" => WalkInv
<1>1. Init => Inv
  <2> SUFFICES ASSUME Init, part = "walk" PROVE WalkInv
    OBVIOUS
  <2>1. /\ s \in W!BoundedSeq(Bytes, MaxLen)
        /\ mode \in Modes
        /\ b \in {W!wtf8CharStart(s, mode, i) : i \in {j \in 0..Len(s) : W!wtf8IsPosition(s, j)}}
    BY DEF Init, W!Init, Modes
  <2>2. s \in Text
    <3>1. PICK m \in 0..MaxLen : s \in [1..m -> Bytes]
      BY <2>1 DEF W!BoundedSeq, W!SeqOf
    <3>2. m \in Nat
      BY <3>1, WalkAssumption
    <3>4. \A j \in 1..m : s[j] \in Byte
      <4>1. Bytes \subseteq Byte
        BY WalkAssumption DEF Byte
      <4> QED BY <3>1, <4>1
    <3>3. s \in Seq(Byte)
      BY <3>1, <3>2, <3>4
    <3> QED BY <3>3 DEF Text
  <2>3. PICK i \in 0..Len(s) : W!wtf8IsPosition(s, i) /\ b = W!wtf8CharStart(s, mode, i)
    BY <2>1
  <2>4. i \in Nat
    BY <2>2 DEF Text
  <2>5. Standing(s, mode, b)
    <3>1. CASE mode = "code_point" /\ W!isMid(s, i)
      <4>1. b = i - 2
        BY <2>3, <3>1 DEF W!wtf8CharStart
      <4>2. i - 2 \in Nat /\ Bare(s, i - 2) /\ W!seqAt(s, i - 2) = 4
        BY <2>2, <2>4, <3>1, MidIs
      <4>3. ~W!isMid(s, i - 2)
        BY <2>2, <4>2, MidIs
      <4>4. i - 2 \in 0..Len(s)
        BY <2>2, <4>2 DEF Text
      <4> QED BY <4>1, <4>2, <4>3, <4>4 DEF Standing
    <3>2. CASE ~(mode = "code_point" /\ W!isMid(s, i))
      <4>1. b = i
        BY <2>3, <3>2 DEF W!wtf8CharStart
      <4> QED BY <2>2, <2>3, <3>2, <4>1, PositionIs DEF Standing
    <3> QED BY <3>1, <3>2
  <2> QED BY <2>1, <2>2, <2>5 DEF WalkInv
<1>2. Inv /\ [Next]_all => Inv'
  <2> SUFFICES ASSUME Inv, [Next]_all, part' = "walk" PROVE WalkInv'
    OBVIOUS
  <2>1. part = "walk" /\ WalkInv
    BY DEF Next, InVerdict, InDiscover, InBaseline, InBridge, InHostExec, InLoops, InWalk, all
  <2>2. W!Forward \/ W!Backward \/ UNCHANGED walk
    BY <2>1 DEF Next, InVerdict, InDiscover, InBaseline, InBridge, InHostExec, InLoops, InWalk, all
  <2>3. CASE W!Forward
    <3>1. PICK v, e : ReadBetween(s, mode, b, v, e)
      BY <2>1, <2>3, ForwardFinds DEF WalkInv, W!Forward
    <3>2. b' = e /\ UNCHANGED <<s, mode>>
      BY <2>3, <3>1 DEF W!Forward, ReadBetween, W!Decoded
    <3> QED BY <2>1, <3>1, <3>2 DEF WalkInv, ReadBetween
  <2>4. CASE W!Backward
    <3>1. PICK v, e : /\ W!wtf8DecodeBefore(s, mode, b) = W!Decoded(v, e)
                      /\ Standing(s, mode, e)
      BY <2>1, <2>4, BackwardFinds DEF WalkInv, W!Backward
    <3>2. b' = e /\ UNCHANGED <<s, mode>>
      BY <2>4, <3>1 DEF W!Backward, W!Decoded
    <3> QED BY <2>1, <3>1, <3>2 DEF WalkInv
  <2>5. CASE UNCHANGED walk
    BY <2>1, <2>5 DEF walk, WalkInv
  <2> QED BY <2>2, <2>3, <2>4, <2>5
<1>3. Inv => WalksAgree
  BY StandingAgrees DEF WalksAgree
<1> HIDE DEF Inv
<1> QED BY <1>1, <1>2, <1>3, PTL DEF Spec

-----------------------------------------------------------------------------
(* The sample. *)

Dirs == DOMAIN Groups
Paths == DOMAIN FileMeta

(* The lists are the directories' files in some order, each file once.     *)
Lists ==
    /\ DOMAIN lists = Dirs
    /\ \A i \in Dirs : /\ lists[i] \in Seq(Paths) /\ DOMAIN lists[i] = 1..Len(Groups[i])
                       /\ Len(lists[i]) = Len(Groups[i])
                       /\ S!ToSet(lists[i]) = S!ToSet(Groups[i])
    /\ \A i, j \in Dirs : \A k \in 1..Len(Groups[i]), l \in 1..Len(Groups[j]) :
          lists[i][k] = lists[j][l] => i = j /\ k = l

LEMMA FilesAre ==
    /\ IsFiniteSet(Paths) /\ Cardinality(Paths) \in Nat
    /\ \A f \in Paths : \E i \in Dirs : \E k \in DOMAIN Groups[i] : Groups[i][k] = f
    /\ \A i, j \in Dirs : \A k \in DOMAIN Groups[i], l \in DOMAIN Groups[j] :
          Groups[i][k] = Groups[j][l] => i = j /\ k = l
<1>1. IsFiniteSet(Paths)
  BY FilesAssumption DEF Paths
<1>2. Cardinality(Paths) \in Nat
  BY <1>1, FS_CardinalityType
<1>3. \A f \in Paths : \E i \in Dirs : \E k \in DOMAIN Groups[i] : Groups[i][k] = f
  BY FilesAssumption DEF Paths, Dirs
<1>4. \A i, j \in Dirs : \A k \in DOMAIN Groups[i], l \in DOMAIN Groups[j] :
          Groups[i][k] = Groups[j][l] => i = j /\ k = l
  BY FilesAssumption DEF Dirs
<1> QED BY <1>1, <1>2, <1>3, <1>4

LEMMA GroupsAre ==
    /\ Len(Groups) \in Nat /\ Dirs = 1..Len(Groups)
    /\ \A i \in Dirs : /\ Groups[i] \in Seq(Paths) /\ Len(Groups[i]) \in Nat
                       /\ DOMAIN Groups[i] = 1..Len(Groups[i])
<1>1. Groups \in Seq(Seq(Paths))
  BY FilesAssumption DEF Paths
<1>2. Len(Groups) \in Nat /\ Dirs = 1..Len(Groups)
  BY <1>1 DEF Dirs
<1>3. ASSUME NEW i \in Dirs PROVE Groups[i] \in Seq(Paths)
  BY <1>1, <1>2, <1>3
<1>4. \A x \in Seq(Paths) : Len(x) \in Nat /\ DOMAIN x = 1..Len(x)
  OBVIOUS
<1> QED BY <1>2, <1>3, <1>4

(* A shuffled list has the files of the list it was, each once             *)
(* (run.mjs:139-144).                                                      *)
LEMMA ShuffledIs ==
    ASSUME NEW i \in Dirs, NEW l \in S!Shuffled(Groups[i])
    PROVE  /\ l \in [1..Len(Groups[i]) -> S!ToSet(Groups[i])]
           /\ S!ToSet(l) = S!ToSet(Groups[i])
           /\ \A j, k \in 1..Len(Groups[i]) : l[j] = l[k] => j = k
<1> DEFINE D == 1..Len(Groups[i])
           T == S!ToSet(Groups[i])
<1>1. l \in [D -> T] /\ S!ToSet(l) = T
  BY GroupsAre DEF S!Shuffled
<1>2. T = {Groups[i][k] : k \in D}
  BY GroupsAre DEF S!ToSet
<1>3. IsFiniteSet(D)
  BY GroupsAre, FS_Interval
<1>4. Groups[i] \in Injection(D, T)
  <2>1. \A j, k \in D : Groups[i][j] = Groups[i][k] => j = k
    <3>1. DOMAIN Groups[i] = D
      BY GroupsAre
    <3> HIDE DEF D
    <3>2. \A j, k \in DOMAIN Groups[i] : Groups[i][j] = Groups[i][k] => j = k
      BY FilesAre, Zenon
    <3> QED BY <3>1, <3>2
  <2>2. Groups[i] \in [D -> T]
    BY <1>2, GroupsAre
  <2> HIDE DEF D, T
  <2> QED BY <2>1, <2>2 DEF Injection, IsInjective
<1>5. Groups[i] \in Surjection(D, T)
  <2>1. Groups[i] \in [D -> T]
    BY <1>2, GroupsAre
  <2> HIDE DEF D
  <2> QED BY <1>2, <2>1 DEF Surjection
<1>6. l \in Surjection(D, T)
  <2>1. T = {l[k] : k \in D}
    BY <1>1 DEF S!ToSet
  <2> HIDE DEF D, T
  <2> QED BY <1>1, <2>1 DEF Surjection
<1> HIDE DEF D, T
<1>7. Cardinality(D) = Cardinality(T)
  BY <1>3, <1>4, <1>5, FS_Surjection
<1>8. l \in Injection(D, T)
  BY <1>3, <1>6, <1>7, FS_SurjSameCardinalityImpliesInj
<1>9. \A j, k \in D : l[j] = l[k] => j = k
  BY <1>8 DEF Injection, IsInjective
<1> QED BY <1>1, <1>9 DEF D, T

LEMMA InitLists == ASSUME S!Init PROVE Lists
<1>1. DOMAIN lists = Dirs /\ \A i \in Dirs : lists[i] \in S!Shuffled(Groups[i])
  BY DEF S!Init, Dirs
<1>2. ASSUME NEW i \in Dirs
      PROVE  /\ lists[i] \in Seq(Paths) /\ DOMAIN lists[i] = 1..Len(Groups[i])
             /\ Len(lists[i]) = Len(Groups[i])
             /\ S!ToSet(lists[i]) = S!ToSet(Groups[i])
             /\ \A j, k \in 1..Len(Groups[i]) : lists[i][j] = lists[i][k] => j = k
  <2>1. /\ lists[i] \in [1..Len(Groups[i]) -> S!ToSet(Groups[i])]
        /\ S!ToSet(lists[i]) = S!ToSet(Groups[i])
        /\ \A j, k \in 1..Len(Groups[i]) : lists[i][j] = lists[i][k] => j = k
    BY <1>1, ShuffledIs
  <2>2. Groups[i] \in Seq(Paths) /\ Len(Groups[i]) \in Nat /\ DOMAIN Groups[i] = 1..Len(Groups[i])
    BY GroupsAre
  <2>3. S!ToSet(Groups[i]) \subseteq Paths
    BY <2>2 DEF S!ToSet
  <2>4. lists[i] \in [1..Len(Groups[i]) -> Paths]
    BY <2>1, <2>3
  <2> QED BY <2>1, <2>2, <2>4
<1>3. ASSUME NEW i \in Dirs, NEW j \in Dirs, NEW k \in 1..Len(Groups[i]), NEW l \in 1..Len(Groups[j]),
             lists[i][k] = lists[j][l]
      PROVE  i = j /\ k = l
  <2>1. /\ lists[i][k] \in S!ToSet(lists[i]) /\ lists[j][l] \in S!ToSet(lists[j])
    BY <1>2 DEF S!ToSet
  <2>2. /\ lists[i][k] \in S!ToSet(Groups[i]) /\ lists[i][k] \in S!ToSet(Groups[j])
    BY <1>2, <1>3, <2>1
  <2>3. PICK k2 \in DOMAIN Groups[i], l2 \in DOMAIN Groups[j] :
            lists[i][k] = Groups[i][k2] /\ lists[i][k] = Groups[j][l2]
    BY <2>2 DEF S!ToSet
  <2>4. i = j
    <3>1. Groups[i][k2] = Groups[j][l2]
      BY <2>3
    <3> QED BY <3>1, FilesAre
  <2> QED BY <1>2, <1>3, <2>4
<1> QED BY <1>1, <1>2, <1>3 DEF Lists

(* t[i] files of each directory i are picked: all that the rounds so far   *)
(* give, and one more of the directories whose turn has been while files   *)
(* were wanted.                                                            *)
Given(t) ==
    /\ t \in [Dirs -> Nat]
    /\ \A i \in Dirs : t[i] <= Len(Groups[i]) /\ t[i] <= round + 1
                       /\ (t[i] < round => t[i] = Len(Groups[i]))
    /\ nextFile = 0 => \A i \in Dirs :
          /\ i >= turn => t[i] <= round
          /\ i < turn /\ Len(picked) < n => t[i] = round + 1 \/ t[i] = Len(Groups[i])
    /\ \A j \in DOMAIN picked : \E i \in Dirs : \E k \in 1..t[i] : picked[j] = lists[i][k]
    /\ \A i \in Dirs : \A k \in 1..t[i] : \E j \in DOMAIN picked : picked[j] = lists[i][k]

Sampling ==
    /\ Lists /\ n \in Nat /\ round \in Nat /\ turn \in Nat \ {0} /\ nextFile \in Nat
    /\ picked \in Seq(Paths) /\ Len(picked) <= n
    /\ \A j, k \in DOMAIN picked : picked[j] = picked[k] => j = k
    /\ \E t : Given(t)
    /\ nextFile = 0 /\ ~any => Len(picked) < n /\ \A i \in Dirs : i < turn => Len(Groups[i]) <= round
    /\ nextFile > 0 => S!RightSize

(* A file once in each place: as many places as files.                     *)
LEMMA PickedCount ==
    ASSUME Sampling
    PROVE  /\ IsFiniteSet(Paths) /\ Cardinality(Paths) \in Nat /\ Len(picked) <= Cardinality(Paths)
           /\ S!ToSet(picked) = Paths => Len(picked) = Cardinality(Paths)
<1> DEFINE m == Len(picked)
           D == 1..m
           T == S!ToSet(picked)
<1>1. m \in Nat /\ DOMAIN picked = D /\ picked \in [D -> Paths]
  BY DEF Sampling
<1>2. IsFiniteSet(Paths) /\ Cardinality(Paths) \in Nat
  BY FilesAre
<1>3. IsFiniteSet(D) /\ Cardinality(D) = m
  <2> HIDE DEF m
  <2>1. 1 \in Int /\ m \in Int /\ (IF 1 > m THEN 0 ELSE (m - 1) + 1) = m
    BY <1>1
  <2> QED BY <1>1, <2>1, FS_Interval
<1>4. picked \in Injection(D, Paths)
  <2>1. \A j, k \in D : picked[j] = picked[k] => j = k
    BY <1>1 DEF Sampling
  <2> HIDE DEF D
  <2> QED BY <1>1, <2>1 DEF Injection, IsInjective
<1> HIDE DEF D, m
<1>5. m <= Cardinality(Paths)
  BY <1>2, <1>3, <1>4, FS_Injection
<1>6. ASSUME T = Paths PROVE m = Cardinality(Paths)
  <2>1. \A p \in Paths : \E j \in D : picked[j] = p
    BY <1>1, <1>6 DEF S!ToSet
  <2>2. picked \in Surjection(D, Paths)
    BY <1>1, <2>1 DEF Surjection
  <2> QED BY <1>2, <1>3, <1>4, <2>2, FS_Injection
<1> QED BY <1>2, <1>5, <1>6 DEF m

(* As many as asked for, or all there are (run.mjs:146-158).               *)
LEMMA SizeIs ==
    ASSUME n \in Nat, Len(picked) \in Nat,
           \/ Len(picked) = n /\ n <= Cardinality(Paths)
           \/ Len(picked) = Cardinality(Paths) /\ Cardinality(Paths) <= n
    PROVE  Len(picked) = S!Min({n, S!Cardinality(S!Files)})
<1> DEFINE c == Cardinality(Paths)
           m == S!Min({n, c})
<1>1. c \in Nat
  BY FilesAre
<1>2. \/ Len(picked) = n /\ n <= c
      \/ Len(picked) = c /\ c <= n
  OBVIOUS
<1>3. S!Cardinality(S!Files) = c
  BY DEF S!Cardinality, Cardinality, S!Files, Paths
<1> HIDE DEF c
<1>4. \E x \in {n, c} : \A y \in {n, c} : x <= y
  <2>1. CASE n <= c
    BY <1>1, <2>1
  <2>2. CASE c <= n
    BY <1>1, <2>2
  <2> QED BY <1>1, <2>1, <2>2
<1>5. m \in {n, c} /\ \A y \in {n, c} : m <= y
  BY <1>4, Zenon DEF S!Min
<1>6. m = Len(picked)
  <2> HIDE DEF m
  <2>1. m <= n /\ m <= c /\ (m = n \/ m = c)
    BY <1>5
  <2> QED BY <1>1, <1>2, <2>1
<1> QED BY <1>3, <1>6

LEMMA InitSampling == ASSUME S!Init PROVE Sampling
<1> DEFINE t == [i \in Dirs |-> 0]
<1>1. /\ n \in 0..(S!Cardinality(S!Files) + 1) /\ round = 0 /\ turn = 1 /\ any = FALSE /\ picked = <<>>
      /\ nextFile = IF n = 0 THEN 1 ELSE 0
  BY DEF S!Init
<1>2. S!Cardinality(S!Files) = Cardinality(Paths)
  BY DEF S!Cardinality, Cardinality, S!Files, Paths
<1>3. n \in Nat
  BY <1>1, <1>2, FilesAre
<1>4. Lists
  BY InitLists
<1>5. Len(picked) = 0 /\ picked \in Seq(Paths) /\ DOMAIN picked = {}
  BY <1>1
<1>6. Given(t)
  <2>1. \A i \in Dirs : t[i] = 0 /\ Len(Groups[i]) \in Nat /\ i \in Nat \ {0}
    BY GroupsAre
  <2>2. t \in [Dirs -> Nat] /\ \A i \in Dirs : 1..t[i] = {}
    BY <2>1
  <2> HIDE DEF t
  <2>3. \A i \in Dirs : t[i] <= Len(Groups[i]) /\ t[i] <= round + 1 /\ ~(t[i] < round) /\ t[i] <= round
                        /\ ~(i < turn)
    BY <1>1, <2>1
  <2> QED BY <1>5, <2>2, <2>3 DEF Given
<1>7. ASSUME nextFile > 0 PROVE S!RightSize
  <2>1. n = 0 /\ n <= Cardinality(Paths)
    BY <1>1, <1>3, <1>7, FilesAre
  <2>2. Len(picked) = n /\ Len(picked) \in Nat
    BY <1>5, <2>1
  <2> QED BY <1>3, <2>1, <2>2, SizeIs DEF S!RightSize
<1>8. nextFile = 0 /\ ~any => Len(picked) < n /\ \A i \in Dirs : i < turn => Len(Groups[i]) <= round
  BY <1>1, <1>3, <1>5, GroupsAre
<1>9. n \in Nat /\ round \in Nat /\ turn \in Nat \ {0} /\ nextFile \in Nat /\ Len(picked) <= n
  BY <1>1, <1>3, <1>5
<1> HIDE DEF t
<1> QED BY <1>4, <1>5, <1>6, <1>7, <1>8, <1>9, Zenon DEF Sampling

(* A file more of the directory whose turn it is (run.mjs:149-153).        *)
LEMMA TurnKeeps == ASSUME Sampling, S!Turn PROVE Sampling'
<1> DEFINE size == Len(Groups[turn])
<1>1. /\ nextFile = 0 /\ nextFile' = 0 /\ turn \in Dirs /\ turn' = turn + 1
      /\ UNCHANGED <<n, lists, round>> /\ Lists /\ Lists'
  BY DEF S!Turn, Sampling, Lists
<1>2. /\ n \in Nat /\ round \in Nat /\ turn \in Nat \ {0} /\ picked \in Seq(Paths) /\ Len(picked) <= n
      /\ Len(picked) \in Nat /\ DOMAIN picked = 1..Len(picked)
      /\ \A j, k \in DOMAIN picked : picked[j] = picked[k] => j = k
  BY DEF Sampling
<1>3. size \in Nat /\ lists[turn] \in Seq(Paths) /\ DOMAIN lists[turn] = 1..size /\ Len(lists[turn]) = size
  BY <1>1, GroupsAre DEF Lists
<1>4. PICK t : Given(t)
  BY DEF Sampling
<1>5. t \in [Dirs -> Nat] /\ t[turn] \in Nat /\ t[turn] <= round /\ t[turn] <= size
      /\ (t[turn] < round => t[turn] = size)
  BY <1>1, <1>2, <1>4 DEF Given
<1>6. \A i \in Dirs : i \in Nat \ {0} /\ t[i] \in Nat /\ Len(Groups[i]) \in Nat
  BY <1>5, GroupsAre
<1>7. CASE ~S!Due
  <2>1. UNCHANGED <<picked, any>>
    BY <1>7 DEF S!Turn
  <2>2. Len(picked) < n => size <= round
    BY <1>2, <1>3, <1>7 DEF S!Due
  <2>3. \A i \in Dirs : i < turn' /\ Len(picked) < n => t[i] = round + 1 \/ t[i] = Len(Groups[i])
    <3> SUFFICES ASSUME NEW i \in Dirs, i < turn + 1, Len(picked) < n
                 PROVE  t[i] = round + 1 \/ t[i] = Len(Groups[i])
      BY <1>1
    <3>1. CASE i < turn
      BY <1>1, <1>4, <3>1 DEF Given
    <3>2. CASE i = turn
      BY <1>2, <1>3, <1>5, <2>2, <3>2
    <3> QED BY <1>2, <1>6, <3>1, <3>2
  <2>4. \A i \in Dirs : i >= turn' => t[i] <= round
    BY <1>1, <1>2, <1>4, <1>6 DEF Given
  <2>5. Given(t)'
    BY <1>1, <1>4, <2>1, <2>3, <2>4 DEF Given
  <2>6. ~any => Len(picked) < n /\ \A i \in Dirs : i < turn' => Len(Groups[i]) <= round
    <3> SUFFICES ASSUME ~any PROVE Len(picked) < n /\ \A i \in Dirs : i < turn' => Len(Groups[i]) <= round
      OBVIOUS
    <3>1. Len(picked) < n /\ \A i \in Dirs : i < turn => Len(Groups[i]) <= round
      BY <1>1 DEF Sampling
    <3>2. \A i \in Dirs : i < turn' => i < turn \/ i = turn
      BY <1>1, <1>2, <1>6
    <3> QED BY <2>2, <3>1, <3>2
  <2>7. (\E u : Given(u))'
    BY <2>5
  <2> QED BY <1>1, <1>2, <2>1, <2>6, <2>7 DEF Sampling
<1>8. CASE S!Due
  <2> DEFINE f == lists[turn][round + 1]
  <2>0. PICK u : u = [t EXCEPT ![turn] = round + 1]
    OBVIOUS
  <2>1. round < size /\ Len(picked) < n /\ picked' = Append(picked, f) /\ any' = TRUE
    BY <1>3, <1>8 DEF S!Turn, S!Due
  <2>2. t[turn] = round
    BY <1>2, <1>3, <1>5, <2>1
  <2>3. round + 1 \in 1..size /\ f \in Paths
    BY <1>2, <1>3, <2>1
  <2>4. \A j \in DOMAIN picked : picked[j] # f
    <3> SUFFICES ASSUME NEW j \in DOMAIN picked, picked[j] = f PROVE FALSE
      OBVIOUS
    <3>1. PICK i \in Dirs : \E k \in 1..t[i] : picked[j] = lists[i][k]
      BY <1>4 DEF Given
    <3>2. PICK k \in 1..t[i] : picked[j] = lists[i][k]
      BY <3>1
    <3>3. t[i] <= Len(Groups[i]) /\ k \in 1..Len(Groups[i])
      <4>1. t[i] <= Len(Groups[i])
        BY <1>4 DEF Given
      <4>2. t[i] \in Nat /\ Len(Groups[i]) \in Nat /\ k \in 1..t[i]
        BY <1>6, <3>2
      <4> QED BY <4>1, <4>2
    <3>4. lists[i][k] = lists[turn][round + 1]
      BY <3>2
    <3>5. i = turn /\ k = round + 1
      BY <1>1, <2>3, <3>3, <3>4 DEF Lists
    <3> QED BY <1>2, <2>2, <3>2, <3>5
  <2>5. /\ picked' \in Seq(Paths) /\ Len(picked') = Len(picked) + 1 /\ DOMAIN picked' = 1..(Len(picked) + 1)
        /\ \A j \in DOMAIN picked : picked'[j] = picked[j]
        /\ picked'[Len(picked) + 1] = f
    <3> HIDE DEF f
    <3> QED BY <1>2, <2>1, <2>3
  <2> HIDE DEF f
  <2>6. \A j, k \in DOMAIN picked' : picked'[j] = picked'[k] => j = k
    <3> SUFFICES ASSUME NEW j \in DOMAIN picked', NEW k \in DOMAIN picked', picked'[j] = picked'[k] PROVE j = k
      OBVIOUS
    <3>1. (j \in DOMAIN picked \/ j = Len(picked) + 1) /\ (k \in DOMAIN picked \/ k = Len(picked) + 1)
      BY <1>2, <2>5
    <3> QED BY <1>2, <2>4, <2>5, <3>1
  <2>7. u \in [Dirs -> Nat] /\ u[turn] = round + 1 /\ \A i \in Dirs : i # turn => u[i] = t[i]
    BY <1>1, <1>2, <1>5, <2>0
  <2>8. \A i \in Dirs : \A k \in 1..u[i] : k \in 1..t[i] \/ (i = turn /\ k = round + 1)
    BY <1>2, <2>2, <2>7
  <2>9. \A i \in Dirs : \A k \in 1..t[i] : k \in 1..u[i]
    BY <1>2, <2>2, <2>7
  <2>10. \A j \in DOMAIN picked' : \E i \in Dirs : \E k \in 1..u[i] : picked'[j] = lists[i][k]
    <3> SUFFICES ASSUME NEW j \in DOMAIN picked' PROVE \E i \in Dirs : \E k \in 1..u[i] : picked'[j] = lists[i][k]
      OBVIOUS
    <3>1. CASE j \in DOMAIN picked
      <4>1. PICK i \in Dirs : \E k \in 1..t[i] : picked[j] = lists[i][k]
        BY <1>4, <3>1 DEF Given
      <4> QED BY <2>5, <2>9, <3>1, <4>1
    <3>2. CASE j = Len(picked) + 1
      <4>1. round + 1 \in 1..u[turn] /\ picked'[j] = lists[turn][round + 1]
        BY <1>2, <2>5, <2>7, <3>2 DEF f
      <4> QED BY <1>1, <4>1
    <3> QED BY <1>2, <2>5, <3>1, <3>2
  <2>11. \A i \in Dirs : \A k \in 1..u[i] : \E j \in DOMAIN picked' : picked'[j] = lists[i][k]
    <3> SUFFICES ASSUME NEW i \in Dirs, NEW k \in 1..u[i] PROVE \E j \in DOMAIN picked' : picked'[j] = lists[i][k]
      OBVIOUS
    <3>1. CASE k \in 1..t[i]
      <4>1. PICK j \in DOMAIN picked : picked[j] = lists[i][k]
        BY <1>4, <3>1 DEF Given
      <4> QED BY <1>2, <2>5, <4>1
    <3>2. CASE i = turn /\ k = round + 1
      <4>1. Len(picked) + 1 \in DOMAIN picked'
        BY <1>2, <2>5
      <4> QED BY <2>5, <3>2, <4>1 DEF f
    <3> QED BY <2>8, <3>1, <3>2
  <2>12. \A i \in Dirs : u[i] <= Len(Groups[i]) /\ u[i] <= round + 1
                         /\ (u[i] < round => u[i] = Len(Groups[i]))
                         /\ (i >= turn' => u[i] <= round)
                         /\ (i < turn' => u[i] = round + 1 \/ u[i] = Len(Groups[i]))
    <3> SUFFICES ASSUME NEW i \in Dirs
                 PROVE  /\ u[i] <= Len(Groups[i]) /\ u[i] <= round + 1
                        /\ (u[i] < round => u[i] = Len(Groups[i]))
                        /\ (i >= turn + 1 => u[i] <= round)
                        /\ (i < turn + 1 => u[i] = round + 1 \/ u[i] = Len(Groups[i]))
      BY <1>1
    <3>1. CASE i = turn
      BY <1>2, <2>1, <2>7, <3>1
    <3>2. CASE i # turn
      <4>1. u[i] = t[i]
        BY <2>7, <3>2
      <4>2. /\ t[i] <= Len(Groups[i]) /\ t[i] <= round + 1 /\ (t[i] < round => t[i] = Len(Groups[i]))
            /\ (i >= turn => t[i] <= round)
            /\ (i < turn => t[i] = round + 1 \/ t[i] = Len(Groups[i]))
        BY <1>1, <1>4, <2>1 DEF Given
      <4> QED BY <1>2, <1>6, <3>2, <4>1, <4>2
    <3> QED BY <3>1, <3>2
  <2>13. Given(u)'
    <3>1. round' = round /\ lists' = lists
      BY <1>1
    <3>2. \A i \in Dirs : u[i] <= Len(Groups[i]) /\ u[i] <= round' + 1
                          /\ (u[i] < round' => u[i] = Len(Groups[i]))
      BY <2>12, <3>1
    <3>3. \A i \in Dirs : /\ i >= turn' => u[i] <= round'
                          /\ i < turn' /\ Len(picked') < n' => u[i] = round' + 1 \/ u[i] = Len(Groups[i])
      BY <2>12, <3>1
    <3> QED BY <2>7, <2>10, <2>11, <3>1, <3>2, <3>3, Zenon DEF Given
  <2>14. (\E v : Given(v))'
    BY <2>13
  <2>15. Len(picked') <= n
    BY <1>2, <2>1, <2>5
  <2> QED BY <1>1, <1>2, <2>1, <2>5, <2>6, <2>14, <2>15 DEF Sampling
<1> QED BY <1>7, <1>8

(* The next round, or the end of the sample (run.mjs:146, 155).            *)
LEMMA RoundKeeps == ASSUME Sampling, S!EndRound PROVE Sampling'
<1>1. /\ nextFile = 0 /\ turn \notin Dirs
      /\ UNCHANGED <<n, lists, picked>> /\ Lists /\ Lists'
  BY DEF S!EndRound, Sampling, Lists
<1>2. /\ n \in Nat /\ round \in Nat /\ turn \in Nat \ {0} /\ picked \in Seq(Paths) /\ Len(picked) <= n
      /\ Len(picked) \in Nat
      /\ \A j, k \in DOMAIN picked : picked[j] = picked[k] => j = k
  BY DEF Sampling
<1>3. PICK t : Given(t)
  BY DEF Sampling
<1>4. \A i \in Dirs : i \in Nat \ {0} /\ t[i] \in Nat /\ Len(Groups[i]) \in Nat
  BY <1>3, GroupsAre DEF Given
<1>5. CASE any /\ Len(picked) < n
  <2>1. round' = round + 1 /\ turn' = 1 /\ any' = FALSE /\ nextFile' = 0
    BY <1>1, <1>5 DEF S!EndRound
  <2>2. \A i \in Dirs : i < turn
    <3> SUFFICES ASSUME NEW i \in Dirs, ~(i < turn) PROVE FALSE
      OBVIOUS
    <3>1. Dirs = 1..Len(Groups) /\ Len(Groups) \in Nat
      BY GroupsAre
    <3> QED BY <1>1, <1>2, <3>1
  <2>3. \A i \in Dirs : t[i] <= round' /\ t[i] <= round' + 1 /\ (t[i] < round' => t[i] = Len(Groups[i]))
                        /\ ~(i < turn')
    <3>1. \A i \in Dirs : (t[i] = round + 1 \/ t[i] = Len(Groups[i])) /\ t[i] <= round + 1
      BY <1>1, <1>3, <1>5, <2>2 DEF Given
    <3> QED BY <1>2, <1>4, <2>1, <3>1
  <2>4. Given(t)'
    BY <1>1, <1>3, <2>1, <2>3 DEF Given
  <2>5. (\E u : Given(u))'
    BY <2>4
  <2>6. \A i \in Dirs : i < turn' => Len(Groups[i]) <= round'
    BY <2>3
  <2> QED BY <1>1, <1>2, <1>5, <2>1, <2>5, <2>6 DEF Sampling
<1>6. CASE ~(any /\ Len(picked) < n)
  <2>1. nextFile' = 1 /\ UNCHANGED <<round, turn, any>>
    BY <1>6 DEF S!EndRound
  <2>2. Given(t)'
    BY <1>1, <1>3, <2>1 DEF Given
  <2>3. (\E u : Given(u))'
    BY <2>2
  <2>4. IsFiniteSet(Paths) /\ Cardinality(Paths) \in Nat /\ Len(picked) <= Cardinality(Paths)
    BY PickedCount
  <2>5. ASSUME any PROVE Len(picked) = S!Min({n, S!Cardinality(S!Files)})
    <3>1. Len(picked) = n
      BY <1>2, <1>6, <2>5
    <3>2. Len(picked) = S!Min({n, S!Cardinality(S!Files)})
      BY <1>2, <2>4, <3>1, SizeIs
    <3> QED BY <3>2
  <2>6. ASSUME ~any PROVE Len(picked) = S!Min({n, S!Cardinality(S!Files)})
    <3>1. Len(picked) < n /\ \A i \in Dirs : i < turn => Len(Groups[i]) <= round
      BY <1>1, <2>6 DEF Sampling
    <3>2. \A i \in Dirs : t[i] = Len(Groups[i])
      <4> SUFFICES ASSUME NEW i \in Dirs PROVE t[i] = Len(Groups[i])
        OBVIOUS
      <4>1. Dirs = 1..Len(Groups) /\ Len(Groups) \in Nat
        BY GroupsAre
      <4>2. i < turn
        BY <1>1, <1>2, <4>1
      <4>3. t[i] <= Len(Groups[i]) /\ (t[i] = round + 1 \/ t[i] = Len(Groups[i]))
        BY <1>1, <1>3, <3>1, <4>2 DEF Given
      <4> QED BY <1>2, <1>4, <3>1, <4>2, <4>3
    <3>3. S!ToSet(picked) = Paths
      <4>1. S!ToSet(picked) \subseteq Paths
        BY <1>2 DEF S!ToSet
      <4>2. ASSUME NEW f \in Paths PROVE f \in S!ToSet(picked)
        <5>1. PICK i \in Dirs : \E k \in DOMAIN Groups[i] : Groups[i][k] = f
          BY FilesAre
        <5>2. f \in S!ToSet(lists[i])
          BY <1>1, <5>1 DEF Lists, S!ToSet
        <5>3. PICK k \in 1..Len(Groups[i]) : lists[i][k] = f
          BY <1>1, <5>2 DEF Lists, S!ToSet
        <5>4. k \in 1..t[i]
          BY <3>2
        <5>5. PICK j \in DOMAIN picked : picked[j] = f
          BY <1>3, <5>3, <5>4 DEF Given
        <5> QED BY <5>5 DEF S!ToSet
      <4> QED BY <4>1, <4>2
    <3>4. Len(picked) = Cardinality(Paths)
      BY <3>3, PickedCount
    <3>5. Len(picked) = S!Min({n, S!Cardinality(S!Files)})
      BY <1>2, <2>4, <3>1, <3>4, SizeIs
    <3> QED BY <3>5
  <2>7. S!RightSize'
    <3>1. Len(picked) = S!Min({n, S!Cardinality(S!Files)})
      BY <2>5, <2>6
    <3>2. (S!Min({n, S!Cardinality(S!Files)}))' = S!Min({n, S!Cardinality(S!Files)})
      BY <1>1, Zenon DEF S!Min, S!Cardinality, S!Files
    <3> QED BY <1>1, <3>1, <3>2 DEF S!RightSize
  <2> QED BY <1>1, <1>2, <2>1, <2>3, <2>7 DEF Sampling
<1> QED BY <1>5, <1>6

LEMMA ClassifyKeepsSample == ASSUME Sampling, S!Classify PROVE Sampling'
<1>1. /\ UNCHANGED <<n, lists, round, turn, any, picked>> /\ nextFile' = nextFile + 1
      /\ nextFile \in DOMAIN picked
  BY DEF S!Classify
<1>2. DOMAIN picked \subseteq Nat \ {0} /\ nextFile \in Nat
  BY DEF Sampling
<1>3. nextFile > 0 /\ nextFile' > 0 /\ nextFile' # 0 /\ nextFile' \in Nat
  BY <1>1, <1>2
<1>4. S!RightSize'
  <2>1. S!RightSize
    BY <1>3 DEF Sampling
  <2> QED BY <1>1, <1>3, <2>1 DEF S!RightSize
<1>5. PICK t : Given(t)
  BY DEF Sampling
<1>6. Given(t)'
  BY <1>1, <1>3, <1>5 DEF Given
<1>7. (\E u : Given(u))'
  BY <1>6
<1>8. Lists'
  BY <1>1 DEF Sampling, Lists
<1> QED BY <1>1, <1>3, <1>4, <1>7, <1>8 DEF Sampling

(* What a directory has given is counted.                                  *)
LEMMA SampledIs ==
    ASSUME Sampling, NEW t, Given(t), NEW i \in Dirs
    PROVE  S!Sampled(i) = t[i]
<1> DEFINE T == S!ToSet(picked) \cap S!ToSet(Groups[i])
           m == t[i]
           f == [k \in 1..m |-> lists[i][k]]
<1>1. m \in Nat /\ m <= Len(Groups[i]) /\ Len(Groups[i]) \in Nat
  BY GroupsAre DEF Given
<1>2. Lists /\ DOMAIN lists[i] = 1..Len(Groups[i]) /\ S!ToSet(lists[i]) = S!ToSet(Groups[i])
  BY DEF Sampling, Lists
<1>3. T = {lists[i][k] : k \in 1..m}
  <2>1. ASSUME NEW k \in 1..m PROVE lists[i][k] \in T
    <3>1. k \in 1..Len(Groups[i])
      BY <1>1
    <3>2. lists[i][k] \in S!ToSet(Groups[i])
      BY <1>2, <3>1 DEF S!ToSet
    <3>3. \E j \in DOMAIN picked : picked[j] = lists[i][k]
      BY DEF Given
    <3> QED BY <3>2, <3>3 DEF S!ToSet
  <2>2. ASSUME NEW x \in T PROVE \E k \in 1..m : x = lists[i][k]
    <3>1. PICK j \in DOMAIN picked : x = picked[j]
      BY DEF S!ToSet
    <3>2. PICK i2 \in Dirs : \E k \in 1..t[i2] : picked[j] = lists[i2][k]
      BY DEF Given
    <3>3. PICK k \in 1..t[i2] : x = lists[i2][k]
      BY <3>1, <3>2
    <3>4. x \in S!ToSet(lists[i])
      BY <1>2
    <3>5. PICK k2 \in 1..Len(Groups[i]) : x = lists[i][k2]
      BY <1>2, <3>4 DEF S!ToSet
    <3>6. t[i2] \in Nat /\ t[i2] <= Len(Groups[i2]) /\ Len(Groups[i2]) \in Nat
      BY GroupsAre DEF Given
    <3>7. k \in 1..Len(Groups[i2])
      BY <3>6
    <3>8. i2 = i
      <4>1. \A i3, j3 \in Dirs : \A k3 \in 1..Len(Groups[i3]), l3 \in 1..Len(Groups[j3]) :
                lists[i3][k3] = lists[j3][l3] => i3 = j3 /\ k3 = l3
        BY <1>2, Zenon DEF Lists
      <4> QED BY <3>3, <3>5, <3>7, <4>1, Zenon
    <3> QED BY <3>3, <3>8
  <2> HIDE DEF T
  <2> QED BY <2>1, <2>2
<1>4. f \in Bijection(1..m, T)
  <2>1. \A j, k \in 1..m : lists[i][j] = lists[i][k] => j = k
    <3>1. \A j \in 1..m : j \in 1..Len(Groups[i])
      BY <1>1
    <3>2. \A i3, j3 \in Dirs : \A k3 \in 1..Len(Groups[i3]), l3 \in 1..Len(Groups[j3]) :
              lists[i3][k3] = lists[j3][l3] => i3 = j3 /\ k3 = l3
      BY <1>2, Zenon DEF Lists
    <3> QED BY <3>1, <3>2, Zenon
  <2> HIDE DEF T, m
  <2>2. f \in [1..m -> T]
    BY <1>3
  <2>3. f \in Injection(1..m, T)
    BY <2>1, <2>2 DEF Injection, IsInjective
  <2>4. f \in Surjection(1..m, T)
    BY <1>3, <2>2 DEF Surjection
  <2> QED BY <2>3, <2>4 DEF Bijection
<1> HIDE DEF T, f
<1>5. Cardinality(T) = m
  <2>1. ExistsBijection(1..m, T)
    BY <1>4 DEF ExistsBijection
  <2> QED BY <1>1, <2>1, FS_CountingElements
<1>6. S!Sampled(i) = Cardinality(T)
  BY DEF S!Sampled, S!Cardinality, Cardinality, T
<1> QED BY <1>5, <1>6

(* No directory has two files more than one that has files left            *)
(* (run.mjs:129).                                                          *)
LEMMA SpreadOut == ASSUME Sampling PROVE S!Spread
<1>1. PICK t : Given(t)
  BY DEF Sampling
<1>2. ASSUME NEW i \in Dirs, NEW j \in Dirs, S!Sampled(i) + 1 < S!Sampled(j)
      PROVE  S!Sampled(i) = Len(Groups[i])
  <2>1. S!Sampled(i) = t[i] /\ S!Sampled(j) = t[j]
    BY <1>1, SampledIs
  <2>2. /\ t[i] \in Nat /\ t[j] \in Nat /\ t[j] <= round + 1 /\ (t[i] < round => t[i] = Len(Groups[i]))
        /\ round \in Nat
    BY <1>1 DEF Given, Sampling
  <2> QED BY <1>2, <2>1, <2>2
<1> QED BY <1>2 DEF S!Spread, Dirs

-----------------------------------------------------------------------------
(* The tasks of the files sampled.                                         *)

KeysOf(q) == {<<picked[q], md>> : md \in S!Modes(FileMeta[picked[q]])}
TasksOf(k) == {i \in DOMAIN tasks : tasks[i].key = k}
ResultsOf(k) == {r \in results : r.key = k}

(* A mode of a file is a task, or is decided without.                      *)
Once(k) ==
    \/ ResultsOf(k) = {} /\ \E i : TasksOf(k) = {i}
    \/ TasksOf(k) = {} /\ \E r : ResultsOf(k) = {r}

Tasking ==
    /\ \E X : tasks \in Seq(X)
    /\ \A i \in DOMAIN tasks : tasks[i].id = i - 1
    /\ \A q \in DOMAIN picked : q < nextFile => \A k \in KeysOf(q) : Once(k)
    /\ \A i \in DOMAIN tasks : \E q \in DOMAIN picked : q < nextFile /\ tasks[i].key \in KeysOf(q)
    /\ \A r \in results : \E q \in DOMAIN picked : q < nextFile /\ r.key \in KeysOf(q)

(* The keys of a file, in some order, each once (run.mjs:174).             *)
LEMMA KeysSequence ==
    ASSUME NEW K, IsFiniteSet(K)
    PROVE  \E m \in Nat : /\ S!SetToSeq(K) \in [1..m -> K]
                          /\ \A i, j \in 1..m : S!SetToSeq(K)[i] = S!SetToSeq(K)[j] => i = j
                          /\ \A k \in K : \E i \in 1..m : S!SetToSeq(K)[i] = k
<1> DEFINE m == Cardinality(K)
           g == S!SetToSeq(K)
<1>1. m \in Nat /\ \E f : f \in Bijection(1..m, K)
  BY FS_CardinalityType DEF ExistsBijection
<1>2. S!Cardinality(K) = m
  BY DEF S!Cardinality, Cardinality
<1>3. \E f \in [1..S!Cardinality(K) -> K] : S!IsInjective(f)
  <2>1. PICK f \in Bijection(1..m, K) : TRUE
    BY <1>1
  <2> HIDE DEF m
  <2>2. f \in [1..m -> K] /\ \A i, j \in 1..m : f[i] = f[j] => i = j
    BY <2>1 DEF Bijection, Injection, IsInjective
  <2>3. DOMAIN f = 1..m
    BY <2>2
  <2>4. S!IsInjective(f)
    BY <2>2, <2>3, Zenon DEF S!IsInjective
  <2> QED BY <1>2, <2>2, <2>4
<1>4. g \in [1..S!Cardinality(K) -> K] /\ S!IsInjective(g)
  BY <1>3, Zenon DEF S!SetToSeq
<1> HIDE DEF m, g
<1>5. g \in [1..m -> K] /\ DOMAIN g = 1..m
  BY <1>2, <1>4
<1>6. \A i, j \in 1..m : g[i] = g[j] => i = j
  BY <1>4, <1>5, Zenon DEF S!IsInjective
<1>7. g \in Injection(1..m, K)
  BY <1>5, <1>6 DEF Injection, IsInjective
<1>8. IsFiniteSet(1..m) /\ Cardinality(1..m) = m
  <2>1. 1 \in Int /\ m \in Int /\ (IF 1 > m THEN 0 ELSE (m - 1) + 1) = m
    BY <1>1
  <2> QED BY <1>1, <2>1, FS_Interval
<1>9. g \in Surjection(1..m, K)
  BY <1>7, <1>8, FS_Injection DEF m
<1>10. \A k \in K : \E i \in 1..m : g[i] = k
  BY <1>9 DEF Surjection
<1> QED BY <1>1, <1>5, <1>6, <1>10 DEF g

LEMMA KeysFinite == ASSUME NEW q PROVE IsFiniteSet(KeysOf(q))
<1> DEFINE M == S!Modes(FileMeta[picked[q]])
<1>1. M \subseteq {"strict", "sloppy", "parse"}
  BY DEF S!Modes
<1>2. IsFiniteSet({"strict", "sloppy", "parse"})
  <2>1. IsFiniteSet({"parse"}) /\ {"parse"} \cup {"sloppy"} \cup {"strict"} = {"strict", "sloppy", "parse"}
    BY FS_Singleton, Zenon
  <2>2. IsFiniteSet({"parse"} \cup {"sloppy"})
    BY <2>1, FS_AddElement, Zenon
  <2>3. IsFiniteSet({"parse"} \cup {"sloppy"} \cup {"strict"})
    BY <2>2, FS_AddElement, Zenon
  <2> QED BY <2>1, <2>3, Zenon
<1>3. IsFiniteSet(M)
  BY <1>1, <1>2, FS_Subset
<1> HIDE DEF M
<1>4. IsFiniteSet({<<picked[q], md>> : md \in M})
  <2>1. {picked[q]} \X M = {<<picked[q], md>> : md \in M}
    OBVIOUS
  <2>2. IsFiniteSet({picked[q]})
    BY FS_Singleton
  <2>3. IsFiniteSet({picked[q]} \X M)
    BY <1>3, <2>2, FS_Product
  <2> QED BY <2>1, <2>3
<1> QED BY <1>4 DEF KeysOf, M

(* Two files have no key in common.                                        *)
LEMMA KeysApart ==
    ASSUME Sampling, NEW q \in DOMAIN picked, NEW p \in DOMAIN picked, p # q, NEW k \in KeysOf(q)
    PROVE  k \notin KeysOf(p)
<1>1. picked[p] # picked[q]
  BY DEF Sampling
<1> QED BY <1>1 DEF KeysOf

(* The steps of the sampling leave the tasks alone: there are none.        *)
LEMMA SamplingKeepsTasks ==
    ASSUME Sampling, Tasking, S!Turn \/ S!EndRound
    PROVE  Tasking'
<1>1. nextFile = 0 /\ UNCHANGED <<tasks, results>> /\ nextFile' \in {0, 1}
  BY DEF S!Turn, S!EndRound
<1>2. DOMAIN picked \subseteq Nat \ {0}
  BY DEF Sampling
<1>3. \A q \in DOMAIN picked : ~(q < 0)
  BY <1>2
<1>4. DOMAIN tasks = {} /\ results = {}
  BY <1>1, <1>3 DEF Tasking
<1>5. DOMAIN picked' \subseteq Nat \ {0}
  <2>1. Sampling'
    BY TurnKeeps, RoundKeeps
  <2> QED BY <2>1 DEF Sampling
<1>6. \A q \in DOMAIN picked' : ~(q < nextFile')
  BY <1>1, <1>5
<1>7. \E X : tasks' \in Seq(X)
  BY <1>1 DEF Tasking
<1> QED BY <1>1, <1>4, <1>6, <1>7 DEF Tasking

(* The next file's modes become tasks, or are decided (run.mjs:174-199).   *)
LEMMA ClassifyKeepsTasks ==
    ASSUME Sampling, Tasking, S!Classify
    PROVE  Tasking'
<1> DEFINE K == KeysOf(nextFile)
           g == S!SetToSeq(K)
           skip == S!Skip(picked[nextFile], FileMeta[picked[nextFile]])
           len == Len(tasks)
<1>1. /\ nextFile \in DOMAIN picked /\ nextFile' = nextFile + 1 /\ picked' = picked
      /\ IF skip # ""
         THEN results' = results \cup {[key |-> k, reason |-> skip] : k \in S!ToSet(g)} /\ tasks' = tasks
         ELSE tasks' = tasks \o S!NewTasks(g) /\ results' = results
  BY DEF S!Classify, KeysOf
<1>2. nextFile \in Nat \ {0} /\ DOMAIN picked \subseteq Nat \ {0}
  <2>1. DOMAIN picked \subseteq Nat \ {0}
    BY DEF Sampling
  <2> QED BY <1>1, <2>1
<1>3. PICK m \in Nat : /\ g \in [1..m -> K]
                       /\ \A i, j \in 1..m : g[i] = g[j] => i = j
                       /\ \A k \in K : \E i \in 1..m : g[i] = k
  BY KeysFinite, KeysSequence
<1> HIDE DEF g, skip
<1>4. DOMAIN g = 1..m /\ S!ToSet(g) = K
  <2> HIDE DEF K
  <2> QED BY <1>3 DEF S!ToSet
<1>5. \A q : (KeysOf(q))' = KeysOf(q)
  BY <1>1 DEF KeysOf
<1>6. ASSUME NEW k \in K PROVE TasksOf(k) = {} /\ ResultsOf(k) = {}
  <2>1. \A p \in DOMAIN picked : p < nextFile => k \notin KeysOf(p)
    <3>1. \A p \in DOMAIN picked : p < nextFile => p # nextFile
      BY <1>2
    <3> QED BY <1>1, <3>1, KeysApart
  <2> HIDE DEF K
  <2>2. \A i \in DOMAIN tasks : tasks[i].key # k
    BY <2>1 DEF Tasking
  <2>3. \A r \in results : r.key # k
    BY <2>1 DEF Tasking
  <2> QED BY <2>2, <2>3 DEF TasksOf, ResultsOf
<1>7. ASSUME NEW q \in DOMAIN picked, q < nextFile, NEW k \in KeysOf(q) PROVE k \notin K
  <2>1. q # nextFile
    BY <1>2, <1>7
  <2> QED BY <1>1, <2>1, KeysApart
<1>8. \A q \in DOMAIN picked : q < nextFile + 1 => q < nextFile \/ q = nextFile
  BY <1>2
<1>9. \A q \in DOMAIN picked : q < nextFile => q < nextFile + 1
  BY <1>2
<1>10. nextFile < nextFile + 1
  BY <1>2
<1> HIDE DEF K
<1>11. PICK X : tasks \in Seq(X)
  BY DEF Tasking
<1>12. len \in Nat /\ DOMAIN tasks = 1..len
  BY <1>11
<1>13. CASE skip # ""
  <2> DEFINE new == {[key |-> k, reason |-> skip] : k \in K}
  <2>1. tasks' = tasks /\ results' = results \cup new
    BY <1>1, <1>4, <1>13
  <2>2. \A r \in new : r.key \in K /\ r = [key |-> r.key, reason |-> skip]
    OBVIOUS
  <2>3. \A k \in K : [key |-> k, reason |-> skip] \in new /\ [key |-> k, reason |-> skip].key = k
    OBVIOUS
  <2> HIDE DEF new
  <2>4. ASSUME NEW k \in K PROVE Once(k)'
    <3>1. TasksOf(k)' = {}
      BY <1>6, <2>1 DEF TasksOf
    <3>2. ResultsOf(k)' = {[key |-> k, reason |-> skip]}
      BY <1>6, <2>1, <2>2, <2>3, Zenon DEF ResultsOf
    <3> QED BY <3>1, <3>2 DEF Once
  <2>5. ASSUME NEW q \in DOMAIN picked, q < nextFile, NEW k \in KeysOf(q) PROVE Once(k)'
    <3>1. TasksOf(k)' = TasksOf(k)
      BY <2>1 DEF TasksOf
    <3>2. k \notin K
      BY <1>7, <2>5
    <3>3. ResultsOf(k)' = ResultsOf(k)
      BY <2>1, <2>2, <3>2 DEF ResultsOf
    <3>4. Once(k)
      BY <2>5 DEF Tasking
    <3> QED BY <3>1, <3>3, <3>4 DEF Once
  <2>6. \A q \in DOMAIN picked : q < nextFile + 1 => \A k \in KeysOf(q) : Once(k)'
    BY <1>8, <2>4, <2>5 DEF K
  <2>7. \A r \in results' : \E q \in DOMAIN picked : q < nextFile + 1 /\ r.key \in KeysOf(q)
    <3>1. ASSUME NEW r \in results PROVE \E q \in DOMAIN picked : q < nextFile + 1 /\ r.key \in KeysOf(q)
      BY <1>9 DEF Tasking
    <3>2. ASSUME NEW r \in new PROVE \E q \in DOMAIN picked : q < nextFile + 1 /\ r.key \in KeysOf(q)
      BY <1>1, <1>10, <2>2 DEF K
    <3> QED BY <2>1, <3>1, <3>2
  <2>8. \A i \in DOMAIN tasks : \E q \in DOMAIN picked : q < nextFile + 1 /\ tasks[i].key \in KeysOf(q)
    BY <1>9 DEF Tasking
  <2>9. \A i \in DOMAIN tasks : tasks[i].id = i - 1
    BY DEF Tasking
  <2> QED BY <1>1, <1>5, <1>11, <2>1, <2>6, <2>7, <2>8, <2>9 DEF Tasking
<1>14. CASE skip = ""
  <2> DEFINE new == S!NewTasks(g)
             Y == X \cup {[id |-> (len + i) - 1, key |-> g[i]] : i \in 1..m}
  <2>1. tasks' = tasks \o new /\ results' = results
    BY <1>1, <1>14
  <2>2. DOMAIN new = 1..m /\ \A i \in 1..m : new[i].key = g[i] /\ new[i].id = (len + i) - 1
    <3>1. new = [i \in 1..m |-> [id |-> (Len(tasks) + i) - 1, key |-> g[i]]]
      BY <1>4 DEF S!NewTasks
    <3> QED BY <3>1
  <2>3. new \in Seq(Y) /\ Len(new) = m
    <3>1. new = [i \in 1..m |-> [id |-> (Len(tasks) + i) - 1, key |-> g[i]]]
      BY <1>4 DEF S!NewTasks
    <3>2. new \in [1..m -> Y]
      BY <3>1
    <3> HIDE DEF Y, new
    <3> QED BY <3>2
  <2>4. tasks \in Seq(Y)
    <3>1. X \subseteq Y
      OBVIOUS
    <3> HIDE DEF Y
    <3> QED BY <1>11, <3>1
  <2> HIDE DEF new, Y
  <2>5. /\ tasks' \in Seq(Y) /\ DOMAIN tasks' = 1..(len + m)
        /\ \A i \in 1..len : tasks'[i] = tasks[i]
        /\ \A i \in 1..m : tasks'[len + i] = new[i]
    <3>1. /\ tasks \o new \in Seq(Y) /\ Len(tasks \o new) = len + m
          /\ \A i \in 1..(len + m) : (tasks \o new)[i] = IF i <= len THEN tasks[i] ELSE new[i - len]
      BY <2>3, <2>4, ConcatProperties
    <3> HIDE DEF len
    <3>2. DOMAIN (tasks \o new) = 1..(len + m)
      BY <3>1
    <3>3. \A i \in 1..len : i \in 1..(len + m) /\ i <= len
      BY <1>12
    <3>4. \A i \in 1..m : len + i \in 1..(len + m) /\ ~(len + i <= len) /\ (len + i) - len = i
      BY <1>12
    <3> QED BY <2>1, <3>1, <3>2, <3>3, <3>4
  <2>6. \A i \in 1..(len + m) : i \in 1..len \/ \E j \in 1..m : i = len + j
    <3> SUFFICES ASSUME NEW i \in 1..(len + m), i \notin 1..len PROVE \E j \in 1..m : i = len + j
      OBVIOUS
    <3> HIDE DEF len
    <3>1. i - len \in 1..m /\ i = len + (i - len)
      BY <1>12
    <3> QED BY <3>1
  <2>7. (\A i \in 1..len : i \in 1..(len + m)) /\ (\A j \in 1..m : len + j \in 1..(len + m))
    <3> HIDE DEF len
    <3> QED BY <1>12
  <2> HIDE DEF len
  <2>8. ASSUME NEW k \in K PROVE Once(k)'
    <3>1. ResultsOf(k)' = {}
      BY <1>6, <2>1 DEF ResultsOf
    <3>2. PICK j \in 1..m : g[j] = k
      BY <1>3
    <3>3. tasks'[len + j].key = k
      BY <2>2, <2>5, <3>2
    <3>4. \A i \in 1..len : tasks'[i].key # k
      BY <1>6, <1>12, <2>5 DEF TasksOf
    <3>5. \A i \in 1..m : tasks'[len + i].key = k => i = j
      BY <1>3, <2>2, <2>5, <3>2
    <3>6. TasksOf(k)' = {len + j}
      <4>1. TasksOf(k)' = {i \in 1..(len + m) : tasks'[i].key = k}
        BY <2>5 DEF TasksOf
      <4>2. \A i \in 1..(len + m) : tasks'[i].key = k => i = len + j
        BY <2>6, <3>4, <3>5
      <4>3. len + j \in 1..(len + m)
        BY <2>7
      <4> QED BY <3>3, <4>1, <4>2, <4>3
    <3> QED BY <3>1, <3>6 DEF Once
  <2>9. ASSUME NEW q \in DOMAIN picked, q < nextFile, NEW k \in KeysOf(q) PROVE Once(k)'
    <3>1. ResultsOf(k)' = ResultsOf(k)
      BY <2>1 DEF ResultsOf
    <3>2. k \notin K
      BY <1>7, <2>9
    <3>3. \A j \in 1..m : tasks'[len + j].key # k
      BY <1>3, <2>2, <2>5, <3>2
    <3>4. TasksOf(k)' = TasksOf(k)
      BY <1>12, <2>5, <2>6, <2>7, <3>3 DEF TasksOf
    <3>5. Once(k)
      BY <2>9 DEF Tasking
    <3> QED BY <3>1, <3>4, <3>5 DEF Once
  <2>10. \A q \in DOMAIN picked : q < nextFile + 1 => \A k \in KeysOf(q) : Once(k)'
    BY <1>8, <2>8, <2>9 DEF K
  <2>11. \A i \in DOMAIN tasks' : \E q \in DOMAIN picked : q < nextFile + 1 /\ tasks'[i].key \in KeysOf(q)
    <3>1. ASSUME NEW i \in 1..len PROVE \E q \in DOMAIN picked : q < nextFile + 1 /\ tasks'[i].key \in KeysOf(q)
      BY <1>9, <1>12, <2>5 DEF Tasking
    <3>2. ASSUME NEW j \in 1..m PROVE \E q \in DOMAIN picked : q < nextFile + 1 /\ tasks'[len + j].key \in KeysOf(q)
      <4>1. tasks'[len + j].key \in KeysOf(nextFile)
        BY <1>3, <2>2, <2>5 DEF K
      <4> QED BY <1>1, <1>10, <4>1
    <3> QED BY <2>5, <2>6, <3>1, <3>2
  <2>12. \A i \in DOMAIN tasks' : tasks'[i].id = i - 1
    <3>1. \A i \in 1..len : tasks'[i].id = i - 1
      BY <1>12, <2>5 DEF Tasking
    <3>2. \A j \in 1..m : tasks'[len + j].id = (len + j) - 1
      BY <2>2, <2>5
    <3> QED BY <2>5, <2>6, <3>1, <3>2
  <2>13. \A r \in results : \E q \in DOMAIN picked : q < nextFile + 1 /\ r.key \in KeysOf(q)
    BY <1>9 DEF Tasking
  <2> QED BY <1>1, <1>5, <2>1, <2>5, <2>10, <2>11, <2>12, <2>13 DEF Tasking
<1> QED BY <1>13, <1>14

(* Every mode of every file sampled is decided once, when all are through. *)
LEMMA DecidedOnce == ASSUME Sampling, Tasking PROVE S!EachOnce
<1>1. ASSUME nextFile > Len(picked), NEW f \in S!ToSet(picked), NEW md \in S!Modes(FileMeta[f])
      PROVE  S!Quantify(DOMAIN tasks, LAMBDA i : tasks[i].key = <<f, md>>)
                 + S!Quantify(results, LAMBDA r : r.key = <<f, md>>) = 1
  <2> DEFINE k == <<f, md>>
  <2>1. PICK q \in DOMAIN picked : picked[q] = f
    BY DEF S!ToSet
  <2>2. q < nextFile
    BY <1>1, <2>1 DEF Sampling
  <2>3. k \in KeysOf(q)
    BY <2>1 DEF KeysOf
  <2>4. Once(k)
    BY <2>2, <2>3 DEF Tasking
  <2>5. /\ S!Quantify(DOMAIN tasks, LAMBDA i : tasks[i].key = <<f, md>>) = Cardinality(TasksOf(k))
        /\ S!Quantify(results, LAMBDA r : r.key = <<f, md>>) = Cardinality(ResultsOf(k))
    BY DEF S!Quantify, S!Cardinality, Cardinality, TasksOf, ResultsOf
  <2> HIDE DEF k
  <2>6. Cardinality({}) = 0 /\ \A x : Cardinality({x}) = 1
    BY FS_EmptySet, FS_Singleton
  <2>7. CASE ResultsOf(k) = {} /\ \E i : TasksOf(k) = {i}
    <3>1. Cardinality(ResultsOf(k)) = 0 /\ Cardinality(TasksOf(k)) = 1
      BY <2>6, <2>7
    <3> QED BY <2>5, <3>1
  <2>8. CASE TasksOf(k) = {} /\ \E r : ResultsOf(k) = {r}
    <3>1. Cardinality(ResultsOf(k)) = 1 /\ Cardinality(TasksOf(k)) = 0
      BY <2>6, <2>8
    <3> QED BY <2>5, <3>1
  <2> QED BY <2>4, <2>7, <2>8 DEF Once
<1> QED BY <1>1 DEF S!EachOnce, Tasking

SampleInv == part = "discover" => Sampling /\ Tasking

LEMMA SampleInvInit == Init => SampleInv
<1> SUFFICES ASSUME Init, part = "discover" PROVE Sampling /\ Tasking
  BY DEF SampleInv
<1>1. S!Init
  BY DEF Init
<1>2. Sampling
  BY <1>1, InitSampling
<1>3. tasks = <<>> /\ results = {} /\ picked = <<>>
  BY <1>1 DEF S!Init
<1>4. tasks \in Seq({}) /\ DOMAIN tasks = {} /\ DOMAIN picked = {}
  BY <1>3
<1> QED BY <1>2, <1>3, <1>4 DEF Tasking

LEMMA SampleInvNext == SampleInv /\ [Next]_all => SampleInv'
<1> SUFFICES ASSUME SampleInv, [Next]_all, part' = "discover" PROVE (Sampling /\ Tasking)'
  BY DEF SampleInv
<1>1. CASE InDiscover /\ (S!Turn \/ S!EndRound)
  <2>1. Sampling /\ Tasking
    BY <1>1 DEF SampleInv, InDiscover
  <2> QED BY <1>1, <2>1, TurnKeeps, RoundKeeps, SamplingKeepsTasks
<1>2. CASE InDiscover /\ S!Classify
  <2>1. Sampling /\ Tasking
    BY <1>2 DEF SampleInv, InDiscover
  <2> QED BY <1>2, <2>1, ClassifyKeepsSample, ClassifyKeepsTasks
<1>3. CASE UNCHANGED <<part, discover>>
  <2>1. Sampling /\ Tasking
    BY <1>3 DEF SampleInv
  <2>2. UNCHANGED <<n, lists, round, turn, any, picked, nextFile, tasks, results>>
    BY <1>3 DEF discover
  <2>3. Tasking'
    <3>1. \A q : KeysOf(q)' = KeysOf(q)
      BY <2>2 DEF KeysOf
    <3>2. \A k : Once(k)' <=> Once(k)
      BY <2>2 DEF Once, TasksOf, ResultsOf
    <3>3. \E X : tasks' \in Seq(X)
      BY <2>1, <2>2 DEF Tasking
    <3> QED BY <2>1, <2>2, <3>1, <3>2, <3>3 DEF Tasking
  <2>4. PICK t : Given(t)
    BY <2>1 DEF Sampling
  <2>5. Given(t)'
    BY <2>2, <2>4 DEF Given
  <2>6. (\E u : Given(u))'
    BY <2>5
  <2>7. S!RightSize' <=> S!RightSize
    BY <2>2 DEF S!RightSize
  <2>8. Lists' <=> Lists
    BY <2>2 DEF Lists
  <2> QED BY <2>1, <2>2, <2>3, <2>6, <2>7, <2>8 DEF Sampling
<1>4. QED
  BY <1>1, <1>2, <1>3
  DEF Next, InVerdict, InDiscover, InBaseline, InBridge, InHostExec, InLoops, InWalk, all

(* A sample is as large as asked, spread over the directories however      *)
(* uneven they are, and each mode of each file of it is decided once       *)
(* (run.mjs:129-199).                                                      *)
THEOREM SampleAlwaysDecided == Spec => []SampleDecided
<1>1. SampleInv => SampleDecided
  <2> SUFFICES ASSUME Sampling, Tasking PROVE S!SampleDecided
    BY DEF SampleInv, SampleDecided
  <2>1. S!RightSize
    BY DEF Sampling, S!RightSize
  <2> QED BY <2>1, SpreadOut, DecidedOnce DEF S!SampleDecided
<1>2. QED
  BY <1>1, SampleInvInit, SampleInvNext, PTL DEF Spec

-----------------------------------------------------------------------------
(* The encodings of a subject. *)

String == Seq(CodeUnits)

(* A recursive function on 0..m exists.                                    *)
Recurs(f, m, X, a, g) == f \in [0..m -> X] /\ f[0] = a /\ \A u \in 1..m : f[u] = g[u][f[u - 1]]

LEMMA Recursion ==
    ASSUME NEW m \in Nat, NEW X, NEW a \in X, NEW g \in [1..m -> [X -> X]]
    PROVE  \E f : Recurs(f, m, X, a, g)
<1> USE DEF Recurs
<1> DEFINE Good(k) == \E f : Recurs(f, k, X, a, g)
           bad == {k \in 0..m : ~Good(k)}
<1>1. SUFFICES ASSUME bad # {} PROVE FALSE
  <2>1. m \in 0..m
    OBVIOUS
  <2> QED BY <2>1
<1>2. PICK k \in bad : \A j \in bad : k <= j
  <2> HIDE DEF bad
  <2>1. bad \subseteq Nat
    BY DEF bad
  <2> QED BY <1>1, <2>1, LeastNat
<1>3. k \in 0..m /\ ~Good(k)
  OBVIOUS
<1>4. k # 0
  <2> SUFFICES ASSUME k = 0 PROVE FALSE
    OBVIOUS
  <2> DEFINE f == [u \in 0..0 |-> a]
  <2>1. f \in [0..0 -> X] /\ f[0] = a /\ 1..0 = {}
    OBVIOUS
  <2> HIDE DEF f
  <2>2. Good(0)
    BY <2>1
  <2> QED BY <1>3, <2>2
<1>5. k - 1 \in 0..m /\ k - 1 \notin bad
  <2> HIDE DEF bad
  <2> QED BY <1>2, <1>3, <1>4
<1>6. PICK f : Recurs(f, k - 1, X, a, g)
  BY <1>5
<1> DEFINE h == [u \in 0..k |-> IF u = k THEN g[k][f[k - 1]] ELSE f[u]]
<1>7. f[k - 1] \in X /\ k \in 1..m
  BY <1>3, <1>4, <1>6
<1>8. h \in [0..k -> X]
  <2>1. g[k][f[k - 1]] \in X
    BY <1>7
  <2>2. \A u \in 0..k : u # k => u \in 0..(k - 1)
    BY <1>3
  <2> QED BY <1>6, <2>1, <2>2
<1>9. h[0] = a /\ \A u \in 1..k : h[u] = g[u][h[u - 1]]
  <2>1. h[0] = a
    BY <1>3, <1>4, <1>6
  <2>2. ASSUME NEW u \in 1..k PROVE h[u] = g[u][h[u - 1]]
    <3>1. u - 1 \in 0..k /\ u - 1 # k /\ u \in 0..k
      BY <1>3
    <3>2. h[u - 1] = f[u - 1]
      BY <3>1
    <3>3. CASE u = k
      BY <3>1, <3>2, <3>3
    <3>4. CASE u # k
      <4>1. u \in 1..(k - 1) /\ h[u] = f[u]
        BY <1>3, <3>1, <3>4
      <4> QED BY <1>6, <3>2, <4>1
    <3> QED BY <3>3, <3>4
  <2> QED BY <2>1, <2>2
<1> HIDE DEF h
<1>10. Good(k)
  BY <1>8, <1>9
<1> QED BY <1>3, <1>10

(* How a code point is written, a surrogate too (zregex.mjs:52-77).        *)
CodePoint(cp) == cp \in Nat /\ cp <= 1114111

Written(cp) ==
    CASE cp < 128 -> <<cp>>
      [] cp >= 128 /\ cp < 2048 -> <<192 + cp \div 64, Z!Tail6(cp, 1)>>
      [] cp >= 2048 /\ cp < 65536 -> <<224 + cp \div 4096, Z!Tail6(cp, 64), Z!Tail6(cp, 1)>>
      [] OTHER -> <<240 + cp \div 262144, Z!Tail6(cp, 4096), Z!Tail6(cp, 64), Z!Tail6(cp, 1)>>

WrittenLen(cp) == IF cp < 128 THEN 1 ELSE IF cp < 2048 THEN 2 ELSE IF cp < 65536 THEN 3 ELSE 4

LEMMA WrittenIs ==
    ASSUME NEW cp, CodePoint(cp)
    PROVE  /\ WrittenLen(cp) \in 1..4
           /\ WrittenLen(cp) = 1 => cp \in Nat /\ cp < 128 /\ Written(cp) = <<cp>>
           /\ WrittenLen(cp) = 2 =>
                 /\ cp \in Nat /\ cp >= 128 /\ cp < 2048
                 /\ Written(cp) = <<192 + (cp \div 64), 128 + (cp % 64)>>
           /\ WrittenLen(cp) = 3 =>
                 /\ cp \in Nat /\ cp >= 2048 /\ cp < 65536
                 /\ Written(cp) = <<224 + (cp \div 4096), 128 + ((cp \div 64) % 64), 128 + (cp % 64)>>
           /\ WrittenLen(cp) = 4 =>
                 /\ cp \in Nat /\ cp >= 65536 /\ cp <= 1114111
                 /\ Written(cp) = <<240 + (cp \div 262144), 128 + ((cp \div 4096) % 64),
                                   128 + ((cp \div 64) % 64), 128 + (cp % 64)>>
<1>1. cp \in Nat /\ cp <= 1114111 /\ cp \div 1 = cp
  BY SMT DEF CodePoint
<1>2. Z!Tail6(cp, 1) = 128 + (cp % 64) /\ Z!Tail6(cp, 64) = 128 + ((cp \div 64) % 64)
      /\ Z!Tail6(cp, 4096) = 128 + ((cp \div 4096) % 64)
  BY <1>1, SMT DEF Z!Tail6
<1>3. Written(cp) = IF cp < 128 THEN <<cp>>
                    ELSE IF cp < 2048 THEN <<192 + (cp \div 64), Z!Tail6(cp, 1)>>
                    ELSE IF cp < 65536 THEN <<224 + (cp \div 4096), Z!Tail6(cp, 64), Z!Tail6(cp, 1)>>
                    ELSE <<240 + (cp \div 262144), Z!Tail6(cp, 4096), Z!Tail6(cp, 64), Z!Tail6(cp, 1)>>
  BY <1>1, SMT DEF Written
<1> QED BY <1>1, <1>2, <1>3, SMT DEF WrittenLen

LEMMA WrittenTyped ==
    ASSUME NEW cp, CodePoint(cp)
    PROVE  Written(cp) \in Text /\ Len(Written(cp)) = WrittenLen(cp)
<1>1. \A x, y, z, w \in Byte : /\ <<x>> \in Text /\ Len(<<x>>) = 1
                               /\ <<x, y>> \in Text /\ Len(<<x, y>>) = 2
                               /\ <<x, y, z>> \in Text /\ Len(<<x, y, z>>) = 3
                               /\ <<x, y, z, w>> \in Text /\ Len(<<x, y, z, w>>) = 4
  <2> HIDE DEF Byte
  <2> QED BY DEF Text
<1>2. CASE WrittenLen(cp) = 1
  <2>1. Written(cp) = <<cp>> /\ cp \in Byte
    BY <1>2, WrittenIs, SMT DEF Byte
  <2> QED BY <1>1, <1>2, <2>1
<1>3. CASE WrittenLen(cp) = 2
  <2> DEFINE x == 192 + (cp \div 64)
             y == 128 + (cp % 64)
  <2>1. cp \in Nat /\ cp >= 128 /\ cp < 2048 /\ Written(cp) = <<x, y>>
    BY <1>3, WrittenIs, SMT
  <2>2. x \in Byte /\ y \in Byte
    BY <2>1, SMT DEF Byte
  <2> HIDE DEF x, y
  <2>3. <<x, y>> \in Text /\ Len(<<x, y>>) = 2
    BY <1>1, <2>2, Zenon
  <2> QED BY <1>3, <2>1, <2>3, SMT
<1>4. CASE WrittenLen(cp) = 3
  <2> DEFINE x == 224 + (cp \div 4096)
             y == 128 + ((cp \div 64) % 64)
             z == 128 + (cp % 64)
  <2>1. cp \in Nat /\ cp >= 2048 /\ cp < 65536 /\ Written(cp) = <<x, y, z>>
    BY <1>4, WrittenIs, SMT
  <2>2. x \in Byte /\ y \in Byte /\ z \in Byte
    BY <2>1, SMT DEF Byte
  <2> HIDE DEF x, y, z
  <2>3. <<x, y, z>> \in Text /\ Len(<<x, y, z>>) = 3
    BY <1>1, <2>2, Zenon
  <2> QED BY <1>4, <2>1, <2>3, SMT
<1>5. CASE WrittenLen(cp) = 4
  <2> DEFINE x == 240 + (cp \div 262144)
             y == 128 + ((cp \div 4096) % 64)
             z == 128 + ((cp \div 64) % 64)
             w == 128 + (cp % 64)
  <2>1. cp \in Nat /\ cp >= 65536 /\ cp <= 1114111 /\ Written(cp) = <<x, y, z, w>>
    BY <1>5, WrittenIs, SMT
  <2>2. x \in Byte /\ y \in Byte /\ z \in Byte /\ w \in Byte
    BY <2>1, SMT DEF Byte
  <2> HIDE DEF x, y, z, w
  <2>3. <<x, y, z, w>> \in Text /\ Len(<<x, y, z, w>>) = 4
    BY <1>1, <2>2, Zenon
  <2> QED BY <1>5, <2>1, <2>3, SMT
<1> QED BY <1>2, <1>3, <1>4, <1>5, WrittenIs, SMT

(* The bytes of a code point are in x from p on.                           *)
Stands(x, p, cp) ==
    p + WrittenLen(cp) <= Len(x) /\ \A k \in 1..WrittenLen(cp) : x[p + k] = Written(cp)[k]

(* The bytes of the four lengths, put together again.                      *)
LEMMA PutTogether ==
    ASSUME NEW cp, CodePoint(cp)
    PROVE  /\ WrittenLen(cp) = 2 =>
                 /\ cp \div 64 \in 2..31 /\ cp % 64 \in 0..63
                 /\ cp = (cp \div 64) * 64 + (cp % 64)
           /\ WrittenLen(cp) = 3 =>
                 /\ cp \div 4096 \in 0..15 /\ (cp \div 64) % 64 \in 0..63 /\ cp % 64 \in 0..63
                 /\ cp = (cp \div 4096) * 4096 + ((cp \div 64) % 64) * 64 + (cp % 64)
           /\ WrittenLen(cp) = 4 =>
                 /\ cp \div 262144 \in 0..4 /\ (cp \div 4096) % 64 \in 0..63
                 /\ (cp \div 64) % 64 \in 0..63 /\ cp % 64 \in 0..63
                 /\ cp = (cp \div 262144) * 262144 + ((cp \div 4096) % 64) * 4096
                         + ((cp \div 64) % 64) * 64 + (cp % 64)
<1>1. WrittenLen(cp) = 2 =>
          /\ cp \div 64 \in 2..31 /\ cp % 64 \in 0..63
          /\ cp = (cp \div 64) * 64 + (cp % 64)
  <2> SUFFICES ASSUME WrittenLen(cp) = 2
               PROVE  /\ cp \div 64 \in 2..31 /\ cp % 64 \in 0..63
                      /\ cp = (cp \div 64) * 64 + (cp % 64)
    OBVIOUS
  <2>1. cp \in Nat /\ cp >= 128 /\ cp < 2048
    BY WrittenIs, SMT
  <2> QED BY <2>1, SMT
<1>2. WrittenLen(cp) = 3 =>
          /\ cp \div 4096 \in 0..15 /\ (cp \div 64) % 64 \in 0..63 /\ cp % 64 \in 0..63
          /\ cp = (cp \div 4096) * 4096 + ((cp \div 64) % 64) * 64 + (cp % 64)
  BY WrittenIs, SMT
<1>3. WrittenLen(cp) = 4 =>
          /\ cp \div 262144 \in 0..4 /\ (cp \div 4096) % 64 \in 0..63
          /\ (cp \div 64) % 64 \in 0..63 /\ cp % 64 \in 0..63
          /\ cp = (cp \div 262144) * 262144 + ((cp \div 4096) % 64) * 4096
                  + ((cp \div 64) % 64) * 64 + (cp % 64)
  BY WrittenIs, SMT
<1> QED BY <1>1, <1>2, <1>3, SMT

(* What a byte begins, or continues (root.zig:100-126).                    *)
LEMMA FirstByte ==
    ASSUME NEW v \in Nat
    PROVE  /\ v >= 192 /\ v <= 223 => Z!SequenceLength(v) = 2 /\ ~Z!isContinuation(v)
           /\ v >= 224 /\ v <= 239 => Z!SequenceLength(v) = 3 /\ ~Z!isContinuation(v)
           /\ v >= 240 /\ v <= 247 => Z!SequenceLength(v) = 4 /\ ~Z!isContinuation(v)
           /\ v >= 128 /\ v <= 191 => Z!isContinuation(v)
BY DEF Z!SequenceLength, Z!isContinuation

(* A sequence is as long as its first byte says, when it is well formed    *)
(* (root.zig:128-170).                                                     *)
LEMMA SeqAtOf ==
    ASSUME NEW x, NEW p, p < Len(x), NEW len \in 1..4, Z!SequenceLength(Z!Unit(x, p)) = len,
           p + len <= Len(x), \A k \in 1..(len - 1) : Z!isContinuation(Z!Unit(x, p + k)),
           len = 1 => 0 <= Z!CodePoint(x, p, len), len = 2 => 128 <= Z!CodePoint(x, p, len),
           len = 3 => 2048 <= Z!CodePoint(x, p, len), len = 4 => 65536 <= Z!CodePoint(x, p, len),
           Z!CodePoint(x, p, len) <= 1114111
    PROVE  Z!seqAt(x, p) = len
<1>1. <<0, 128, 2048, 65536>>[len] <= Z!CodePoint(x, p, len)
  BY SMT
<1>2. len > 0
  BY SMT
<1> QED BY <1>1, <1>2, SMT DEF Z!seqAt

(* What is written is read again, whatever stands around it                *)
(* (root.zig:128-170).                                                     *)
LEMMA ReadAgain ==
    ASSUME NEW x \in Text, NEW p \in Nat, NEW cp, CodePoint(cp), Stands(x, p, cp)
    PROVE  /\ Z!seqAt(x, p) = WrittenLen(cp) /\ p < Len(x)
           /\ Z!CodePoint(x, p, WrittenLen(cp)) = cp
           /\ ~Z!isContinuation(Z!Unit(x, p))
           /\ \A k \in 1..(WrittenLen(cp) - 1) : Z!isContinuation(Z!Unit(x, p + k))
<1>1. Len(x) \in Nat /\ cp \in Nat /\ cp <= 1114111
  BY SMT DEF Text, CodePoint
<1>2. CASE WrittenLen(cp) = 1
  <2>1. x[p + 1] = cp /\ p + 1 <= Len(x) /\ cp < 128
    BY <1>2, WrittenIs, SMT DEF Stands
  <2> QED BY <1>1, <1>2, <2>1, SMT
          DEF Z!seqAt, Z!SequenceLength, Z!CodePoint, Z!Unit, Z!isContinuation
<1>3. CASE WrittenLen(cp) = 2
  <2> DEFINE h == cp \div 64
             l == cp % 64
  <2>1. h \in 2..31 /\ l \in 0..63 /\ cp = h * 64 + l /\ cp >= 128
    BY <1>3, PutTogether, WrittenIs, SMT
  <2>2. Z!Unit(x, p) = 192 + h /\ Z!Unit(x, p + 1) = 128 + l /\ p + 2 <= Len(x)
    BY <1>3, WrittenIs, SMT DEF Stands, Z!Unit
  <2> HIDE DEF h, l
  <2>3. Z!SequenceLength(Z!Unit(x, p)) = 2 /\ ~Z!isContinuation(Z!Unit(x, p))
        /\ Z!isContinuation(Z!Unit(x, p + 1))
    BY <2>1, <2>2, FirstByte, SMT
  <2>4. (192 + h) % 32 = h /\ (128 + l) % 64 = l
    BY <2>1, SMT
  <2>5. Z!CodePoint(x, p, 2) = cp
    BY <2>1, <2>2, <2>4, SMT DEF Z!CodePoint, Z!Bits
  <2>6. \A k \in 1..(2 - 1) : Z!isContinuation(Z!Unit(x, p + k))
    BY <2>3, SMT
  <2>7. Z!seqAt(x, p) = 2
    <3>1. cp >= 128 /\ cp <= 1114111
      BY <1>1, <2>1, SMT
    <3>2. p < Len(x)
      BY <1>1, <2>2, SMT
    <3> QED BY <2>2, <2>3, <2>5, <2>6, <3>1, <3>2, SeqAtOf, SMT
  <2> QED BY <1>1, <1>3, <2>2, <2>3, <2>5, <2>6, <2>7, SMT
<1>4. CASE WrittenLen(cp) = 3
  <2> DEFINE h == cp \div 4096
             m == (cp \div 64) % 64
             l == cp % 64
  <2>1. h \in 0..15 /\ m \in 0..63 /\ l \in 0..63 /\ cp = h * 4096 + m * 64 + l /\ cp >= 2048
    BY <1>4, PutTogether, WrittenIs, SMT
  <2>2. /\ Z!Unit(x, p) = 224 + h /\ Z!Unit(x, p + 1) = 128 + m /\ Z!Unit(x, p + 2) = 128 + l
        /\ p + 3 <= Len(x)
    BY <1>4, WrittenIs, SMT DEF Stands, Z!Unit
  <2> HIDE DEF h, m, l
  <2>3. /\ Z!SequenceLength(Z!Unit(x, p)) = 3 /\ ~Z!isContinuation(Z!Unit(x, p))
        /\ Z!isContinuation(Z!Unit(x, p + 1)) /\ Z!isContinuation(Z!Unit(x, p + 2))
    BY <2>1, <2>2, FirstByte, SMT
  <2>4. (224 + h) % 16 = h /\ (128 + m) % 64 = m /\ (128 + l) % 64 = l
    BY <2>1, SMT
  <2>5. Z!CodePoint(x, p, 3) = cp
    BY <2>1, <2>2, <2>4, SMT DEF Z!CodePoint, Z!Bits
  <2>6. \A k \in 1..(3 - 1) : Z!isContinuation(Z!Unit(x, p + k))
    BY <2>3, SMT
  <2>7. Z!seqAt(x, p) = 3
    <3>1. cp >= 2048 /\ cp <= 1114111
      BY <1>1, <2>1, SMT
    <3>2. p < Len(x)
      BY <1>1, <2>2, SMT
    <3> QED BY <2>2, <2>3, <2>5, <2>6, <3>1, <3>2, SeqAtOf, SMT
  <2> QED BY <1>1, <1>4, <2>2, <2>3, <2>5, <2>6, <2>7, SMT
<1>5. CASE WrittenLen(cp) = 4
  <2> DEFINE h == cp \div 262144
             m == (cp \div 4096) % 64
             d == (cp \div 64) % 64
             l == cp % 64
  <2>1. /\ h \in 0..4 /\ m \in 0..63 /\ d \in 0..63 /\ l \in 0..63
        /\ cp = h * 262144 + m * 4096 + d * 64 + l /\ cp >= 65536
    BY <1>5, PutTogether, WrittenIs, SMT
  <2>2. /\ Z!Unit(x, p) = 240 + h /\ Z!Unit(x, p + 1) = 128 + m /\ Z!Unit(x, p + 2) = 128 + d
        /\ Z!Unit(x, p + 3) = 128 + l /\ p + 4 <= Len(x)
    BY <1>5, WrittenIs, SMT DEF Stands, Z!Unit
  <2> HIDE DEF h, m, d, l
  <2>3. /\ Z!SequenceLength(Z!Unit(x, p)) = 4 /\ ~Z!isContinuation(Z!Unit(x, p))
        /\ Z!isContinuation(Z!Unit(x, p + 1)) /\ Z!isContinuation(Z!Unit(x, p + 2))
        /\ Z!isContinuation(Z!Unit(x, p + 3))
    BY <2>1, <2>2, FirstByte, SMT
  <2>4. (240 + h) % 8 = h /\ (128 + m) % 64 = m /\ (128 + d) % 64 = d /\ (128 + l) % 64 = l
    BY <2>1, SMT
  <2>5. Z!CodePoint(x, p, 4) = cp
    BY <2>1, <2>2, <2>4, SMT DEF Z!CodePoint, Z!Bits
  <2>6. \A k \in 1..(4 - 1) : Z!isContinuation(Z!Unit(x, p + k))
    BY <2>3, SMT
  <2>7. Z!seqAt(x, p) = 4
    <3>1. cp >= 65536 /\ cp <= 1114111
      BY <1>1, <2>1, SMT
    <3>2. p < Len(x)
      BY <1>1, <2>2, SMT
    <3> QED BY <2>2, <2>3, <2>5, <2>6, <3>1, <3>2, SeqAtOf, SMT
  <2> QED BY <1>1, <1>5, <2>2, <2>3, <2>5, <2>6, <2>7, SMT
<1> QED BY <1>2, <1>3, <1>4, <1>5, WrittenIs, SMT

(* The character that code unit i is, or begins.                           *)
CpOf(str, i) ==
    IF Z!Leads(str, i) THEN Z!combine(Z!Unit(str, i), Z!Unit(str, i + 1)) ELSE Z!Unit(str, i)

(* The units of a sequence, for any set of units.                          *)
LEMMA UnitsOfSeq ==
    ASSUME NEW U, NEW q \in Seq(U)
    PROVE  Len(q) \in Nat /\ \A k \in 1..Len(q) : q[k] \in U
OBVIOUS

LEMMA UnitRange == \A v \in CodeUnits : v \in Nat /\ v < 65536
<1> DEFINE m == 65535
<1>1. m \in Nat /\ m < 65536
  BY SMT
<1>2. CodeUnits = 0..m
  BY DEF CodeUnits
<1> HIDE DEF m
<1>3. \A v \in 0..m : v \in Nat /\ v < 65536
  BY <1>1, SMT
<1> QED BY <1>2, <1>3, SMTT(20)

LEMMA UnitsAre ==
    ASSUME NEW str \in String, NEW i \in 0..(Len(str) - 1)
    PROVE  /\ Len(str) \in Nat /\ CodePoint(CpOf(str, i))
           /\ Z!Leads(str, i) => /\ WrittenLen(CpOf(str, i)) = 4 /\ i + 1 < Len(str)
                                 /\ ~Z!Trails(str, i) /\ Z!Trails(str, i + 1) /\ ~Z!Leads(str, i + 1)
                                 /\ Z!Unit(str, i) = Z!leadOf(CpOf(str, i))
                                 /\ Z!Unit(str, i + 1) = Z!trailOf(CpOf(str, i))
           /\ ~Z!Leads(str, i) => /\ CpOf(str, i) = Z!Unit(str, i) /\ WrittenLen(CpOf(str, i)) \in 1..3
                                  /\ ~Z!Trails(str, i + 1)
           /\ Z!Trails(str, i) => i - 1 \in 0..(Len(str) - 1) /\ Z!Leads(str, i - 1) /\ ~Z!Leads(str, i)
           /\ Z!BytesOf(str, i) = IF Z!Trails(str, i) THEN <<>> ELSE Written(CpOf(str, i))
<1> DEFINE u == Z!Unit(str, i)
           w == Z!Unit(str, i + 1)
           c == CpOf(str, i)
<1>1. Len(str) \in Nat /\ \A k \in 1..Len(str) : str[k] \in Nat /\ str[k] < 65536
  <2>1. str \in Seq(CodeUnits)
    BY Zenon DEF String
  <2>2. Len(str) \in Nat /\ \A k \in 1..Len(str) : str[k] \in CodeUnits
    BY <2>1, UnitsOfSeq, Zenon
  <2> QED BY <2>2, UnitRange, SMTT(20)
<1>2. u \in Nat /\ u < 65536 /\ (i + 1 < Len(str) => w \in Nat /\ w < 65536)
  BY <1>1, SMT DEF Z!Unit
<1>3. ASSUME Z!Leads(str, i)
      PROVE  /\ i + 1 < Len(str) /\ CodePoint(c) /\ WrittenLen(c) = 4
             /\ u = Z!leadOf(c) /\ w = Z!trailOf(c)
             /\ ~Z!isTrail(u) /\ Z!isTrail(w) /\ ~Z!isLead(w)
  <2>1. i + 1 < Len(str) /\ Z!isLead(u) /\ Z!isTrail(w) /\ u \in Nat /\ w \in Nat
    BY <1>2, <1>3, SMT DEF Z!Leads
  <2>2. c = 65536 + (u - 55296) * 1024 + (w - 56320)
    BY <1>3, SMT DEF CpOf, Z!combine
  <2> HIDE DEF u, w, c
  <2>3. u >= 55296 /\ u <= 56319 /\ w >= 56320 /\ w <= 57343
    BY <2>1, SMT DEF Z!isLead, Z!isTrail
  <2>4. c \in Nat /\ c >= 65536 /\ c <= 1114111
    BY <2>1, <2>2, <2>3, SMT
  <2>5. CodePoint(c) /\ WrittenLen(c) = 4
    BY <2>4, SMT DEF CodePoint, WrittenLen
  <2>6. (c - 65536) \div 1024 = u - 55296 /\ (c - 65536) % 1024 = w - 56320
    BY <2>1, <2>2, <2>3, SMT
  <2>7. u = Z!leadOf(c) /\ w = Z!trailOf(c)
    BY <2>1, <2>6, SMT DEF Z!leadOf, Z!trailOf
  <2>8. ~Z!isTrail(u) /\ ~Z!isLead(w)
    BY <2>1, <2>3, SMT DEF Z!isLead, Z!isTrail
  <2> QED BY <2>1, <2>5, <2>7, <2>8
<1>4. ASSUME ~Z!Leads(str, i) PROVE c = u /\ CodePoint(c) /\ WrittenLen(c) \in 1..3
  <2>1. c = u
    BY <1>4 DEF CpOf
  <2> HIDE DEF u, c
  <2> QED BY <1>2, <2>1, SMT DEF CodePoint, WrittenLen
<1> HIDE DEF u, w, c
<1>5. ASSUME Z!Leads(str, i) PROVE Z!Trails(str, i + 1) /\ ~Z!Trails(str, i) /\ ~Z!Leads(str, i + 1)
  <2>1. (i + 1) - 1 = i /\ i + 1 > 0 /\ (i - 1) + 1 = i
    BY SMT
  <2>2. Z!Trails(str, i + 1)
    BY <1>5, <2>1, SMT DEF Z!Trails
  <2>3. ~Z!Trails(str, i)
    BY <1>3, <1>5, <2>1, SMT DEF Z!Trails, Z!Leads, u
  <2>4. ~Z!Leads(str, i + 1)
    BY <1>3, <1>5, SMT DEF Z!Leads, w
  <2> QED BY <2>2, <2>3, <2>4
<1>6. ASSUME ~Z!Leads(str, i) PROVE ~Z!Trails(str, i + 1)
  <2>1. (i + 1) - 1 = i
    BY SMT
  <2> QED BY <1>6, <2>1, SMT DEF Z!Trails
<1>7. ASSUME Z!Trails(str, i) PROVE i - 1 \in 0..(Len(str) - 1) /\ Z!Leads(str, i - 1) /\ ~Z!Leads(str, i)
  <2>1. i > 0 /\ Z!Leads(str, i - 1)
    BY <1>7 DEF Z!Trails
  <2>2. i - 1 \in 0..(Len(str) - 1)
    BY <2>1, <1>1, SMT
  <2>3. ~Z!Leads(str, i)
    BY <1>5, <1>7
  <2> QED BY <2>1, <2>2, <2>3
<1>8. Z!BytesOf(str, i) = IF Z!Trails(str, i) THEN <<>> ELSE Written(CpOf(str, i))
  BY SMT DEF Z!BytesOf, Written, CpOf
<1> QED BY <1>1, <1>3, <1>4, <1>5, <1>6, <1>7, <1>8 DEF u, w, c

(* A unit has no byte, when it is the second of a pair, or the bytes of    *)
(* its character.                                                          *)
BytesLen(str, i) == IF Z!Trails(str, i) THEN 0 ELSE WrittenLen(CpOf(str, i))

LEMMA BytesAre ==
    ASSUME NEW str \in String, NEW i \in 0..(Len(str) - 1)
    PROVE  /\ Z!BytesOf(str, i) \in Text /\ Len(Z!BytesOf(str, i)) = BytesLen(str, i)
           /\ BytesLen(str, i) \in 0..4
           /\ Z!Leads(str, i) => BytesLen(str, i) = 4
           /\ ~Z!Leads(str, i) /\ ~Z!Trails(str, i) => BytesLen(str, i) \in 1..3
<1>1. <<>> \in Text /\ Len(<<>>) = 0
  BY DEF Text
<1>2. Written(CpOf(str, i)) \in Text /\ Len(Written(CpOf(str, i))) = WrittenLen(CpOf(str, i))
  BY UnitsAre, WrittenTyped
<1>3. Z!BytesOf(str, i) \in Text /\ Len(Z!BytesOf(str, i)) = BytesLen(str, i)
  BY <1>1, <1>2, UnitsAre DEF BytesLen
<1>4. /\ BytesLen(str, i) \in 0..4
      /\ Z!Leads(str, i) => BytesLen(str, i) = 4
      /\ ~Z!Leads(str, i) /\ ~Z!Trails(str, i) => BytesLen(str, i) \in 1..3
  BY UnitsAre, WrittenIs DEF BytesLen
<1> QED BY <1>3, <1>4

(* Where the bytes of each unit start (zregex.mjs:52-77).                  *)
Start(str) ==
    CHOOSE g : g = [i \in 0..Len(str) |-> IF i = 0 THEN 0 ELSE g[i - 1] + Len(Z!BytesOf(str, i - 1))]

LEMMA StartIs ==
    ASSUME NEW str \in String
    PROVE  /\ DOMAIN Start(str) = 0..Len(str) /\ Start(str)[0] = 0
           /\ \A u \in 1..Len(str) : Start(str)[u] = Start(str)[u - 1] + BytesLen(str, u - 1)
           /\ \A u \in 0..Len(str) : Start(str)[u] \in Nat
<1> DEFINE N == Len(str)
           g == [u \in 1..N |-> [v \in Nat |-> v + BytesLen(str, u - 1)]]
<1>1. N \in Nat
  BY DEF String
<1>2. \A u \in 1..N : u - 1 \in 0..(N - 1) /\ BytesLen(str, u - 1) \in Nat
                      /\ Len(Z!BytesOf(str, u - 1)) = BytesLen(str, u - 1)
  <2> SUFFICES ASSUME NEW u \in 1..N
               PROVE  u - 1 \in 0..(N - 1) /\ BytesLen(str, u - 1) \in Nat
                      /\ Len(Z!BytesOf(str, u - 1)) = BytesLen(str, u - 1)
    OBVIOUS
  <2>1. u - 1 \in 0..(N - 1)
    BY <1>1
  <2>2. BytesLen(str, u - 1) \in 0..4 /\ Len(Z!BytesOf(str, u - 1)) = BytesLen(str, u - 1)
    BY <2>1, BytesAre
  <2> QED BY <2>1, <2>2
<1> HIDE DEF N
<1>3. g \in [1..N -> [Nat -> Nat]]
  BY <1>2
<1>4. PICK f \in [0..N -> Nat] : f[0] = 0 /\ \A u \in 1..N : f[u] = g[u][f[u - 1]]
  <2> HIDE DEF g
  <2>1. PICK f : Recurs(f, N, Nat, 0, g)
    BY <1>1, <1>3, 0 \in Nat, Recursion
  <2> QED BY <2>1 DEF Recurs
<1>5. \A u \in 1..N : f[u] = f[u - 1] + Len(Z!BytesOf(str, u - 1))
  <2> SUFFICES ASSUME NEW u \in 1..N PROVE f[u] = f[u - 1] + Len(Z!BytesOf(str, u - 1))
    OBVIOUS
  <2>1. u - 1 \in 0..N
    BY <1>1
  <2>2. f[u - 1] \in Nat
    BY <2>1
  <2>3. g[u][f[u - 1]] = f[u - 1] + BytesLen(str, u - 1)
    BY <2>2
  <2> QED BY <1>2, <1>4, <2>3
<1>6. f = [i \in 0..N |-> IF i = 0 THEN 0 ELSE f[i - 1] + Len(Z!BytesOf(str, i - 1))]
  <2>1. \A i \in 0..N : f[i] = IF i = 0 THEN 0 ELSE f[i - 1] + Len(Z!BytesOf(str, i - 1))
    <3>1. \A i \in 0..N : i # 0 => i \in 1..N
      BY <1>1
    <3> QED BY <1>4, <1>5, <3>1
  <2>2. f = [i \in 0..N |-> f[i]]
    OBVIOUS
  <2> QED BY <2>1, <2>2
<1> DEFINE c == Start(str)
<1>7. c = [i \in 0..N |-> IF i = 0 THEN 0 ELSE c[i - 1] + Len(Z!BytesOf(str, i - 1))]
  BY <1>6, Zenon DEF Start, N
<1> HIDE DEF c, g
<1>8. DOMAIN c = 0..N /\ c[0] = 0
  BY <1>1, <1>7
<1>9. \A u \in 1..N : c[u] = c[u - 1] + BytesLen(str, u - 1)
  <2> SUFFICES ASSUME NEW u \in 1..N PROVE c[u] = c[u - 1] + BytesLen(str, u - 1)
    OBVIOUS
  <2>1. u \in 0..N /\ u # 0
    BY <1>1
  <2>2. c[u] = c[u - 1] + Len(Z!BytesOf(str, u - 1))
    BY <1>7, <2>1, Zenon
  <2> QED BY <1>2, <2>2
<1>10. \A u \in 0..N : c[u] \in Nat
  <2> DEFINE bad == {u \in 0..N : c[u] \notin Nat}
  <2>1. SUFFICES ASSUME bad # {} PROVE FALSE
    OBVIOUS
  <2>2. bad \subseteq Nat
    BY <1>1
  <2>3. PICK u \in bad : \A v \in bad : u <= v
    <3> HIDE DEF bad
    <3> QED BY <2>1, <2>2, LeastNat
  <2>4. u \in 1..N /\ u - 1 \in 0..N /\ u - 1 \notin bad
    <3>1. u \in 0..N /\ u # 0
      BY <1>8
    <3>2. u - 1 \notin bad
      <4> HIDE DEF bad
      <4> QED BY <2>2, <2>3, <3>1
    <3> QED BY <1>1, <3>1, <3>2
  <2>5. c[u - 1] \in Nat
    BY <2>4
  <2> QED BY <1>2, <1>9, <2>4, <2>5
<1> QED BY <1>8, <1>9, <1>10 DEF N, c

(* The bytes of a subject are its units' bytes, one after the other        *)
(* (zregex.mjs:52-79).                                                     *)
Placed(str, x, j) ==
    /\ Start(str)[j] + BytesLen(str, j) <= Len(x)
    /\ \A q \in 1..BytesLen(str, j) : x[Start(str)[j] + q] = Z!BytesOf(str, j)[q]

LEMMA FlatIs ==
    ASSUME NEW str \in String
    PROVE  \/ Len(str) = 0 /\ Z!EncodedBytes(str) = <<>>
           \/ /\ Len(str) > 0
              /\ \E c : /\ Z!EncodedBytes(str) = c[Len(str)]
                        /\ c[1] = Z!BytesOf(str, 0)
                        /\ \A i \in 2..Len(str) : c[i] = c[i - 1] \o Z!BytesOf(str, i - 1)
<1> DEFINE N == Len(str)
           seqs == [k \in 1..N |-> Z!BytesOf(str, k - 1)]
           g == [u \in 1..N |-> [v \in Text |-> v \o seqs[u]]]
<1>1. N \in Nat
  BY DEF String
<1>2. Z!EncodedBytes(str) = Z!FlattenSeq(seqs)
  BY DEF Z!EncodedBytes
<1>3. \A k \in 1..N : seqs[k] \in Text /\ seqs[k] = Z!BytesOf(str, k - 1)
  <2> SUFFICES ASSUME NEW k \in 1..N PROVE seqs[k] \in Text /\ seqs[k] = Z!BytesOf(str, k - 1)
    OBVIOUS
  <2>1. k - 1 \in 0..(N - 1)
    BY <1>1
  <2> QED BY <2>1, BytesAre
<1>4. seqs \in Seq(Text) /\ Len(seqs) = N
  <2>1. seqs \in [1..N -> Text]
    BY <1>3
  <2> HIDE DEF seqs, N
  <2> QED BY <1>1, <2>1
<1> HIDE DEF seqs, N
<1>5. CASE N = 0
  <2>1. seqs = <<>>
    BY <1>4, <1>5
  <2> QED BY <1>2, <1>4, <1>5, <2>1, Zenon DEF Z!FlattenSeq, N
<1>6. CASE N # 0
  <2>1. \A v, w \in Text : v \o w \in Text
    BY DEF Text
  <2>2. g \in [1..N -> [Text -> Text]] /\ <<>> \in Text
    <3>1. <<>> \in Text
      BY DEF Text
    <3> QED BY <1>3, <2>1, <3>1
  <2>3. PICK f \in [0..N -> Text] : f[0] = <<>> /\ \A u \in 1..N : f[u] = g[u][f[u - 1]]
    <3> HIDE DEF g
    <3>1. PICK f : Recurs(f, N, Text, <<>>, g)
      BY <1>1, <2>2, Recursion
    <3> QED BY <3>1 DEF Recurs
  <2>4. \A u \in 1..N : f[u] = f[u - 1] \o seqs[u]
    <3> SUFFICES ASSUME NEW u \in 1..N PROVE f[u] = f[u - 1] \o seqs[u]
      OBVIOUS
    <3>1. u - 1 \in 0..N
      BY <1>1
    <3>2. f[u - 1] \in Text
      BY <3>1
    <3> QED BY <2>3, <3>2
  <2>5. f[1] = seqs[1]
    <3>1. 1 \in 1..N /\ 1 - 1 = 0
      BY <1>1, <1>6
    <3>2. f[1] = f[1 - 1] \o seqs[1]
      BY <2>4, <3>1, Zenon
    <3>3. \A v \in Text : <<>> \o v = v
      BY ConcatEmptySeq DEF Text
    <3>4. f[1 - 1] = <<>>
      BY <2>3, <3>1, Zenon
    <3> QED BY <1>3, <3>1, <3>2, <3>3, <3>4, Zenon
  <2> DEFINE e == [i \in 1..N |-> f[i]]
  <2>6. e = [i \in 1..N |-> IF i = 1 THEN seqs[i] ELSE e[i - 1] \o seqs[i]]
    <3>1. \A i \in 1..N : e[i] = IF i = 1 THEN seqs[i] ELSE e[i - 1] \o seqs[i]
      <4> SUFFICES ASSUME NEW i \in 1..N PROVE e[i] = IF i = 1 THEN seqs[i] ELSE e[i - 1] \o seqs[i]
        OBVIOUS
      <4>1. CASE i = 1
        BY <2>5, <4>1
      <4>2. CASE i # 1
        <5>1. i - 1 \in 1..N
          BY <1>1, <4>2
        <5> QED BY <2>4, <4>2, <5>1
      <4> QED BY <4>1, <4>2
    <3>2. e = [i \in 1..N |-> e[i]]
      OBVIOUS
    <3> HIDE DEF e
    <3> QED BY <3>1, <3>2
  <2> HIDE DEF e
  <2> DEFINE c == CHOOSE h : h = [i \in 1..N |-> IF i = 1 THEN seqs[i] ELSE h[i - 1] \o seqs[i]]
  <2>7. c = [i \in 1..N |-> IF i = 1 THEN seqs[i] ELSE c[i - 1] \o seqs[i]]
    BY <2>6, Zenon
  <2>8. Z!FlattenSeq(seqs) = c[N]
    BY <1>4, <1>6, Zenon DEF Z!FlattenSeq
  <2> HIDE DEF c
  <2>9. c[1] = Z!BytesOf(str, 0)
    <3>1. 1 \in 1..N /\ 1 - 1 = 0
      BY <1>1, <1>6
    <3> QED BY <1>3, <2>7, <3>1
  <2>10. \A i \in 2..N : c[i] = c[i - 1] \o Z!BytesOf(str, i - 1)
    <3> SUFFICES ASSUME NEW i \in 2..N PROVE c[i] = c[i - 1] \o Z!BytesOf(str, i - 1)
      OBVIOUS
    <3>1. i \in 1..N /\ i # 1
      BY <1>1
    <3>2. c[i] = c[i - 1] \o seqs[i]
      BY <2>7, <3>1, Zenon
    <3> QED BY <1>3, <3>1, <3>2
  <2>11. N > 0
    BY <1>1, <1>6
  <2> QED BY <1>2, <2>8, <2>9, <2>10, <2>11 DEF N
<1> QED BY <1>5, <1>6

LEMMA EncodedIs ==
    ASSUME NEW str \in String
    PROVE  /\ Z!EncodedBytes(str) \in Text
           /\ Len(Z!EncodedBytes(str)) = Start(str)[Len(str)]
           /\ \A j \in 0..(Len(str) - 1) : Placed(str, Z!EncodedBytes(str), j)
<1> DEFINE N == Len(str)
<1>1. N \in Nat
  BY DEF String
<1>2. /\ Start(str)[0] = 0
      /\ \A u \in 1..N : Start(str)[u] = Start(str)[u - 1] + BytesLen(str, u - 1)
      /\ \A u \in 0..N : Start(str)[u] \in Nat
  BY StartIs
<1> HIDE DEF N
<1>3. CASE N = 0
  <2>1. Z!EncodedBytes(str) = <<>>
    <3>1. ~(0 > 0)
      OBVIOUS
    <3> QED BY <1>3, <3>1, FlatIs, Zenon DEF N
  <2>2. <<>> \in Text /\ Len(<<>>) = 0
    BY DEF Text
  <2>3. 0..(N - 1) = {}
    BY <1>3
  <2> QED BY <1>2, <1>3, <2>1, <2>2, <2>3 DEF N
<1>4. CASE N # 0
  <2>1. PICK c : /\ Z!EncodedBytes(str) = c[N]
                 /\ c[1] = Z!BytesOf(str, 0)
                 /\ \A i \in 2..N : c[i] = c[i - 1] \o Z!BytesOf(str, i - 1)
    BY <1>1, <1>4, FlatIs DEF N
  <2> DEFINE Holds(k) == /\ c[k] \in Text /\ Len(c[k]) = Start(str)[k]
                         /\ \A j \in 0..(k - 1) : Placed(str, c[k], j)
             bad == {k \in 1..N : ~Holds(k)}
  <2>2. \A i \in 0..(N - 1) : /\ Z!BytesOf(str, i) \in Text /\ Len(Z!BytesOf(str, i)) = BytesLen(str, i)
                              /\ BytesLen(str, i) \in Nat
    BY BytesAre DEF N
  <2>3. Holds(1)
    <3>1. 0 \in 0..(N - 1) /\ 1 \in 1..N /\ 1 - 1 = 0 /\ \A j \in 0..(1 - 1) : j = 0
      BY <1>1, <1>4
    <3>2. Start(str)[1] = 0 + BytesLen(str, 0)
      BY <1>2, <3>1
    <3>3. BytesLen(str, 0) \in Nat /\ c[1] \in Text /\ Len(c[1]) = BytesLen(str, 0)
      BY <2>1, <2>2, <3>1
    <3>4. Placed(str, c[1], 0)
      <4>1. 0 + BytesLen(str, 0) <= Len(c[1]) /\ \A q \in 1..BytesLen(str, 0) : 0 + q = q
        BY <3>3
      <4> QED BY <1>2, <2>1, <4>1 DEF Placed
    <3> QED BY <3>1, <3>2, <3>3, <3>4
  <2>4. ASSUME NEW k \in 1..N, k # 1, Holds(k - 1) PROVE Holds(k)
    <3> DEFINE w == Z!BytesOf(str, k - 1)
               y == c[k - 1]
    <3>1. k - 1 \in 0..(N - 1) /\ k \in 2..N /\ k - 1 \in 1..N
      BY <1>1, <2>4
    <3>2. w \in Text /\ Len(w) = BytesLen(str, k - 1) /\ BytesLen(str, k - 1) \in Nat
      BY <2>2, <3>1
    <3>3. y \in Text /\ Len(y) = Start(str)[k - 1] /\ Start(str)[k - 1] \in Nat
      BY <1>2, <2>4, <3>1
    <3>4. c[k] = y \o w /\ Start(str)[k] = Start(str)[k - 1] + BytesLen(str, k - 1)
      BY <1>2, <2>1, <3>1
    <3> HIDE DEF w, y
    <3>5. /\ y \o w \in Text /\ Len(y \o w) = Len(y) + Len(w)
          /\ \A i \in 1..(Len(y) + Len(w)) : (y \o w)[i] = IF i <= Len(y) THEN y[i] ELSE w[i - Len(y)]
      BY <3>2, <3>3, ConcatProperties DEF Text
    <3>6. ASSUME NEW j \in 0..(k - 1) PROVE Placed(str, c[k], j)
      <4>1. CASE j = k - 1
        <5>1. Start(str)[j] = Len(y) /\ BytesLen(str, j) = Len(w)
          BY <3>2, <3>3, <4>1
        <5>2. ASSUME NEW q \in 1..Len(w) PROVE (y \o w)[Len(y) + q] = w[q]
          <6>1. Len(y) + q \in 1..(Len(y) + Len(w)) /\ ~(Len(y) + q <= Len(y)) /\ (Len(y) + q) - Len(y) = q
            BY <3>2, <3>3
          <6> QED BY <3>5, <6>1
        <5>3. Start(str)[j] + BytesLen(str, j) <= Len(y \o w)
          BY <3>2, <3>3, <3>5, <5>1
        <5> QED BY <3>4, <4>1, <5>1, <5>2, <5>3 DEF Placed, w
      <4>2. CASE j # k - 1
        <5>1. j \in 0..((k - 1) - 1) /\ j \in 0..(N - 1) /\ j \in 0..N
          BY <1>1, <4>2
        <5>2. Placed(str, y, j)
          BY <2>4, <5>1 DEF y
        <5>3. Start(str)[j] \in Nat /\ BytesLen(str, j) \in Nat /\ Start(str)[j] + BytesLen(str, j) <= Len(y)
          BY <1>2, <2>2, <5>1, <5>2 DEF Placed
        <5>4. ASSUME NEW q \in 1..BytesLen(str, j) PROVE (y \o w)[Start(str)[j] + q] = y[Start(str)[j] + q]
          <6>1. Start(str)[j] + q \in 1..(Len(y) + Len(w)) /\ Start(str)[j] + q <= Len(y)
            BY <3>2, <3>3, <5>3
          <6> QED BY <3>5, <6>1, SMTT(20)
        <5>5. Start(str)[j] + BytesLen(str, j) <= Len(y \o w)
          BY <3>2, <3>3, <3>5, <5>3
        <5> QED BY <3>4, <5>2, <5>4, <5>5 DEF Placed
      <4> QED BY <4>1, <4>2
    <3> QED BY <3>2, <3>3, <3>4, <3>5, <3>6
  <2>5. bad = {}
    <3> SUFFICES ASSUME bad # {} PROVE FALSE
      OBVIOUS
    <3>1. bad \subseteq Nat
      BY <1>1
    <3>2. PICK k \in bad : \A j \in bad : k <= j
      <4> HIDE DEF bad
      <4> QED BY <3>1, LeastNat
    <3>3. k \in 1..N /\ ~Holds(k)
      OBVIOUS
    <3> HIDE DEF Holds
    <3>4. k # 1
      BY <2>3, <3>3
    <3>5. k - 1 \in 1..N /\ ~(k <= k - 1)
      BY <1>1, <3>3, <3>4
    <3>6. Holds(k - 1)
      BY <3>2, <3>5
    <3> QED BY <2>4, <3>3, <3>4, <3>6
  <2>6. Holds(N)
    <3>1. N \in 1..N
      BY <1>1, <1>4
    <3> HIDE DEF Holds
    <3> QED BY <2>5, <3>1
  <2> QED BY <2>1, <2>6 DEF N
<1> QED BY <1>3, <1>4

(* The byte offsets of the indices.                                        *)
LEMMA OffIs ==
    ASSUME NEW str \in String
    PROVE  Z!unitToByte(str) =
               [i \in 0..Len(str) |-> IF Z!Trails(str, i) THEN Start(str)[i - 1] + 2 ELSE Start(str)[i]]
BY Zenon DEF Z!unitToByte, Start

LEMMA OffsetsAre ==
    ASSUME NEW str \in String
    PROVE  LET off == Z!unitToByte(str)
               x == Z!EncodedBytes(str)
           IN /\ DOMAIN off = 0..Len(str) /\ off[Len(str)] = Len(x) /\ Len(x) \in Nat
              /\ \A i \in 0..Len(str) : off[i] \in 0..Len(x)
              /\ \A i, j \in 0..Len(str) : i < j => off[i] < off[j]
              /\ \A i \in 0..(Len(str) - 1) :
                    off[i + 1] = off[i] + (IF Z!Leads(str, i) \/ Z!Trails(str, i) THEN 2 ELSE BytesLen(str, i))
<1> DEFINE N == Len(str)
           off == Z!unitToByte(str)
           x == Z!EncodedBytes(str)
<1>1. N \in Nat
  BY DEF String
<1>2. /\ DOMAIN off = 0..N
      /\ \A i \in 0..N : off[i] = IF Z!Trails(str, i) THEN Start(str)[i - 1] + 2 ELSE Start(str)[i]
  BY OffIs
<1>3. /\ Start(str)[0] = 0
      /\ \A u \in 1..N : Start(str)[u] = Start(str)[u - 1] + BytesLen(str, u - 1)
      /\ \A u \in 0..N : Start(str)[u] \in Nat
  BY StartIs
<1>4. Len(x) = Start(str)[N] /\ Len(x) \in Nat
  BY EncodedIs DEF Text
<1>5. ~Z!Trails(str, N) /\ ~Z!Trails(str, 0)
  BY <1>1 DEF Z!Trails, Z!Leads
<1>6. off[N] = Len(x)
  BY <1>1, <1>2, <1>4, <1>5
<1> HIDE DEF off, x
<1>7. ASSUME NEW i \in 0..(N - 1)
      PROVE  /\ off[i] \in Nat /\ off[i + 1] \in Nat /\ off[i + 1] > off[i]
             /\ off[i + 1] = off[i] + (IF Z!Leads(str, i) \/ Z!Trails(str, i) THEN 2 ELSE BytesLen(str, i))
  <2>1. i \in 0..N /\ i + 1 \in 1..N /\ i + 1 \in 0..N /\ (i + 1) - 1 = i
    BY <1>1
  <2>2. Start(str)[i + 1] = Start(str)[i] + BytesLen(str, i) /\ Start(str)[i] \in Nat
    BY <1>3, <2>1
  <2>3. /\ off[i] = IF Z!Trails(str, i) THEN Start(str)[i - 1] + 2 ELSE Start(str)[i]
        /\ off[i + 1] = IF Z!Trails(str, i + 1) THEN Start(str)[i] + 2 ELSE Start(str)[i + 1]
    BY <1>2, <2>1
  <2>4. CASE Z!Leads(str, i)
    <3>1. ~Z!Trails(str, i) /\ Z!Trails(str, i + 1)
      BY <2>4, UnitsAre
    <3> QED BY <2>2, <2>3, <2>4, <3>1
  <2>5. CASE Z!Trails(str, i)
    <3>1. i - 1 \in 0..(N - 1) /\ Z!Leads(str, i - 1) /\ ~Z!Leads(str, i) /\ ~Z!Trails(str, i + 1)
      BY <2>5, UnitsAre
    <3>2. BytesLen(str, i - 1) = 4 /\ BytesLen(str, i) = 0
      BY <2>5, <3>1, BytesAre DEF BytesLen
    <3>3. i \in 1..N /\ i - 1 \in 0..N
      BY <1>1, <3>1
    <3>4. Start(str)[i] = Start(str)[i - 1] + 4 /\ Start(str)[i - 1] \in Nat
      BY <1>3, <3>2, <3>3
    <3> QED BY <2>2, <2>3, <2>5, <3>1, <3>2, <3>4
  <2>6. CASE ~Z!Leads(str, i) /\ ~Z!Trails(str, i)
    <3>1. ~Z!Trails(str, i + 1)
      BY <2>6, UnitsAre
    <3>2. BytesLen(str, i) \in 1..3
      BY <2>6, BytesAre
    <3> QED BY <2>2, <2>3, <2>6, <3>1, <3>2
  <2> QED BY <2>4, <2>5, <2>6
<1>8. \A i \in 0..N : off[i] \in Nat
  <2> SUFFICES ASSUME NEW i \in 0..N PROVE off[i] \in Nat
    OBVIOUS
  <2>1. CASE i = N
    BY <1>4, <1>6, <2>1
  <2>2. CASE i # N
    <3>1. i \in 0..(N - 1)
      BY <1>1, <2>2
    <3> QED BY <1>7, <3>1
  <2> QED BY <2>1, <2>2
<1>9. \A i, j \in 0..N : i < j => off[i] < off[j]
  <2> SUFFICES ASSUME NEW i \in 0..N PROVE \A j \in 0..N : i < j => off[i] < off[j]
    OBVIOUS
  <2> DEFINE bad == {j \in 0..N : i < j /\ ~(off[i] < off[j])}
  <2>1. SUFFICES ASSUME bad # {} PROVE FALSE
    OBVIOUS
  <2>2. bad \subseteq Nat
    BY <1>1
  <2>3. PICK j \in bad : \A k \in bad : j <= k
    <3> HIDE DEF bad
    <3> QED BY <2>1, <2>2, LeastNat
  <2>4. j \in 0..N /\ i < j /\ ~(off[i] < off[j])
    OBVIOUS
  <2>5. j - 1 \in 0..(N - 1) /\ j - 1 \in 0..N /\ (j - 1) + 1 = j /\ ~(j <= j - 1)
    BY <1>1, <2>4
  <2>6. off[j] > off[j - 1]
    BY <1>7, <2>5
  <2>7. CASE i = j - 1
    BY <1>8, <2>4, <2>5, <2>6, <2>7
  <2>8. CASE i # j - 1
    <3>1. i < j - 1
      BY <2>4, <2>8
    <3>2. off[i] < off[j - 1]
      BY <2>3, <2>5, <3>1
    <3> QED BY <1>8, <2>4, <2>5, <2>6, <3>2
  <2> QED BY <2>7, <2>8
<1>10. \A i \in 0..N : off[i] \in 0..Len(x)
  <2> SUFFICES ASSUME NEW i \in 0..N PROVE off[i] \in 0..Len(x)
    OBVIOUS
  <2>1. N \in 0..N /\ (i = N \/ i < N)
    BY <1>1
  <2>2. off[i] <= off[N]
    BY <1>4, <1>6, <1>8, <1>9, <2>1
  <2> QED BY <1>4, <1>6, <1>8, <2>2
<1> QED BY <1>2, <1>4, <1>6, <1>7, <1>9, <1>10 DEF off, x, N

(* The bytes of a unit that is not the second of a pair are at its offset. *)
LEMMA StandsAt ==
    ASSUME NEW str \in String, NEW i \in 0..(Len(str) - 1), ~Z!Trails(str, i)
    PROVE  Stands(Z!EncodedBytes(str), Z!unitToByte(str)[i], CpOf(str, i))
<1>1. Placed(str, Z!EncodedBytes(str), i)
  BY EncodedIs
<1>2. BytesLen(str, i) = WrittenLen(CpOf(str, i)) /\ Z!BytesOf(str, i) = Written(CpOf(str, i))
  BY UnitsAre DEF BytesLen
<1>3. Z!unitToByte(str)[i] = Start(str)[i]
  <2>1. i \in 0..Len(str)
    BY UnitsAre
  <2> QED BY <2>1, OffIs
<1> QED BY <1>1, <1>2, <1>3 DEF Placed, Stands

(* The second unit of a pair, and no other, is in the middle of four       *)
(* bytes.                                                                  *)
LEMMA MidAt ==
    ASSUME NEW str \in String, NEW i \in 0..Len(str)
    PROVE  LET x == Z!EncodedBytes(str)
               off == Z!unitToByte(str)
           IN /\ Z!isMid(x, off[i]) <=> Z!Trails(str, i)
              /\ Z!Trails(str, i) => /\ i - 1 \in 0..(Len(str) - 1) /\ i \in 0..(Len(str) - 1)
                                     /\ Z!Leads(str, i - 1) /\ off[i] - 2 = off[i - 1]
                                     /\ Z!midOf(x, off[i]) = CpOf(str, i - 1)
<1> DEFINE x == Z!EncodedBytes(str)
           off == Z!unitToByte(str)
           N == Len(str)
<1>1. N \in Nat /\ x \in Text /\ Len(x) \in Nat
  BY EncodedIs DEF String, Text
<1>2. /\ off[N] = Len(x)
      /\ \A k \in 0..N : off[k] \in 0..Len(x)
      /\ \A k \in 0..(N - 1) :
            off[k + 1] = off[k] + (IF Z!Leads(str, k) \/ Z!Trails(str, k) THEN 2 ELSE BytesLen(str, k))
  BY OffsetsAre
<1>3. ASSUME Z!Trails(str, i)
      PROVE  /\ i - 1 \in 0..(N - 1) /\ i \in 0..(N - 1) /\ Z!Leads(str, i - 1)
             /\ off[i] - 2 = off[i - 1] /\ Z!midOf(x, off[i]) = CpOf(str, i - 1)
             /\ Z!isMid(x, off[i])
  <2>1. i > 0 /\ Z!Leads(str, i - 1)
    BY <1>3 DEF Z!Trails
  <2>2. i - 1 \in 0..(N - 1) /\ (i - 1) + 1 = i
    BY <1>1, <2>1
  <2>3. i < N
    BY <2>1, <2>2 DEF Z!Leads
  <2>4. off[i] = off[i - 1] + 2 /\ off[i - 1] \in Nat
    <3>1. i - 1 \in 0..N
      BY <1>1, <2>2
    <3> QED BY <1>2, <2>1, <2>2, <3>1, SMTT(20)
  <2>5. ~Z!Trails(str, i - 1) /\ WrittenLen(CpOf(str, i - 1)) = 4 /\ CodePoint(CpOf(str, i - 1))
    BY <2>1, <2>2, UnitsAre
  <2>6. Stands(x, off[i - 1], CpOf(str, i - 1))
    BY <2>2, <2>5, StandsAt
  <2> HIDE DEF x, off, N
  <2>7. /\ Z!seqAt(x, off[i - 1]) = 4
        /\ Z!CodePoint(x, off[i - 1], 4) = CpOf(str, i - 1)
        /\ Z!isContinuation(Z!Unit(x, off[i - 1] + 2))
    <3>1. 2 \in 1..(4 - 1)
      OBVIOUS
    <3> QED BY <1>1, <2>4, <2>5, <2>6, <3>1, ReadAgain
  <2>8. off[i - 1] + 4 <= Len(x)
    BY <2>5, <2>6 DEF Stands
  <2>9. off[i] - 2 = off[i - 1] /\ off[i] >= 2 /\ off[i] < Len(x)
    BY <1>1, <2>4, <2>8
  <2>10. Z!midOf(x, off[i]) = CpOf(str, i - 1)
    BY <2>7, <2>9 DEF Z!midOf
  <2>11. Z!isMid(x, off[i])
    BY <2>4, <2>7, <2>9 DEF Z!isMid
  <2>12. i \in 0..(N - 1)
    BY <1>1, <2>3
  <2> QED BY <2>1, <2>2, <2>9, <2>10, <2>11, <2>12
<1>4. ASSUME ~Z!Trails(str, i) PROVE ~Z!isMid(x, off[i])
  <2>1. CASE i = N
    BY <1>1, <1>2, <2>1 DEF Z!isMid
  <2>2. CASE i # N
    <3>1. i \in 0..(N - 1)
      BY <1>1, <2>2
    <3>2. Stands(x, off[i], CpOf(str, i)) /\ CodePoint(CpOf(str, i)) /\ off[i] \in Nat
      BY <1>2, <1>4, <3>1, StandsAt, UnitsAre
    <3> HIDE DEF x, off, N
    <3>3. ~Z!isContinuation(Z!Unit(x, off[i]))
      BY <1>1, <3>2, ReadAgain
    <3> QED BY <3>3 DEF Z!isMid
  <2> QED BY <2>1, <2>2
<1> QED BY <1>3, <1>4

(* One character is read as the same in either encoding, and ends at the   *)
(* offset of the same index (root.zig:86-98, 173-195).                     *)
LEMMA Crosses ==
    ASSUME NEW str \in String, NEW m \in Modes, NEW i \in 0..(Len(str) - 1)
    PROVE  \E v : \E j \in (i + 1)..Len(str) :
              /\ Z!utf16DecodeAt(str, m, i) = Z!Decoded(v, j)
              /\ Z!wtf8DecodeAt(Z!EncodedBytes(str), m, Z!unitToByte(str)[i]) = Z!Decoded(v, Z!unitToByte(str)[j])
<1> DEFINE x == Z!EncodedBytes(str)
           off == Z!unitToByte(str)
           N == Len(str)
           c == CpOf(str, i)
           p == off[i]
<1>1. N \in Nat /\ x \in Text /\ Len(x) \in Nat
  BY EncodedIs DEF String, Text
<1>2. i \in 0..N /\ i + 1 \in 0..N /\ i + 1 \in (i + 1)..N /\ ~(i >= N)
  BY <1>1
<1>3. /\ p \in Nat
      /\ off[i + 1] = p + (IF Z!Leads(str, i) \/ Z!Trails(str, i) THEN 2 ELSE BytesLen(str, i))
      /\ p < Len(x)
  <2>1. N \in 0..N /\ i < N
    BY <1>1
  <2>2. off[i] < off[N] /\ off[N] = Len(x) /\ off[i] \in 0..Len(x)
    BY <1>2, <2>1, OffsetsAre
  <2>3. off[i + 1] = p + (IF Z!Leads(str, i) \/ Z!Trails(str, i) THEN 2 ELSE BytesLen(str, i))
    BY OffsetsAre
  <2> QED BY <2>2, <2>3
<1>4. Z!isMid(x, p) <=> Z!Trails(str, i)
  BY <1>2, MidAt
<1>5. Z!utf16DecodeAt(str, m, i) =
          IF m = "code_point" /\ Z!Leads(str, i) THEN Z!Decoded(c, i + 2) ELSE Z!Decoded(Z!Unit(str, i), i + 1)
  BY <1>2, Zenon DEF Z!utf16DecodeAt, Z!Leads, CpOf
<1>6. CodePoint(c)
  BY UnitsAre
<1>7. ~(p >= Len(x))
  BY <1>1, <1>3
<1>8. ASSUME ~Z!Trails(str, i)
      PROVE  Z!seqAt(x, p) = WrittenLen(c) /\ Z!CodePoint(x, p, WrittenLen(c)) = c
  <2>1. Stands(x, p, c)
    BY <1>8, StandsAt
  <2> HIDE DEF x, p, c
  <2> QED BY <1>1, <1>3, <1>6, <2>1, ReadAgain
<1>9. CASE Z!Leads(str, i)
  <2>1. /\ WrittenLen(c) = 4 /\ i + 1 < N /\ ~Z!Trails(str, i) /\ Z!Trails(str, i + 1)
        /\ Z!Unit(str, i) = Z!leadOf(c)
    BY <1>9, UnitsAre
  <2>2. off[i + 1] = p + 2
    BY <1>3, <1>9
  <2>3. off[i + 2] = p + 4
    <3>1. i + 1 \in 0..(N - 1) /\ (i + 1) + 1 = i + 2
      BY <1>1, <2>1
    <3>2. off[(i + 1) + 1] = off[i + 1] + 2
      BY <2>1, <3>1, OffsetsAre
    <3> QED BY <1>3, <2>2, <3>1, <3>2
  <2>4. Z!seqAt(x, p) = 4 /\ Z!CodePoint(x, p, 4) = c
    BY <1>8, <2>1
  <2>5. Z!wtf8DecodeAt(x, m, p) = IF m = "code_unit" THEN Z!Decoded(Z!leadOf(c), p + 2) ELSE Z!Decoded(c, p + 4)
    <3>1. 4 # 0
      OBVIOUS
    <3> HIDE DEF x, p, c
    <3> QED BY <1>4, <1>7, <2>1, <2>4, <3>1, Zenon DEF Z!wtf8DecodeAt
  <2> HIDE DEF x, p, off, c
  <2>6. CASE m = "code_point"
    <3>1. i + 2 \in (i + 1)..N
      BY <1>1, <2>1
    <3>2. Z!utf16DecodeAt(str, m, i) = Z!Decoded(c, i + 2)
      BY <1>5, <1>9, <2>6
    <3>3. Z!wtf8DecodeAt(x, m, p) = Z!Decoded(c, off[i + 2])
      BY <2>3, <2>5, <2>6
    <3> QED BY <3>1, <3>2, <3>3 DEF x, off, p
  <2>7. CASE m = "code_unit"
    <3>1. Z!utf16DecodeAt(str, m, i) = Z!Decoded(Z!Unit(str, i), i + 1)
      BY <1>5, <2>7
    <3>2. Z!wtf8DecodeAt(x, m, p) = Z!Decoded(Z!Unit(str, i), off[i + 1])
      BY <2>1, <2>2, <2>5, <2>7
    <3> QED BY <1>2, <3>1, <3>2 DEF x, off, p
  <2> QED BY <2>6, <2>7 DEF Modes
<1>10. CASE Z!Trails(str, i)
  <2>1. /\ i - 1 \in 0..(N - 1) /\ Z!Leads(str, i - 1) /\ Z!midOf(x, p) = CpOf(str, i - 1)
    BY <1>2, <1>10, MidAt
  <2>2. ~Z!Leads(str, i) /\ Z!Unit(str, i) = Z!trailOf(CpOf(str, i - 1))
    <3>1. ~Z!Leads(str, i)
      BY <1>10, UnitsAre
    <3>2. Z!Unit(str, (i - 1) + 1) = Z!trailOf(CpOf(str, i - 1)) /\ (i - 1) + 1 = i
      BY <2>1, UnitsAre
    <3> QED BY <3>1, <3>2
  <2>3. off[i + 1] = p + 2
    BY <1>3, <1>10
  <2> HIDE DEF x, p, off, c
  <2>4. Z!wtf8DecodeAt(x, m, p) = Z!Decoded(Z!Unit(str, i), off[i + 1])
    BY <1>4, <1>7, <1>10, <2>1, <2>2, <2>3, Zenon DEF Z!wtf8DecodeAt
  <2>5. Z!utf16DecodeAt(str, m, i) = Z!Decoded(Z!Unit(str, i), i + 1)
    BY <1>5, <2>2
  <2> QED BY <1>2, <2>4, <2>5 DEF x, off, p
<1>11. CASE ~Z!Leads(str, i) /\ ~Z!Trails(str, i)
  <2>1. c = Z!Unit(str, i) /\ WrittenLen(c) \in 1..3 /\ BytesLen(str, i) = WrittenLen(c)
    BY <1>11, UnitsAre DEF BytesLen
  <2>2. WrittenLen(c) # 0 /\ WrittenLen(c) # 4
    BY <2>1
  <2>3. off[i + 1] = p + WrittenLen(c)
    BY <1>3, <1>11, <2>1
  <2>4. Z!seqAt(x, p) = WrittenLen(c) /\ Z!CodePoint(x, p, WrittenLen(c)) = c
    BY <1>8, <1>11
  <2> HIDE DEF x, p, off, c
  <2>5. Z!wtf8DecodeAt(x, m, p) = Z!Decoded(c, off[i + 1])
    BY <1>4, <1>7, <1>11, <2>2, <2>3, <2>4, Zenon DEF Z!wtf8DecodeAt
  <2>6. Z!utf16DecodeAt(str, m, i) = Z!Decoded(c, i + 1)
    BY <1>5, <1>11, <2>1
  <2> QED BY <1>2, <2>5, <2>6 DEF x, off, p
<1> QED BY <1>9, <1>10, <1>11

(* An execution starts at the same character (root.zig:215-217).           *)
LEMMA CharStartCrosses ==
    ASSUME NEW str \in String, NEW m \in Modes, NEW i \in 0..Len(str)
    PROVE  /\ Z!utf16CharStart(str, m, i) \in 0..Len(str)
           /\ Z!wtf8CharStart(Z!EncodedBytes(str), m, Z!unitToByte(str)[i])
                  = Z!unitToByte(str)[Z!utf16CharStart(str, m, i)]
<1> DEFINE x == Z!EncodedBytes(str)
           off == Z!unitToByte(str)
           N == Len(str)
<1>1. N \in Nat
  BY DEF String
<1>2. Z!isMid(x, off[i]) <=> Z!Trails(str, i)
  BY MidAt
<1>3. Z!Trails(str, i) => i - 1 \in 0..N /\ off[i] - 2 = off[i - 1]
  <2> SUFFICES ASSUME Z!Trails(str, i) PROVE i - 1 \in 0..N /\ off[i] - 2 = off[i - 1]
    OBVIOUS
  <2>1. i - 1 \in 0..(N - 1) /\ off[i] - 2 = off[i - 1]
    BY MidAt
  <2> HIDE DEF off, N
  <2> QED BY <1>1, <2>1
<1> HIDE DEF x, off
<1>4. (0 < i /\ i < N /\ Z!isTrail(Z!Unit(str, i)) /\ Z!isLead(Z!Unit(str, i - 1))) <=> Z!Trails(str, i)
  <2>1. (i - 1) + 1 = i /\ (i > 0 <=> 0 < i)
    BY <1>1
  <2> QED BY <2>1 DEF Z!Trails, Z!Leads
<1>5. Z!utf16CharStart(str, m, i) = IF m = "code_point" /\ Z!Trails(str, i) THEN i - 1 ELSE i
  BY <1>4 DEF Z!utf16CharStart
<1>6. Z!wtf8CharStart(x, m, off[i]) = IF m = "code_point" /\ Z!Trails(str, i) THEN off[i] - 2 ELSE off[i]
  BY <1>2 DEF Z!wtf8CharStart
<1> QED BY <1>1, <1>3, <1>5, <1>6 DEF x, off

(* Where the attempts of an execution start, one after the other: the      *)
(* recursive table of Attempts exists.                                     *)
Attempted(a, enc, x, m, i) ==
    /\ a[0] = Z!CharStart(enc, x, m, i)
    /\ \A k \in 1..Len(x) : a[k] = IF a[k - 1] \in {-1, Len(x)} THEN -1
                                   ELSE Z!DecodeAt(enc, x, m, a[k - 1]).pos
    /\ Z!Attempts(enc, x, m, i) = {a[k] : k \in 0..Len(x)} \ {-1}

LEMMA AttemptsAre ==
    ASSUME NEW enc, NEW x, Len(x) \in Nat, NEW m, NEW i, NEW P, Z!CharStart(enc, x, m, i) \in P,
           \A p \in P : p # Len(x) => Z!DecodeAt(enc, x, m, p).pos \in P
    PROVE  \E a : Attempted(a, enc, x, m, i)
<1> DEFINE N == Len(x)
           next(v) == IF v \in {-1, N} THEN -1 ELSE Z!DecodeAt(enc, x, m, v).pos
           X == P \cup {-1}
           g == [u \in 1..N |-> [v \in X |-> next(v)]]
<1>1. N \in Nat
  OBVIOUS
<1>2. \A v \in X : next(v) \in X
  OBVIOUS
<1> HIDE DEF next, X, N
<1>3. g \in [1..N -> [X -> X]]
  BY <1>2
<1>4. Z!CharStart(enc, x, m, i) \in X
  BY DEF X
<1>5. PICK f \in [0..N -> X] : f[0] = Z!CharStart(enc, x, m, i) /\ \A u \in 1..N : f[u] = g[u][f[u - 1]]
  <2> HIDE DEF g
  <2>1. PICK f : Recurs(f, N, X, Z!CharStart(enc, x, m, i), g)
    BY <1>1, <1>3, <1>4, Recursion
  <2> QED BY <2>1 DEF Recurs
<1>6. \A k \in 0..N : f[k] = IF k = 0 THEN Z!CharStart(enc, x, m, i) ELSE next(f[k - 1])
  <2> SUFFICES ASSUME NEW k \in 0..N, k # 0 PROVE f[k] = next(f[k - 1])
    BY <1>5
  <2>1. k \in 1..N /\ k - 1 \in 0..N
    BY <1>1
  <2>2. f[k - 1] \in X
    BY <2>1
  <2> QED BY <1>5, <2>1, <2>2
<1>7. f = [k \in 0..N |-> IF k = 0 THEN Z!CharStart(enc, x, m, i) ELSE next(f[k - 1])]
  <2>1. f = [k \in 0..N |-> f[k]]
    OBVIOUS
  <2> QED BY <1>6, <2>1
<1> DEFINE a == CHOOSE h : h = [k \in 0..N |-> IF k = 0 THEN Z!CharStart(enc, x, m, i) ELSE next(h[k - 1])]
<1>8. a = [k \in 0..N |-> IF k = 0 THEN Z!CharStart(enc, x, m, i) ELSE next(a[k - 1])]
  BY <1>7, Zenon
<1>9. Z!Attempts(enc, x, m, i) = {a[k] : k \in 0..N} \ {-1}
  BY Zenon DEF Z!Attempts, next, N
<1> HIDE DEF a
<1>10. a[0] = Z!CharStart(enc, x, m, i)
  BY <1>1, <1>8
<1>11. \A k \in 1..N : a[k] = next(a[k - 1])
  <2> SUFFICES ASSUME NEW k \in 1..N PROVE a[k] = next(a[k - 1])
    OBVIOUS
  <2>1. k \in 0..N /\ k # 0
    BY <1>1
  <2> QED BY <1>8, <2>1, Zenon
<1>12. Attempted(a, enc, x, m, i)
  BY <1>9, <1>10, <1>11, Zenon DEF Attempted, next, N
<1> QED BY <1>12

LEMMA AsLong ==
    ASSUME NEW str \in String
    PROVE  Len(str) \in Nat /\ Len(Z!EncodedBytes(str)) \in Nat /\ Len(str) <= Len(Z!EncodedBytes(str))
<1> DEFINE N == Len(str)
           M == Len(Z!EncodedBytes(str))
           off == Z!unitToByte(str)
           bad == {k \in 0..N : ~(k <= off[k])}
<1>1. N \in Nat
  BY DEF String
<1>2. /\ off[N] = M /\ M \in Nat
      /\ \A j \in 0..N : off[j] \in 0..M
      /\ \A j, k \in 0..N : j < k => off[j] < off[k]
  BY OffsetsAre
<1> HIDE DEF N, M, off
<1>3. bad = {}
  <2> SUFFICES ASSUME bad # {} PROVE FALSE
    OBVIOUS
  <2>1. bad \subseteq Nat
    BY <1>1
  <2>2. PICK k \in bad : \A j \in bad : k <= j
    <3> HIDE DEF bad
    <3> QED BY <2>1, LeastNat
  <2>3. k \in 0..N /\ ~(k <= off[k]) /\ off[k] \in Nat
    BY <1>2
  <2>4. k # 0
    BY <2>3
  <2>5. k - 1 \in 0..N /\ ~(k <= k - 1) /\ k - 1 < k
    BY <1>1, <2>3, <2>4
  <2>6. k - 1 <= off[k - 1] /\ off[k - 1] < off[k] /\ off[k - 1] \in Nat
    BY <1>2, <2>2, <2>3, <2>5
  <2> QED BY <2>3, <2>5, <2>6
<1>4. N <= off[N]
  <2>1. N \in 0..N
    BY <1>1
  <2> QED BY <1>3, <2>1
<1> QED BY <1>1, <1>2, <1>4 DEF N, M

(* The attempts of an execution start at the offsets of the same indices   *)
(* (root.zig:86-98, 173-217).                                              *)
LEMMA AttemptsCross ==
    ASSUME NEW str \in String, NEW m \in Modes, NEW i \in 0..Len(str)
    PROVE  /\ Z!Attempts("utf16", str, m, i) \subseteq 0..Len(str)
           /\ Z!Attempts("wtf8", Z!EncodedBytes(str), m, Z!unitToByte(str)[i])
                  = {Z!unitToByte(str)[p] : p \in Z!Attempts("utf16", str, m, i)}
<1> DEFINE x == Z!EncodedBytes(str)
           off == Z!unitToByte(str)
           N == Len(str)
           M == Len(x)
           D16(p) == Z!DecodeAt("utf16", str, m, p).pos
           D8(p) == Z!DecodeAt("wtf8", x, m, p).pos
           P8 == {off[p] : p \in 0..N}
<1>1. N \in Nat /\ M \in Nat /\ N <= M
  BY AsLong
<1>2. /\ off[N] = M
      /\ \A j \in 0..N : off[j] \in 0..M
      /\ \A j, k \in 0..N : j < k => off[j] < off[k]
  BY OffsetsAre
<1>3. \A p \in 0..(N - 1) : D16(p) \in (p + 1)..N /\ D8(off[p]) = off[D16(p)]
  <2> SUFFICES ASSUME NEW p \in 0..(N - 1) PROVE D16(p) \in (p + 1)..N /\ D8(off[p]) = off[D16(p)]
    OBVIOUS
  <2>1. PICK v : \E j \in (p + 1)..Len(str) :
              /\ Z!utf16DecodeAt(str, m, p) = Z!Decoded(v, j)
              /\ Z!wtf8DecodeAt(Z!EncodedBytes(str), m, Z!unitToByte(str)[p]) = Z!Decoded(v, Z!unitToByte(str)[j])
    BY Crosses
  <2>2. PICK j \in (p + 1)..N : /\ Z!utf16DecodeAt(str, m, p) = Z!Decoded(v, j)
                               /\ Z!wtf8DecodeAt(x, m, off[p]) = Z!Decoded(v, off[j])
    BY <2>1
  <2>3. \A q : Z!Decoded(v, q).pos = q
    BY DEF Z!Decoded
  <2> HIDE DEF x, off, N
  <2>4. D16(p) = j /\ D8(off[p]) = off[j]
    BY <2>2, <2>3, Zenon DEF Z!DecodeAt
  <2> QED BY <2>4
<1>4. /\ Z!CharStart("utf16", str, m, i) \in 0..N
      /\ Z!CharStart("wtf8", x, m, off[i]) = off[Z!CharStart("utf16", str, m, i)]
  BY CharStartCrosses DEF Z!CharStart
<1>5. PICK a : Attempted(a, "utf16", str, m, i)
  <2>1. \A p \in 0..N : p # Len(str) => Z!DecodeAt("utf16", str, m, p).pos \in 0..N
    <3> SUFFICES ASSUME NEW p \in 0..N, p # N PROVE D16(p) \in 0..N
      OBVIOUS
    <3> HIDE DEF N, D16
    <3>1. p \in 0..(N - 1)
      BY <1>1
    <3> QED BY <1>1, <1>3, <3>1
  <2> QED BY <1>1, <1>4, <2>1, AttemptsAre
<1>6. PICK c : Attempted(c, "wtf8", x, m, off[i])
  <2>1. \A p \in P8 : p # Len(x) => Z!DecodeAt("wtf8", x, m, p).pos \in P8
    <3> SUFFICES ASSUME NEW p \in 0..N, off[p] # M PROVE D8(off[p]) \in P8
      OBVIOUS
    <3> HIDE DEF N, D8, D16, off
    <3>1. p \in 0..(N - 1)
      BY <1>1, <1>2
    <3>2. D16(p) \in 0..N
      BY <1>1, <1>3, <3>1
    <3> QED BY <1>3, <3>1, <3>2
  <2>2. Z!CharStart("wtf8", x, m, off[i]) \in P8
    BY <1>4
  <2> HIDE DEF P8, x, off
  <2> QED BY <1>1, <2>1, <2>2, AttemptsAre DEF M
<1>7. /\ a[0] = Z!CharStart("utf16", str, m, i)
      /\ \A k \in 1..N : a[k] = IF a[k - 1] \in {-1, N} THEN -1 ELSE D16(a[k - 1])
      /\ Z!Attempts("utf16", str, m, i) = {a[k] : k \in 0..N} \ {-1}
  BY <1>5 DEF Attempted
<1>8. /\ c[0] = off[Z!CharStart("utf16", str, m, i)]
      /\ \A k \in 1..M : c[k] = IF c[k - 1] \in {-1, M} THEN -1 ELSE D8(c[k - 1])
      /\ Z!Attempts("wtf8", x, m, off[i]) = {c[k] : k \in 0..M} \ {-1}
  BY <1>4, <1>6 DEF Attempted
<1> HIDE DEF x, off, N, M, D16, D8
<1> DEFINE Pair(k) == /\ k <= N => a[k] \in {-1} \cup k..N /\ c[k] = IF a[k] = -1 THEN -1 ELSE off[a[k]]
                      /\ k > N => c[k] = -1
           bad == {k \in 0..M : ~Pair(k)}
<1>9. Pair(0)
  <2>1. a[0] \in 0..N /\ a[0] # -1 /\ c[0] = off[a[0]]
    BY <1>1, <1>4, <1>7, <1>8
  <2> QED BY <1>1, <2>1
<1>10. ASSUME NEW k \in 1..M, Pair(k - 1) PROVE Pair(k)
  <2>1. c[k] = IF c[k - 1] \in {-1, M} THEN -1 ELSE D8(c[k - 1])
    BY <1>8
  <2>2. CASE k > N + 1
    <3>1. c[k - 1] = -1
      BY <1>1, <1>10, <2>2
    <3> QED BY <1>1, <2>1, <2>2, <3>1
  <2>3. CASE k = N + 1
    <3>1. k - 1 = N /\ a[N] \in {-1, N} /\ c[N] = IF a[N] = -1 THEN -1 ELSE off[a[N]]
      BY <1>1, <1>10, <2>3
    <3>2. c[N] \in {-1, M}
      BY <1>2, <3>1
    <3> QED BY <1>1, <2>1, <2>3, <3>1, <3>2
  <2>4. CASE k <= N
    <3>1. /\ k \in 1..N /\ a[k - 1] \in {-1} \cup (k - 1)..N
          /\ c[k - 1] = IF a[k - 1] = -1 THEN -1 ELSE off[a[k - 1]]
      BY <1>1, <1>10, <2>4
    <3>2. a[k] = IF a[k - 1] \in {-1, N} THEN -1 ELSE D16(a[k - 1])
      BY <1>7, <3>1
    <3>3. CASE a[k - 1] \in {-1, N}
      <4>1. c[k - 1] \in {-1, M}
        BY <1>2, <3>1, <3>3
      <4> QED BY <1>1, <2>1, <2>4, <3>1, <3>2, <3>3, <4>1
    <3>4. CASE a[k - 1] \notin {-1, N}
      <4>1. a[k - 1] \in 0..(N - 1) /\ a[k - 1] \in 0..N /\ N \in 0..N /\ a[k - 1] < N /\ a[k - 1] >= k - 1
        BY <1>1, <3>1, <3>4
      <4>2. c[k - 1] = off[a[k - 1]] /\ off[a[k - 1]] < M /\ off[a[k - 1]] \in 0..M
        BY <1>1, <1>2, <3>1, <3>4, <4>1
      <4>3. c[k] = D8(off[a[k - 1]]) /\ a[k] = D16(a[k - 1])
        BY <1>1, <2>1, <3>2, <3>4, <4>2
      <4>4. a[k] \in (a[k - 1] + 1)..N /\ c[k] = off[a[k]]
        BY <1>3, <4>1, <4>3
      <4>5. a[k] \in k..N /\ a[k] # -1
        BY <1>1, <4>1, <4>4
      <4> QED BY <1>1, <2>4, <4>4, <4>5
    <3> QED BY <3>3, <3>4
  <2> QED BY <1>1, <2>2, <2>3, <2>4
<1>11. bad = {}
  <2> SUFFICES ASSUME bad # {} PROVE FALSE
    OBVIOUS
  <2>1. bad \subseteq Nat
    BY <1>1
  <2>2. PICK k \in bad : \A j \in bad : k <= j
    <3> HIDE DEF bad
    <3> QED BY <2>1, LeastNat
  <2>3. k \in 0..M /\ ~Pair(k)
    OBVIOUS
  <2> HIDE DEF Pair
  <2>4. k # 0
    BY <1>9, <2>3
  <2>5. k \in 1..M /\ k - 1 \in 0..M /\ ~(k <= k - 1)
    BY <1>1, <2>3, <2>4
  <2>6. Pair(k - 1)
    BY <2>2, <2>5
  <2> QED BY <1>10, <2>3, <2>5, <2>6
<1>12. \A k \in 0..M : Pair(k)
  <2> HIDE DEF Pair
  <2> QED BY <1>11
<1>13. \A k \in 0..N : k \in 0..M /\ a[k] \in {-1} \cup 0..N /\ c[k] = IF a[k] = -1 THEN -1 ELSE off[a[k]]
  BY <1>1, <1>12
<1>14. \A k \in 0..M : c[k] # -1 => k \in 0..N
  BY <1>1, <1>12
<1> HIDE DEF Pair, bad
<1>15. Z!Attempts("utf16", str, m, i) \subseteq 0..N
  BY <1>7, <1>13
<1>16. ASSUME NEW p \in Z!Attempts("utf16", str, m, i) PROVE off[p] \in Z!Attempts("wtf8", x, m, off[i])
  <2>1. PICK k \in 0..N : p = a[k] /\ a[k] # -1
    BY <1>7
  <2>2. k \in 0..M /\ c[k] = off[p] /\ p \in 0..N
    BY <1>13, <2>1
  <2>3. off[p] # -1
    BY <1>1, <1>2, <2>2
  <2> QED BY <1>8, <2>2, <2>3
<1>17. ASSUME NEW q \in Z!Attempts("wtf8", x, m, off[i])
       PROVE  \E p \in Z!Attempts("utf16", str, m, i) : q = off[p]
  <2>1. PICK k \in 0..M : q = c[k] /\ c[k] # -1
    BY <1>8
  <2>2. k \in 0..N /\ a[k] # -1 /\ q = off[a[k]]
    BY <1>13, <1>14, <2>1
  <2> QED BY <1>7, <2>2
<1>18. Z!Attempts("wtf8", x, m, off[i]) = {off[p] : p \in Z!Attempts("utf16", str, m, i)}
  BY <1>16, <1>17
<1> QED BY <1>15, <1>18 DEF x, off, N

(* The attempts at which the character asked for stands.                   *)
Hits(enc, key, x, i) ==
    {p \in Z!Attempts(enc, x, Z!Mode(key[1]), i) :
        i <= Len(x) /\ p < Len(x) /\ Z!DecodeAt(enc, x, Z!Mode(key[1]), p).value \in Patterns[key[2]]}

(* The first of them is the answer.                                        *)
LEMMA LibraryIs ==
    ASSUME NEW enc, NEW key, NEW x, NEW i, Hits(enc, key, x, i) \subseteq Nat
    PROVE  \/ Hits(enc, key, x, i) = {} /\ Z!Library(enc, key, x, i) = <<>>
           \/ \E p \in Hits(enc, key, x, i) :
                 /\ \A q \in Hits(enc, key, x, i) : p <= q
                 /\ Z!Library(enc, key, x, i) = <<p, Z!DecodeAt(enc, x, Z!Mode(key[1]), p).pos>>
<1> DEFINE hits == Hits(enc, key, x, i)
           p == CHOOSE v \in hits : \A q \in hits : v <= q
<1>1. Z!Library(enc, key, x, i) =
          IF hits = {} THEN <<>> ELSE <<p, Z!DecodeAt(enc, x, Z!Mode(key[1]), p).pos>>
  BY Zenon DEF Z!Library, Hits
<1> HIDE DEF hits
<1>2. ASSUME hits # {} PROVE p \in hits /\ \A q \in hits : p <= q
  <2>1. \E v \in hits : \A q \in hits : v <= q
    BY <1>2, LeastNat DEF hits
  <2> QED BY <2>1, Zenon
<1> QED BY <1>1, <1>2 DEF hits

(* The library finds the same span in either encoding.                     *)
LEMMA LibraryCrosses ==
    ASSUME NEW str \in String, NEW key, NEW i \in 0..Len(str)
    PROVE  \/ /\ Z!Library("utf16", key, str, i) = <<>>
              /\ Z!Library("wtf8", key, Z!EncodedBytes(str), Z!unitToByte(str)[i]) = <<>>
           \/ \E p, j \in 0..Len(str) :
                 /\ Z!Library("utf16", key, str, i) = <<p, j>>
                 /\ Z!Library("wtf8", key, Z!EncodedBytes(str), Z!unitToByte(str)[i])
                        = <<Z!unitToByte(str)[p], Z!unitToByte(str)[j]>>
<1> DEFINE x == Z!EncodedBytes(str)
           off == Z!unitToByte(str)
           N == Len(str)
           M == Len(x)
           m == Z!Mode(key[1])
           P == Patterns[key[2]]
           D16(p) == Z!DecodeAt("utf16", str, m, p)
           D8(p) == Z!DecodeAt("wtf8", x, m, p)
           h16 == Hits("utf16", key, str, i)
           h8 == Hits("wtf8", key, x, off[i])
           A == Z!Attempts("utf16", str, m, i)
<1>1. N \in Nat /\ M \in Nat
  BY AsLong
<1>2. /\ off[N] = M
      /\ \A j \in 0..N : off[j] \in 0..M
      /\ \A j, k \in 0..N : j < k => off[j] < off[k]
  BY OffsetsAre
<1>3. m \in Modes
  BY DEF Z!Mode, Modes
<1>4. ASSUME NEW p \in 0..(N - 1)
      PROVE  /\ D16(p).pos \in 0..N /\ D8(off[p]).pos = off[D16(p).pos]
             /\ D8(off[p]).value = D16(p).value
  <2> HIDE DEF m
  <2>1. PICK v : \E j \in (p + 1)..Len(str) :
              /\ Z!utf16DecodeAt(str, m, p) = Z!Decoded(v, j)
              /\ Z!wtf8DecodeAt(Z!EncodedBytes(str), m, Z!unitToByte(str)[p]) = Z!Decoded(v, Z!unitToByte(str)[j])
    BY <1>3, Crosses
  <2>2. PICK j \in (p + 1)..N : /\ Z!utf16DecodeAt(str, m, p) = Z!Decoded(v, j)
                               /\ Z!wtf8DecodeAt(x, m, off[p]) = Z!Decoded(v, off[j])
    BY <2>1
  <2>3. \A q : Z!Decoded(v, q).pos = q /\ Z!Decoded(v, q).value = v
    BY DEF Z!Decoded
  <2> HIDE DEF x, off, N
  <2>4. D16(p) = Z!Decoded(v, j) /\ D8(off[p]) = Z!Decoded(v, off[j])
    BY <2>2, Zenon DEF Z!DecodeAt
  <2>5. j \in 0..N
    BY <1>1
  <2> QED BY <2>3, <2>4, <2>5
<1>5. A \subseteq 0..N /\ Z!Attempts("wtf8", x, m, off[i]) = {off[p] : p \in A}
  <2> HIDE DEF m
  <2> QED BY <1>3, AttemptsCross
<1>6. h16 = {p \in A : i <= N /\ p < N /\ D16(p).value \in P}
  BY Zenon DEF Hits
<1>7. h8 = {q \in Z!Attempts("wtf8", x, m, off[i]) : off[i] <= M /\ q < M /\ D8(q).value \in P}
  BY Zenon DEF Hits
<1>8. i <= N /\ off[i] <= M
  BY <1>1, <1>2
<1> HIDE DEF x, off, N, M, m, P, D16, D8, h16, h8, A
<1>9. \A p \in 0..N : p < N <=> off[p] < M
  <2> SUFFICES ASSUME NEW p \in 0..N PROVE p < N <=> off[p] < M
    OBVIOUS
  <2>1. N \in 0..N
    BY <1>1
  <2>2. CASE p = N
    BY <1>1, <1>2, <2>2
  <2>3. CASE p # N
    BY <1>1, <1>2, <2>1, <2>3
  <2> QED BY <2>2, <2>3
<1>10. \A p \in h16 : p \in 0..(N - 1) /\ p \in 0..N /\ off[p] \in h8
  <2> SUFFICES ASSUME NEW p \in h16 PROVE p \in 0..(N - 1) /\ p \in 0..N /\ off[p] \in h8
    OBVIOUS
  <2>1. p \in A /\ p \in 0..N /\ p < N /\ D16(p).value \in P
    BY <1>5, <1>6
  <2>2. p \in 0..(N - 1)
    BY <1>1, <2>1
  <2>3. D8(off[p]).value \in P
    BY <1>4, <2>1, <2>2
  <2>4. off[p] \in Z!Attempts("wtf8", x, m, off[i]) /\ off[p] < M
    BY <1>5, <1>9, <2>1
  <2> QED BY <1>7, <1>8, <2>1, <2>2, <2>3, <2>4
<1>11. \A q \in h8 : \E p \in h16 : q = off[p]
  <2> SUFFICES ASSUME NEW q \in h8 PROVE \E p \in h16 : q = off[p]
    OBVIOUS
  <2>1. q \in {off[p] : p \in A} /\ q < M /\ D8(q).value \in P
    BY <1>5, <1>7
  <2>2. PICK p \in A : q = off[p]
    BY <2>1
  <2>3. p \in 0..N /\ p < N
    BY <1>5, <1>9, <2>1, <2>2
  <2>4. p \in 0..(N - 1)
    BY <1>1, <2>3
  <2>5. D16(p).value \in P
    BY <1>4, <2>1, <2>2, <2>4
  <2> QED BY <1>6, <1>8, <2>2, <2>3, <2>5
<1>12. h16 \subseteq Nat /\ h8 \subseteq Nat
  BY <1>1, <1>2, <1>10, <1>11
<1>13. CASE h16 = {}
  <2>1. h8 = {}
    BY <1>11, <1>13
  <2>2. Z!Library("utf16", key, str, i) = <<>>
    BY <1>12, <1>13, LibraryIs DEF h16
  <2>3. Z!Library("wtf8", key, x, off[i]) = <<>>
    BY <1>12, <2>1, LibraryIs DEF h8
  <2> QED BY <2>2, <2>3 DEF x, off
<1>14. CASE h16 # {}
  <2>1. PICK p \in h16 : /\ \A q \in h16 : p <= q
                        /\ Z!Library("utf16", key, str, i) = <<p, D16(p).pos>>
    BY <1>12, <1>14, LibraryIs DEF h16, D16, m
  <2>2. h8 # {}
    BY <1>10, <1>14
  <2>3. PICK r \in h8 : /\ \A q \in h8 : r <= q
                       /\ Z!Library("wtf8", key, x, off[i]) = <<r, D8(r).pos>>
    BY <1>12, <2>2, LibraryIs DEF h8, D8, m
  <2>4. PICK q \in h16 : r = off[q]
    BY <1>11
  <2>5. p \in 0..N /\ q \in 0..N /\ p <= q /\ off[q] <= off[p] /\ off[p] \in Nat /\ off[q] \in Nat
    BY <1>1, <1>2, <1>10, <2>1, <2>3, <2>4
  <2>6. p = q
    BY <1>1, <1>2, <2>5
  <2>7. D16(p).pos \in 0..N /\ D8(off[p]).pos = off[D16(p).pos]
    BY <1>4, <1>10
  <2> QED BY <2>1, <2>3, <2>4, <2>5, <2>6, <2>7 DEF x, off, N
<1> QED BY <1>13, <1>14

(* byteToUnit undoes the table it is built from (zregex.mjs:79-89).        *)
LEMMA BackToUnit ==
    ASSUME NEW N \in Nat, NEW t, DOMAIN t = 0..N, \A k \in 0..N : t[k] \in 0..t[N],
           \A j, k \in 0..N : j < k => t[j] < t[k], NEW k \in 0..N
    PROVE  Z!byteToUnit(t)[t[k]] = k
<1>1. Z!Max(0..N) = N
  <2>1. N \in 0..N /\ \A y \in 0..N : N >= y
    OBVIOUS
  <2>2. \A v \in 0..N : (\A y \in 0..N : v >= y) => v = N
    OBVIOUS
  <2> QED BY <2>1, <2>2, Zenon DEF Z!Max
<1>2. \A j \in 0..N : t[j] = t[k] => j = k
  <2> SUFFICES ASSUME NEW j \in 0..N, t[j] = t[k], j # k PROVE FALSE
    OBVIOUS
  <2>1. t[k] \in 0..t[N]
    OBVIOUS
  <2>2. t[k] \in Int /\ ~(t[k] < t[k])
    BY <2>1
  <2>3. j < k \/ k < j
    OBVIOUS
  <2> QED BY <2>2, <2>3
<1>3. Z!byteToUnit(t)[t[k]] = CHOOSE i \in 0..N : t[i] = t[k]
  <2>1. Z!byteToUnit(t) = [b_ \in 0..t[N] |-> IF \E i \in 0..N : t[i] = b_ THEN CHOOSE i \in 0..N : t[i] = b_ ELSE -1]
    BY <1>1, Zenon DEF Z!byteToUnit
  <2>2. t[k] \in 0..t[N]
    OBVIOUS
  <2>3. Z!byteToUnit(t)[t[k]] = IF \E i \in 0..N : t[i] = t[k] THEN CHOOSE i \in 0..N : t[i] = t[k] ELSE -1
    BY <2>1, <2>2, Zenon
  <2> QED BY <2>3, Zenon
<1>4. (CHOOSE i \in 0..N : t[i] = t[k]) = k
  BY <1>2, Zenon
<1> QED BY <1>3, <1>4

(* What comes back is the span of the string's own indices                 *)
(* (zregex.mjs:172-205).                                                   *)
LEMMA SameAnswer ==
    ASSUME NEW str \in String, NEW key, NEW i \in 0..Len(str), encoding \in {"utf16", "wtf8"}
    PROVE  Z!ToUnits(Z!encode(str), Z!Library(encoding, key, Z!encode(str).text, Z!Offset(Z!encode(str), i)))
               = Z!Library("utf16", key, str, i)
<1> DEFINE N == Len(str)
           off == Z!unitToByte(str)
           x == Z!EncodedBytes(str)
           id == [k \in 0..N |-> k]
           enc == Z!encode(str)
           ans == Z!Library("utf16", key, str, i)
           got == Z!Library(encoding, key, enc.text, Z!Offset(enc, i))
<1>1. N \in Nat /\ Len(x) \in Nat
  BY AsLong
<1>2. /\ DOMAIN off = 0..N /\ off[N] = Len(x)
      /\ \A j \in 0..N : off[j] \in 0..Len(x)
      /\ \A j, k \in 0..N : j < k => off[j] < off[k]
  BY OffsetsAre
<1>3. \/ ans = <<>> /\ Z!Library("wtf8", key, x, off[i]) = <<>>
      \/ \E p, j \in 0..N : ans = <<p, j>> /\ Z!Library("wtf8", key, x, off[i]) = <<off[p], off[j]>>
  BY LibraryCrosses
<1>4. CASE encoding = "utf16"
  <2>1. enc = [text |-> str, unitToByte |-> id, byteToUnit |-> Z!byteToUnit(id)]
    BY <1>4, Zenon DEF Z!encode
  <2>2. enc.text = str /\ enc.byteToUnit = Z!byteToUnit(id) /\ Z!Offset(enc, i) = i
    <3>1. Z!Offset(enc, i) = i
      BY <1>4, Zenon DEF Z!Offset
    <3> HIDE DEF enc, id
    <3> QED BY <2>1, <3>1
  <2>3. got = ans
    BY <1>4, <2>2
  <2> HIDE DEF got, ans, enc, N, off, x
  <2>4. \A k \in 0..N : Z!byteToUnit(id)[k] = k
    <3> SUFFICES ASSUME NEW k \in 0..N PROVE Z!byteToUnit(id)[k] = k
      OBVIOUS
    <3>1. DOMAIN id = 0..N /\ \A j \in 0..N : id[j] = j
      OBVIOUS
    <3> HIDE DEF id
    <3>2. /\ \A j \in 0..N : id[j] \in 0..id[N]
          /\ \A j, l \in 0..N : j < l => id[j] < id[l]
      BY <1>1, <3>1
    <3>3. Z!byteToUnit(id)[id[k]] = k
      BY <1>1, <3>1, <3>2, BackToUnit
    <3> QED BY <3>1, <3>3
  <2> HIDE DEF id
  <2>5. Z!ToUnits(enc, got) = [k \in DOMAIN ans |-> Z!byteToUnit(id)[ans[k]]]
    BY <2>2, <2>3, Zenon DEF Z!ToUnits
  <2>6. CASE ans = <<>>
    <3>1. [k \in DOMAIN ans |-> Z!byteToUnit(id)[ans[k]]] = <<>>
      BY <2>6
    <3> QED BY <2>5, <2>6, <3>1 DEF got, ans, enc
  <2>7. CASE \E p, j \in 0..N : ans = <<p, j>>
    <3>1. PICK p, j \in 0..N : ans = <<p, j>>
      BY <2>7
    <3>2. [k \in DOMAIN ans |-> Z!byteToUnit(id)[ans[k]]] = <<Z!byteToUnit(id)[p], Z!byteToUnit(id)[j]>>
      BY <3>1
    <3>3. Z!ToUnits(enc, got) = ans
      BY <2>4, <2>5, <3>1, <3>2
    <3> QED BY <3>3 DEF got, ans, enc
  <2> QED BY <1>3, <2>6, <2>7
<1>5. CASE encoding = "wtf8"
  <2>1. enc = [text |-> x, unitToByte |-> off, byteToUnit |-> Z!byteToUnit(off)]
    <3>1. encoding # "utf16"
      BY <1>5
    <3> QED BY <3>1, Zenon DEF Z!encode
  <2>2. enc.text = x /\ enc.byteToUnit = Z!byteToUnit(off) /\ Z!Offset(enc, i) = off[i]
    <3>1. Z!Offset(enc, i) = enc.unitToByte[i]
      <4>1. encoding # "utf16"
        BY <1>5
      <4> QED BY <4>1, Zenon DEF Z!Offset
    <3> HIDE DEF enc, off, x
    <3> QED BY <2>1, <3>1
  <2>3. got = Z!Library("wtf8", key, x, off[i])
    BY <1>5, <2>2
  <2> HIDE DEF got, ans, enc, N, off, x
  <2>4. \A k \in 0..N : Z!byteToUnit(off)[off[k]] = k
    <3> SUFFICES ASSUME NEW k \in 0..N PROVE Z!byteToUnit(off)[off[k]] = k
      OBVIOUS
    <3>1. \A j \in 0..N : off[j] \in 0..off[N]
      BY <1>2
    <3> QED BY <1>1, <1>2, <3>1, BackToUnit
  <2>5. Z!ToUnits(enc, got) = [k \in DOMAIN got |-> Z!byteToUnit(off)[got[k]]]
    BY <2>2, Zenon DEF Z!ToUnits
  <2>6. CASE ans = <<>> /\ got = <<>>
    <3>1. [k \in DOMAIN got |-> Z!byteToUnit(off)[got[k]]] = <<>>
      BY <2>6
    <3> QED BY <2>5, <2>6, <3>1 DEF got, ans, enc
  <2>7. CASE \E p, j \in 0..N : ans = <<p, j>> /\ got = <<off[p], off[j]>>
    <3>1. PICK p, j \in 0..N : ans = <<p, j>> /\ got = <<off[p], off[j]>>
      BY <2>7
    <3>2. [k \in DOMAIN got |-> Z!byteToUnit(off)[got[k]]] = <<Z!byteToUnit(off)[off[p]], Z!byteToUnit(off)[off[j]]>>
      BY <3>1
    <3>3. Z!ToUnits(enc, got) = ans
      BY <2>4, <2>5, <3>1, <3>2
    <3> QED BY <3>3 DEF got, ans, enc
  <2> QED BY <1>3, <2>3, <2>6, <2>7
<1> QED BY <1>4, <1>5

(* The bridge's answers: nothing is asked of what is remembered once a     *)
(* call ran out of memory, until the next subject.                         *)
Remembered == lastSubject # Z!NoSubject /\ ~ranOut => lastEncoded = Z!encode(lastSubject)

AnswerInv ==
    /\ BridgeInv
    /\ encoding \in {"utf16", "wtf8"}
    /\ Remembered
    /\ Z!AnswersOwn

LEMMA StringsAreStrings == \A str \in Strings : str \in String /\ str # Z!NoSubject
<1>1. ASSUME NEW str \in Strings PROVE str \in String
  BY StringsAssumption DEF String
<1>2. Z!NoSubject \notin String
  <2> SUFFICES ASSUME <<-1>> \in String PROVE FALSE
    BY DEF Z!NoSubject
  <2>1. \A w \in Seq(CodeUnits) : \A k \in 1..Len(w) : w[k] \in CodeUnits
    OBVIOUS
  <2>2. Len(<<-1>>) = 1 /\ <<-1>>[1] = -1 /\ 1 \in 1..1
    OBVIOUS
  <2>3. -1 \in CodeUnits
    BY <2>1, <2>2, Zenon DEF String
  <2> QED BY <2>3 DEF CodeUnits
<1> QED BY <1>1, <1>2

(* An execution answers what it was asked, whichever subject and patterns  *)
(* are remembered.                                                         *)
LEMMA ExecAnswers ==
    ASSUME AnswerInv, NEW key \in Z!Keys, NEW str \in Strings, NEW i \in 0..Len(str), Z!Exec(key, str, i)
    PROVE  AnswerInv'
<1>1. BridgeInv'
  BY CompileOwns DEF Z!Exec, AnswerInv
<1>2. live'[cache'[key]] = key
  <2>1. key \in DOMAIN cache'
    BY DEF Z!Exec, Z!compile, Z!Stored
  <2> QED BY <1>1, <2>1 DEF BridgeInv, Z!HandlesOwned
<1>3. encoding' = encoding /\ encoding \in {"utf16", "wtf8"}
  BY DEF Z!Exec, AnswerInv
<1>4. str \in String /\ str # Z!NoSubject
  BY StringsAreStrings
<1>5. lastSubject' = str /\ (~ranOut' => lastEncoded' = Z!encode(str))
  <2>1. ranOut' = (ranOut /\ str = lastSubject) /\ Z!encodeSubject(str)
    BY DEF Z!Exec
  <2>2. CASE str # lastSubject
    BY <2>1, <2>2 DEF Z!encodeSubject
  <2>3. CASE str = lastSubject
    <3>1. lastSubject' = lastSubject /\ lastEncoded' = lastEncoded
      BY <2>1, <2>3 DEF Z!encodeSubject
    <3>2. ~ranOut => lastEncoded = Z!encode(lastSubject)
      BY <1>4, <2>3 DEF AnswerInv, Remembered
    <3> QED BY <2>1, <2>3, <3>1, <3>2
  <2> QED BY <2>2, <2>3
<1>6. Remembered'
  <2>1. ASSUME ~ranOut' PROVE lastEncoded' = Z!encode(lastSubject)'
    <3>1. Z!encode(lastSubject)' = Z!encode(str)
      BY <1>3, <1>5 DEF Z!encode
    <3> QED BY <1>5, <2>1, <3>1
  <2> QED BY <2>1 DEF Remembered
<1>7. Z!AnswersOwn'
  <2> SUFFICES ASSUME ~ranOut'
               PROVE  answer'.got = Z!Library("utf16", answer'.key, answer'.subject, answer'.lastIndex)
    BY DEF Z!AnswersOwn
  <2> DEFINE slots == Z!Library(encoding, key, Z!encode(str).text, Z!Offset(Z!encode(str), i))
             got == Z!ToUnits(Z!encode(str), slots)
  <2>1. answer' = [call |-> "exec", key |-> key, subject |-> str, lastIndex |-> i, got |-> got]
    <3>1. lastEncoded' = Z!encode(str)
      BY <1>5
    <3> QED BY <1>2, <3>1, Zenon DEF Z!Exec
  <2>2. got = Z!Library("utf16", key, str, i)
    BY <1>3, <1>4, SameAnswer
  <2> HIDE DEF got
  <2> QED BY <2>1, <2>2
<1> QED BY <1>1, <1>3, <1>6, <1>7 DEF AnswerInv

LEMMA AnswerStep == ASSUME AnswerInv, Z!Next PROVE AnswerInv'
<1>1. BridgeInv'
  BY BridgeStep DEF AnswerInv
<1>2. ASSUME NEW call, call # "exec", answer' = Z!Other(call) PROVE Z!AnswersOwn'
  BY <1>2 DEF Z!AnswersOwn, Z!Other
<1>3. ASSUME UNCHANGED <<encoding, lastSubject, lastEncoded, ranOut>>, NEW call, call # "exec", answer' = Z!Other(call)
      PROVE  AnswerInv'
  <2>1. Z!AnswersOwn'
    BY <1>2, <1>3
  <2>2. Z!encode(lastSubject)' = Z!encode(lastSubject)
    BY <1>3 DEF Z!encode
  <2> QED BY <1>1, <1>3, <2>1, <2>2 DEF AnswerInv, Remembered
<1>4. ASSUME NEW key \in Z!Keys, NEW str \in Strings, NEW i \in 0..Len(str), Z!ExecNoEncoding(key, str, i)
      PROVE  AnswerInv'
  <2>1. UNCHANGED <<encoding, lastSubject, lastEncoded, ranOut>> /\ answer' = Z!Other("TypeError")
    BY <1>4 DEF Z!ExecNoEncoding
  <2> QED BY <1>3, <2>1, "TypeError" # "exec"
<1>5. ASSUME NEW key \in Z!Keys, NEW str \in Strings, Z!ExecRunsOut(key, str) PROVE AnswerInv'
  <2>1. ranOut' /\ encoding' = encoding /\ answer' = Z!Other("RangeError")
    BY <1>5 DEF Z!ExecRunsOut
  <2>2. Z!AnswersOwn'
    BY <1>2, <2>1, "RangeError" # "exec"
  <2> QED BY <1>1, <2>1, <2>2 DEF AnswerInv, Remembered
<1>6. ASSUME NEW key \in Z!Keys, Z!ExecRejected(key) \/ Z!Rejects(key) PROVE AnswerInv'
  <2>1. PICK call \in {"ZRegexCompileError", "rejected", "accepted"} :
            UNCHANGED <<encoding, lastSubject, lastEncoded, ranOut>> /\ answer' = Z!Other(call)
    BY <1>6 DEF Z!ExecRejected, Z!Rejects
  <2>2. call # "exec"
    OBVIOUS
  <2> QED BY <1>3, <2>1, <2>2
<1>7. CASE Z!ClearCache
  <2>1. lastSubject' = Z!NoSubject /\ encoding' = encoding /\ answer' = Z!Other("none")
    BY <1>7 DEF Z!ClearCache
  <2>2. Z!AnswersOwn'
    BY <1>2, <2>1, "none" # "exec"
  <2>3. Z!NoSubject' = Z!NoSubject
    BY DEF Z!NoSubject
  <2> QED BY <1>1, <2>1, <2>2, <2>3 DEF AnswerInv, Remembered
<1> QED BY <1>4, <1>5, <1>6, <1>7, ExecAnswers DEF Z!Next

(* Whatever was asked before, whichever patterns and subject the bridge    *)
(* remembers and however its process encodes a string, an execution        *)
(* answers the span, in the string's own indices, of what the library      *)
(* finds in that string for that pattern (zregex.mjs:52-205), unless the   *)
(* bridge remembers that string from a call there was no memory for.       *)
THEOREM AnswersOwnAlways == Spec => []AnswersOwn
<1> DEFINE Inv == part = "bridge" => AnswerInv
<1>1. Init => Inv
  <2> SUFFICES ASSUME Init, part = "bridge" PROVE AnswerInv
    OBVIOUS
  <2>1. /\ encoding \in {"utf16", "wtf8"} /\ cache = <<>> /\ live = <<>>
        /\ lastSubject = Z!NoSubject /\ answer = Z!Other("none")
    BY DEF Init, Z!Init
  <2>2. BridgeInv
    BY <2>1 DEF BridgeInv, Z!HandlesOwned
  <2>3. Z!AnswersOwn
    BY <2>1 DEF Z!AnswersOwn, Z!Other
  <2> QED BY <2>1, <2>2, <2>3 DEF AnswerInv, Remembered
<1>2. Inv /\ [Next]_all => Inv'
  <2> SUFFICES ASSUME Inv, [Next]_all, part' = "bridge" PROVE AnswerInv'
    OBVIOUS
  <2>1. part = "bridge" /\ AnswerInv
    BY DEF Next, InVerdict, InDiscover, InBaseline, InBridge, InHostExec, InLoops, InWalk, all
  <2>2. Z!Next \/ UNCHANGED bridge
    BY <2>1 DEF Next, InVerdict, InDiscover, InBaseline, InBridge, InHostExec, InLoops, InWalk, all
  <2>3. CASE UNCHANGED bridge
    <3>1. UNCHANGED <<encoding, cache, live, lastSubject, lastEncoded, ranOut, answer>>
      BY <2>3 DEF bridge
    <3>2. BridgeInv'
      BY <2>1, <3>1 DEF AnswerInv, BridgeInv, Z!HandlesOwned, Z!Keys
    <3>3. Z!encode(lastSubject)' = Z!encode(lastSubject)
      BY <3>1 DEF Z!encode
    <3>4. Z!AnswersOwn'
      BY <2>1, <3>1 DEF AnswerInv, Z!AnswersOwn
    <3> QED BY <2>1, <3>1, <3>2, <3>3, <3>4 DEF AnswerInv, Remembered
  <2> QED BY <2>1, <2>2, <2>3, AnswerStep
<1>3. Inv => AnswersOwn
  BY DEF AnswersOwn, AnswerInv
<1> QED BY <1>1, <1>2, <1>3, PTL DEF Spec
=============================================================================
