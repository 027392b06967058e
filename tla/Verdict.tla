------------------------------ MODULE Verdict ------------------------------
(* The verdict on a test262 test (scripts/test262/worker.mjs): the child     *)
(* runs it in a realm whose exec is the library's, and what does not pass    *)
(* there once more in plain V8 (rule D-1), to tell whose failure it is.  One *)
(* action is one message; the library's counters and the harness scripts     *)
(* stay from one test to the next.                                           *)
(*                                                                           *)
(* What a test does is the sequence of its executions of a regular           *)
(* expression, those of its harness files first, each with what the test     *)
(* makes of the library's answer and of V8's: it goes on, throws or hangs.   *)
(* A harness file may also execute none ("loads"), or be "missing": not      *)
(* there, or not a script V8 parses.  Harness files have no time limit here: *)
(* one that hangs is for the parent's timer (TestPool).                      *)
EXTENDS Naturals, SequencesExt, FiniteSetsExt

CONSTANTS Tasks,      \* the tests
          MaxTests    \* how many a child runs

VARIABLES stats,      \* the library's counters: execCalls, compileErrors
          scripts,    \* the harness files parsed (scriptCache)
          seq,        \* tests run
          res         \* the last test and its result

vars == <<stats, scripts, seq, res>>

NoStats  == [execCalls |-> 0, compileErrors |-> 0]
NoTask   == [negative |-> "none", raw |-> FALSE, harness |-> <<>>, parses |-> TRUE, body |-> <<>>,
             literal |-> "none", flags |-> <<>>]
NoResult == [task |-> NoTask, status |-> "none", reason |-> "none", execCalls |-> 0]

----------------------------------------------------------------------------
\* runInRealm: what V8 makes of a test.

\* The outcomes of executions in a realm, up to the one that ends them.
GoingOn == {"goes on", "rejection caught", "loads"}
Outcomes(ops, hooked) ==
    LET o    == [i \in DOMAIN ops |-> IF hooked THEN ops[i].zregex ELSE ops[i].v8]
        ends == {i \in DOMAIN o : o[i] \notin GoingOn}
    IN IF ends = {} THEN o ELSE SubSeq(o, 1, Min(ends))

Rejections(outcomes) == Quantify(DOMAIN outcomes, LAMBDA i : outcomes[i] \in {"rejected", "rejection caught"})
Executed(outcomes)   == Quantify(DOMAIN outcomes, LAMBDA i : outcomes[i] \notin {"loads", "missing"})
Thrown(outcomes) ==
    IF outcomes = <<>> \/ Last(outcomes) \in GoingOn THEN "nothing" ELSE Last(outcomes)

\* What the harness files do: assert.js, sta.js and the included ones.
Harness(task) == IF task.raw THEN <<>> ELSE task.harness

\* What happens in a realm: the harness, and the body if there was no error.
SetUp(task, hooked) == Outcomes(Harness(task), hooked)
Breaks(task, hooked) == Thrown(SetUp(task, hooked)) # "nothing"
Body(task, hooked) == IF Breaks(task, hooked) \/ ~task.parses THEN <<>> ELSE Outcomes(task.body, hooked)
Run(task, hooked) == SetUp(task, hooked) \o Body(task, hooked)

\* The files harnessScript parses and remembers, up to the one that throws;
\* a missing one it does not.
harnessScripts(task) ==
    {Harness(task)[i].file : i \in {j \in DOMAIN SetUp(task, TRUE) : SetUp(task, TRUE)[j] # "missing"}}

\* Mutant: the errors since the child began.
CompileErrorsBefore0(counters) == 0

CompileErrorsBefore(counters) == counters.compileErrors

\* The status of a body by what it threw.  An error after a rejection is put
\* down to the rejection.
BodyStatus(task, thrown, errors, before) ==
    CASE thrown = "nothing"                   -> IF task.negative # "none" THEN "fail" ELSE "pass"
      [] thrown = "rejected"                  -> "compile_error"
      [] thrown \in {"throws", "throws its type", "hangs"} /\ errors > before -> "compile_error"
      [] thrown \in {"throws", "throws its type", "hangs"} /\ errors = before ->
             IF task.negative = "runtime" THEN (IF thrown = "throws its type" THEN "pass" ELSE "fail")
             ELSE IF thrown = "hangs" THEN "timeout"
             ELSE "fail"

\* The status, and the counters after.  Whatever a harness file throws is a
\* harness error.
runInRealm(task, hooked, counters) ==
    LET after == IF hooked
                 THEN [execCalls |-> counters.execCalls + Executed(Run(task, TRUE)),
                       compileErrors |-> counters.compileErrors + Rejections(Run(task, TRUE))]
                 ELSE counters
    IN [status |-> IF Breaks(task, hooked) THEN "harness_error"
                   ELSE IF ~task.parses THEN "unparsable"
                   ELSE BodyStatus(task, Thrown(Body(task, hooked)), after.compileErrors,
                                   CompileErrorsBefore(counters)),
        stats |-> after]

----------------------------------------------------------------------------
\* runTest.

Verdict(task, status, reason, calls) ==
    [task |-> task, status |-> status, reason |-> reason, execCalls |-> calls]

validLiteralFlags(flags) ==
    /\ \A i \in DOMAIN flags : flags[i] \in {"d", "g", "i", "m", "s", "u", "v", "y"}
    /\ Cardinality(ToSet(flags)) = Len(flags)
    /\ ~{"u", "v"} \subseteq ToSet(flags)

\* A parse-phase test: its literal goes straight to the library.
ParseVerdict(task) ==
    IF task.literal = "none" THEN Verdict(task, "unextracted", "none", 0)
    ELSE IF ~validLiteralFlags(task.flags) THEN Verdict(task, "skipped_host", "host_flags", 0)
    ELSE Verdict(task, IF task.literal = "rejected" THEN "pass" ELSE "fail", "none", 0)

\* Mutant: without the control run.
RunVerdictUncontrolled(task, counters) ==
    LET hooked == runInRealm(task, TRUE, counters)
        status == IF hooked.status = "compile_error" THEN "zregex_compile_error" ELSE hooked.status
        calls  == hooked.stats.execCalls - counters.execCalls
    IN IF hooked.status = "unparsable" THEN Verdict(task, "skipped_host", "host_feature", calls)
       ELSE Verdict(task, status, "none", calls)

\* Any other: the run with the library, and the control run.
RunVerdict(task, counters) ==
    LET hooked  == runInRealm(task, TRUE, counters)
        control == runInRealm(task, FALSE, hooked.stats)
        status  == IF hooked.status = "compile_error" THEN "zregex_compile_error" ELSE hooked.status
        calls   == hooked.stats.execCalls - counters.execCalls
    IN IF hooked.status = "unparsable" THEN Verdict(task, "skipped_host", "host_feature", calls)
       ELSE IF status \in {"pass", "harness_error"} THEN Verdict(task, status, "none", calls)
       ELSE IF control.status # "pass" THEN Verdict(task, "skipped_host", "v8_behind_spec", calls)
       ELSE Verdict(task, status, "none", calls)

runTest(task, counters) ==
    IF task.negative = "parse" THEN ParseVerdict(task) ELSE RunVerdict(task, counters)

----------------------------------------------------------------------------
Init == stats = NoStats /\ scripts = {} /\ seq = 0 /\ res = NoResult

\* The message of a test.
OnMessage(task) ==
    /\ seq < MaxTests
    /\ seq' = seq + 1
    /\ res' = runTest(task, stats)
    /\ IF task.negative = "parse"
       THEN UNCHANGED <<stats, scripts>>
       ELSE /\ stats' = runInRealm(task, TRUE, stats).stats
            /\ scripts' = scripts \cup harnessScripts(task)

Next == \E task \in Tasks : OnMessage(task)

Spec == Init /\ [][Next]_vars

----------------------------------------------------------------------------
\* Whether a realm ends a test as its metadata says it ends.
Passes(task, hooked) ==
    LET thrown == Thrown(Body(task, hooked))
    IN /\ ~Breaks(task, hooked) /\ task.parses
       /\ IF task.negative = "runtime" THEN thrown = "throws its type" ELSE thrown = "nothing"

Blamed == res.status \in {"fail", "timeout", "zregex_compile_error"} /\ res.task.negative # "parse"

\* Rule D-1: the library is blamed only for a test that plain V8 passes and
\* the library changes: it does not pass with it, or the library refused one
\* of its patterns, or one of its harness's.
OnlyEngineBlamed ==
    Blamed =>
        /\ Passes(res.task, FALSE)
        /\ ~Passes(res.task, TRUE) \/ Rejections(Run(res.task, TRUE)) > 0

\* A test that plain V8 passes and the library breaks is the library's
\* failure, whatever it threw.  One whose harness the library breaks is a
\* harness error: no control run follows it (worker.mjs:158), so that there
\* the result does not say whose failure it is, but it is never a pass nor
\* a test of which V8 is held incapable.
NothingHidden ==
    res # NoResult /\ res.task.negative # "parse" /\ Passes(res.task, FALSE) /\ ~Passes(res.task, TRUE) =>
        IF Breaks(res.task, TRUE) THEN res.status = "harness_error" ELSE Blamed

\* The control run puts the blame where it belongs, both ways
\* (worker.mjs:152-174).
BlameExact == OnlyEngineBlamed /\ NothingHidden

\* What scripts/test262/README.md:152 says: "Every engine entry that doesn't
\* pass with zregex is run a second time in a plain V8 realm", so that each
\* one V8 passes is the library's failure.
EveryFailureControlled ==
    res # NoResult /\ res.task.negative # "parse" /\ Passes(res.task, FALSE) /\ ~Passes(res.task, TRUE) =>
        Blamed

\* The counters of the library run over all the tests of a child; a result
\* is the same in a fresh one, calls and all (worker.mjs:87, 112, 127-136).
LikeFresh == res # NoResult => res = runTest(res.task, NoStats)
=============================================================================
