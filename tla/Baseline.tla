----------------------------- MODULE Baseline -----------------------------
(* The baseline of the test262 runner (scripts/test262/run.mjs): a committed *)
(* file with the status of every test of the engine suite.  One action is    *)
(* one run of the runner: it checks the file, rewrites it, or records the    *)
(* improvements in it.                                                       *)
(*                                                                           *)
(* A run's statuses are any: the engine, V8 and the pinned test262 revision  *)
(* change from one run to the next.  A test stands for one (file, mode).     *)
EXTENDS FiniteSets, Functions

CONSTANTS FilesAt,     \* [revision -> the tests it has]
          HostSuite,   \* the tests under HOST_SUITE_PREFIX
          Status       \* what a test can end with

BASELINE_SKIPS == {"skipped_host", "skipped_feature"}

VARIABLES file,      \* the baseline: the revision it was written at, its entries
          last,      \* the last run: its mode, what it ran, its exit code
          recorded   \* the tests the file has been told they pass, since it was rewritten

vars == <<file, last, recorded>>

Revision == DOMAIN FilesAt

\* A run's out: its revision, whether --filter or --sample, and its results.
Out(sha, scoped, results) == [sha |-> sha, scoped |-> scoped, results |-> results]

\* engineEntries: neither the host suite nor the skipped tests.
engineEntries(out) ==
    LET engine == {k \in DOMAIN out.results : k \notin HostSuite /\ out.results[k] \notin BASELINE_SKIPS}
    IN Restrict(out.results, engine)

\* checkBaseline, in its parts.
shaChanged(out) == file.sha # out.sha
InScope(out)    == {k \in DOMAIN file.entries : out.scoped => k \in DOMAIN out.results}
Regressions(out) ==
    LET now == engineEntries(out)
    IN {k \in InScope(out) \cap DOMAIN now : file.entries[k] = "pass" /\ now[k] # "pass"}
Improvements(out) ==
    LET now == engineEntries(out)
    IN {k \in InScope(out) \cap DOMAIN now : file.entries[k] # "pass" /\ now[k] = "pass"}
Added(out)       == DOMAIN engineEntries(out) \ DOMAIN file.entries
Disappeared(out) == InScope(out) \ DOMAIN engineEntries(out)

\* Mutant: the number of passes must not go down.
checkBaselineNet(out) ==
    IF \/ Cardinality(Regressions(out)) > Cardinality(Improvements(out))
       \/ Added(out) # {}
       \/ Disappeared(out) # {} /\ ~shaChanged(out)
    THEN 1 ELSE 0

checkBaseline(out) ==
    IF Regressions(out) # {} \/ Added(out) # {} \/ (Disappeared(out) # {} /\ ~shaChanged(out))
    THEN 1 ELSE 0

Ran(mode, out, exit) == last' = [mode |-> mode, out |-> out, exit |-> exit]
Passing(entries) == {k \in DOMAIN entries : entries[k] = "pass"}

----------------------------------------------------------------------------
\* The file as the repository has it: written from some full run.
Init ==
    \E sha \in Revision : \E results \in [FilesAt[sha] -> Status] :
        LET out == Out(sha, FALSE, results)
        IN /\ file = [sha |-> sha, entries |-> engineEntries(out)]
           /\ last = [mode |-> "--update-baseline", out |-> out, exit |-> 0]
           /\ recorded = Passing(engineEntries(out))

\* writeBaseline: only on a full run (run.mjs:61-64).
writeBaseline(out) ==
    /\ ~out.scoped
    /\ file' = [sha |-> out.sha, entries |-> engineEntries(out)]
    /\ recorded' = Passing(engineEntries(out))
    /\ Ran("--update-baseline", out, 0)

Check(out) ==
    /\ Ran("--check-baseline", out, checkBaseline(out))
    /\ UNCHANGED <<file, recorded>>

\* recordImprovements: the check first, then only not-pass -> pass.
recordImprovements(out) ==
    /\ ~out.scoped
    /\ IF checkBaseline(out) # 0
       THEN UNCHANGED <<file, recorded>>
       ELSE /\ file' = [file EXCEPT !.entries =
                            [k \in DOMAIN @ |-> IF k \in Improvements(out) THEN "pass" ELSE @[k]]]
            /\ recorded' = recorded \cup Improvements(out)
    /\ Ran("--update-baseline-improvements", out, checkBaseline(out))

\* report: of the tests of the revision, or of some of them.
Next ==
    \E sha \in Revision : \E files \in SUBSET FilesAt[sha] \ {{}} : \E results \in [files -> Status] :
        \E scoped \in {files # FilesAt[sha]} \cup {TRUE} :
            LET out == Out(sha, scoped, results)
            IN Check(out) \/ writeBaseline(out) \/ recordImprovements(out)

Spec == Init /\ [][Next]_vars

----------------------------------------------------------------------------
\* The ratchet: whatever runs came between, filtered, sampled, on another
\* revision or refused, a run that ends well has no failure of a test the
\* file was ever told it passes (run.mjs:9-13, 366-400).
NeverForgotten ==
    last.exit = 0 /\ last.mode # "--update-baseline" =>
        \A k \in recorded \cap DOMAIN engineEntries(last.out) : last.out.results[k] = "pass"
=============================================================================
