----------------------------- MODULE Discover -----------------------------
(* What a run of test262 consists of (scripts/test262/run.mjs, discover):    *)
(* the sample spread over the directories, and the tasks of every file, one  *)
(* per mode, unless the test cannot be run here.                             *)
EXTENDS Naturals, SequencesExt, FiniteSetsExt

CONSTANTS Groups,      \* the lists of files of the directories, in the order of their names
          Meta,        \* [file -> its metadata]
          Lacking      \* features: those V8 lacks (host), and the library, with the
                       \* files of each that run anyway (zregex)

VARIABLES n,          \* --sample
          lists,      \* the files of each group, shuffled
          round,      \* the round of stratifiedSample
          turn,       \* the group whose turn it is in the round
          any,        \* the round has picked a file
          picked,     \* the files picked
          at,         \* the file whose tasks come next; 0 while sampling
          tasks, results

vars == <<n, lists, round, turn, any, picked, at, tasks, results>>

Files == DOMAIN Meta

\* A list in any order: the numbers of the generator are arbitrary.
Shuffled(list) == {s \in [DOMAIN list -> ToSet(list)] : ToSet(s) = ToSet(list)}

Init ==
    /\ n \in 0..(Cardinality(Files) + 1)
    /\ lists \in {l \in [DOMAIN Groups -> UNION {Shuffled(Groups[i]) : i \in DOMAIN Groups}] :
                     \A i \in DOMAIN Groups : l[i] \in Shuffled(Groups[i])}
    /\ round = 0 /\ turn = 1 /\ any = FALSE
    /\ picked = <<>>
    /\ at = IF n = 0 THEN 1 ELSE 0
    /\ tasks = <<>>
    /\ results = {}

\* Mutant: the files wanted are counted before the round, not at each turn.
DueAsWanted == round < Len(lists[turn]) /\ round * Len(lists) < n

\* The group whose turn it is has a file for this round, and one is wanted.
Due == round < Len(lists[turn]) /\ Len(picked) < n

\* stratifiedSample: a group's turn.
Turn ==
    /\ at = 0 /\ turn \in DOMAIN lists
    /\ IF Due
       THEN picked' = Append(picked, lists[turn][round + 1]) /\ any' = TRUE
       ELSE UNCHANGED <<picked, any>>
    /\ turn' = turn + 1
    /\ UNCHANGED <<n, lists, round, at, tasks, results>>

\* The end of a round: the next one, unless this one picked nothing or none
\* is wanted.
EndRound ==
    /\ at = 0 /\ turn \notin DOMAIN lists
    /\ IF any /\ Len(picked) < n
       THEN round' = round + 1 /\ turn' = 1 /\ any' = FALSE /\ UNCHANGED at
       ELSE at' = 1 /\ UNCHANGED <<round, turn, any>>
    /\ UNCHANGED <<n, lists, picked, tasks, results>>

----------------------------------------------------------------------------
Modes(meta) ==
    CASE "onlyStrict" \in meta.flags -> {"strict"}
      [] "onlyStrict" \notin meta.flags /\ meta.flags \cap {"noStrict", "raw"} # {} -> {"sloppy"}
      [] OTHER -> IF meta.negative = "parse" THEN {"parse"} ELSE {"strict", "sloppy"}

\* The first reason not to run a test, or "".
Skip(rel, meta) ==
    CASE meta.unsupported -> "harness_error"
      [] ~meta.unsupported /\ (meta.flags \cap {"module", "async"} # {} \/ meta.negative = "resolution") -> "host_runner"
      [] OTHER -> IF meta.features \cap Lacking.host # {} THEN "host_feature"
                  ELSE IF \E f \in meta.features \cap DOMAIN Lacking.zregex : rel \notin Lacking.zregex[f]
                  THEN "zregex_feature"
                  ELSE ""

NewTasks(keys) == [i \in DOMAIN keys |-> [id |-> Len(tasks) + i - 1, key |-> keys[i]]]

\* The next file: its tasks, or why it has none.
Classify ==
    /\ at \in DOMAIN picked
    /\ LET meta == Meta[picked[at]]
           keys == SetToSeq({<<picked[at], mode>> : mode \in Modes(meta)})
       IN IF Skip(picked[at], meta) # ""
          THEN /\ results' = results \cup {[key |-> k, reason |-> Skip(picked[at], meta)] : k \in ToSet(keys)}
               /\ UNCHANGED tasks
          ELSE /\ tasks' = tasks \o NewTasks(keys)
               /\ UNCHANGED results
    /\ at' = at + 1
    /\ UNCHANGED <<n, lists, round, turn, any, picked>>

Next == Turn \/ EndRound \/ Classify

Spec == Init /\ [][Next]_vars

----------------------------------------------------------------------------
Sampled(i) == Cardinality(ToSet(picked) \cap ToSet(Groups[i]))

\* The sample is as large as asked, or the whole suite (run.mjs:130-158).
RightSize == at > 0 => Len(picked) = Min({n, Cardinality(Files)})

\* "`n` files spread round-robin across directory groups" (run.mjs:129): no
\* group has two files more than another that has files left, however uneven
\* the directories are.
Spread ==
    at > 0 =>
        \A i, j \in DOMAIN Groups : Sampled(i) + 1 < Sampled(j) => Sampled(i) = Len(Groups[i])

\* Each mode of each file is to be decided once: by a worker or here; the
\* numbers the workers answer with are the tasks' own (run.mjs:174-199).
EachOnce ==
    at > Len(picked) /\ at > 0 =>
        /\ \A i \in DOMAIN tasks : tasks[i].id = i - 1
        /\ \A rel \in ToSet(picked) : \A mode \in Modes(Meta[rel]) :
              Quantify(DOMAIN tasks, LAMBDA i : tasks[i].key = <<rel, mode>>)
                  + Quantify(results, LAMBDA r : r.key = <<rel, mode>>) = 1

\* A sample is fair and complete: as large as asked, spread over the
\* directories, and each mode of each file of it decided once
\* (run.mjs:129-199).
SampleDecided == RightSize /\ Spread /\ EachOnce
=============================================================================
