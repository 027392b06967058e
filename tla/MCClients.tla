----------------------------- MODULE MCClients -----------------------------
(* Small tests, suites, patterns and subjects for each part of Clients.    *)
EXTENDS Clients, SequencesExt, TLC

CONSTANTS a, b1, b2, b3, c1, c2,      \* test262 files, in three directories
          gone, stays, comes, host    \* tests of two revisions

(* Tests of up to two executions of a regular expression, and literals.    *)
Ops == [zregex : {"goes on", "throws", "rejected", "rejection caught"}, v8 : {"goes on", "throws"}]
       \cup [zregex : {"throws its type", "rejected"}, v8 : {"throws its type"}]
       \cup [zregex : {"goes on", "hangs"}, v8 : {"goes on", "hangs"}]

(* Harness files that load, and an included one that executes a regular    *)
(* expression, throws in one realm or both, or is missing.                 *)
Loads == <<[file |-> "assert.js", zregex |-> "loads", v8 |-> "loads"],
           [file |-> "sta.js", zregex |-> "loads", v8 |-> "loads"]>>

Included(z, v) == Loads \o <<[file |-> "propertyHelper.js", zregex |-> z, v8 |-> v]>>

HarnessRuns ==
    {Loads, Included("missing", "missing")}
    \cup {Included(z, v) : z \in {"goes on", "throws", "throws its type", "rejected", "rejection caught"},
                           v \in {"goes on", "throws"}}
    \cup {Included("rejection caught", "goes on") \o Included("throws", "goes on")}

PlainTest == [negative |-> "none", raw |-> FALSE, harness |-> Loads, parses |-> TRUE,
              body |-> <<>>, literal |-> "none", flags |-> <<>>]

MCTestFiles ==
    {[PlainTest EXCEPT !.negative = neg, !.body = body] : neg \in {"none", "runtime"}, body \in BoundedSeq(Ops, 2)}
    \cup {[PlainTest EXCEPT !.negative = neg, !.raw = r, !.parses = p, !.harness = h, !.body = body] :
             neg \in {"none", "runtime"}, r \in BOOLEAN, p \in BOOLEAN, h \in HarnessRuns,
             body \in {<<>>, <<[zregex |-> "throws its type", v8 |-> "throws its type"]>>,
                       <<[zregex |-> "throws", v8 |-> "goes on"]>>}}
    \cup {[PlainTest EXCEPT !.negative = "parse", !.literal = l, !.flags = f] :
             l \in {"none", "accepted", "rejected"},
             f \in {<<>>, <<"u">>, <<"u", "v">>, <<"g", "g">>, <<"x">>, <<"d", "y", "v">>}}

(* Directories of one, three and two files.                                *)
Plain == [flags |-> {}, negative |-> "none", features |-> {}, unsupported |-> FALSE]

MCFileMeta ==
    a :> [Plain EXCEPT !.flags = {"onlyStrict"}]
    @@ b1 :> [Plain EXCEPT !.negative = "parse"]
    @@ b2 :> [Plain EXCEPT !.features = {"v-flag"}]
    @@ b3 :> [Plain EXCEPT !.features = {"v-flag"}, !.flags = {"noStrict"}]
    @@ c1 :> [Plain EXCEPT !.unsupported = TRUE]
    @@ c2 :> Plain

MCGroups  == <<<<a>>, <<b1, b2, b3>>, <<c1, c2>>>>
MCLacking == [host |-> {"escape"}, zregex |-> [f \in {"v-flag"} |-> {b3}]]

(* A test goes, another comes, one stays and one is of the host suite.     *)
MCFilesAt == 1 :> {gone, stays, host} @@ 2 :> {stays, comes}

(* A pattern of an astral character, its second half and a three-byte      *)
(* character.                                                              *)
MCPatterns == [good |-> {128512, 56832, 8364}]
MCStrings  == {<<>>, <<97, 55357, 56832>>, <<55357, 56832, 97>>, <<56832>>, <<8364>>,
               <<55357, 55357, 56832>>}
(* Numbers before, in and past a subject that is one pair of surrogates,   *)
(* a BigInt and a value that does not convert.                             *)
MCLastIndexes ==
    {[type |-> "number", n |-> i] : i \in {-1, 0, 1, 2, 3}}
    \cup {[type |-> "bigint", n |-> 1], [type |-> "unconvertible", n |-> 0]}
MCNames    == <<"x", "y", "x">>
=============================================================================
