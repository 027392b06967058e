----------------------------- MODULE MatchLoops -----------------------------
(* The three loops that walk every match of a subject: MatchIterator.next    *)
(* and Regex.findAll of the library (src/regex.zig), and the exec loop of    *)
(* the benchmark (bench/compare/v8_xbench.mjs) over a global RegExp, whose   *)
(* exec keeps its place in lastIndex.  One step is one execution.  A match   *)
(* V8 has inside a pair, which the oracle rules out, would be empty: that    *)
(* loop advances past it as past any empty match (v8_xbench.mjs:45-49).      *)
EXTENDS MatchOracle, SequencesExt

VARIABLES at,      \* the pattern
          sticky,  \* the option y (the library's loops only)
          who,     \* which loop runs
          index,   \* MatchIterator.index, findAll's pos, or re.lastIndex
          found,   \* the matches reported, in order
          state    \* "running", "done" or, out of a limit or memory, "failed"

vars == <<at, sticky, who, index, found, state>>

Match(p) == [start |-> p, end |-> at[p]]

Init ==
    /\ at \in Attempts
    /\ \/ who \in {"iterator", "findAll"} /\ sticky \in BOOLEAN
       \/ who = "execLoop" /\ sticky = FALSE
    /\ index = 0
    /\ found = <<>>
    /\ state = "running"

----------------------------------------------------------------------------
\* The library.

\* Mutant: always over one character more.
PastOne(p) == AdvanceIndex(at[p])

\* Where the next execution starts: past the match, and over one character
\* after an empty one.
Past(p) == IF at[p] = p THEN AdvanceIndex(at[p]) ELSE at[p]

\* Mutant: no match does not end the loop.
StopNot == UNCHANGED <<index, found, state>>

Stop == state' = "done" /\ UNCHANGED <<index, found>>

Report(p, next) ==
    /\ found' = Append(found, Match(p))
    /\ index' = next
    /\ UNCHANGED state

\* MatchIterator.next, and one turn of findAll's loop: no execution at the
\* end, and no match that starts there.
LibraryStep ==
    /\ who \in {"iterator", "findAll"}
    /\ LET p == IF index > Length THEN NoMatch ELSE Search(at, index, sticky)
       IN \/ /\ index >= Length \/ p = NoMatch \/ p >= Length
             /\ Stop
          \/ /\ index < Length /\ p # NoMatch /\ p < Length
             /\ Report(p, Past(p))

\* execAt fails (a limit, memory): the iterator is over, findAll frees what
\* it had and fails.
LibraryFails ==
    /\ who \in {"iterator", "findAll"}
    /\ index < Length
    /\ state' = "failed"
    /\ found' = IF who = "findAll" THEN <<>> ELSE found
    /\ UNCHANGED index

----------------------------------------------------------------------------
\* The exec loop.

\* lastIndex after a match: its end, moved by the loop over one code point
\* (codePointAt, two units above 0xffff) when the match is empty.
NextLastIndex(p) ==
    IF at[p] = p THEN at[p] + (IF at[p] + 1 \in Inside THEN 2 ELSE 1) ELSE at[p]

\* re.exec(text): past the end or without a match it is null and lastIndex 0.
ExecLoopStep ==
    /\ who = "execLoop"
    /\ LET p == IF index > Length THEN NoMatch ELSE Search(at, index, FALSE)
       IN \/ /\ p = NoMatch
             /\ state' = "done"
             /\ index' = 0
             /\ UNCHANGED found
          \/ /\ p # NoMatch
             /\ Report(p, NextLastIndex(p))

Next ==
    /\ state = "running"
    /\ LibraryStep \/ LibraryFails \/ ExecLoopStep
    /\ UNCHANGED <<at, sticky, who>>

\* A caller that keeps calling.
Spec == Init /\ [][Next]_vars /\ WF_vars(Next)

----------------------------------------------------------------------------
\* Every match reported is the pattern's, after the one before and apart from
\* it: none overlaps, none comes twice (regex.zig:119-143, 258-283).
InOrder ==
    /\ \A k \in DOMAIN found : found[k] = Match(found[k].start)
    /\ \A k \in 2..Len(found) :
          /\ found[k - 1].end <= found[k].start
          /\ found[k - 1].start < found[k].start

Covered(p) == \E k \in DOMAIN found :
                 found[k].start = p \/ (found[k].start < p /\ p < found[k].end)

\* No match is skipped: a position already passed where the pattern matches
\* was reported or lies inside a match that was.  When the loop is over that
\* is the whole subject, or what sticky allows (regex.zig:86-91, 119-143).
NoneSkipped ==
    /\ state = "running" =>
          \A p \in Positions : p < index /\ at[p] # NoMatch => Covered(p)
    /\ state = "done" =>
          \A p \in Positions :
             at[p] # NoMatch /\ p < Length + (IF who = "execLoop" THEN 1 ELSE 0) =>
                \/ Covered(p)
                \/ sticky /\ \E q \in Positions : q <= p /\ at[q] = NoMatch /\ ~Covered(q)

\* The loops report what there is to report, once (regex.zig:119-143,
\* 258-283, v8_xbench.mjs:38-52).
EachMatchOnce == InOrder /\ NoneSkipped

\* The loop ends, on every pattern that matches empty as well: each execution
\* starts past the one before (regex.zig:141, v8_xbench.mjs:45-49).
Ends == <>(state # "running")
=============================================================================
