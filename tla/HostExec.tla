------------------------------ MODULE HostExec ------------------------------
(* RegExp.prototype.exec of the test262 harness (host-exec.js): V8's getters *)
(* give the pattern and the flags, the library matches, and this code does   *)
(* the rest of RegExpBuiltinExec.  ToString of the argument and ToLength of  *)
(* lastIndex run user code, which may change the RegExp, and may throw:      *)
(* between the reads of one call, anything can happen to it.  One action is  *)
(* what runs between two calls to user code.                                 *)
(*                                                                           *)
(* A lastIndex is any JavaScript value: a number, a BigInt, or a value that  *)
(* no conversion makes a number (a Symbol, an object whose valueOf throws).  *)
(* -1 stands for what ToLength clamps to 0 (negative, NaN), Length + 1 for   *)
(* every number past the end.                                                *)
EXTENDS MatchOracle, Sequences, SequencesExt

CONSTANTS Sources,      \* the patterns R may have
          LastIndexes,  \* the values user code gives lastIndex
          Names         \* the name of each group of the patterns, in order

VARIABLES matches,  \* [source -> how it matches the subject]
          R,        \* the RegExp: source, flags (of g and y), lastIndex
          pc,       \* where the call is
          read,     \* what the call has read of R so far
          result,   \* what the last call returned
          named     \* the groups that took part in it, and its `groups'

vars == <<matches, R, pc, read, result, named>>

FlagSets == SUBSET {"g", "y"}
Values   == [type : {"number", "bigint"}, n : -1..(Length + 1)] \cup {[type |-> "unconvertible", n |-> 0]}
Num(n)   == [type |-> "number", n |-> n]

\* What converts: Number() takes a BigInt, where ToLength throws.
Converts(value) == value.type \in {"number", "bigint"}
toLength(value) == IF value.n <= 0 THEN 0 ELSE value.n

NoRead   == [source |-> "none", flags |-> {}, lastIndex |-> Num(0)]
NoResult == [kind |-> "none", start |-> 0, end |-> 0]
Null     == [kind |-> "null", start |-> 0, end |-> 0]
Thrown   == [kind |-> "thrown", start |-> 0, end |-> 0]
At(p, e) == [kind |-> "match", start |-> p, end |-> e]

Init ==
    /\ matches \in [Sources -> Attempts]
    /\ R \in [source : Sources, flags : FlagSets, lastIndex : {Num(0)}]
    /\ pc = "idle"
    /\ read = NoRead
    /\ result = NoResult
    /\ named = <<{}, <<>> >>

----------------------------------------------------------------------------
\* User code, inside a call or between calls: it sets lastIndex and may
\* recompile R (R.compile).
UserCode ==
    /\ pc \in {"idle", "toString", "toLength"}
    /\ R' \in [source : Sources, flags : FlagSets, lastIndex : LastIndexes]
    /\ UNCHANGED <<matches, pc, read, result, named>>

\* exec(string), as far as StringCtor(string): the source is read.
Exec ==
    /\ pc = "idle"
    /\ pc' = "toString"
    /\ read' = [NoRead EXCEPT !.source = R.source]
    /\ result' = NoResult /\ named' = <<{}, <<>> >>
    /\ UNCHANGED <<matches, R>>

\* flagsOf(R), and the lastIndex whose valueOf runs next.
ReadFlags ==
    /\ pc = "toString"
    /\ pc' = "toLength"
    /\ read' = [read EXCEPT !.flags = R.flags, !.lastIndex = R.lastIndex]
    /\ UNCHANGED <<matches, R, result, named>>

\* The call ends with an error.
Throw ==
    /\ pc' = "idle"
    /\ result' = Thrown
    /\ read' = NoRead
    /\ UNCHANGED <<matches, R, named>>

\* ToString of the argument throws, or the conversion of lastIndex does.
ToStringThrows == pc = "toString" /\ Throw
ToLengthThrows == pc = "toLength" /\ ~Converts(read.lastIndex) /\ Throw

\* Where the library is asked to search from: at 0 without g and y.
From(flags, lastIndex) == IF flags # {} THEN toLength(lastIndex) ELSE 0

\* The library refuses the pattern or runs out of a limit.
BridgeThrows ==
    /\ pc = "toLength" /\ Converts(read.lastIndex)
    /\ From(read.flags, read.lastIndex) <= Length
    /\ Throw

\* The answer from an index on, and the lastIndex that is left in R.
FoundFrom(source, flags, i) ==
    LET p      == IF i > Length THEN NoMatch ELSE Search(matches[source], i, "y" \in flags)
        end    == matches[source][p]
        placed == flags # {}
    IN IF p = NoMatch
       THEN [answer |-> Null, place |-> IF placed THEN Num(0) ELSE R.lastIndex]
       ELSE [answer |-> At(p, end), place |-> IF placed THEN Num(end) ELSE R.lastIndex]

\* Mutant: without g or y the search starts at lastIndex all the same.
builtinExecFrom(source, flags, lastIndex) == FoundFrom(source, flags, toLength(lastIndex))

\* builtinExec: what it returns, and what it leaves in R.lastIndex.
builtinExec(source, flags, lastIndex) == FoundFrom(source, flags, From(flags, lastIndex))

\* The groups of the match that take part: of two with one name at most one
\* does, as they stand in different alternatives.
Participants == {g \in SUBSET DOMAIN Names : \A i, j \in g : Names[i] = Names[j] => i = j}

\* The properties of `groups', from group to group: a name is there from its
\* first group on (0 for undefined), and a group that takes part replaces one
\* that does not.
groups(part) ==
    LET obj[k \in 0..Len(Names)] ==
            IF k = 0 THEN [x \in {} |-> 0]
            ELSE LET so_far == obj[k - 1]
                 IN IF k \notin part /\ Names[k] \in DOMAIN so_far THEN so_far
                    ELSE [x \in DOMAIN so_far \cup {Names[k]} |->
                             IF x # Names[k] THEN so_far[x] ELSE IF k \in part THEN k ELSE 0]
    IN obj[Len(Names)]

Finish ==
    /\ pc = "toLength" /\ Converts(read.lastIndex)
    /\ pc' = "idle"
    /\ LET b == builtinExec(read.source, read.flags, read.lastIndex)
       IN /\ R' = [R EXCEPT !.lastIndex = b.place]
          /\ result' = b.answer
          /\ \/ b.answer = Null /\ UNCHANGED named
             \/ b.answer # Null /\ \E part \in Participants : named' = <<part, groups(part)>>
    /\ read' = NoRead
    /\ UNCHANGED matches

Next ==
    \/ UserCode \/ Exec \/ ReadFlags \/ Finish
    \/ ToStringThrows \/ ToLengthThrows \/ BridgeThrows

Spec == Init /\ [][Next]_vars

----------------------------------------------------------------------------
\* RegExpBuiltinExec (ECMA-262 22.2.7.2): the attempts from lastIndex on, one
\* at each AdvanceStringIndex unless sticky.  An attempt at an index inside a
\* character is one at the character (its input index is the character's),
\* and the index of the match is the one attempted, all the same.
AdvanceStringIndex(j) == IF j + 1 \in Inside THEN j + 2 ELSE j + 1

Trial(at, i, sticky) ==
    LET from[j \in 0..(Length + 1)] ==
            IF j > Length THEN NoMatch
            ELSE IF at[CharStart(j)] # NoMatch THEN j
            ELSE IF sticky THEN NoMatch
            ELSE from[AdvanceStringIndex(j)]
    IN from[i]

\* A name stands for the group of that name that took part, wherever it is
\* among the groups that share the name, and for undefined when none did
\* (host-exec.js:136-149).
NamesParticipate ==
    result.kind = "match" =>
        /\ DOMAIN named[2] = ToSet(Names)
        /\ \A k \in DOMAIN Names :
              named[2][Names[k]] \in {j \in named[1] : Names[j] = Names[k]}
                 \/ (named[2][Names[k]] = 0 /\ \A j \in named[1] : Names[j] # Names[k])

\* A call that is not thrown out of answers what RegExpBuiltinExec answers
\* ("an implementation of RegExpBuiltinExec (ECMA-262 22.2.7.2)",
\* host-exec.js:1-3): match or null, where the match ends, the lastIndex
\* left, the groups by name.  One that throws, or that has a lastIndex no
\* conversion makes a number, has no answer and leaves R as it is.  It
\* differs from the standard in three ways.  It answers for the source and
\* the flags it has read before ToString and ToLength (host-exec.js:81-82,
\* 88), where the standard reads them last: user code that recompiles R under
\* way has no effect on the call.  A match found from inside a character has
\* the character's start for its index (host-exec.js:105, 111), where the
\* standard has lastIndex.  And a BigInt counts as its number
\* (host-exec.js:48), where ToLength throws.
IsBuiltinExec ==
    [][pc = "toLength" /\ pc' = "idle" =>
       /\ result' = Thrown => R' = R
       /\ ~Converts(read.lastIndex) => result' = Thrown
       /\ result' # Thrown =>
            /\ NamesParticipate'
            /\ LET at == matches[read.source]
                   j == Trial(at, IF read.flags = {} THEN 0 ELSE toLength(read.lastIndex), "y" \in read.flags)
                   end == at[CharStart(j)]
               IN /\ result' = IF j = NoMatch THEN Null ELSE At(CharStart(j), end)
                  /\ R' = [R EXCEPT !.lastIndex = IF read.flags = {} THEN @
                                                 ELSE Num(IF j = NoMatch THEN 0 ELSE end)]]_vars
=============================================================================
