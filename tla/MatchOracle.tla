---------------------------- MODULE MatchOracle ----------------------------
(* A pattern on one subject, as the code around the matcher sees it: where   *)
(* an attempt at a position ends, if it matches.  What the pattern is does   *)
(* not matter.  Positions are code units; a position inside a character is   *)
(* never the start of an attempt nor the end of a match.  So it is in the    *)
(* library and in ECMA-262; V8 has empty matches there under u and v         *)
(* (docs/LIMITATIONS.md:83-95), which no attempt here stands for.            *)
EXTENDS Integers, FiniteSets

CONSTANTS Length,   \* of the subject
          Inside    \* the positions inside a character

NoMatch == -1
Positions == (0..Length) \ Inside

\* The patterns: an end, not before the start, for each start that matches.
Attempts == {at \in [Positions -> Positions \cup {NoMatch}] :
                \A p \in Positions : at[p] = NoMatch \/ at[p] >= p}

\* The position after the character at p, and p + 1 at the end.
AdvanceIndex(p) == CHOOSE q \in (Positions \cup {Length + 1}) :
                      q > p /\ \A r \in Positions : r > p => q <= r

\* An index inside a character stands for the character's start.
CharStart(i) == CHOOSE p \in Positions : p <= i /\ \A q \in Positions : q <= i => q <= p

\* Where the search from i finds its match, or NoMatch: at i only when
\* sticky, otherwise at the first position that matches.
Search(at, i, sticky) ==
    LET from == CharStart(i)
        hits == {p \in Positions : from <= p /\ at[p] # NoMatch /\ (sticky => p = from)}
    IN IF hits = {} THEN NoMatch
       ELSE CHOOSE p \in hits : \A q \in hits : p <= q
=============================================================================
