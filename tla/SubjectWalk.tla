---------------------------- MODULE SubjectWalk ----------------------------
(* A matcher reads a subject one character at a time: forward, and backward  *)
(* inside a lookbehind.  Here it walks over arbitrary bytes, valid WTF-8 or  *)
(* not, turning around at any moment, in either mode.                        *)
EXTENDS Subject, SequencesExt

CONSTANTS Bytes,   \* the bytes subjects are made of
          MaxLen   \* the length of the longest subject

VARIABLES s,      \* the subject
          mode,   \* how it is read
          b       \* the position reached

vars == <<s, mode, b>>

\* Execution starts at any position, at the start of the character it is in.
Init ==
    /\ s \in BoundedSeq(Bytes, MaxLen)
    /\ mode \in {"code_point", "code_unit"}
    /\ b \in {wtf8CharStart(s, mode, i) : i \in {j \in 0..Len(s) : wtf8IsPosition(s, j)}}

Forward ==
    /\ b < Len(s)
    /\ b' = wtf8DecodeAt(s, mode, b).pos
    /\ UNCHANGED <<s, mode>>

Backward ==
    /\ b > 0
    /\ b' = wtf8DecodeBefore(s, mode, b).pos
    /\ UNCHANGED <<s, mode>>

Next == Forward \/ Backward

Spec == Init /\ [][Next]_vars

----------------------------------------------------------------------------
\* Whatever the bytes, the walk never leaves the positions of the subject,
\* and in code-point mode never stands between the halves of a pair
\* (root.zig:86-98, 173-213).
OnPositions ==
    /\ wtf8IsPosition(s, b)
    /\ mode = "code_point" => ~isMid(s, b)

\* Turning around finds the same character: what was read forward from b is
\* read backward from where it ended, and conversely (root.zig:197-213).
SameBothWays ==
    /\ b < Len(s) =>
          LET d == wtf8DecodeAt(s, mode, b)
          IN wtf8DecodeBefore(s, mode, d.pos) = [d EXCEPT !.pos = b]
    /\ b > 0 =>
          LET d == wtf8DecodeBefore(s, mode, b)
          IN wtf8DecodeAt(s, mode, d.pos) = [d EXCEPT !.pos = b]

\* Code units and positions number each other: going to units and back is the
\* identity at every position, and no other byte has a unit (root.zig:219-235).
IndexesInverse ==
    {ByteOfUnit(s)[u] : u \in 0..Len(s)} \ {-1} = {i \in 0..Len(s) : wtf8IsPosition(s, i)}
    /\ utf16ToWtf8Index(s, wtf8ToUtf16Index(s, b)) = b

\* A walk is the same both ways, wherever it turns around, and every position
\* it reaches has its index in code units (root.zig:86-98, 173-235).
WalksAgree == OnPositions /\ SameBothWays /\ IndexesInverse
=============================================================================
