------------------------------ MODULE Subject ------------------------------
(* The two encodings of a subject (src/subject/root.zig): UTF-16 code units  *)
(* and WTF-8 bytes, and how one character is decoded at and before a         *)
(* position.  A subject is a sequence of numbers; a position i lies between  *)
(* its i-th and (i+1)-th unit, as in the code.                               *)
(*                                                                           *)
(* mode is "code_point" (flags u and v) or "code_unit".  A decoded character *)
(* is [value, pos]; None stands for null.                                    *)
EXTENDS Integers, Sequences

None == [value |-> -1, pos |-> -1]
Decoded(v, p) == [value |-> v, pos |-> p]

\* s[i] of the code.
Unit(s, i) == s[i + 1]

isLead(u)  == 55296 <= u /\ u <= 56319      \* D800..DBFF
isTrail(u) == 56320 <= u /\ u <= 57343      \* DC00..DFFF
combine(lead, trail) == 65536 + (lead - 55296) * 1024 + (trail - 56320)
leadOf(cp)  == 55296 + (cp - 65536) \div 1024
trailOf(cp) == 56320 + ((cp - 65536) % 1024)

----------------------------------------------------------------------------
\* UTF-16.

utf16DecodeAt(s, mode, i) ==
    IF i >= Len(s) THEN None
    ELSE IF /\ mode = "code_point"
            /\ i + 1 < Len(s)
            /\ isLead(Unit(s, i)) /\ isTrail(Unit(s, i + 1))
         THEN Decoded(combine(Unit(s, i), Unit(s, i + 1)), i + 2)
         ELSE Decoded(Unit(s, i), i + 1)

utf16DecodeBefore(s, mode, i) ==
    IF i = 0 \/ i > Len(s) THEN None
    ELSE IF /\ mode = "code_point"
            /\ i >= 2
            /\ isTrail(Unit(s, i - 1)) /\ isLead(Unit(s, i - 2))
         THEN Decoded(combine(Unit(s, i - 2), Unit(s, i - 1)), i - 2)
         ELSE Decoded(Unit(s, i - 1), i - 1)

utf16CharStart(s, mode, i) ==
    IF /\ mode = "code_point"
       /\ 0 < i /\ i < Len(s)
       /\ isTrail(Unit(s, i)) /\ isLead(Unit(s, i - 1))
    THEN i - 1 ELSE i

----------------------------------------------------------------------------
\* WTF-8.

isContinuation(b) == 128 <= b /\ b <= 191

\* How many bytes a sequence with this first byte has; 0 for no first byte.
SequenceLength(b) ==
    CASE b < 128 -> 1
      [] 192 <= b /\ b <= 223 -> 2
      [] 224 <= b /\ b <= 239 -> 3
      [] 240 <= b /\ b <= 247 -> 4
      [] OTHER -> 0

Bits(b) == b % 64

\* What n bytes from i stand for, their continuation bytes being well formed.
CodePoint(s, i, n) ==
    CASE n = 1 -> Unit(s, i)
      [] n = 2 -> (Unit(s, i) % 32) * 64 + Bits(Unit(s, i + 1))
      [] n = 3 -> (Unit(s, i) % 16) * 4096 + Bits(Unit(s, i + 1)) * 64 + Bits(Unit(s, i + 2))
      [] OTHER -> (Unit(s, i) % 8) * 262144 + Bits(Unit(s, i + 1)) * 4096
                  + Bits(Unit(s, i + 2)) * 64 + Bits(Unit(s, i + 3))

\* The length of the valid sequence at byte i (UTF-8, or the three bytes of a
\* lone surrogate), or 0: an overlong, truncated or invalid one, or a
\* continuation byte.
seqAt(s, i) ==
    LET n == IF i < Len(s) THEN SequenceLength(Unit(s, i)) ELSE 0
        least == <<0, 128, 2048, 65536>>
    IN IF /\ n > 0
          /\ i + n <= Len(s)
          /\ \A k \in 1..(n - 1) : isContinuation(Unit(s, i + k))
          /\ least[n] <= CodePoint(s, i, n) /\ CodePoint(s, i, n) <= 1114111
       THEN n ELSE 0

\* Byte i is the middle (b + 2) of a four-byte sequence.
isMid(s, i) == i >= 2 /\ i < Len(s) /\ isContinuation(Unit(s, i)) /\ seqAt(s, i - 2) = 4
midOf(s, i) == CodePoint(s, i - 2, 4)

\* A position is not inside a sequence, the middle of four bytes apart.
wtf8IsPosition(s, i) ==
    /\ i <= Len(s)
    /\ \A k \in 1..3 : k <= i /\ i < Len(s) /\ seqAt(s, i - k) > k
                          => k = 2 /\ seqAt(s, i - k) = 4

wtf8DecodeAt(s, mode, i) ==
    IF i >= Len(s) THEN None
    ELSE IF isMid(s, i) THEN Decoded(trailOf(midOf(s, i)), i + 2)
    ELSE IF seqAt(s, i) = 0 THEN Decoded(Unit(s, i), i + 1)
    ELSE IF seqAt(s, i) = 4 /\ mode = "code_unit"
         THEN Decoded(leadOf(CodePoint(s, i, 4)), i + 2)
         ELSE Decoded(CodePoint(s, i, seqAt(s, i)), i + seqAt(s, i))

\* Mutant: going back, a character of four bytes is taken whole in any mode.
wtf8DecodeBeforeWhole(s, mode, i) ==
    IF i = 0 \/ i > Len(s) THEN None
    ELSE IF isMid(s, i) THEN Decoded(leadOf(midOf(s, i)), i - 2)
    ELSE LET ends == {k \in 1..4 : k <= i /\ seqAt(s, i - k) = k}
         IN IF ends = {} THEN Decoded(Unit(s, i - 1), i - 1)
            ELSE LET k == CHOOSE x \in ends : TRUE
                 IN Decoded(CodePoint(s, i - k, k), i - k)

\* A sequence that ends exactly at i: there is at most one.
wtf8DecodeBefore(s, mode, i) ==
    IF i = 0 \/ i > Len(s) THEN None
    ELSE IF isMid(s, i) THEN Decoded(leadOf(midOf(s, i)), i - 2)
    ELSE LET ends == {k \in 1..4 : k <= i /\ seqAt(s, i - k) = k}
         IN IF ends = {} THEN Decoded(Unit(s, i - 1), i - 1)
            ELSE LET k == CHOOSE x \in ends : TRUE
                 IN IF k = 4 /\ mode = "code_unit"
                    THEN Decoded(trailOf(CodePoint(s, i - 4, 4)), i - 2)
                    ELSE Decoded(CodePoint(s, i - k, k), i - k)

wtf8CharStart(s, mode, i) ==
    IF mode = "code_point" /\ isMid(s, i) THEN i - 2 ELSE i

----------------------------------------------------------------------------
\* Index mapping.

\* The byte position after u code units, for every u the subject has: the
\* loop of utf16ToWtf8Index.
ByteOfUnit(s) ==
    LET after[u \in 0..Len(s)] ==
            IF u = 0 THEN 0
            ELSE IF after[u - 1] = -1 THEN -1
            ELSE wtf8DecodeAt(s, "code_unit", after[u - 1]).pos
    IN after

utf16ToWtf8Index(s, u) == ByteOfUnit(s)[u]

\* How many code units come before position i: the loop of wtf8ToUtf16Index,
\* which stops at the first one at i or past it.
wtf8ToUtf16Index(s, i) ==
    CHOOSE u \in 0..Len(s) :
        /\ ByteOfUnit(s)[u] >= i
        /\ \A v \in 0..(u - 1) : ByteOfUnit(s)[v] < i
=============================================================================
