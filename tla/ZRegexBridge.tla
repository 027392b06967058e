---------------------------- MODULE ZRegexBridge ----------------------------
(* The host side of the library in the test262 harness                       *)
(* (scripts/test262/zregex.mjs): compiled patterns and the last subject are  *)
(* cached, a string crosses as UTF-16 units or as WTF-8 bytes, and indices   *)
(* cross both ways.  One action is one call; the harness is one thread.      *)
(*                                                                           *)
(* The library is external here: a pattern is a set of characters, of which  *)
(* it finds the first at the index or after, in the mode its flags ask for.  *)
EXTENDS Subject, FiniteSets, SequencesExt

CONSTANTS Patterns,    \* [name -> the characters it matches]; Bad: no such pattern
          Bad,         \* a pattern the library rejects
          Flags,       \* "" and "u"
          Strings      \* the subjects, as sequences of code units

VARIABLES encoding,     \* of subjects, for as long as the process runs
          cache,        \* [<<flags, source>> -> handle]
          live,         \* [handle given and not got back -> the pattern it was compiled from]
          lastSubject,  \* the subject encoded last, or NoSubject
          lastEncoded,  \* its encoding
          ranOut,       \* history: lastSubject was set by a call that had no memory for its copy
          answer        \* of the last call: what was asked and what came back

vars == <<encoding, cache, live, lastSubject, lastEncoded, ranOut, answer>>

NoSubject == <<-1>>
NoEncoded == [text |-> <<>>, unitToByte |-> <<>>, byteToUnit |-> <<>>]
Keys      == Flags \X (DOMAIN Patterns \cup {Bad})
Handles   == 1..(Cardinality(Keys) + 1)

----------------------------------------------------------------------------
\* encodeWtf8.

\* Unit i (from 0) is the first, or the second, of a surrogate pair.
Leads(str, i)  == i + 1 < Len(str) /\ isLead(Unit(str, i)) /\ isTrail(Unit(str, i + 1))
Trails(str, i) == i > 0 /\ Leads(str, i - 1)

Tail6(cp, shift) == 128 + ((cp \div shift) % 64)

\* The bytes written for the code unit i: all of a pair's at its first.
BytesOf(str, i) ==
    LET cp == IF Leads(str, i) THEN combine(Unit(str, i), Unit(str, i + 1)) ELSE Unit(str, i)
    IN IF Trails(str, i) THEN <<>>
       ELSE CASE cp < 128 -> <<cp>>
              [] cp >= 128 /\ cp < 2048 -> <<192 + cp \div 64, Tail6(cp, 1)>>
              [] cp >= 2048 /\ cp < 65536 -> <<224 + cp \div 4096, Tail6(cp, 64), Tail6(cp, 1)>>
              [] OTHER -> <<240 + cp \div 262144, Tail6(cp, 4096), Tail6(cp, 64), Tail6(cp, 1)>>

EncodedBytes(str) == FlattenSeq([k \in 1..Len(str) |-> BytesOf(str, k - 1)])

\* unitToByte: the byte offset of every index, 0..length.
unitToByte(str) ==
    LET start[i \in 0..Len(str)] ==
            IF i = 0 THEN 0 ELSE start[i - 1] + Len(BytesOf(str, i - 1))
    IN [i \in 0..Len(str) |-> IF Trails(str, i) THEN start[i - 1] + 2 ELSE start[i]]

\* byteToUnit: the index of every byte offset that is one, -1 elsewhere.
byteToUnit(toByte) ==
    [b \in 0..toByte[Max(DOMAIN toByte)] |->
        IF \E i \in DOMAIN toByte : toByte[i] = b THEN CHOOSE i \in DOMAIN toByte : toByte[i] = b ELSE -1]

\* The text sent and the tables of a subject.
encode(str) ==
    LET toByte == IF encoding = "utf16" THEN [i \in 0..Len(str) |-> i] ELSE unitToByte(str)
    IN [text |-> IF encoding = "utf16" THEN str ELSE EncodedBytes(str),
        unitToByte |-> toByte,
        byteToUnit |-> byteToUnit(toByte)]

----------------------------------------------------------------------------
\* The library (zregex_exec_utf16, zregex_exec_wtf8), on a text in either
\* encoding: the span of the first character of the set at index or after.
Mode(flags) == IF flags = "u" THEN "code_point" ELSE "code_unit"

DecodeAt(enc, text, mode, i) ==
    IF enc = "wtf8" THEN wtf8DecodeAt(text, mode, i) ELSE utf16DecodeAt(text, mode, i)

CharStart(enc, text, mode, i) ==
    IF enc = "wtf8" THEN wtf8CharStart(text, mode, i) ELSE utf16CharStart(text, mode, i)

\* Where the attempts of an execution from i start.
Attempts(enc, text, mode, i) ==
    LET at[n \in 0..Len(text)] ==
            IF n = 0 THEN CharStart(enc, text, mode, i)
            ELSE IF at[n - 1] \in {-1, Len(text)} THEN -1
            ELSE DecodeAt(enc, text, mode, at[n - 1]).pos
    IN {at[n] : n \in 0..Len(text)} \ {-1}

Library(enc, key, text, i) ==
    LET mode == Mode(key[1])
        hits == {p \in Attempts(enc, text, mode, i) :
                    i <= Len(text) /\ p < Len(text) /\ DecodeAt(enc, text, mode, p).value \in Patterns[key[2]]}
    IN IF hits = {} THEN <<>>
       ELSE LET p == CHOOSE x \in hits : \A y \in hits : x <= y
            IN <<p, DecodeAt(enc, text, mode, p).pos>>

----------------------------------------------------------------------------
\* A call that matched nothing: the start, a rejection, an exception.
Other(call) == [call |-> call, key |-> <<>>, subject |-> <<>>, lastIndex |-> 0, got |-> <<>>]

Init ==
    /\ encoding \in {"utf16", "wtf8"}
    /\ cache = <<>>
    /\ live = <<>>
    /\ lastSubject = NoSubject
    /\ lastEncoded = NoEncoded
    /\ ranOut = FALSE
    /\ answer = Other("none")

\* zregex_compile_n gives a handle that is not live.
NewHandle == CHOOSE h \in Handles : h \notin DOMAIN live

\* Map.set, on the cache as on the library's own handles.
Stored(map, k, v) == [x \in DOMAIN map \cup {k} |-> IF x = k THEN v ELSE map[x]]

\* Mutant: the compiled pattern is looked up by its source alone.
compileBySource(key) ==
    \/ \E k \in DOMAIN cache :
          /\ k[2] = key[2]
          /\ cache' = Stored(cache, key, cache[k])
          /\ UNCHANGED live
    \/ /\ ~\E k \in DOMAIN cache : k[2] = key[2]
       /\ key[2] # Bad
       /\ live' = Stored(live, NewHandle, key)
       /\ cache' = Stored(cache, key, NewHandle)

\* compile(source, flags), when it does not throw.
compile(key) ==
    \/ /\ key \in DOMAIN cache
       /\ UNCHANGED <<cache, live>>
    \/ /\ key \notin DOMAIN cache
       /\ key[2] # Bad
       /\ live' = Stored(live, NewHandle, key)
       /\ cache' = Stored(cache, key, NewHandle)

\* Mutant: the subject is remembered by its length.
encodeSubjectByLength(str) ==
    IF lastSubject = NoSubject \/ Len(str) # Len(lastSubject)
    THEN lastSubject' = str /\ lastEncoded' = encode(str)
    ELSE UNCHANGED <<lastSubject, lastEncoded>>

\* encodeSubject(str), when it does not throw.
encodeSubject(str) ==
    IF str # lastSubject
    THEN lastSubject' = str /\ lastEncoded' = encode(str)
    ELSE UNCHANGED <<lastSubject, lastEncoded>>

\* toUnit, for the span of a match; -1 is the ZRegexOffsetError.
ToUnits(enc, slots) == [k \in DOMAIN slots |-> enc.byteToUnit[slots[k]]]

\* The index as it crosses: in UTF-16 as it is.
HasOffset(enc, i) == enc # NoEncoded /\ (encoding = "wtf8" => i \in DOMAIN enc.unitToByte)
Offset(enc, i) == IF encoding = "utf16" THEN i ELSE enc.unitToByte[i]

\* exec(source, flags, subject, lastIndex): a span, no match (<<>>), or an
\* offset that is no position.
Exec(key, str, i) ==
    /\ compile(key)
    /\ encodeSubject(str)
    /\ HasOffset(lastEncoded', i)
    /\ LET slots == Library(encoding, live'[cache'[key]], lastEncoded'.text, Offset(lastEncoded', i))
       IN answer' = [call |-> "exec", key |-> key, subject |-> str, lastIndex |-> i,
                     got |-> ToUnits(lastEncoded', slots)]
    /\ ranOut' = (ranOut /\ str = lastSubject)
    /\ UNCHANGED encoding

\* The pattern does not compile: thrown, and not cached.
ExecRejected(key) ==
    /\ key[2] = Bad
    /\ answer' = Other("ZRegexCompileError")
    /\ UNCHANGED <<encoding, cache, live, lastSubject, lastEncoded, ranOut>>

\* The array for the subject's copy cannot be had: a RangeError, after
\* lastSubject was set.
ExecRunsOut(key, str) ==
    /\ str # lastSubject
    /\ compile(key)
    /\ lastSubject' = str
    /\ answer' = Other("RangeError")
    /\ ranOut' = TRUE
    /\ UNCHANGED <<encoding, lastEncoded>>

\* The subject memoized has no encoding, or one without this index: a
\* TypeError.
ExecNoEncoding(key, str, i) ==
    /\ str = lastSubject
    /\ ~HasOffset(lastEncoded, i)
    /\ compile(key)
    /\ answer' = Other("TypeError")
    /\ UNCHANGED <<encoding, lastSubject, lastEncoded, ranOut>>

\* rejects(source, flags): compiled apart from the cache, and freed at once.
Rejects(key) ==
    /\ answer' = Other(IF key[2] = Bad THEN "rejected" ELSE "accepted")
    /\ UNCHANGED <<encoding, cache, live, lastSubject, lastEncoded, ranOut>>

\* clearCache().
ClearCache ==
    /\ live' = [h \in DOMAIN live \ {cache[k] : k \in DOMAIN cache} |-> live[h]]
    /\ cache' = <<>>
    /\ lastSubject' = NoSubject
    /\ lastEncoded' = NoEncoded
    /\ ranOut' = FALSE
    /\ answer' = Other("none")
    /\ UNCHANGED encoding

Next ==
    \/ \E key \in Keys, str \in Strings :
          \/ \E i \in 0..Len(str) : Exec(key, str, i) \/ ExecNoEncoding(key, str, i)
          \/ ExecRunsOut(key, str)
    \/ \E key \in Keys : ExecRejected(key) \/ Rejects(key)
    \/ ClearCache

Spec == Init /\ [][Next]_vars

----------------------------------------------------------------------------
\* No handle leaks, dangles or stands for another pattern: the live handles
\* are those of the cache, each compiled from its own source and flags
\* (zregex.mjs:138-169, 207-227).
HandlesOwned ==
    /\ DOMAIN live = {cache[k] : k \in DOMAIN cache}
    /\ \A k \in DOMAIN cache : live[cache[k]] = k

\* Whatever was asked before, an execution answers what it was asked: the
\* span, in the string's own indices, the library finds in that string for
\* that pattern, in either encoding ("it hands zregex the subject in one of
\* two encodings", zregex.mjs:5-9); no offset comes back that is no position.
\* It says nothing of a call that finds a string remembered without its
\* encoding, after a call that ran out of memory for it (zregex.mjs:173-178).
AnswersOwn ==
    answer.call = "exec" /\ ~ranOut =>
        answer.got = Library("utf16", answer.key, answer.subject, answer.lastIndex)
=============================================================================
