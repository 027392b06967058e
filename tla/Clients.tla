------------------------------ MODULE Clients ------------------------------
(***************************************************************************)
(* What stands around the matcher, on one thread: the verdict on a test    *)
(* (Verdict), the choice of the tests (Discover), the baseline (Baseline), *)
(* the bridge to the library (ZRegexBridge), RegExp.prototype.exec over it *)
(* (HostExec), the loops over all matches (MatchLoops) and the walk over   *)
(* the characters of a subject (SubjectWalk).  They share no state: `part' *)
(* says which one this behaviour is of, and the others stay as they start. *)
(***************************************************************************)
EXTENDS Integers, Sequences, FiniteSets

CONSTANTS
    TestFiles, MaxTests,                \* Verdict: Tasks, MaxTests
    Groups, FileMeta, Lacking,          \* Discover: Groups, Meta, Lacking
    FilesAt, HostSuite, Status,         \* Baseline
    Patterns, Bad, Flags, Strings,      \* ZRegexBridge
    ExecLength, ExecInside, Sources, LastIndexes, Names,     \* HostExec
    LoopLength, LoopInside,             \* MatchLoops
    Bytes, MaxLen                       \* SubjectWalk

(* A test is what comes of its executions, with the library and with V8,   *)
(* and of its harness files'.  Whether a file is there, and parses, does   *)
(* not depend on the realm.                                                *)
V8Outcome == {"goes on", "throws", "throws its type", "hangs"}
Execution == [zregex : V8Outcome \cup {"rejected", "rejection caught"}, v8 : V8Outcome]
HarnessStep ==
    {s_ \in [file : STRING,
             zregex : {"goes on", "throws", "throws its type", "rejected", "rejection caught", "loads", "missing"},
             v8 : {"goes on", "throws", "throws its type", "loads", "missing"}] :
        s_.zregex \in {"loads", "missing"} \/ s_.v8 \in {"loads", "missing"} => s_.zregex = s_.v8}
TestFile(t) ==
    /\ t.negative \in {"none", "parse", "runtime"} /\ t.raw \in BOOLEAN /\ t.parses \in BOOLEAN
    /\ t.harness \in Seq(HarnessStep) /\ t.body \in Seq(Execution)

ASSUME TestsAssumption == \A t \in TestFiles : TestFile(t)

(* A library has finitely many patterns and flags.                         *)
ASSUME LibraryAssumption ==
    IsFiniteSet(Flags) /\ IsFiniteSet(DOMAIN Patterns) /\ Bad \notin DOMAIN Patterns

(* Some positions are inside a character, between its two units, no two of *)
(* them side by side.                                                      *)
ASSUME ExecAssumption ==
    /\ Names \in Seq(STRING)
    /\ ExecLength \in Nat /\ ExecInside \subseteq 1..ExecLength - 1
    /\ \A p \in ExecInside : p + 1 \notin ExecInside
ASSUME LoopsAssumption ==
    /\ LoopLength \in Nat /\ LoopInside \subseteq 1..LoopLength - 1
    /\ \A p \in LoopInside : p + 1 \notin LoopInside

ASSUME WalkAssumption == Bytes \subseteq 0..255 /\ MaxLen \in Nat

(* Each of the test files is in one directory, once.                       *)
ASSUME FilesAssumption ==
    /\ IsFiniteSet(DOMAIN FileMeta) /\ Groups \in Seq(Seq(DOMAIN FileMeta))
    /\ \A f \in DOMAIN FileMeta : \E i \in DOMAIN Groups : \E k \in DOMAIN Groups[i] : Groups[i][k] = f
    /\ \A i, j \in DOMAIN Groups : \A k \in DOMAIN Groups[i], l \in DOMAIN Groups[j] :
          Groups[i][k] = Groups[j][l] => i = j /\ k = l

(* A string is of code units.                                              *)
CodeUnits == 0..65535
ASSUME StringsAssumption == Strings \subseteq Seq(CodeUnits)

VARIABLES part,
          stats, scripts, seq, res,
          n, lists, round, turn, any, picked, nextFile, tasks, results,
          file, last, recorded,
          encoding, cache, live, lastSubject, lastEncoded, ranOut, answer,
          matches, R, pc, read, result, named,
          at, sticky, who, index, found, state,
          s, mode, b

verdict  == <<stats, scripts, seq, res>>
discover == <<n, lists, round, turn, any, picked, nextFile, tasks, results>>
baseline == <<file, last, recorded>>
bridge   == <<encoding, cache, live, lastSubject, lastEncoded, ranOut, answer>>
hostExec == <<matches, R, pc, read, result, named>>
loops    == <<at, sticky, who, index, found, state>>
walk     == <<s, mode, b>>
all      == <<part, verdict, discover, baseline, bridge, hostExec, loops, walk>>
-----------------------------------------------------------------------------
V == INSTANCE Verdict WITH Tasks <- TestFiles
S == INSTANCE Discover WITH Meta <- FileMeta, at <- nextFile
B == INSTANCE Baseline
Z == INSTANCE ZRegexBridge
H == INSTANCE HostExec WITH Length <- ExecLength, Inside <- ExecInside
L == INSTANCE MatchLoops WITH Length <- LoopLength, Inside <- LoopInside
W == INSTANCE SubjectWalk

ASSUME LastIndexesAssumption == LastIndexes \subseteq H!Values
-----------------------------------------------------------------------------
IdleDiscover ==
    /\ n = 0 /\ lists = <<>> /\ round = 0 /\ turn = 0 /\ any = FALSE /\ picked = <<>>
    /\ nextFile = 0 /\ tasks = <<>> /\ results = {}
IdleBaseline == file = {} /\ last = {} /\ recorded = {}
IdleBridge ==
    /\ encoding = "utf16" /\ cache = <<>> /\ live = <<>> /\ lastSubject = <<>> /\ lastEncoded = <<>>
    /\ ranOut = FALSE /\ answer = <<>>
IdleHostExec ==
    matches = {} /\ R = {} /\ pc = "none" /\ read = {} /\ result = {} /\ named = {}
IdleLoops ==
    at = {} /\ sticky = FALSE /\ who = "none" /\ index = 0 /\ found = <<>> /\ state = "none"
IdleWalk == s = <<>> /\ mode = "none" /\ b = 0

Init ==
    /\ part \in {"verdict", "discover", "baseline", "bridge", "exec", "loops", "walk"}
    /\ V!Init
    /\ IF part = "discover" THEN S!Init ELSE IdleDiscover
    /\ IF part = "baseline" THEN B!Init ELSE IdleBaseline
    /\ IF part = "bridge" THEN Z!Init ELSE IdleBridge
    /\ IF part = "exec" THEN H!Init ELSE IdleHostExec
    /\ IF part = "loops" THEN L!Init ELSE IdleLoops
    /\ IF part = "walk" THEN W!Init ELSE IdleWalk

InVerdict  == part = "verdict" /\ UNCHANGED <<part, discover, baseline, bridge, hostExec, loops, walk>>
InDiscover == part = "discover" /\ UNCHANGED <<part, verdict, baseline, bridge, hostExec, loops, walk>>
InBaseline == part = "baseline" /\ UNCHANGED <<part, verdict, discover, bridge, hostExec, loops, walk>>
InBridge   == part = "bridge" /\ UNCHANGED <<part, verdict, discover, baseline, hostExec, loops, walk>>
InHostExec == part = "exec" /\ UNCHANGED <<part, verdict, discover, baseline, bridge, loops, walk>>
InLoops    == part = "loops" /\ UNCHANGED <<part, verdict, discover, baseline, bridge, hostExec, walk>>
InWalk     == part = "walk" /\ UNCHANGED <<part, verdict, discover, baseline, bridge, hostExec, loops>>

Next ==
    \/ InVerdict /\ V!Next
    \/ InDiscover /\ S!Turn
    \/ InDiscover /\ S!EndRound
    \/ InDiscover /\ S!Classify
    \/ InBaseline /\ B!Next
    \/ InBridge /\ Z!Next
    \/ InHostExec /\ H!UserCode
    \/ InHostExec /\ H!Exec
    \/ InHostExec /\ H!ReadFlags
    \/ InHostExec /\ H!Finish
    \/ InHostExec /\ H!ToStringThrows
    \/ InHostExec /\ H!ToLengthThrows
    \/ InHostExec /\ H!BridgeThrows
    \/ InLoops /\ L!Next
    \/ InWalk /\ W!Forward
    \/ InWalk /\ W!Backward

(* A caller of a loop keeps calling.                                       *)
Spec == Init /\ [][Next]_all /\ WF_all(InLoops /\ L!Next)
-----------------------------------------------------------------------------
(* What each part promises (its own module), when it is the one that runs. *)

(* The control run of plain V8 puts the blame where it belongs             *)
(* (worker.mjs:152-174).                                                   *)
BlameExact == V!BlameExact

(* Every failure is run again in plain V8 (scripts/test262/README.md:152). *)
EveryFailureControlled == V!EveryFailureControlled

(* A result is what a fresh child would say (worker.mjs:87, 112, 127-136). *)
LikeFresh == V!LikeFresh

(* A sample is fair, and each test of it decided once (run.mjs:129-199).   *)
SampleDecided == part = "discover" => S!SampleDecided

(* A test once recorded as passing cannot fail unseen (run.mjs:366-400).   *)
NeverForgotten == part = "baseline" => B!NeverForgotten

(* The bridge answers what it was asked, but for a string it remembers     *)
(* from a call that had no memory for it, and owns its handles             *)
(* (zregex.mjs:138-227).                                                   *)
AnswersOwn   == part = "bridge" => Z!AnswersOwn
HandlesOwned == part = "bridge" => Z!HandlesOwned

(* Reading forward and backward is one numbering (root.zig:86-98, 173-235). *)
WalksAgree == part = "walk" => W!WalksAgree

(* Every match is reported, once (regex.zig:119-143, 258-283).             *)
EachMatchOnce == part = "loops" => L!EachMatchOnce

(* The loops end, on empty matches too (regex.zig:141).                    *)
LoopsEnd == part = "loops" => L!Ends

(* exec is ECMA-262's RegExpBuiltinExec (host-exec.js:1-3), as far as      *)
(* HostExec says.                                                          *)
IsBuiltinExec == H!IsBuiltinExec
=============================================================================
