----------------------------- MODULE DiffParent -----------------------------
(* The differential test against V8 (scripts/test262/differential.mjs): a    *)
(* parent hands one case at a time to a child process, which compares the    *)
(* two engines on every subject of the case; a crash inside zregex takes the *)
(* child down, is charged to the case in flight, and a fresh child goes on   *)
(* with the next.  There is no timeout: a comparison is assumed to end.      *)
EXTENDS Naturals, Sequences, FiniteSetsExt

CONSTANTS COUNT,      \* cases to compare
          NSubjects   \* subjects of a case

VARIABLES next,      \* index of the next case to send
          inFlight,  \* the case the child was sent and has not answered
          child,     \* [up, case: what it is running, answer: what it wrote]
          counts,    \* the totals of the report
          charged,   \* [Case -> what its counts and divergences say of it]
          finishes   \* calls of finish()

vars == <<next, inFlight, child, counts, charged, finishes>>

Case == 1..COUNT
None == 0

\* An answer: V8 rejected the pattern, or one outcome per subject in order,
\* cut short by zregex refusing to compile it.
Kinds == {"same", "different_result", "zregex_error"}
Outcomes == [1..NSubjects -> Kinds]
            \cup {Append(SubSeq(o, 1, n), "zregex_rejects") :
                     o \in [1..NSubjects -> Kinds], n \in 0..(NSubjects - 1)}
V8Rejected(c) == [id |-> c, v8Rejected |-> TRUE, out |-> <<>>]
Compared(c, o) == [id |-> c, v8Rejected |-> FALSE, out |-> o]
NoAnswer == [id |-> None, v8Rejected |-> FALSE, out |-> <<>>]

spawn == [up |-> TRUE, case |-> None, answer |-> NoAnswer]

NoCounts == [v8Rejected |-> 0, zregexRejected |-> 0, crashed |-> 0,
             compared |-> 0, same |-> 0, differentResult |-> 0, zregexError |-> 0]

NumberOf(kind, out) == Quantify(DOMAIN out, LAMBDA i : out[i] = kind)

\* Mutant: an outcome that differs from V8's is not counted as compared.
TallySameOnly(c, msg) ==
    [c EXCEPT
        !.v8Rejected      = @ + (IF msg.v8Rejected THEN 1 ELSE 0),
        !.same            = @ + NumberOf("same", msg.out),
        !.differentResult = @ + NumberOf("different_result", msg.out),
        !.compared        = @ + NumberOf("same", msg.out),
        !.zregexRejected  = @ + NumberOf("zregex_rejects", msg.out),
        !.zregexError     = @ + NumberOf("zregex_error", msg.out)]

\* The counters of the message handler, one outcome after the other.
Tally(c, msg) ==
    [c EXCEPT
        !.v8Rejected      = @ + (IF msg.v8Rejected THEN 1 ELSE 0),
        !.same            = @ + NumberOf("same", msg.out),
        !.differentResult = @ + NumberOf("different_result", msg.out),
        !.compared        = @ + NumberOf("same", msg.out) + NumberOf("different_result", msg.out),
        !.zregexRejected  = @ + NumberOf("zregex_rejects", msg.out),
        !.zregexError     = @ + NumberOf("zregex_error", msg.out)]

\* Send the next case to the child ch, or disconnect it and write the report.
dispatch(ch) ==
    \/ /\ next > COUNT
       /\ child' = [ch EXCEPT !.up = FALSE]
       /\ inFlight' = None
       /\ finishes' = finishes + 1
       /\ UNCHANGED next
    \/ /\ next <= COUNT
       /\ inFlight' = next
       /\ child' = [ch EXCEPT !.case = next]
       /\ next' = next + 1
       /\ UNCHANGED finishes

Init ==
    /\ counts = NoCounts
    /\ charged = [c \in Case |-> "none"]
    /\ \/ /\ COUNT = 0
          /\ next = 1 /\ inFlight = None /\ child = [spawn EXCEPT !.up = FALSE]
          /\ finishes = 1
       \/ /\ COUNT > 0
          /\ next = 2 /\ inFlight = 1 /\ child = [spawn EXCEPT !.case = 1]
          /\ finishes = 0

\* child.on('message') of the parent.
OnMessage ==
    /\ child.answer # NoAnswer
    /\ counts' = Tally(counts, child.answer)
    /\ charged' = [charged EXCEPT ![child.answer.id] = "answered"]
    /\ dispatch([child EXCEPT !.answer = NoAnswer])

\* Mutant: the case in flight is sent again to the fresh child.
OnExitRetries ==
    /\ ~child.up
    /\ child.answer = NoAnswer
    /\ inFlight # None
    /\ counts' = [counts EXCEPT !.crashed = @ + 1]
    /\ charged' = [charged EXCEPT ![inFlight] = "crashed"]
    /\ child' = [spawn EXCEPT !.case = inFlight]
    /\ UNCHANGED <<next, inFlight, finishes>>

\* child.on('exit') of the parent: the case in flight is charged with the
\* crash and a fresh child takes the next one.
OnExit ==
    /\ ~child.up
    /\ child.answer = NoAnswer
    /\ inFlight # None
    /\ counts' = [counts EXCEPT !.crashed = @ + 1]
    /\ charged' = [charged EXCEPT ![inFlight] = "crashed"]
    /\ dispatch(spawn)

\* runChild: V8 rejects the pattern, or the subjects are compared in order.
Answer ==
    /\ child.up
    /\ child.case # None
    /\ \E msg \in {V8Rejected(child.case)} \cup {Compared(child.case, o) : o \in Outcomes} :
          child' = [child EXCEPT !.case = None, !.answer = msg]
    /\ UNCHANGED <<next, inFlight, counts, charged, finishes>>

\* zregex crashes on a subject of the case.
Crash ==
    /\ child.up
    /\ child.case # None
    /\ child' = [child EXCEPT !.up = FALSE, !.case = None]
    /\ UNCHANGED <<next, inFlight, counts, charged, finishes>>

Next == OnMessage \/ OnExit \/ Answer \/ Crash

\* The parent's event loop runs, and a comparison ends: zregex by its step
\* limit, V8 because subjects have at most eight characters.
Spec == Init /\ [][Next]_vars /\ WF_vars(OnMessage) /\ WF_vars(OnExit) /\ WF_vars(Answer)

----------------------------------------------------------------------------
\* "attributed to that case and the parent carries on with a fresh child"
\* (differential.mjs:97-99): every case is charged once, with its own answer
\* or its own crash, and the report is written once, after the last of them.
Board == INSTANCE TaskBoard WITH
    Tasks      <- Case,
    Undecided  <- "none",
    VerdictsOf <- [c \in Case |-> {"answered", "crashed"}],
    verdict    <- charged,
    reports    <- finishes

ImplementsBoard == Board!BoardSpec

\* The accounts balance whenever the child is between two cases: compared is
\* same plus different, and with no zregex refusal every case V8 took and
\* survived has one outcome per subject (differential.mjs:155-162).
Balanced ==
    /\ counts.compared = counts.same + counts.differentResult
    /\ counts.crashed = Quantify(Case, LAMBDA c : charged[c] = "crashed")
    /\ LET answered == Quantify(Case, LAMBDA c : charged[c] = "answered") - counts.v8Rejected
       IN /\ counts.zregexRejected <= answered
          /\ counts.compared + counts.zregexError
                \in ((answered - counts.zregexRejected) * NSubjects)
                    ..(answered * NSubjects - counts.zregexRejected)

\* Crashes never stop the run: the report is written whatever cases crash,
\* the last one included (differential.mjs:165-181).
Ends == <>(finishes = 1)
=============================================================================
