--------------------------- MODULE MCSupervisors ---------------------------
(***************************************************************************)
(* The three programs that give work to processes they may have to kill:   *)
(* the pool of test262 workers (TestPool), the parent of the differential  *)
(* test (DiffParent) and the arbiter of the VM's discrepancies (Arbiter).  *)
(* They never run together: `part' says which one this behaviour is of,    *)
(* and the other two stay as they start.                                   *)
(***************************************************************************)
EXTENDS TestPool

CONSTANTS COUNT, NSubjects, Lines

ASSUME SupervisorsAssumption == COUNT \in Nat /\ NSubjects \in Nat /\ Lines \in Nat

VARIABLES part,
          case, inFlight, child, tally, charged, finishes,
          v8, line, round, worker, port, timers, counts

diff    == <<case, inFlight, child, tally, charged, finishes>>
arbiter == <<v8, line, round, worker, port, timers, counts>>

D == INSTANCE DiffParent WITH next <- case, counts <- tally
A == INSTANCE Arbiter WITH next <- line

MCInit == Init /\ D!Init /\ A!Init /\ part \in {"pool", "diff", "arbiter"}

InPool    == part = "pool" /\ UNCHANGED <<part, diff, arbiter>>
InDiff    == part = "diff" /\ UNCHANGED <<part, vars, arbiter>>
InArbiter == part = "arbiter" /\ UNCHANGED <<part, vars, diff>>

MCNext ==
    \/ \E s \in Slot : OnMessage(s) /\ InPool
    \/ \E s \in Slot : OnTimeout(s) /\ InPool
    \/ \E s \in Slot : OnExit(s) /\ InPool
    \/ \E s \in Slot : Answer(s) /\ InPool
    \/ \E s \in Slot : Crash(s) /\ InPool
    \/ \E s \in Slot : KillLands(s) /\ InPool
    \/ InDiff /\ D!OnMessage
    \/ InDiff /\ D!OnExit
    \/ InDiff /\ D!Answer
    \/ InDiff /\ D!Crash
    \/ InArbiter /\ A!Run
    \/ InArbiter /\ A!OnMessage
    \/ InArbiter /\ A!OnTimeout
    \/ InArbiter /\ A!Terminated
    \/ InArbiter /\ A!OnError

all == <<part, vars, diff, arbiter>>

(* What each of the three asks of its event loop (its own Spec).           *)
MCFairness ==
    /\ \A s \in Slot : /\ WF_all(OnMessage(s) /\ InPool)
                       /\ WF_all(OnTimeout(s) /\ InPool)
                       /\ WF_all(OnExit(s) /\ InPool)
                       /\ WF_all(KillLands(s) /\ InPool)
    /\ WF_all(InDiff /\ D!OnMessage)
    /\ WF_all(InDiff /\ D!OnExit)
    /\ WF_all(InDiff /\ D!Answer)
    /\ WF_all(InArbiter /\ A!OnMessage)
    /\ WF_all(InArbiter /\ A!OnTimeout)
    /\ WF_all(InArbiter /\ A!Terminated)

MCSpec == MCInit /\ [][MCNext]_all /\ MCFairness
-----------------------------------------------------------------------------
(* The differential test keeps the same promise as the pool: a case is     *)
(* charged once, with its answer or its crash (differential.mjs:152-174).  *)
CasesImplementBoard == D!ImplementsBoard

(* Every line up to the one waited for has a result                        *)
(* (pfdiff-arbiter.mjs:50-80).                                             *)
NoneMissing == A!NoneMissing

(* No timeout marked late hides an answer (pfdiff-arbiter.mjs:57-77).      *)
AnswersStay == A!AnswersStay

(* The numbers of both reports add up to what was run: every case, every   *)
(* line once (differential.mjs:155-168, pfdiff-arbiter.mjs:82-108).        *)
ReportsAddUp == D!Balanced /\ A!AllCounted

(* Tests may hang, lines may never end, workers and children may die: each *)
(* of the three gets to its report (run.mjs:233-282,                       *)
(* differential.mjs:165-181, pfdiff-arbiter.mjs:50-108).                   *)
EachEnds ==
    /\ part = "pool" => Ends
    /\ part = "diff" => D!Ends
    /\ part = "arbiter" => A!Ends
=============================================================================
