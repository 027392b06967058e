------------------------------ MODULE Arbiter ------------------------------
(* The arbiter of the VM's discrepancies (scripts/gate/pfdiff-arbiter.mjs):  *)
(* a worker thread runs V8 on one line after the other and posts each        *)
(* result; the main thread kills it when nothing came for two seconds, marks *)
(* the line it waits for and starts a worker on the next one.                *)
(*                                                                           *)
(* Each round of the main thread's loop is a promise with a worker, a timer  *)
(* and handlers of its own.  The messages a terminated worker had posted are *)
(* still delivered, to the handlers of its round, before terminate() is      *)
(* done; the loop goes on when any resolve of the round has been called.     *)
EXTENDS Naturals, Sequences, FiniteSetsExt

CONSTANT Lines      \* lines.length

VARIABLES v8,       \* [line -> result]
          next,     \* the line the main thread waits for (lines are 1..Lines)
          round,    \* the number of the current worker
          worker,   \* its thread: the line it runs (or past the end), its state
          port,     \* the lines whose results it posted, not delivered yet
          timers,   \* the rounds whose timer is armed, in the order they fire
          counts    \* the verdicts of the report, once the loop is over

vars == <<v8, next, round, worker, port, timers, counts>>

Line == 1..Lines
Starting(k) == [at |-> k, state |-> "running"]

\* Every timer has the same two seconds: the one armed first fires first.
Disarm(r) == SelectSeq(timers, LAMBDA q : q # r)
Arm(r)    == Append(Disarm(r), r)

NoCounts == [vm_right |-> 0, bt_right |-> 0, neither |-> 0, both |-> 0, v8_error |-> 0,
             v8_timeout |-> 0, steplimit_vm_right |-> 0, steplimit_vm_wrong |-> 0, reported |-> FALSE]

Init ==
    /\ v8 = [k \in Line |-> "none"]
    /\ next = 1
    /\ round = 1
    /\ worker = Starting(1)
    /\ port = <<>>
    /\ timers = <<1>>
    /\ counts = NoCounts

\* v8[next] = r; a write past the last line is no line's.
Mark(r) == v8' = [k \in Line |-> IF k = next THEN r ELSE v8[k]]

----------------------------------------------------------------------------
\* The worker thread: V8 answers the line, the result is posted, the next
\* line begins.  A line may also never end.
Run ==
    /\ worker.state = "running"
    /\ worker.at <= Lines
    /\ port' = Append(port, worker.at)
    /\ worker' = [worker EXCEPT !.at = @ + 1]
    /\ UNCHANGED <<v8, next, round, timers, counts>>

----------------------------------------------------------------------------
\* The main thread.

\* Mutant: a result moves next on by one, whatever line it is of.
OnMessageCounting ==
    /\ port # <<>>
    /\ port' = Tail(port)
    /\ v8' = [v8 EXCEPT ![Head(port)] = "answer"]
    /\ next' = next + 1
    /\ IF next' > Lines
       THEN timers' = Disarm(round) /\ worker' = [worker EXCEPT !.state = "terminating"]
       ELSE timers' = Arm(round) /\ UNCHANGED worker
    /\ UNCHANGED <<round, counts>>

\* Mutant: next stays on the line whose result came.
OnMessageSame ==
    /\ port # <<>>
    /\ port' = Tail(port)
    /\ v8' = [v8 EXCEPT ![Head(port)] = "answer"]
    /\ next' = Head(port)
    /\ timers' = Arm(round)
    /\ UNCHANGED <<round, worker, counts>>

\* A result: of the line waited for, or of one marked since.
OnMessage ==
    /\ port # <<>>
    /\ port' = Tail(port)
    /\ v8' = [v8 EXCEPT ![Head(port)] = "answer"]
    /\ next' = Head(port) + 1
    /\ IF next' > Lines
       THEN timers' = Disarm(round) /\ worker' = [worker EXCEPT !.state = "terminating"]
       ELSE timers' = Arm(round) /\ UNCHANGED worker
    /\ UNCHANGED <<round, counts>>

\* A timer: of the current worker, or of one already gone whose last result
\* armed it again.
OnTimeout ==
    /\ ~counts.reported
    /\ timers # <<>>
    /\ timers' = Tail(timers)
    /\ Mark("V8Timeout")
    /\ next' = next + 1
    /\ worker' = IF Head(timers) = round THEN [worker EXCEPT !.state = "terminating"] ELSE worker
    /\ UNCHANGED <<round, port, counts>>

\* The next worker, for a line n that is left.
NewRound(n, armed) ==
    /\ round' = round + 1
    /\ worker' = Starting(n)
    /\ timers' = Append(armed, round + 1)
    /\ UNCHANGED counts

\* A line's verdict: who agrees with V8, the VM (vm) or the backtracker (bt).
Verdict(r, vm, bt) ==
    CASE r = "V8Error" -> "v8_error"
      [] r = "V8Timeout" -> "v8_timeout"
      [] r = "answer" /\ bt = "StepLimitExceeded" -> IF vm = r THEN "steplimit_vm_right" ELSE "steplimit_vm_wrong"
      [] r = "answer" /\ vm = r /\ bt = r -> "both"
      [] r = "answer" /\ vm = r /\ bt \notin {r, "StepLimitExceeded"} -> "vm_right"
      [] r = "answer" /\ vm # r /\ bt = r -> "bt_right"
      [] OTHER -> "neither"

\* The loop ends; the lines are counted by their verdicts.
Report ==
    /\ \E vm \in [Line -> {"answer", "x"}], bt \in [Line -> {"answer", "x", "StepLimitExceeded"}] :
          counts' = [v \in DOMAIN counts |->
                        IF v = "reported" THEN TRUE
                        ELSE Quantify(Line, LAMBDA k : Verdict(v8[k], vm[k], bt[k]) = v)]
    /\ UNCHANGED <<round, worker, timers>>

\* terminate() is done: the port has been drained.
Terminated ==
    /\ ~counts.reported
    /\ worker.state = "terminating"
    /\ port = <<>>
    /\ IF next <= Lines THEN NewRound(next, timers) ELSE Report
    /\ UNCHANGED <<v8, next, port>>

\* The worker thread dies (out of memory): 'error', after its results.
OnError ==
    /\ worker.state = "running"
    /\ worker.at <= Lines
    /\ port = <<>>
    /\ Mark("V8Error")
    /\ next' = next + 1
    /\ \/ /\ next + 1 <= Lines
          /\ NewRound(next + 1, Disarm(round))
       \/ /\ next + 1 > Lines
          /\ timers' = Disarm(round)
          /\ worker' = [worker EXCEPT !.state = "terminating"]
          /\ UNCHANGED <<round, counts>>
    /\ UNCHANGED port

Next == Run \/ OnMessage \/ OnTimeout \/ Terminated \/ OnError

\* The main thread's event loop; V8 need not answer.
Spec == Init /\ [][Next]_vars /\ WF_vars(OnMessage) /\ WF_vars(OnTimeout) /\ WF_vars(Terminated)

----------------------------------------------------------------------------
\* No line is passed over: before next every line has a result, and so every
\* line has one when they are counted (pfdiff-arbiter.mjs:50-80).
NoneMissing == \A k \in Line : k < next => v8[k] # "none"

\* V8's answer is final: a timeout or an error marked late never hides the
\* answer of a line (pfdiff-arbiter.mjs:57-77).
AnswersStay == [][\A k \in Line : v8[k] = "answer" => v8'[k] = "answer"]_vars

\* The report ends, however many lines never do.
Ends == <>counts.reported

\* Every line is counted once, whatever became of its worker
\* (pfdiff-arbiter.mjs:82-108).
AllCounted ==
    counts.reported =>
        counts.vm_right + counts.bt_right + counts.neither + counts.both + counts.v8_error
            + counts.v8_timeout + counts.steplimit_vm_right + counts.steplimit_vm_wrong = Lines
=============================================================================
