------------------------------ MODULE TestPool ------------------------------
(* The worker pool of the test262 harness (scripts/test262/run.mjs) and the  *)
(* message loop of its worker processes (worker.mjs).  The parent is one     *)
(* thread: each of its event handlers is one action.  A worker process runs  *)
(* one test per message; it can answer, hang, or die at any moment, and the  *)
(* parent kills it when the timer of its test fires.                         *)
(*                                                                           *)
(* A slot's worker object and its process are one record of `w'.  The        *)
(* objects a slot no longer holds are not kept: they are retired, hold no    *)
(* task and no timer, and their exit handler returns at once.                *)
EXTENDS Naturals, FiniteSets

CONSTANTS NTasks,    \* tasks.length
          WORKERS,   \* ZREGEX_TEST_WORKERS
          RECYCLE    \* ZREGEX_TEST_RECYCLE: answers before a worker is replaced

ASSUME PoolAssumption ==
    /\ NTasks \in Nat
    /\ WORKERS \in Nat \ {0}
    /\ RECYCLE \in Nat \ {0}

VARIABLES next,      \* the next task to hand out (tasks are 1..NTasks)
          done,      \* how many tasks have a result
          results,   \* [Task -> Result]
          w,         \* [Slot -> the worker object and its process]
          finished,  \* the flag of maybeFinish
          reports,   \* calls of report()
          aborted    \* an 'error' event nobody listens to ended the parent

vars == <<next, done, results, w, finished, reports, aborted>>

Task  == 1..NTasks
None  == 0
Slot  == 1..(IF WORKERS <= NTasks THEN WORKERS ELSE NTasks)

\* A result: the worker's answer, and the task it is an answer to; or what
\* the parent records for a task whose worker is gone.
NoResult == [status |-> "none", of |-> None]
Answered(t) == [status |-> "answered", of |-> t]
Gone(r)  == [status |-> IF r.timedOut THEN "timeout" ELSE "crash", of |-> r.task]
Result   == [status : {"none", "answered", "timeout", "crash"}, of : Task \cup {None}]

\* The parent's worker object (task, timer, timedOut, ran, retired); the
\* process (proc) and the two directions of its channel (inbox: the test it
\* was sent and has not answered; outbox: an answer the parent has not read).
\*   proc: up, killing (SIGKILL sent), crashed or killed (dead, its exit not
\*   yet seen by the parent), reaped (the exit handler has run).
Worker == [task : Task \cup {None}, timer : BOOLEAN, timedOut : BOOLEAN,
           ran : Nat, retired : BOOLEAN,
           proc : {"up", "killing", "crashed", "killed", "reaped"},
           inbox : Task \cup {None}, outbox : Task \cup {None}]

spawnWorker ==
    [task |-> None, timer |-> FALSE, timedOut |-> FALSE, ran |-> 0,
     retired |-> FALSE, proc |-> "up", inbox |-> None, outbox |-> None]

Dead(r) == r.proc \in {"crashed", "killed"}

----------------------------------------------------------------------------
\* The test is over for the parent: report when every task has a result.
maybeFinish(d) ==
    IF finished \/ d < NTasks
    THEN UNCHANGED <<finished, reports>>
    ELSE finished' = TRUE /\ reports' = reports + 1

\* child.send: a live process gets the test; if the process is already gone
\* the message is lost, or the child object emits 'error', which has no
\* listener and ends the parent.
Send(s, r, t) ==
    \/ /\ ~Dead(r)
       /\ w' = [w EXCEPT ![s] = [r EXCEPT !.inbox = t]]
       /\ UNCHANGED aborted
    \/ /\ Dead(r)
       /\ w' = [w EXCEPT ![s] = r]
       /\ aborted' \in BOOLEAN

\* feed(w), with d tasks done: the next task and its timer, or retirement.
feed(s, r, d) ==
    \/ /\ next > NTasks
       /\ w' = [w EXCEPT ![s] = [r EXCEPT !.retired = TRUE]]
       /\ maybeFinish(d)
       /\ UNCHANGED <<next, aborted>>
    \/ /\ next <= NTasks
       /\ next' = next + 1
       /\ Send(s, [r EXCEPT !.task = next, !.timedOut = FALSE, !.timer = TRUE], next)
       /\ UNCHANGED <<finished, reports>>

\* The loop at the end of the module's body: startSlot for every slot, before
\* any event can be delivered.
Init ==
    /\ next = Cardinality(Slot) + 1
    /\ done = 0
    /\ results = [t \in Task |-> NoResult]
    /\ w = [s \in Slot |-> [spawnWorker EXCEPT !.task = s, !.timer = TRUE, !.inbox = s]]
    /\ finished = FALSE
    /\ reports = IF NTasks = 0 THEN 1 ELSE 0
    /\ aborted = FALSE

----------------------------------------------------------------------------
\* The parent's handlers.

\* 'message': the answer is credited to the task the worker object holds; the
\* worker is replaced after RECYCLE answers (child.kill and a new process in
\* the slot) or fed again.
OnMessage(s) ==
    LET r == [w[s] EXCEPT !.task = None, !.timer = FALSE, !.ran = w[s].ran + 1, !.outbox = None]
    IN /\ ~aborted
       /\ w[s].outbox # None
       /\ results' = [results EXCEPT ![w[s].task] = Answered(w[s].outbox)]
       /\ done' = done + 1
       /\ IF r.ran >= RECYCLE THEN feed(s, spawnWorker, done + 1)
                              ELSE feed(s, r, done + 1)

\* Mutant: the timer records the timeout itself and feeds the worker again.
OnTimeoutGivesUp(s) ==
    /\ ~aborted
    /\ w[s].timer
    /\ results' = [results EXCEPT ![w[s].task] = [status |-> "timeout", of |-> w[s].task]]
    /\ done' = done + 1
    /\ feed(s, [w[s] EXCEPT !.task = None, !.timer = FALSE], done + 1)

\* The timer of the running test: SIGKILL.
OnTimeout(s) ==
    /\ ~aborted
    /\ w[s].timer
    /\ w' = [w EXCEPT ![s] = [w[s] EXCEPT !.timer = FALSE, !.timedOut = TRUE,
                                          !.proc = IF w[s].proc = "up" THEN "killing" ELSE w[s].proc]]
    /\ UNCHANGED <<next, done, results, finished, reports, aborted>>

\* Mutant: a slot whose worker died is not started again.
OnExitNoRestart(s) ==
    LET r == [w[s] EXCEPT !.timer = FALSE, !.proc = "reaped", !.task = None]
        d == IF w[s].task = None THEN done ELSE done + 1
    IN /\ ~aborted
       /\ Dead(w[s])
       /\ w[s].outbox = None
       /\ results' = IF w[s].task = None THEN results
                     ELSE [results EXCEPT ![w[s].task] = Gone(w[s])]
       /\ done' = d
       /\ w' = [w EXCEPT ![s] = r]
       /\ maybeFinish(d)
       /\ UNCHANGED <<next, aborted>>

\* 'exit', delivered after everything the process had written to the channel:
\* nothing for a retired worker; otherwise the task it held is a timeout or a
\* crash, and the slot gets a new worker while tasks are left.
OnExit(s) ==
    LET r == [w[s] EXCEPT !.timer = FALSE, !.proc = "reaped", !.task = None]
        d == IF w[s].task = None THEN done ELSE done + 1
    IN /\ ~aborted
       /\ Dead(w[s])
       /\ w[s].outbox = None
       /\ \/ /\ w[s].retired
             /\ w' = [w EXCEPT ![s] = [w[s] EXCEPT !.timer = FALSE, !.proc = "reaped"]]
             /\ UNCHANGED <<next, done, results, finished, reports, aborted>>
          \/ /\ ~w[s].retired
             /\ results' = IF w[s].task = None THEN results
                           ELSE [results EXCEPT ![w[s].task] = Gone(w[s])]
             /\ done' = d
             /\ \/ /\ next <= NTasks
                   /\ feed(s, spawnWorker, d)
                \/ /\ next > NTasks
                   /\ w' = [w EXCEPT ![s] = r]
                   /\ maybeFinish(d)
                   /\ UNCHANGED <<next, aborted>>

----------------------------------------------------------------------------
\* The worker processes.

\* process.on('message') of the worker: the test runs to its end and the
\* answer is sent.  A process about to be killed may still get there.
Answer(s) ==
    /\ w[s].proc \in {"up", "killing"}
    /\ w[s].inbox # None
    /\ w' = [w EXCEPT ![s] = [w[s] EXCEPT !.inbox = None, !.outbox = w[s].inbox]]
    /\ UNCHANGED <<next, done, results, finished, reports, aborted>>

\* The process dies on its own: a crash inside the library in the middle of a
\* test, an exhausted memory, or the exit of a disconnected worker.
Crash(s) ==
    /\ w[s].proc = "up"
    /\ w' = [w EXCEPT ![s] = [w[s] EXCEPT !.proc = "crashed", !.inbox = None]]
    /\ UNCHANGED <<next, done, results, finished, reports, aborted>>

\* The parent's SIGKILL takes effect.
KillLands(s) ==
    /\ w[s].proc = "killing"
    /\ w' = [w EXCEPT ![s] = [w[s] EXCEPT !.proc = "killed", !.inbox = None]]
    /\ UNCHANGED <<next, done, results, finished, reports, aborted>>

----------------------------------------------------------------------------
Next == \E s \in Slot :
    \/ OnMessage(s)
    \/ OnTimeout(s)
    \/ OnExit(s)
    \/ Answer(s)
    \/ Crash(s)
    \/ KillLands(s)

Spec == Init /\ [][Next]_vars

\* The event loop delivers what is pending, timers fire and signals land.
\* A test need not end and a process need not die.
Fairness == \A s \in Slot :
    /\ WF_vars(OnMessage(s))
    /\ WF_vars(OnTimeout(s))
    /\ WF_vars(OnExit(s))
    /\ WF_vars(KillLands(s))

FairSpec == Spec /\ Fairness

----------------------------------------------------------------------------
\* The variables have the values the code gives them (run.mjs:203-282).
TypeOK ==
    /\ next \in 1..(NTasks + 1)
    /\ done \in 0..NTasks
    /\ results \in [Task -> Result]
    /\ w \in [Slot -> Worker]
    /\ finished \in BOOLEAN
    /\ reports \in {0, 1}
    /\ aborted \in BOOLEAN

\* The pool implements the board: whatever is late, killed, recycled or dead,
\* a task gets one verdict, the verdict is the answer to that task (or its own
\* timeout or crash), it is never rewritten, and report() runs once, in the
\* handler that decides the last task (run.mjs:216-246, 274-279).
Board == INSTANCE TaskBoard WITH
    Tasks      <- Task,
    Undecided  <- NoResult,
    VerdictsOf <- [t \in Task |-> [status : {"answered", "timeout", "crash"}, of : {t}]],
    verdict    <- results,
    reports    <- reports

ImplementsBoard == Board!BoardSpec

\* A test that never ends cannot hold the run: while a worker holds a task,
\* its timer is armed or its process is condemned or dead (run.mjs:265-270).
Watched ==
    \A s \in Slot : w[s].task # None => w[s].timer \/ w[s].proc # "up"

\* No test is lost and none runs twice: a task handed out and not decided is
\* held by exactly one slot, and no slot holds a task that is decided, not
\* yet handed out, or held by another (run.mjs:218-219, 236-243, 263-264).
HeldOnce ==
    /\ \A t \in Task : t < next /\ results[t] = NoResult => \E s \in Slot : w[s].task = t
    /\ \A s \in Slot : w[s].task # None =>
          /\ w[s].task < next
          /\ results[w[s].task] = NoResult
          /\ \A u \in Slot \ {s} : w[u].task # w[s].task

\* A worker is retired only when there is nothing left in it and nothing left
\* to hand out, so ignoring its exit loses nothing (run.mjs:225-228, 235,
\* 258-262).
RetiredIsIdle ==
    \A s \in Slot : w[s].retired =>
        /\ w[s].task = None /\ w[s].inbox = None /\ w[s].outbox = None
        /\ next > NTasks

\* The run ends: tests may hang and workers may die at any moment, and still
\* every task gets a result and the report is written, unless a send to a dead
\* process ended the parent (run.mjs:233-282).
Ends == <>(reports = 1 \/ aborted)

\* "The parent owns timeouts and crash attribution" (worker.mjs:3): a task is
\* recorded as a crash only when its own worker died by itself.
CrashIsItsOwn ==
    [][\A t \in Task :
          results[t] = NoResult /\ results'[t].status = "crash"
             => \E s \in Slot : w[s].task = t /\ w[s].proc = "crashed"]_vars
=============================================================================
