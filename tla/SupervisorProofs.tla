-------------------------- MODULE SupervisorProofs --------------------------
(***************************************************************************)
(* The three programs that give work to processes they may have to kill,   *)
(* for every number of tests, workers, answers per worker, cases, subjects *)
(* and lines.                                                              *)
(*                                                                         *)
(* The pool: its invariants, and that it implements the board.  A worker   *)
(* object is only ever changed by its own events, so each handler is       *)
(* summed up by the one record it leaves in its slot (Fed), and the        *)
(* invariant is proved once per kind of record.                            *)
(*                                                                         *)
(* The arbiter: the results in the port are of consecutive lines, up to    *)
(* the one its worker is at, and the first of them is never past the line  *)
(* waited for.  So a result only ever comes for a line that has none or    *)
(* was given up, and nothing is marked over it.                            *)
(*                                                                         *)
(* The differential parent: the case in flight is the only one between     *)
(* those charged and those to come, and what is in the channel is about it.*)
(***************************************************************************)
EXTENDS MCSupervisors, Sequences, FiniteSetTheorems, TLAPS

-----------------------------------------------------------------------------
(* The pool. *)

(* The tasks that have a result. *)
Decided(res) == {t \in Task : res[t] # NoResult}

(* A worker object by itself: what is in its channel is its own task, on   *)
(* one side of it only; a held task is watched; the only worker without a  *)
(* task is one that is retired or whose exit has been handled.             *)
WorkerInv(r) ==
    /\ r \in Worker
    /\ r.inbox # None => r.inbox = r.task /\ r.outbox = None
    /\ r.outbox # None => r.outbox = r.task
    /\ r.task # None => r.timer \/ r.proc # "up"
    /\ r.timer => r.task # None
    /\ Dead(r) \/ r.proc = "reaped" => r.inbox = None
    /\ r.task = None <=> r.retired \/ r.proc = "reaped"

Counts ==
    /\ done = Cardinality(Decided(results))
    /\ finished <=> NTasks # 0 /\ done = NTasks
    /\ reports = IF NTasks = 0 \/ finished THEN 1 ELSE 0

Ahead == \A t \in Task : t >= next => results[t] = NoResult

IInv ==
    /\ next \in 1..(NTasks + 1)
    /\ done \in Nat
    /\ results \in [Task -> Result]
    /\ \A t \in Task : results[t] # NoResult => results[t].of = t
    /\ aborted \in BOOLEAN /\ finished \in BOOLEAN
    /\ w = [s \in Slot |-> w[s]]
    /\ \A s \in Slot : WorkerInv(w[s])
    /\ \A s \in Slot : w[s].retired => next > NTasks
    /\ Ahead
    /\ HeldOnce
    /\ Counts

-----------------------------------------------------------------------------

(* Tasks and slots are finite sets of positive numbers. *)
LEMMA TaskFacts ==
    /\ NTasks \in Nat /\ IsFiniteSet(Task) /\ Cardinality(Task) = NTasks
    /\ None \notin Task /\ Task \subseteq Nat
<1>1. NTasks \in Nat
  BY PoolAssumption
<1>2. IsFiniteSet(1..NTasks) /\ Cardinality(1..NTasks) = NTasks
  BY <1>1, FS_Interval
<1>3. QED
  BY <1>1, <1>2 DEF Task, None

(* The number of slots never passes the number of tasks. *)
LEMMA SlotFacts ==
    /\ Cardinality(Slot) \in 0..NTasks
    /\ Slot = 1..Cardinality(Slot)
<1> DEFINE k == IF WORKERS <= NTasks THEN WORKERS ELSE NTasks
<1>1. k \in 0..NTasks
  BY PoolAssumption
<1>2. Slot = 1..k
  BY DEF Slot
<1> HIDE DEF k
<1>3. IsFiniteSet(1..k) /\ Cardinality(1..k) = k
  BY <1>1, FS_Interval, TaskFacts
<1>4. QED
  BY <1>1, <1>2, <1>3

(* Deciding an undecided task adds one to the decided ones, and they were  *)
(* not all decided before.                                                 *)
LEMMA OneMore ==
    ASSUME NEW res \in [Task -> Result], NEW t \in Task, res[t] = NoResult,
           NEW v \in Result, v # NoResult
    PROVE  LET new == [res EXCEPT ![t] = v]
           IN /\ Cardinality(Decided(new)) = Cardinality(Decided(res)) + 1
              /\ Cardinality(Decided(res)) < NTasks
              /\ Cardinality(Decided(res)) \in Nat
              /\ (\A u \in Task : new[u] # NoResult) <=> Cardinality(Decided(res)) + 1 = NTasks
<1> DEFINE new == [res EXCEPT ![t] = v]
<1>1. Decided(new) = Decided(res) \cup {t}
  BY DEF Decided
<1>2. Decided(res) \in SUBSET Task /\ Decided(new) \in SUBSET Task /\ t \notin Decided(res)
  BY DEF Decided
<1>3. IsFiniteSet(Decided(res)) /\ Cardinality(Decided(res)) \in Nat
  BY <1>2, TaskFacts, FS_Subset, FS_CardinalityType
<1>4. Cardinality(Decided(new)) = Cardinality(Decided(res)) + 1
  BY <1>1, <1>2, <1>3, FS_AddElement
<1>5. /\ Cardinality(Decided(new)) <= NTasks
      /\ NTasks = Cardinality(Decided(new)) => Task = Decided(new)
  BY <1>2, TaskFacts, FS_Subset
<1>6. (\A u \in Task : new[u] # NoResult) <=> Task = Decided(new)
  BY DEF Decided
<1>7. Task = Decided(new) => Cardinality(Decided(new)) = NTasks
  BY TaskFacts
<1> HIDE DEF new
<1>8. Cardinality(Decided(res)) < NTasks
  BY <1>3, <1>4, <1>5, TaskFacts
<1>9. (\A u \in Task : new[u] # NoResult) <=> Cardinality(Decided(res)) + 1 = NTasks
  BY <1>4, <1>5, <1>6, <1>7
<1>10. QED
  BY <1>3, <1>4, <1>8, <1>9 DEF new

(* What a fed worker is: it holds the next task, watched, or it is retired *)
(* because there is none.                                                  *)
Fed(s, r) ==
    /\ w' = [w EXCEPT ![s] = r]
    /\ WorkerInv(r)
    /\ \/ /\ next <= NTasks /\ next' = next + 1
          /\ r.task = next /\ ~r.retired
       \/ /\ next > NTasks /\ next' = next
          /\ r.task = None

LEMMA FeedFeeds ==
    ASSUME IInv, NEW s \in Slot, NEW r0 \in Worker, NEW d \in Nat,
           r0.task = None, r0.inbox = None, r0.outbox = None, ~r0.timer,
           ~r0.retired, r0.proc # "reaped", feed(s, r0, d)
    PROVE  /\ \E r : Fed(s, r)
           /\ aborted' \in BOOLEAN
           /\ IF next <= NTasks THEN UNCHANGED <<finished, reports>> ELSE maybeFinish(d)
<1> USE TaskFacts
<1>0. next \in 1..(NTasks + 1) /\ aborted \in BOOLEAN
  BY DEF IInv
<1>1. CASE next > NTasks
  <2> DEFINE r == [r0 EXCEPT !.retired = TRUE]
  <2>1. w' = [w EXCEPT ![s] = r] /\ next' = next /\ maybeFinish(d) /\ aborted' = aborted
    BY <1>0, <1>1 DEF feed
  <2>2. r \in Worker /\ r.task = None /\ r.inbox = None /\ r.outbox = None
        /\ ~r.timer /\ r.proc = r0.proc /\ r.retired
    BY DEF Worker
  <2> HIDE DEF r
  <2>3. Fed(s, r)
    BY <1>1, <2>1, <2>2 DEF Fed, WorkerInv
  <2>4. QED
    BY <1>0, <1>1, <2>1, <2>3
<1>2. CASE next <= NTasks
  <2> DEFINE q == [r0 EXCEPT !.task = next, !.timedOut = FALSE, !.timer = TRUE]
             r == [q EXCEPT !.inbox = next]
  <2>1. next' = next + 1 /\ Send(s, q, next) /\ UNCHANGED <<finished, reports>>
    BY <1>0, <1>2 DEF feed
  <2>2. next \in Task
    BY <1>0, <1>2 DEF Task
  <2>3. q \in Worker /\ q.task = next /\ q.timer /\ q.inbox = None
        /\ q.outbox = None /\ ~q.retired /\ q.proc = r0.proc
    BY <2>2 DEF Worker
  <2>4. r \in Worker /\ r.task = next /\ r.timer /\ r.inbox = next
        /\ r.outbox = None /\ ~r.retired /\ r.proc = r0.proc
    BY <2>2 DEF Worker
  <2> HIDE DEF q
  <2>5. (~Dead(q) /\ w' = [w EXCEPT ![s] = r] /\ aborted' = aborted) \/ (w' = [w EXCEPT ![s] = q] /\ aborted' \in BOOLEAN)
    BY <2>1 DEF Send
  <2> HIDE DEF r
  <2>6. WorkerInv(q) /\ (~Dead(q) => WorkerInv(r))
    BY <2>2, <2>3, <2>4 DEF WorkerInv, Dead
  <2>7. /\ ~Dead(q) /\ w' = [w EXCEPT ![s] = r] => Fed(s, r)
        /\ w' = [w EXCEPT ![s] = q] => Fed(s, q)
    BY <1>2, <2>1, <2>3, <2>4, <2>6 DEF Fed
  <2>8. QED
    BY <1>0, <1>2, <2>1, <2>5, <2>7
<1>3. QED
  BY <1>0, <1>1, <1>2

(* A step that only changes what a worker has in its channel, its timer or *)
(* its process: the invariant of the worker is enough.                     *)
LEMMA QuietStep ==
    ASSUME IInv, NEW s \in Slot, NEW r, WorkerInv(r),
           r.task = w[s].task, r.retired = w[s].retired,
           w' = [w EXCEPT ![s] = r],
           UNCHANGED <<next, done, results, finished, reports, aborted>>
    PROVE  IInv'
<1>1. /\ w' = [u \in Slot |-> w'[u]]
      /\ \A u \in Slot : w'[u].task = w[u].task /\ w'[u].retired = w[u].retired
      /\ \A u \in Slot : WorkerInv(w'[u])
  BY DEF IInv
<1>2. HeldOnce'
  <2>1. HeldOnce
    BY DEF IInv
  <2>2. \A u \in Task : u < next' /\ results'[u] = NoResult => \E x \in Slot : w'[x].task = u
    BY <1>1, <2>1 DEF HeldOnce
  <2>3. \A x \in Slot : w'[x].task # None =>
           /\ w'[x].task < next' /\ results'[w'[x].task] = NoResult
           /\ \A u \in Slot \ {x} : w'[u].task # w'[x].task
    BY <1>1, <2>1 DEF HeldOnce
  <2>4. QED
    BY <2>2, <2>3 DEF HeldOnce
<1>3. Counts' /\ Ahead'
  BY DEF IInv, Counts, Ahead, Decided
<1>4. QED
  BY <1>1, <1>2, <1>3 DEF IInv

(* A step that decides the task of a slot and leaves the slot with the     *)
(* next task, or with none when there is none: the invariant holds again,  *)
(* and it is the board's step.                                             *)
LEMMA DecideStep ==
    ASSUME IInv, NEW s \in Slot, NEW r, WorkerInv(r), w[s].task # None,
           NEW v \in Result, v.of = w[s].task, v.status # "none",
           results' = [results EXCEPT ![w[s].task] = v],
           done' = done + 1, aborted' \in BOOLEAN,
           w' = [w EXCEPT ![s] = r],
           \/ /\ next <= NTasks /\ next' = next + 1 /\ UNCHANGED <<finished, reports>>
              /\ r.task = next /\ ~r.retired
           \/ /\ next > NTasks /\ next' = next /\ maybeFinish(done + 1)
              /\ r.task = None
    PROVE  IInv' /\ Board!BoardNext
<1> DEFINE t == w[s].task
<1> USE TaskFacts
<1>1. t \in Task /\ t < next /\ results[t] = NoResult
  BY DEF IInv, WorkerInv, Worker, HeldOnce
<1>2. v # NoResult /\ next \in 1..(NTasks + 1) /\ results \in [Task -> Result]
  BY DEF NoResult, IInv
<1> HIDE DEF t
<1>3. /\ results' \in [Task -> Result] /\ results'[t] = v
      /\ \A u \in Task \ {t} : results'[u] = results[u]
  BY <1>1, <1>2 DEF t
<1>4. /\ Cardinality(Decided(results')) = Cardinality(Decided(results)) + 1
      /\ Cardinality(Decided(results)) < NTasks /\ Cardinality(Decided(results)) \in Nat
      /\ (\A u \in Task : results'[u] # NoResult) <=> Cardinality(Decided(results)) + 1 = NTasks
  <2> DEFINE new == [results EXCEPT ![t] = v]
  <2>1. /\ Cardinality(Decided(new)) = Cardinality(Decided(results)) + 1
        /\ Cardinality(Decided(results)) < NTasks /\ Cardinality(Decided(results)) \in Nat
        /\ (\A u \in Task : new[u] # NoResult) <=> Cardinality(Decided(results)) + 1 = NTasks
    BY <1>1, <1>2, OneMore
  <2>2. results' = new
    BY DEF t
  <2> HIDE DEF new
  <2>3. QED
    BY <2>1, <2>2
<1>5. done = Cardinality(Decided(results)) /\ done < NTasks /\ done \in Nat /\ ~finished /\ reports = 0
  BY <1>4 DEF IInv, Counts
<1>6. next <= NTasks => results'[next] = NoResult
  <2>1. SUFFICES ASSUME next <= NTasks PROVE results'[next] = NoResult
    OBVIOUS
  <2>2. next \in Task /\ next # t /\ results[next] = NoResult
    BY <1>1, <1>2, <2>1 DEF Task, IInv, Ahead
  <2>3. QED
    BY <1>3, <2>2
<1>7. next <= NTasks => done + 1 # NTasks
  BY <1>2, <1>4, <1>5, <1>6 DEF Task
<1>8. /\ finished' <=> done' = NTasks
      /\ reports' = IF finished' THEN 1 ELSE 0
      /\ finished' \in BOOLEAN
  <2>1. NTasks \in Nat /\ done + 1 <= NTasks
    BY <1>5
  <2>2. CASE done + 1 = NTasks
    <3>1. next > NTasks
      BY <1>2, <1>7, <2>2
    <3>2. maybeFinish(done + 1)
      BY <1>2, <3>1
    <3>3. finished' = TRUE /\ reports' = 1
      BY <1>5, <2>1, <2>2, <3>2 DEF maybeFinish
    <3>4. done' = NTasks
      BY <2>2
    <3>5. QED
      BY <3>3, <3>4
  <2>3. CASE done + 1 < NTasks
    <3>1. finished' = FALSE /\ reports' = 0
      BY <1>5, <2>3 DEF maybeFinish, IInv
    <3>2. done' # NTasks
      BY <1>5, <2>3
    <3>3. QED
      BY <3>1, <3>2
  <2>4. done + 1 = NTasks \/ done + 1 < NTasks
    BY <1>5, <2>1
  <2>5. QED
    BY <2>2, <2>3, <2>4
<1>9. Counts'
  BY <1>4, <1>5, <1>8 DEF Counts
<1>10. /\ w' = [u \in Slot |-> w'[u]] /\ w'[s] = r
       /\ \A u \in Slot \ {s} : w'[u] = w[u]
       /\ \A u \in Slot : WorkerInv(w'[u])
  BY DEF IInv
<1>11. Ahead'
  BY <1>1, <1>2, <1>3 DEF IInv, Ahead, Task
<1>12. \A u \in Slot : w'[u].retired => next' > NTasks
  BY <1>2, <1>10 DEF IInv
<1>13. next' \in 1..(NTasks + 1)
  BY <1>2
<1>14. HeldOnce'
  <2>1. ASSUME NEW u \in Task, u < next', results'[u] = NoResult
        PROVE  \E x \in Slot : w'[x].task = u
    <3>1. u # t /\ results[u] = NoResult
      BY <1>3, <1>2, <2>1
    <3>2. CASE u < next
      <4>1. PICK x \in Slot : w[x].task = u
        BY <3>1, <3>2 DEF IInv, HeldOnce
      <4>2. x # s
        BY <3>1, <4>1 DEF t
      <4>3. QED
        BY <1>10, <4>1, <4>2
    <3>3. CASE ~(u < next)
      <4>1. u = next /\ r.task = next
        BY <1>2, <2>1, <3>3
      <4>2. QED
        BY <1>10, <4>1
    <3>4. QED
      BY <3>2, <3>3
  <2>2. ASSUME NEW x \in Slot, w'[x].task # None
        PROVE  /\ w'[x].task < next'
               /\ results'[w'[x].task] = NoResult
               /\ \A u \in Slot \ {x} : w'[u].task # w'[x].task
    <3>1. \A u \in Slot : w[u].task # None => w[u].task \in Task /\ w[u].task < next /\ results[w[u].task] = NoResult
      BY DEF IInv, HeldOnce, WorkerInv, Worker
    <3>2. \A u \in Slot \ {s} : w[u].task # t
      BY <1>1 DEF IInv, HeldOnce, t
    <3>3. CASE x = s
      <4>1. next <= NTasks /\ w'[x].task = next /\ next' = next + 1
        BY <1>10, <2>2, <3>3
      <4>2. \A u \in Slot \ {s} : w'[u].task # next
        BY <1>2, <1>10, <3>1 DEF None
      <4>3. w'[x].task < next' /\ results'[w'[x].task] = NoResult
        BY <1>2, <1>6, <4>1
      <4>4. \A u \in Slot \ {x} : w'[u].task # w'[x].task
        BY <3>3, <4>1, <4>2
      <4>5. QED
        BY <4>3, <4>4
    <3>4. CASE x # s
      <4>1. w'[x].task = w[x].task /\ w[x].task # t /\ w[x].task \in Task /\ w[x].task < next
        BY <1>10, <2>2, <3>1, <3>2, <3>4
      <4>2. results'[w'[x].task] = NoResult
        BY <1>3, <3>1, <3>4, <4>1, <2>2
      <4>3. \A u \in Slot \ {x} : w'[u].task # w'[x].task
        <5>1. r.task # w[x].task
          BY <1>2, <4>1 DEF None
        <5>2. \A u \in Slot \ {x} : w[u].task # w[x].task
          BY <2>2, <4>1 DEF IInv, HeldOnce
        <5>3. QED
          BY <1>10, <4>1, <5>1, <5>2
      <4>4. w'[x].task < next'
        <5>1. next' = next \/ next' = next + 1
          OBVIOUS
        <5>2. w[x].task \in Nat
          BY <4>1
        <5>3. next \in Nat
          BY <1>2
        <5>4. QED
          BY <4>1, <5>1, <5>2, <5>3
      <4>5. QED
        BY <4>2, <4>3, <4>4
    <3>5. QED
      BY <3>3, <3>4
  <2>3. QED
    BY <2>1, <2>2 DEF HeldOnce
<1>15. \A u \in Task : results'[u] # NoResult => results'[u].of = u
  BY <1>3 DEF IInv, t
<1>16. IInv'
  BY <1>3, <1>5, <1>8, <1>9, <1>10, <1>11, <1>12, <1>13, <1>14, <1>15 DEF IInv
<1>17. Board!Decide(t, v)
  <2>1. reports' = IF \A u \in Task : results'[u] # NoResult THEN reports + 1 ELSE reports
    BY <1>4, <1>5, <1>8
  <2>2. QED
    BY <1>1, <2>1 DEF Board!Decide, Board!AllDecided, t
<1>18. v \in [status : {"answered", "timeout", "crash"}, of : {t}]
  BY DEF Result, t
<1>19. QED
  BY <1>1, <1>16, <1>17, <1>18 DEF Board!BoardNext
-----------------------------------------------------------------------------

(* The first tasks are in the first slots, one each. *)
LEMMA InitIInv == Init => IInv /\ Board!BoardInit
<1> SUFFICES ASSUME Init PROVE IInv /\ Board!BoardInit
  OBVIOUS
<1> USE TaskFacts
<1> DEFINE k == Cardinality(Slot)
<1>1. k \in 0..NTasks /\ Slot = 1..k
  BY SlotFacts
<1>2. next = k + 1 /\ done = 0 /\ results = [t \in Task |-> NoResult]
      /\ finished = FALSE /\ aborted = FALSE /\ reports = IF NTasks = 0 THEN 1 ELSE 0
  BY DEF Init
<1> HIDE DEF k
<1>3. w = [s \in Slot |-> w[s]]
  BY DEF Init
<1>4. \A s \in Slot : s \in Task /\ w[s].task = s /\ WorkerInv(w[s]) /\ ~w[s].retired
  <2>1. SUFFICES ASSUME NEW s \in Slot
                 PROVE  s \in Task /\ w[s].task = s /\ WorkerInv(w[s]) /\ ~w[s].retired
    OBVIOUS
  <2>2. s \in Task
    BY <1>1 DEF Task
  <2>3. w[s] = [spawnWorker EXCEPT !.task = s, !.timer = TRUE, !.inbox = s]
    BY DEF Init
  <2>4. w[s] = [task |-> s, timer |-> TRUE, timedOut |-> FALSE, ran |-> 0,
                retired |-> FALSE, proc |-> "up", inbox |-> s, outbox |-> None]
    BY <2>3 DEF spawnWorker
  <2>5. w[s] \in Worker
    BY <2>2, <2>4 DEF Worker
  <2>6. QED
    BY <2>2, <2>4, <2>5 DEF WorkerInv, Dead
<1>5. HeldOnce
  <2>1. \A t \in Task : t < next => t \in Slot
    BY <1>1, <1>2 DEF Task
  <2>2. \A s \in Slot : s < next
    BY <1>1, <1>2
  <2>3. QED
    BY <1>2, <1>4, <2>1, <2>2 DEF HeldOnce
<1>6. Decided(results) = {}
  BY <1>2 DEF Decided
<1>7. Counts
  BY <1>2, <1>6, FS_EmptySet DEF Counts
<1>8. results \in [Task -> Result]
  BY <1>2 DEF Result, NoResult
<1>9. Ahead /\ next \in 1..(NTasks + 1)
  BY <1>1, <1>2 DEF Ahead
<1>10. IInv
  BY <1>2, <1>3, <1>4, <1>5, <1>7, <1>8, <1>9 DEF IInv
<1>11. Task = {} <=> NTasks = 0
  BY DEF Task
<1>12. Board!BoardInit
  BY <1>2, <1>11 DEF Board!BoardInit
<1>13. QED
  BY <1>10, <1>12

(* The answer of a worker decides its own task. *)
LEMMA MessageStep ==
    ASSUME IInv, NEW s \in Slot, OnMessage(s)
    PROVE  IInv' /\ Board!BoardNext
<1> USE TaskFacts
<1> DEFINE r0 == [w[s] EXCEPT !.task = None, !.timer = FALSE, !.ran = w[s].ran + 1, !.outbox = None]
           v == Answered(w[s].outbox)
<1>1. WorkerInv(w[s]) /\ w[s] \in Worker /\ done \in Nat
  BY DEF IInv, WorkerInv
<1>2. w[s].outbox # None /\ w[s].task = w[s].outbox /\ w[s].task # None
      /\ w[s].inbox = None /\ ~w[s].retired /\ w[s].proc # "reaped"
  BY <1>1 DEF OnMessage, WorkerInv
<1>3. results' = [results EXCEPT ![w[s].task] = v] /\ done' = done + 1
  BY DEF OnMessage
<1>4. v \in Result /\ v.of = w[s].task /\ v.status # "none"
  BY <1>1, <1>2 DEF Answered, Result, Worker
<1>a. w[s].ran + 1 \in Nat
  BY <1>1 DEF Worker
<1>5. r0 \in Worker /\ r0.task = None /\ r0.inbox = None /\ r0.outbox = None
      /\ ~r0.timer /\ ~r0.retired /\ r0.proc # "reaped"
  BY <1>1, <1>2, <1>a DEF Worker
<1>6. spawnWorker \in Worker /\ spawnWorker.task = None /\ spawnWorker.inbox = None
      /\ spawnWorker.outbox = None /\ ~spawnWorker.timer /\ ~spawnWorker.retired
      /\ spawnWorker.proc # "reaped"
  BY DEF Worker, spawnWorker
<1>7. feed(s, r0, done + 1) \/ feed(s, spawnWorker, done + 1)
  BY DEF OnMessage
<1>8. done + 1 \in Nat
  BY <1>1
<1> HIDE DEF r0, v
<1>9. /\ \E r : Fed(s, r)
      /\ aborted' \in BOOLEAN
      /\ IF next <= NTasks THEN UNCHANGED <<finished, reports>> ELSE maybeFinish(done + 1)
  <2>1. CASE feed(s, r0, done + 1)
    BY <1>5, <1>8, <2>1, FeedFeeds
  <2>2. CASE feed(s, spawnWorker, done + 1)
    BY <1>6, <1>8, <2>2, FeedFeeds
  <2>3. QED
    BY <1>7, <2>1, <2>2
<1>10. PICK r : Fed(s, r)
  BY <1>9
<1>11. next \in 1..(NTasks + 1)
  BY DEF IInv
<1>12. WorkerInv(r) /\ w' = [w EXCEPT ![s] = r]
      /\ \/ /\ next <= NTasks /\ next' = next + 1 /\ UNCHANGED <<finished, reports>>
            /\ r.task = next /\ ~r.retired
         \/ /\ next > NTasks /\ next' = next /\ maybeFinish(done + 1)
            /\ r.task = None
  <2>1. WorkerInv(r) /\ w' = [w EXCEPT ![s] = r]
    BY <1>10 DEF Fed
  <2>2. CASE next <= NTasks
    <3>1. next' = next + 1 /\ r.task = next /\ ~r.retired
      BY <1>10, <1>11, <2>2 DEF Fed
    <3>2. QED
      BY <1>9, <2>1, <2>2, <3>1
  <2>3. CASE next > NTasks
    <3>1. next' = next /\ r.task = None
      BY <1>10, <1>11, <2>3 DEF Fed
    <3>2. maybeFinish(done + 1)
      BY <1>9, <1>11, <2>3
    <3>3. QED
      BY <2>1, <2>3, <3>1, <3>2
  <2>4. QED
    BY <1>11, <2>2, <2>3
<1>13. QED
  BY <1>2, <1>3, <1>4, <1>9, <1>12, DecideStep

(* A worker that dies decides the task it held, unless it was retired. *)
LEMMA ExitStep ==
    ASSUME IInv, NEW s \in Slot, OnExit(s)
    PROVE  IInv' /\ (Board!BoardNext \/ UNCHANGED <<results, reports>>)
<1> USE TaskFacts
<1>1. WorkerInv(w[s]) /\ w[s] \in Worker /\ done \in Nat /\ aborted \in BOOLEAN
      /\ next \in 1..(NTasks + 1)
  BY DEF IInv, WorkerInv
<1>2. CASE w[s].retired
  <2> DEFINE r == [w[s] EXCEPT !.timer = FALSE, !.proc = "reaped"]
  <2>1. w' = [w EXCEPT ![s] = r] /\ UNCHANGED <<next, done, results, finished, reports, aborted>>
    BY <1>2 DEF OnExit
  <2>2. r \in Worker /\ r.task = w[s].task /\ r.retired = w[s].retired /\ r.inbox = w[s].inbox
        /\ r.outbox = w[s].outbox /\ r.proc = "reaped" /\ ~r.timer
    BY <1>1 DEF Worker
  <2> HIDE DEF r
  <2>3. WorkerInv(r)
    BY <1>1, <1>2, <2>2 DEF WorkerInv, OnExit
  <2>4. QED
    BY <2>1, <2>2, <2>3, QuietStep
<1>3. CASE ~w[s].retired
  <2> DEFINE v == Gone(w[s])
             e == [w[s] EXCEPT !.timer = FALSE, !.proc = "reaped", !.task = None]
  <2>1. w[s].task # None /\ w[s].outbox = None /\ w[s].proc \in {"crashed", "killed"}
    BY <1>1, <1>3 DEF OnExit, WorkerInv, Dead
  <2>a. w[s].inbox = None
    BY <1>1, <2>1 DEF WorkerInv, Dead
  <2>2. results' = [results EXCEPT ![w[s].task] = v] /\ done' = done + 1
    BY <1>3, <2>1 DEF OnExit
  <2>3. v \in Result /\ v.of = w[s].task /\ v.status # "none"
    BY <1>1 DEF Gone, Result, Worker
  <2>4. \/ next <= NTasks /\ feed(s, spawnWorker, done + 1)
        \/ /\ next > NTasks /\ w' = [w EXCEPT ![s] = e]
           /\ maybeFinish(done + 1) /\ next' = next /\ aborted' = aborted
    BY <1>3, <2>1 DEF OnExit
  <2>5. CASE next <= NTasks /\ feed(s, spawnWorker, done + 1)
    <3>1. spawnWorker \in Worker /\ spawnWorker.task = None /\ spawnWorker.inbox = None
          /\ spawnWorker.outbox = None /\ ~spawnWorker.timer /\ ~spawnWorker.retired
          /\ spawnWorker.proc # "reaped"
      BY DEF Worker, spawnWorker
    <3>2. done + 1 \in Nat
      BY <1>1
    <3>3. /\ \E r : Fed(s, r)
          /\ aborted' \in BOOLEAN
          /\ UNCHANGED <<finished, reports>>
      BY <2>5, <3>1, <3>2, FeedFeeds
    <3>4. PICK r : Fed(s, r)
      BY <3>3
    <3>5. WorkerInv(r) /\ w' = [w EXCEPT ![s] = r] /\ next' = next + 1
          /\ r.task = next /\ ~r.retired
      BY <1>1, <2>5, <3>4 DEF Fed
    <3> HIDE DEF v
    <3>6. QED
      BY <2>1, <2>2, <2>3, <2>5, <3>3, <3>5, DecideStep
  <2>6. CASE /\ next > NTasks /\ w' = [w EXCEPT ![s] = e]
             /\ maybeFinish(done + 1) /\ next' = next /\ aborted' = aborted
    <3>1. e \in Worker /\ e.task = None /\ e.proc = "reaped" /\ ~e.timer
          /\ e.inbox = w[s].inbox /\ e.outbox = None /\ e.retired = w[s].retired
      BY <1>1, <2>1 DEF Worker
    <3> HIDE DEF e, v
    <3>3. WorkerInv(e)
      BY <3>1, <2>a DEF WorkerInv
    <3>4. QED
      BY <1>1, <2>1, <2>2, <2>3, <2>6, <3>1, <3>3, DecideStep
  <2>7. QED
    BY <2>4, <2>5, <2>6
<1>4. QED
  BY <1>2, <1>3

(* Answers, timers, deaths and kills leave the results alone.              *)
LEMMA OtherSteps ==
    ASSUME IInv, NEW s \in Slot, OnTimeout(s) \/ Answer(s) \/ Crash(s) \/ KillLands(s)
    PROVE  IInv' /\ UNCHANGED <<results, reports>>
<1> USE TaskFacts
<1>1. WorkerInv(w[s]) /\ w[s] \in Worker
  BY DEF IInv, WorkerInv
<1>2. CASE OnTimeout(s)
  <2> DEFINE r == [w[s] EXCEPT !.timer = FALSE, !.timedOut = TRUE,
                               !.proc = IF w[s].proc = "up" THEN "killing" ELSE w[s].proc]
  <2>1. w' = [w EXCEPT ![s] = r] /\ UNCHANGED <<next, done, results, finished, reports, aborted>>
    BY <1>2 DEF OnTimeout
  <2>2. r \in Worker /\ r.task = w[s].task /\ r.retired = w[s].retired /\ r.inbox = w[s].inbox
        /\ r.outbox = w[s].outbox /\ ~r.timer
        /\ r.proc = IF w[s].proc = "up" THEN "killing" ELSE w[s].proc
    BY <1>1 DEF Worker
  <2> HIDE DEF r
  <2>3. WorkerInv(r)
    BY <1>1, <2>2 DEF WorkerInv, Dead
  <2>4. QED
    BY <2>1, <2>2, <2>3, QuietStep
<1>3. CASE Answer(s)
  <2> DEFINE r == [w[s] EXCEPT !.inbox = None, !.outbox = w[s].inbox]
  <2>1. w' = [w EXCEPT ![s] = r] /\ UNCHANGED <<next, done, results, finished, reports, aborted>>
        /\ w[s].proc \in {"up", "killing"} /\ w[s].inbox # None
    BY <1>3 DEF Answer
  <2>2. r \in Worker /\ r.task = w[s].task /\ r.retired = w[s].retired /\ r.inbox = None
        /\ r.outbox = w[s].inbox /\ r.timer = w[s].timer /\ r.proc = w[s].proc
    BY <1>1 DEF Worker
  <2> HIDE DEF r
  <2>3. WorkerInv(r)
    BY <1>1, <2>1, <2>2 DEF WorkerInv, Dead
  <2>4. QED
    BY <2>1, <2>2, <2>3, QuietStep
<1>4. CASE Crash(s)
  <2> DEFINE r == [w[s] EXCEPT !.proc = "crashed", !.inbox = None]
  <2>1. w' = [w EXCEPT ![s] = r] /\ UNCHANGED <<next, done, results, finished, reports, aborted>>
        /\ w[s].proc = "up"
    BY <1>4 DEF Crash
  <2>2. r \in Worker /\ r.task = w[s].task /\ r.retired = w[s].retired /\ r.inbox = None
        /\ r.outbox = w[s].outbox /\ r.timer = w[s].timer /\ r.proc = "crashed"
    BY <1>1 DEF Worker
  <2> HIDE DEF r
  <2>3. WorkerInv(r)
    BY <1>1, <2>1, <2>2 DEF WorkerInv, Dead
  <2>4. QED
    BY <2>1, <2>2, <2>3, QuietStep
<1>5. CASE KillLands(s)
  <2> DEFINE r == [w[s] EXCEPT !.proc = "killed", !.inbox = None]
  <2>1. w' = [w EXCEPT ![s] = r] /\ UNCHANGED <<next, done, results, finished, reports, aborted>>
        /\ w[s].proc = "killing"
    BY <1>5 DEF KillLands
  <2>2. r \in Worker /\ r.task = w[s].task /\ r.retired = w[s].retired /\ r.inbox = None
        /\ r.outbox = w[s].outbox /\ r.timer = w[s].timer /\ r.proc = "killed"
    BY <1>1 DEF Worker
  <2> HIDE DEF r
  <2>3. WorkerInv(r)
    BY <1>1, <2>1, <2>2 DEF WorkerInv, Dead
  <2>4. QED
    BY <2>1, <2>2, <2>3, QuietStep
<1>6. QED
  BY <1>2, <1>3, <1>4, <1>5

(* The invariant is inductive, and every step is the board's or a stutter. *)
LEMMA Induction ==
    ASSUME IInv, [Next]_vars
    PROVE  IInv' /\ [Board!BoardNext]_(Board!boardVars)
<1>1. CASE Next
  <2>1. PICK s \in Slot : OnMessage(s) \/ OnTimeout(s) \/ OnExit(s) \/ Answer(s) \/ Crash(s) \/ KillLands(s)
    BY <1>1 DEF Next
  <2>2. CASE OnMessage(s)
    BY <2>2, MessageStep
  <2>3. CASE OnExit(s)
    BY <2>3, ExitStep DEF Board!boardVars
  <2>4. CASE OnTimeout(s) \/ Answer(s) \/ Crash(s) \/ KillLands(s)
    BY <2>4, OtherSteps DEF Board!boardVars
  <2>5. QED
    BY <2>1, <2>2, <2>3, <2>4
<1>2. CASE UNCHANGED vars
  <2>1. HeldOnce'
    BY <1>2 DEF IInv, HeldOnce, vars
  <2>2. Counts' /\ Ahead'
    BY <1>2 DEF IInv, Counts, Ahead, Decided, vars
  <2>3. (\A s \in Slot : WorkerInv(w[s]))'
    BY <1>2 DEF IInv, vars
  <2>4. IInv'
    BY <1>2, <2>1, <2>2, <2>3 DEF IInv, vars
  <2>5. QED
    BY <1>2, <2>4 DEF vars, Board!boardVars
<1>3. QED
  BY <1>1, <1>2

(* What the invariant says of each property of the runs.                   *)
LEMMA Consequences == IInv => TypeOK /\ Watched /\ HeldOnce /\ RetiredIsIdle
<1> SUFFICES ASSUME IInv PROVE TypeOK /\ Watched /\ HeldOnce /\ RetiredIsIdle
  OBVIOUS
<1> USE TaskFacts
<1>1. Decided(results) \in SUBSET Task
  BY DEF Decided
<1>2. Cardinality(Decided(results)) \in 0..NTasks
  <2>1. IsFiniteSet(Decided(results)) /\ Cardinality(Decided(results)) <= NTasks
    BY <1>1, FS_Subset
  <2>2. QED
    BY <2>1, FS_CardinalityType
<1>3. reports \in {0, 1} /\ done \in 0..NTasks
  BY <1>2 DEF IInv, Counts
<1>4. w \in [Slot -> Worker]
  BY DEF IInv, WorkerInv
<1>5. TypeOK
  BY <1>3, <1>4 DEF TypeOK, IInv
<1>6. Watched /\ RetiredIsIdle
  BY DEF IInv, WorkerInv, Watched, RetiredIsIdle
<1>7. QED
  BY <1>5, <1>6 DEF IInv

(* The inductive invariant holds in every reachable state.                 *)
LEMMA Inductive == Spec => []IInv
<1>1. Init => IInv
  BY InitIInv
<1>2. IInv /\ [Next]_vars => IInv'
  BY Induction
<1>3. QED
  BY <1>1, <1>2, PTL DEF Spec

-----------------------------------------------------------------------------

(* The pool's variables keep their types; done never passes the number of  *)
(* tasks and report() runs at most once (run.mjs:203-282).                 *)
THEOREM PoolTypeOK == Spec => []TypeOK
  BY Inductive, Consequences, PTL

(* A test that never ends is always watched by a timer or its worker is    *)
(* condemned (run.mjs:265-270).                                            *)
THEOREM PoolWatched == Spec => []Watched
  BY Inductive, Consequences, PTL

(* No task is lost, run twice or handed to two workers (run.mjs:216-264).  *)
THEOREM PoolHeldOnce == Spec => []HeldOnce
  BY Inductive, Consequences, PTL

(* Ignoring the exit of a retired worker loses nothing (run.mjs:235).      *)
THEOREM PoolRetiredIsIdle == Spec => []RetiredIsIdle
  BY Inductive, Consequences, PTL

(* The pool implements the board: one verdict per task, about that task,   *)
(* final, and one report, with the last of them (run.mjs:216-279).         *)
THEOREM PoolImplementsBoard == Spec => ImplementsBoard
<1>1. Init => Board!BoardInit
  BY InitIInv
<1>2. IInv /\ [Next]_vars => [Board!BoardNext]_(Board!boardVars)
  BY Induction
<1>3. QED
  BY <1>1, <1>2, Inductive, PTL DEF Spec, ImplementsBoard, Board!BoardSpec

-----------------------------------------------------------------------------
(* Counting. *)

USE SupervisorsAssumption

(* The instances count as this module does. *)
LEMMA SameCount ==
    /\ \A S : D!Cardinality(S) = Cardinality(S)
    /\ \A S : A!Cardinality(S) = Cardinality(S)
<1>1. \A S : D!Cardinality(S) = Cardinality(S)
  BY Zenon DEF D!Cardinality, Cardinality
<1>2. \A S : A!Cardinality(S) = Cardinality(S)
  BY Zenon DEF A!Cardinality, Cardinality
<1>3. QED
  BY <1>1, <1>2

(* The members of S that f gives a value of X, and those it gives the      *)
(* value v.                                                                *)
OfKinds(S, f, X) == {k \in S : f[k] \in X}
Number(S, f, v)  == Cardinality({k \in S : f[k] = v})

(* One value more, the number of those more.                               *)
LEMMA CountOneMore ==
    ASSUME NEW S, IsFiniteSet(S), NEW f, NEW X, NEW v, v \notin X
    PROVE  /\ Cardinality(OfKinds(S, f, X \cup {v}))
                 = Cardinality(OfKinds(S, f, X)) + Number(S, f, v)
           /\ Cardinality(OfKinds(S, f, X)) \in Nat /\ Number(S, f, v) \in Nat
<1> DEFINE U == OfKinds(S, f, X)
           V == {k \in S : f[k] = v}
<1>1. U \in SUBSET S /\ V \in SUBSET S /\ U \cap V = {}
      /\ OfKinds(S, f, X \cup {v}) = U \cup V
  BY DEF OfKinds
<1> HIDE DEF U, V
<1>2. IsFiniteSet(U) /\ IsFiniteSet(V)
  BY <1>1, FS_Subset
<1>3. Cardinality(U) \in Nat /\ Cardinality(V) \in Nat
  BY <1>2, FS_CardinalityType
<1>4. Cardinality(U \cup V) = Cardinality(U) + Cardinality(V) - Cardinality(U \cap V)
  BY <1>2, FS_Union
<1>5. Cardinality(U \cup V) = Cardinality(U) + Cardinality(V)
  <2>1. Cardinality(U \cap V) = 0
    BY <1>1, FS_EmptySet, Zenon
  <2>2. QED
    BY <1>3, <1>4, <2>1
<1>6. QED
  BY <1>1, <1>3, <1>5 DEF Number, U, V

LEMMA CountNone ==
    ASSUME NEW S, NEW f
    PROVE  Cardinality(OfKinds(S, f, {})) = 0
<1>1. OfKinds(S, f, {}) = {}
  BY DEF OfKinds
<1>2. QED
  BY <1>1, FS_EmptySet

(* A value that is set for the first time is counted once more, the others *)
(* as before.                                                              *)
LEMMA CountSet ==
    ASSUME NEW S, IsFiniteSet(S), NEW k \in S, NEW v, NEW f, f[k] # v,
           NEW g, g[k] = v, \A x \in S : x # k => g[x] = f[x]
    PROVE  Number(S, g, v) = Number(S, f, v) + 1
<1> DEFINE V == {x \in S : f[x] = v}
<1>1. {x \in S : g[x] = v} = V \cup {k} /\ k \notin V /\ V \in SUBSET S
  OBVIOUS
<1> HIDE DEF V
<1>2. IsFiniteSet(V)
  BY <1>1, FS_Subset
<1>3. Cardinality(V \cup {k}) = Cardinality(V) + 1
  BY <1>1, <1>2, FS_AddElement
<1>4. QED
  BY <1>1, <1>3 DEF Number, V

LEMMA CountOther ==
    ASSUME NEW S, NEW k \in S, NEW f, NEW g, \A x \in S : x # k => g[x] = f[x],
           NEW u, f[k] # u, g[k] # u
    PROVE  Number(S, g, u) = Number(S, f, u)
<1>1. {x \in S : g[x] = u} = {x \in S : f[x] = u}
  OBVIOUS
<1>2. QED
  BY <1>1 DEF Number

-----------------------------------------------------------------------------
(* The arbiter. *)

(* The first line whose result has not come in this round. *)
Due == worker.at - Len(port)

ArbiterInv ==
    /\ line \in Nat \ {0}
    /\ worker = [at |-> worker.at, state |-> worker.state]
    /\ worker.at \in 1..(Lines + 1)
    /\ port \in Seq(A!Line)
    /\ \A j \in 1..Len(port) : port[j] = Due + j - 1
    /\ Due \in 1..line
    /\ v8 = [k \in A!Line |-> v8[k]]
    /\ \A k \in A!Line : k < line => v8[k] # "none"
    /\ \A k \in A!Line : v8[k] = "answer" => k < Due

(* The arbiter starts with its first line (pfdiff-arbiter.mjs:50). *)
LEMMA ArbiterStarts == A!Init => ArbiterInv
BY DEF A!Init, A!Starting, A!Line, ArbiterInv, Due

(* The worker posts the result of the line it is at                        *)
(* (pfdiff-arbiter.mjs:44).                                                *)
LEMMA ArbiterRunKeeps ==
    ASSUME ArbiterInv, A!Run
    PROVE  ArbiterInv'
<1>1. /\ worker.at <= Lines /\ port' = Append(port, worker.at)
      /\ worker' = [worker EXCEPT !.at = worker.at + 1]
      /\ v8' = v8 /\ line' = line
  BY DEF A!Run
<1>2. worker.at \in A!Line /\ worker.at \in Nat
  BY <1>1 DEF ArbiterInv, A!Line
<1>3. /\ port' \in Seq(A!Line) /\ Len(port') = Len(port) + 1 /\ Len(port) \in Nat
      /\ \A j \in 1..Len(port) : port'[j] = port[j]
      /\ port'[Len(port) + 1] = worker.at
  BY <1>1, <1>2 DEF ArbiterInv
<1>4. /\ worker'.at = worker.at + 1
      /\ worker' = [at |-> worker'.at, state |-> worker'.state]
  BY <1>1 DEF ArbiterInv
<1>5. Due' = Due
  BY <1>2, <1>3, <1>4 DEF Due
<1>6. \A j \in 1..Len(port') : port'[j] = Due' + j - 1
  <2> SUFFICES ASSUME NEW j \in 1..Len(port')
               PROVE  port'[j] = Due + j - 1
    BY <1>5
  <2>1. CASE j \in 1..Len(port)
    BY <1>3, <2>1 DEF ArbiterInv
  <2>2. CASE j = Len(port) + 1
    BY <1>2, <1>3, <2>2 DEF Due
  <2>3. QED
    BY <1>3, <2>1, <2>2
<1>7. worker'.at \in 1..(Lines + 1)
  BY <1>1, <1>2, <1>4
<1>8. QED
  BY <1>1, <1>3, <1>4, <1>5, <1>6, <1>7 DEF ArbiterInv

(* The first result of the port, and what is left in it. *)
LEMMA FirstResult ==
    ASSUME ArbiterInv, port # <<>>
    PROVE  /\ Head(port) = Due /\ Due \in A!Line /\ Due \in Nat /\ Due <= line
           /\ Tail(port) \in Seq(A!Line) /\ Len(Tail(port)) = Len(port) - 1
           /\ \A j \in 1..Len(Tail(port)) : Tail(port)[j] = (Due + 1) + j - 1
<1>1. port \in Seq(A!Line) /\ Len(port) \in Nat \ {0}
  BY DEF ArbiterInv
<1>2. /\ Head(port) = port[1] /\ Tail(port) \in Seq(A!Line) /\ Len(Tail(port)) = Len(port) - 1
      /\ \A j \in 1..(Len(port) - 1) : Tail(port)[j] = port[j + 1]
      /\ port[1] \in A!Line
  BY <1>1
<1>3. Due \in 1..line /\ line \in Nat /\ \A j \in 1..Len(port) : port[j] = Due + j - 1
  BY DEF ArbiterInv
<1>4. port[1] = Due
  BY <1>1, <1>3
<1>5. ASSUME NEW j \in 1..Len(Tail(port))
      PROVE  Tail(port)[j] = (Due + 1) + j - 1
  <2>1. j + 1 \in 1..Len(port) /\ j \in 1..(Len(port) - 1)
    BY <1>1, <1>2
  <2>2. port[j + 1] = Due + (j + 1) - 1
    BY <1>3, <2>1
  <2>3. QED
    BY <1>2, <1>3, <2>1, <2>2
<1>6. QED
  BY <1>2, <1>3, <1>4, <1>5

(* A result is stored, and the line after it is the one waited for         *)
(* (pfdiff-arbiter.mjs:57).                                                *)
LEMMA ArbiterMessageKeeps ==
    ASSUME ArbiterInv, A!OnMessage
    PROVE  ArbiterInv'
<1>1. /\ port # <<>> /\ port' = Tail(port) /\ v8' = [v8 EXCEPT ![Head(port)] = "answer"]
      /\ line' = Head(port) + 1
      /\ worker' = [worker EXCEPT !.state = "terminating"] \/ worker' = worker
  BY DEF A!OnMessage
<1>2. /\ Head(port) = Due /\ Due \in A!Line /\ Due \in Nat /\ Due <= line
      /\ Tail(port) \in Seq(A!Line) /\ Len(Tail(port)) = Len(port) - 1
      /\ \A j \in 1..Len(Tail(port)) : Tail(port)[j] = (Due + 1) + j - 1
  BY <1>1, FirstResult
<1>3. worker'.at = worker.at /\ worker' = [at |-> worker'.at, state |-> worker'.state]
  BY <1>1 DEF ArbiterInv
<1>4. worker.at \in 1..(Lines + 1) /\ Len(port) \in Nat /\ Due \in 1..line /\ line \in Nat
  BY DEF ArbiterInv
<1>5. Due' = Due + 1
  BY <1>1, <1>2, <1>3, <1>4 DEF Due
<1>6. v8' = [k \in A!Line |-> v8'[k]] /\ v8'[Due] = "answer"
      /\ \A k \in A!Line : k # Due => v8'[k] = v8[k]
  BY <1>1, <1>2 DEF ArbiterInv
<1>7. \A k \in A!Line : k < Due + 1 => v8'[k] # "none"
  <2>1. \A k \in A!Line : k < Due => v8[k] # "none"
    BY <1>4 DEF ArbiterInv, A!Line
  <2>2. \A k \in A!Line : k < Due + 1 => k < Due \/ k = Due
    BY <1>4 DEF A!Line
  <2>3. QED
    BY <1>6, <2>1, <2>2
<1>8. \A k \in A!Line : v8'[k] = "answer" => k < Due + 1
  <2>1. \A k \in A!Line : k < Due \/ k = Due => k < Due + 1
    BY <1>4 DEF A!Line
  <2>2. QED
    BY <1>6, <2>1 DEF ArbiterInv
<1> HIDE DEF Due
<1>9. Due' \in 1..line' /\ line' \in Nat \ {0}
  BY <1>1, <1>2, <1>4, <1>5
<1>10. \A j \in 1..Len(port') : port'[j] = Due' + j - 1
  BY <1>1, <1>2, <1>5
<1>11. QED
  BY <1>1, <1>2, <1>3, <1>4, <1>5, <1>6, <1>7, <1>8, <1>9, <1>10 DEF ArbiterInv

(* Marking the line waited for.                                            *)
LEMMA MarkIs ==
    ASSUME ArbiterInv, NEW r, r \notin {"none", "answer"}, A!Mark(r)
    PROVE  /\ v8' = [k \in A!Line |-> v8'[k]]
           /\ \A k \in A!Line : v8[k] = "answer" => v8'[k] = "answer"
           /\ \A k \in A!Line : v8'[k] = "answer" => k < Due
           /\ \A k \in A!Line : k < line + 1 => v8'[k] # "none"
<1>1. v8' = [k \in A!Line |-> IF k = line THEN r ELSE v8[k]]
  BY DEF A!Mark
<1>2. \A k \in A!Line : k < line + 1 => k < line \/ k = line
  BY DEF A!Line, ArbiterInv
<1>3. \A k \in A!Line : v8[k] = "answer" => k # line
  BY DEF ArbiterInv, A!Line
<1>4. QED
  BY <1>1, <1>2, <1>3 DEF ArbiterInv

(* A timer gives up the line waited for (pfdiff-arbiter.mjs:70).           *)
LEMMA ArbiterTimeoutKeeps ==
    ASSUME ArbiterInv, A!OnTimeout
    PROVE  ArbiterInv'
<1>1. /\ A!Mark("V8Timeout") /\ line' = line + 1 /\ port' = port
      /\ worker' = [worker EXCEPT !.state = "terminating"] \/ worker' = worker
  BY DEF A!OnTimeout
<1>2. worker'.at = worker.at /\ worker' = [at |-> worker'.at, state |-> worker'.state]
  BY <1>1 DEF ArbiterInv
<1>3. Due' = Due
  BY <1>1, <1>2 DEF Due
<1>4. Due \in 1..line' /\ line' \in Nat \ {0}
  BY <1>1 DEF ArbiterInv
<1> HIDE DEF Due
<1>5. QED
  BY <1>1, <1>2, <1>3, <1>4, MarkIs DEF ArbiterInv

(* A new worker starts at a line of its own, with an empty port            *)
(* (pfdiff-arbiter.mjs:51).                                                *)
LEMMA RoundStarts ==
    ASSUME ArbiterInv, NEW n \in Nat, NEW armed, A!NewRound(n, armed),
           n <= Lines, Due <= n, port = <<>>, port' = port, line' = n,
           v8' = [k \in A!Line |-> v8'[k]],
           \A k \in A!Line : v8'[k] = "answer" => k < Due,
           \A k \in A!Line : k < n => v8'[k] # "none"
    PROVE  ArbiterInv'
<1>1. worker' = [at |-> n, state |-> "running"]
  BY DEF A!NewRound, A!Starting
<1>2. Due' = n /\ Due \in Nat /\ n > 0
  BY <1>1 DEF Due, ArbiterInv
<1>3. \A k \in A!Line : k < Due => k < n
  BY <1>2 DEF A!Line
<1> HIDE DEF Due
<1>4. QED
  BY <1>1, <1>2, <1>3 DEF ArbiterInv

(* The loop goes on with the line that is left, or is over                 *)
(* (pfdiff-arbiter.mjs:79).                                                *)
LEMMA ArbiterTerminatedKeeps ==
    ASSUME ArbiterInv, A!Terminated
    PROVE  ArbiterInv'
<1>1. port = <<>> /\ v8' = v8 /\ line' = line /\ port' = port
  BY DEF A!Terminated
<1>2. CASE line <= Lines /\ A!NewRound(line, timers)
  BY <1>1, <1>2, RoundStarts DEF ArbiterInv
<1>3. CASE A!Report
  BY <1>1, <1>3 DEF A!Report, ArbiterInv, Due
<1>4. QED
  BY <1>2, <1>3 DEF A!Terminated

(* A worker that dies costs the line waited for (pfdiff-arbiter.mjs:73).   *)
LEMMA ArbiterErrorKeeps ==
    ASSUME ArbiterInv, A!OnError
    PROVE  ArbiterInv'
<1>1. port = <<>> /\ A!Mark("V8Error") /\ line' = line + 1 /\ port' = port
  BY DEF A!OnError
<1>2. /\ v8' = [k \in A!Line |-> v8'[k]]
      /\ \A k \in A!Line : v8'[k] = "answer" => k < Due
      /\ \A k \in A!Line : k < line + 1 => v8'[k] # "none"
  BY <1>1, MarkIs
<1>3. line + 1 \in Nat \ {0} /\ Due \in 1..(line + 1) /\ Due <= line + 1
  BY DEF ArbiterInv
<1>4. CASE line + 1 <= Lines /\ A!NewRound(line + 1, A!Disarm(round))
  BY <1>1, <1>2, <1>3, <1>4, RoundStarts
<1>5. CASE worker' = [worker EXCEPT !.state = "terminating"]
  <2>1. worker'.at = worker.at /\ worker' = [at |-> worker'.at, state |-> worker'.state]
    BY <1>5 DEF ArbiterInv
  <2>2. Due' = Due
    BY <1>1, <2>1 DEF Due
  <2> HIDE DEF Due
  <2>3. QED
    BY <1>1, <1>2, <1>3, <2>1, <2>2 DEF ArbiterInv
<1>6. QED
  BY <1>4, <1>5 DEF A!OnError

LEMMA ArbiterStep == ArbiterInv /\ [A!Next]_(A!vars) => ArbiterInv'
<1>1. CASE UNCHANGED A!vars
  BY <1>1 DEF A!vars, ArbiterInv, Due
<1>2. QED
  BY <1>1, ArbiterRunKeeps, ArbiterMessageKeeps, ArbiterTimeoutKeeps, ArbiterTerminatedKeeps,
     ArbiterErrorKeeps DEF A!Next

(* An answer that is there is not marked over: the line waited for has     *)
(* none (pfdiff-arbiter.mjs:57-77).                                        *)
LEMMA ArbiterStepAnswers ==
    ArbiterInv /\ [A!Next]_(A!vars) => \A k \in A!Line : v8[k] = "answer" => v8'[k] = "answer"
<1> SUFFICES ASSUME ArbiterInv, [A!Next]_(A!vars), NEW k \in A!Line, v8[k] = "answer"
             PROVE  v8'[k] = "answer"
  OBVIOUS
<1>1. CASE A!OnMessage
  BY <1>1 DEF A!OnMessage, ArbiterInv
<1>2. CASE A!OnTimeout
  BY <1>2, MarkIs DEF A!OnTimeout
<1>3. CASE A!OnError
  BY <1>3, MarkIs DEF A!OnError
<1>4. CASE A!Run \/ A!Terminated \/ UNCHANGED A!vars
  BY <1>4 DEF A!Run, A!Terminated, A!vars
<1>5. QED
  BY <1>1, <1>2, <1>3, <1>4 DEF A!Next

(* The steps of the three programs are steps of each, or none of its own.  *)
LEMMA EachByItself ==
    [MCNext]_all => [Next]_vars /\ [D!Next]_(D!vars) /\ [A!Next]_(A!vars)
<1> SUFFICES ASSUME [MCNext]_all
             PROVE  [Next]_vars /\ [D!Next]_(D!vars) /\ [A!Next]_(A!vars)
  OBVIOUS
<1>1. CASE InPool
  BY <1>1 DEF InPool, MCNext, all, vars, Next, D!vars, A!vars, diff, arbiter, InDiff, InArbiter
<1>2. CASE InDiff
  BY <1>2 DEF InDiff, MCNext, all, vars, D!Next, D!vars, A!vars, diff, arbiter, InPool, InArbiter
<1>3. CASE InArbiter
  BY <1>3 DEF InArbiter, MCNext, all, vars, A!Next, D!vars, A!vars, diff, arbiter, InPool, InDiff
<1>4. CASE UNCHANGED all
  BY <1>4 DEF all, vars, D!vars, A!vars, diff, arbiter
<1>5. QED
  BY <1>1, <1>2, <1>3, <1>4 DEF MCNext

LEMMA ArbiterInductive == MCSpec => []ArbiterInv
<1>1. MCInit => ArbiterInv
  BY ArbiterStarts DEF MCInit
<1>2. ArbiterInv /\ [MCNext]_all => ArbiterInv'
  BY EachByItself, ArbiterStep
<1>3. QED
  BY <1>1, <1>2, PTL DEF MCSpec

(* However late a result, a timer or the end of a worker comes, and in     *)
(* whatever order: every line before the one waited for has a result       *)
(* (pfdiff-arbiter.mjs:50-80).                                             *)
THEOREM NoLineMissing == MCSpec => []NoneMissing
<1>1. ArbiterInv => NoneMissing
  BY DEF ArbiterInv, NoneMissing, A!NoneMissing
<1>2. QED
  BY <1>1, ArbiterInductive, PTL

(* No answer of V8 is ever marked over by a timer or an error that comes   *)
(* late (pfdiff-arbiter.mjs:57-77).                                        *)
THEOREM AnswersAlwaysStay == MCSpec => AnswersStay
<1>1. ArbiterInv /\ [MCNext]_all => [\A k \in A!Line : v8[k] = "answer" => v8'[k] = "answer"]_(A!vars)
  BY EachByItself, ArbiterStepAnswers
<1>2. QED
  BY <1>1, ArbiterInductive, PTL DEF MCSpec, AnswersStay, A!AnswersStay

(* The names under which a line is counted. *)
Verdicts == {"vm_right", "bt_right", "neither", "both", "v8_error", "v8_timeout",
             "steplimit_vm_right", "steplimit_vm_wrong"}

Counted == DOMAIN counts = Verdicts \cup {"reported"} /\ A!AllCounted

(* A line has one verdict (pfdiff-arbiter.mjs:92-105). *)
LEMMA OneVerdict ==
    ASSUME NEW r, NEW x, NEW b
    PROVE  A!Verdict(r, x, b) \in Verdicts
BY DEF A!Verdict, Verdicts

(* When every line has one of the eight verdicts, their numbers add up to  *)
(* the lines.                                                              *)
LEMMA EightAddUp ==
    ASSUME NEW f, \A k \in A!Line : f[k] \in Verdicts
    PROVE  Number(A!Line, f, "vm_right") + Number(A!Line, f, "bt_right")
             + Number(A!Line, f, "neither") + Number(A!Line, f, "both")
             + Number(A!Line, f, "v8_error") + Number(A!Line, f, "v8_timeout")
             + Number(A!Line, f, "steplimit_vm_right")
             + Number(A!Line, f, "steplimit_vm_wrong") = Lines
<1> DEFINE S == A!Line
           N(v) == Number(S, f, v)
           C(X) == Cardinality(OfKinds(S, f, X))
           X1 == {"vm_right"}
           X2 == X1 \cup {"bt_right"}
           X3 == X2 \cup {"neither"}
           X4 == X3 \cup {"both"}
           X5 == X4 \cup {"v8_error"}
           X6 == X5 \cup {"v8_timeout"}
           X7 == X6 \cup {"steplimit_vm_right"}
           X8 == X7 \cup {"steplimit_vm_wrong"}
<1>1. IsFiniteSet(S) /\ Cardinality(S) = Lines /\ Lines \in Nat
  BY FS_Interval DEF A!Line
<1>2. C({}) = 0 /\ X1 = {} \cup {"vm_right"}
  BY CountNone
<1>3. OfKinds(S, f, X8) = S
  BY DEF OfKinds, Verdicts
<1> HIDE DEF S
<1>4. C({} \cup {"vm_right"}) = C({}) + N("vm_right") /\ N("vm_right") \in Nat
  <2>1. "vm_right" \notin {}
    OBVIOUS
  <2>2. QED
    BY <1>1, <2>1, CountOneMore
<1>5. C(X2) = C(X1) + N("bt_right") /\ C(X1) \in Nat /\ N("bt_right") \in Nat
  <2>1. "bt_right" \notin X1
    OBVIOUS
  <2> HIDE DEF X1
  <2>2. QED
    BY <1>1, <2>1, CountOneMore
<1>6. C(X3) = C(X2) + N("neither") /\ C(X2) \in Nat /\ N("neither") \in Nat
  <2>1. "neither" \notin X2
    OBVIOUS
  <2> HIDE DEF X2
  <2>2. QED
    BY <1>1, <2>1, CountOneMore
<1>7. C(X4) = C(X3) + N("both") /\ C(X3) \in Nat /\ N("both") \in Nat
  <2>1. "both" \notin X3
    OBVIOUS
  <2> HIDE DEF X3
  <2>2. QED
    BY <1>1, <2>1, CountOneMore
<1>8. C(X5) = C(X4) + N("v8_error") /\ C(X4) \in Nat /\ N("v8_error") \in Nat
  <2>1. "v8_error" \notin X4
    OBVIOUS
  <2> HIDE DEF X4
  <2>2. QED
    BY <1>1, <2>1, CountOneMore
<1>9. C(X6) = C(X5) + N("v8_timeout") /\ C(X5) \in Nat /\ N("v8_timeout") \in Nat
  <2>1. "v8_timeout" \notin X5
    OBVIOUS
  <2> HIDE DEF X5
  <2>2. QED
    BY <1>1, <2>1, CountOneMore
<1>10. C(X7) = C(X6) + N("steplimit_vm_right") /\ C(X6) \in Nat /\ N("steplimit_vm_right") \in Nat
  <2>1. "steplimit_vm_right" \notin X6
    OBVIOUS
  <2> HIDE DEF X6
  <2>2. QED
    BY <1>1, <2>1, CountOneMore
<1>11. C(X8) = C(X7) + N("steplimit_vm_wrong") /\ C(X7) \in Nat /\ N("steplimit_vm_wrong") \in Nat
  <2>1. "steplimit_vm_wrong" \notin X7
    OBVIOUS
  <2> HIDE DEF X7
  <2>2. QED
    BY <1>1, <2>1, CountOneMore
<1>12. C(X8) = Lines /\ C(X1) = N("vm_right")
  BY <1>1, <1>2, <1>3, <1>4
<1> HIDE DEF C, N, X1, X2, X3, X4, X5, X6, X7, X8
<1>13. N("vm_right") + N("bt_right") + N("neither") + N("both") + N("v8_error") + N("v8_timeout")
         + N("steplimit_vm_right") + N("steplimit_vm_wrong") = Lines
  BY <1>1, <1>4, <1>5, <1>6, <1>7, <1>8, <1>9, <1>10, <1>11, <1>12
<1>14. QED
  BY <1>13 DEF N, S

(* The report counts every line by its verdict (pfdiff-arbiter.mjs:82).    *)
LEMMA ReportCounts ==
    ASSUME Counted, A!Report
    PROVE  Counted'
<1>1. PICK vm \in [A!Line -> {"answer", "x"}],
           bt \in [A!Line -> {"answer", "x", "StepLimitExceeded"}] :
          counts' = [v \in DOMAIN counts |->
                        IF v = "reported" THEN TRUE
                        ELSE A!Quantify(A!Line, LAMBDA k : A!Verdict(v8[k], vm[k], bt[k]) = v)]
  BY DEF A!Report
<1> DEFINE f == [k \in A!Line |-> A!Verdict(v8[k], vm[k], bt[k])]
<1>2. \A k \in A!Line : f[k] = A!Verdict(v8[k], vm[k], bt[k]) /\ f[k] \in Verdicts
  BY OneVerdict
<1>3. \A v : A!Quantify(A!Line, LAMBDA k : A!Verdict(v8[k], vm[k], bt[k]) = v)
               = Number(A!Line, f, v)
  <2> SUFFICES ASSUME NEW v
               PROVE  A!Quantify(A!Line, LAMBDA k : A!Verdict(v8[k], vm[k], bt[k]) = v)
                        = Number(A!Line, f, v)
    OBVIOUS
  <2>1. A!Quantify(A!Line, LAMBDA k : A!Verdict(v8[k], vm[k], bt[k]) = v)
          = A!Cardinality({k \in A!Line : A!Verdict(v8[k], vm[k], bt[k]) = v})
    BY DEF A!Quantify
  <2>2. {k \in A!Line : A!Verdict(v8[k], vm[k], bt[k]) = v} = {k \in A!Line : f[k] = v}
    BY <1>2
  <2>3. QED
    BY <2>1, <2>2, SameCount DEF Number
<1> HIDE DEF f
<1>4. DOMAIN counts' = Verdicts \cup {"reported"}
  BY <1>1 DEF Counted
<1>5. \A v \in Verdicts : counts'[v] = Number(A!Line, f, v)
  <2> SUFFICES ASSUME NEW v \in Verdicts
               PROVE  counts'[v] = Number(A!Line, f, v)
    OBVIOUS
  <2>1. v \in DOMAIN counts /\ v # "reported"
    BY DEF Counted, Verdicts
  <2>2. counts'[v] = A!Quantify(A!Line, LAMBDA k : A!Verdict(v8[k], vm[k], bt[k]) = v)
    BY <1>1, <2>1
  <2>3. QED
    BY <1>3, <2>2
<1>6. A!AllCounted'
  <2>1. \A k \in A!Line : f[k] \in Verdicts
    BY <1>2
  <2>2. /\ counts'["vm_right"] = Number(A!Line, f, "vm_right")
        /\ counts'["bt_right"] = Number(A!Line, f, "bt_right")
        /\ counts'["neither"] = Number(A!Line, f, "neither")
        /\ counts'["both"] = Number(A!Line, f, "both")
        /\ counts'["v8_error"] = Number(A!Line, f, "v8_error")
        /\ counts'["v8_timeout"] = Number(A!Line, f, "v8_timeout")
        /\ counts'["steplimit_vm_right"] = Number(A!Line, f, "steplimit_vm_right")
        /\ counts'["steplimit_vm_wrong"] = Number(A!Line, f, "steplimit_vm_wrong")
    BY <1>5 DEF Verdicts
  <2>3. QED
    BY <2>1, <2>2, EightAddUp DEF A!AllCounted
<1>7. QED
  BY <1>4, <1>6 DEF Counted

LEMMA CountedKept ==
    /\ A!Init => Counted
    /\ Counted /\ [A!Next]_(A!vars) => Counted'
<1>1. A!Init => Counted
  BY DEF A!Init, A!NoCounts, Counted, Verdicts, A!AllCounted
<1>2. ASSUME Counted, [A!Next]_(A!vars)
      PROVE  Counted'
  <2>1. CASE A!Report
    BY <1>2, <2>1, ReportCounts
  <2>2. CASE counts' = counts
    BY <1>2, <2>2 DEF Counted, A!AllCounted
  <2>3. A!Report \/ counts' = counts
    BY <1>2 DEF A!Next, A!vars, A!Run, A!OnMessage, A!OnTimeout, A!Terminated, A!OnError, A!NewRound
  <2>4. QED
    BY <2>1, <2>2, <2>3
<1>3. QED
  BY <1>1, <1>2

-----------------------------------------------------------------------------
(* The differential parent. *)

(* What a child may write about the case c. *)
AnswersTo(c) == {D!V8Rejected(c)} \cup {D!Compared(c, o) : o \in D!Outcomes}

ChildInv ==
    /\ child = [up |-> child.up, case |-> child.case, answer |-> child.answer]
    /\ child.case # D!None => child.case = inFlight /\ child.answer = D!NoAnswer
    /\ child.answer # D!NoAnswer =>
          inFlight # D!None /\ child.answer \in AnswersTo(inFlight)

ParentInv ==
    /\ inFlight \in D!Case \cup {D!None}
    /\ case = IF inFlight = D!None THEN COUNT + 1 ELSE inFlight + 1
    /\ charged \in [D!Case -> {"none", "answered", "crashed"}]
    /\ \A c \in D!Case : charged[c] = "none" <=> inFlight # D!None /\ inFlight <= c
    /\ finishes = IF inFlight = D!None THEN 1 ELSE 0
    /\ ChildInv

(* The parent sends its first case, or has none to send                    *)
(* (differential.mjs:181).                                                 *)
LEMMA ParentStarts == D!Init => ParentInv
<1> SUFFICES ASSUME D!Init PROVE ParentInv
  OBVIOUS
<1>1. COUNT \in Nat
  BY DEF SupervisorsAssumption
<1>2. ChildInv
  BY DEF D!Init, ChildInv, D!spawn, D!None, D!Case
<1>3. CASE COUNT = 0
  BY <1>1, <1>2, <1>3 DEF D!Init, ParentInv, D!None, D!Case
<1>4. CASE COUNT > 0
  BY <1>1, <1>2, <1>4 DEF D!Init, ParentInv, D!None, D!Case
<1>5. QED
  BY <1>1, <1>3, <1>4

(* A step that charges a case for the first time, and writes the report    *)
(* when it is the last of them, is a step of the board.                    *)
LEMMA BoardDecides ==
    ASSUME NEW c \in D!Case, NEW v \in {"answered", "crashed"}, charged[c] = "none",
           charged' = [charged EXCEPT ![c] = v],
           finishes' = IF D!Board!AllDecided(charged') THEN finishes + 1 ELSE finishes
    PROVE  D!Board!BoardNext
<1>1. D!Board!Decide(c, v)
  BY DEF D!Board!Decide
<1>2. v \in [k \in D!Case |-> {"answered", "crashed"}][c]
  OBVIOUS
<1>3. QED
  BY <1>1, <1>2, Zenon DEF D!Board!BoardNext

(* The case in flight is charged, and the next one is sent or the report   *)
(* written: a step of the board (differential.mjs:143-150).                *)
LEMMA ChargedOnce ==
    ASSUME ParentInv, inFlight # D!None, NEW v \in {"answered", "crashed"},
           charged' = [charged EXCEPT ![inFlight] = v],
           NEW u, NEW ch, ch = [up |-> u, case |-> D!None, answer |-> D!NoAnswer],
           D!dispatch(ch)
    PROVE  ParentInv' /\ D!Board!BoardNext
<1>1. /\ COUNT \in Nat /\ inFlight \in D!Case /\ inFlight \in 1..COUNT /\ inFlight # 0
      /\ case = inFlight + 1 /\ finishes = 0
      /\ charged \in [D!Case -> {"none", "answered", "crashed"}]
      /\ \A c \in D!Case : charged[c] = "none" <=> inFlight <= c
  BY DEF ParentInv, SupervisorsAssumption, D!None, D!Case
<1>2. /\ charged' \in [D!Case -> {"none", "answered", "crashed"}]
      /\ \A c \in D!Case : charged'[c] = "none" <=> inFlight < c
  BY <1>1 DEF D!Case
<1>3. inFlight \in D!Case /\ charged[inFlight] = "none"
  BY <1>1 DEF D!Case
<1>4. CASE inFlight = COUNT
  <2>1. /\ inFlight' = 0 /\ case' = COUNT + 1 /\ finishes' = 1
        /\ child' = [ch EXCEPT !.up = FALSE]
    BY <1>1, <1>4 DEF D!dispatch, D!None
  <2>2. ChildInv'
    <3>1. child' = [up |-> FALSE, case |-> D!None, answer |-> D!NoAnswer]
      BY <2>1
    <3>2. QED
      BY <3>1 DEF ChildInv
  <2>3. \A c \in D!Case : charged'[c] # "none"
    BY <1>1, <1>2, <1>4 DEF D!Case
  <2>4. ParentInv'
    BY <1>1, <1>2, <2>1, <2>2, <2>3 DEF ParentInv, D!None, D!Case
  <2>5. finishes' = IF D!Board!AllDecided(charged') THEN finishes + 1 ELSE finishes
    BY <1>1, <2>1, <2>3 DEF D!Board!AllDecided
  <2>6. QED
    BY <1>3, <2>4, <2>5, BoardDecides
<1>5. CASE inFlight < COUNT
  <2>1. /\ inFlight' = inFlight + 1 /\ case' = inFlight' + 1 /\ finishes' = 0
        /\ child' = [ch EXCEPT !.case = inFlight + 1]
        /\ inFlight' \in D!Case /\ inFlight' # 0
    BY <1>1, <1>5 DEF D!dispatch, D!None, D!Case
  <2>2. ChildInv'
    <3>1. child' = [up |-> u, case |-> inFlight', answer |-> D!NoAnswer]
      BY <2>1
    <3>2. QED
      BY <3>1 DEF ChildInv
  <2>3. \A c \in D!Case : charged'[c] = "none" <=> inFlight' <= c
    BY <1>1, <1>2, <2>1 DEF D!Case
  <2>4. ParentInv'
    BY <1>1, <1>2, <2>1, <2>2, <2>3 DEF ParentInv, D!None, D!Case
  <2>5. finishes' = IF D!Board!AllDecided(charged') THEN finishes + 1 ELSE finishes
    <3>1. charged'[inFlight'] = "none"
      BY <1>1, <2>1, <2>3 DEF D!Case
    <3>2. QED
      BY <1>1, <2>1, <3>1 DEF D!Board!AllDecided
  <2>6. QED
    BY <1>3, <2>4, <2>5, BoardDecides
<1>6. QED
  BY <1>1, <1>4, <1>5

(* What the child wrote is about the case in flight                        *)
(* (differential.mjs:152).                                                 *)
LEMMA OwnAnswer ==
    ASSUME ParentInv, child.answer # D!NoAnswer
    PROVE  /\ inFlight # D!None /\ child.answer.id = inFlight
           /\ child.answer \in AnswersTo(inFlight) /\ child.case = D!None
BY DEF ParentInv, ChildInv, AnswersTo, D!V8Rejected, D!Compared

(* Every step of the parent and of its child keeps the invariant and is a  *)
(* step of the board, or hidden from it (differential.mjs:152-174).        *)
LEMMA ParentStep ==
    ParentInv /\ [D!Next]_(D!vars) => ParentInv' /\ [D!Board!BoardNext]_(D!Board!boardVars)
<1> SUFFICES ASSUME ParentInv, [D!Next]_(D!vars)
             PROVE  ParentInv' /\ [D!Board!BoardNext]_(D!Board!boardVars)
  OBVIOUS
<1>1. CASE D!OnMessage
  <2> DEFINE ch == [child EXCEPT !.answer = D!NoAnswer]
  <2>1. /\ inFlight # D!None /\ charged' = [charged EXCEPT ![inFlight] = "answered"]
        /\ D!dispatch(ch)
    BY <1>1, OwnAnswer DEF D!OnMessage
  <2>2. ch = [up |-> ch.up, case |-> D!None, answer |-> D!NoAnswer]
    BY <1>1, OwnAnswer DEF D!OnMessage, ParentInv, ChildInv
  <2> HIDE DEF ch
  <2>3. QED
    BY <2>1, <2>2, ChargedOnce
<1>2. CASE D!OnExit
  <2>1. /\ inFlight # D!None /\ charged' = [charged EXCEPT ![inFlight] = "crashed"]
        /\ D!dispatch(D!spawn)
    BY <1>2 DEF D!OnExit
  <2>2. D!spawn = [up |-> D!spawn.up, case |-> D!None, answer |-> D!NoAnswer]
    BY DEF D!spawn
  <2>3. QED
    BY <2>1, <2>2, ChargedOnce
<1>3. CASE D!Answer
  <2>1. PICK msg \in AnswersTo(child.case) :
           child' = [child EXCEPT !.case = D!None, !.answer = msg]
    BY <1>3 DEF D!Answer, AnswersTo
  <2>2. /\ child.case = inFlight /\ inFlight # D!None
        /\ UNCHANGED <<case, inFlight, charged, finishes>>
    BY <1>3 DEF D!Answer, ParentInv, ChildInv
  <2>3. ChildInv'
    <3>1. AnswersTo(inFlight)' = AnswersTo(inFlight)
      BY <2>2 DEF AnswersTo
    <3>2. child'.case = D!None /\ child'.answer = msg
          /\ child' = [up |-> child'.up, case |-> child'.case, answer |-> child'.answer]
      BY <2>1 DEF ParentInv, ChildInv
    <3>3. msg \in AnswersTo(inFlight')
      BY <2>1, <2>2
    <3>4. QED
      BY <2>2, <3>2, <3>3 DEF ChildInv
  <2>4. QED
    BY <2>2, <2>3 DEF ParentInv, D!Board!boardVars
<1>4. CASE D!Crash
  <2>1. /\ child' = [child EXCEPT !.up = FALSE, !.case = D!None]
        /\ child.answer = D!NoAnswer
        /\ UNCHANGED <<case, inFlight, charged, finishes>>
    BY <1>4 DEF D!Crash, ParentInv, ChildInv
  <2>2. ChildInv'
    BY <2>1 DEF ParentInv, ChildInv
  <2>3. QED
    BY <2>1, <2>2 DEF ParentInv, D!Board!boardVars
<1>5. CASE UNCHANGED D!vars
  BY <1>5 DEF D!vars, ParentInv, ChildInv, D!Board!boardVars
<1>6. QED
  BY <1>1, <1>2, <1>3, <1>4, <1>5 DEF D!Next

LEMMA ParentInductive == MCSpec => []ParentInv
<1>1. MCInit => ParentInv
  BY ParentStarts DEF MCInit
<1>2. ParentInv /\ [MCNext]_all => ParentInv'
  BY EachByItself, ParentStep
<1>3. QED
  BY <1>1, <1>2, PTL DEF MCSpec

(* Every case is charged once, with its own answer or its own crash, and   *)
(* the report is written once, after the last of them                      *)
(* (differential.mjs:152-174).                                             *)
THEOREM CasesDecidedOnce == MCSpec => CasesImplementBoard
<1>1. D!Init => D!Board!BoardInit
  <2> SUFFICES ASSUME D!Init PROVE D!Board!BoardInit
    OBVIOUS
  <2>1. COUNT \in Nat
    BY DEF SupervisorsAssumption
  <2>2. D!Case = {} <=> COUNT = 0
    BY <2>1 DEF D!Case
  <2>3. QED
    BY <2>1, <2>2 DEF D!Init, D!Board!BoardInit
<1>2. ParentInv /\ [MCNext]_all => [D!Board!BoardNext]_(D!Board!boardVars)
  BY EachByItself, ParentStep
<1>3. MCInit => D!Board!BoardInit
  BY <1>1 DEF MCInit
<1>4. QED
  BY <1>2, <1>3, ParentInductive, PTL
     DEF MCSpec, CasesImplementBoard, D!ImplementsBoard, D!Board!BoardSpec

-----------------------------------------------------------------------------
(* The report of the differential parent. *)

Outcome == {"same", "different_result", "zregex_error", "zregex_rejects"}

(* The outcomes of an answer are counted as Number counts. *)
LEMMA OutcomesNumber ==
    ASSUME NEW out, NEW kind
    PROVE  D!NumberOf(kind, out) = Number(DOMAIN out, out, kind)
BY SameCount DEF D!NumberOf, D!Quantify, Number

(* When every outcome is of one of the four kinds, their numbers add up.   *)
LEMMA FourAddUp ==
    ASSUME NEW n \in Nat, NEW out, DOMAIN out = 1..n, \A i \in 1..n : out[i] \in Outcome
    PROVE  /\ Number(1..n, out, "same") + Number(1..n, out, "different_result")
                + Number(1..n, out, "zregex_error") + Number(1..n, out, "zregex_rejects") = n
           /\ \A kind \in Outcome : Number(1..n, out, kind) \in Nat
<1> DEFINE S == 1..n
           N(v) == Number(S, out, v)
           C(X) == Cardinality(OfKinds(S, out, X))
           X1 == {"same"}
           X2 == X1 \cup {"different_result"}
           X3 == X2 \cup {"zregex_error"}
           X4 == X3 \cup {"zregex_rejects"}
<1>1. IsFiniteSet(S) /\ Cardinality(S) = n
  BY FS_Interval
<1>2. C({}) = 0 /\ X1 = {} \cup {"same"}
  BY CountNone
<1>3. OfKinds(S, out, X4) = S
  BY DEF OfKinds, Outcome
<1> HIDE DEF S
<1>4. C({} \cup {"same"}) = C({}) + N("same") /\ N("same") \in Nat
  <2>1. "same" \notin {}
    OBVIOUS
  <2>2. QED
    BY <1>1, <2>1, CountOneMore
<1>5. C(X2) = C(X1) + N("different_result") /\ C(X1) \in Nat /\ N("different_result") \in Nat
  <2>1. "different_result" \notin X1
    OBVIOUS
  <2> HIDE DEF X1
  <2>2. QED
    BY <1>1, <2>1, CountOneMore
<1>6. C(X3) = C(X2) + N("zregex_error") /\ C(X2) \in Nat /\ N("zregex_error") \in Nat
  <2>1. "zregex_error" \notin X2
    OBVIOUS
  <2> HIDE DEF X2
  <2>2. QED
    BY <1>1, <2>1, CountOneMore
<1>7. C(X4) = C(X3) + N("zregex_rejects") /\ C(X3) \in Nat /\ N("zregex_rejects") \in Nat
  <2>1. "zregex_rejects" \notin X3
    OBVIOUS
  <2> HIDE DEF X3
  <2>2. QED
    BY <1>1, <2>1, CountOneMore
<1>8. C(X4) = n /\ C(X1) = N("same")
  BY <1>1, <1>2, <1>3, <1>4
<1> HIDE DEF C, N, X1, X2, X3, X4
<1>9. N("same") + N("different_result") + N("zregex_error") + N("zregex_rejects") = n
  BY <1>4, <1>5, <1>6, <1>7, <1>8
<1>10. \A kind \in Outcome : N(kind) \in Nat
  BY <1>4, <1>5, <1>6, <1>7 DEF Outcome
<1>11. QED
  BY <1>9, <1>10 DEF N, S

(* The outcomes of a comparison: one per subject and no refusal, or fewer  *)
(* and one refusal, the last (differential.mjs:77-90).                     *)
LEMMA OutcomesAddUp ==
    ASSUME NEW out \in D!Outcomes
    PROVE  LET N(kind) == D!NumberOf(kind, out)
               ran     == N("same") + N("different_result") + N("zregex_error")
           IN  /\ \A kind \in Outcome : N(kind) \in Nat
               /\ \/ N("zregex_rejects") = 0 /\ ran = NSubjects
                  \/ N("zregex_rejects") = 1 /\ ran \in 0..(NSubjects - 1)
<1>1. NSubjects \in Nat
  BY DEF SupervisorsAssumption
<1>2. CASE out \in [1..NSubjects -> D!Kinds]
  <2>1. DOMAIN out = 1..NSubjects /\ \A i \in 1..NSubjects : out[i] \in Outcome
    BY <1>2 DEF D!Kinds, Outcome
  <2>2. Number(1..NSubjects, out, "zregex_rejects") = 0
    <3>1. {i \in 1..NSubjects : out[i] = "zregex_rejects"} = {}
      BY <1>2 DEF D!Kinds
    <3>2. QED
      BY <3>1, FS_EmptySet, Zenon DEF Number
  <2>3. \A kind : D!NumberOf(kind, out) = Number(1..NSubjects, out, kind)
    BY <2>1, OutcomesNumber
  <2>4. /\ Number(1..NSubjects, out, "same") + Number(1..NSubjects, out, "different_result")
             + Number(1..NSubjects, out, "zregex_error")
             + Number(1..NSubjects, out, "zregex_rejects") = NSubjects
        /\ \A kind \in Outcome : Number(1..NSubjects, out, kind) \in Nat
    BY <1>1, <2>1, FourAddUp
  <2>5. "same" \in Outcome /\ "different_result" \in Outcome /\ "zregex_error" \in Outcome
    BY DEF Outcome
  <2>6. QED
    BY <1>1, <2>2, <2>3, <2>4, <2>5
<1>3. CASE out \notin [1..NSubjects -> D!Kinds]
  <2>1. PICK o \in [1..NSubjects -> D!Kinds], m \in 0..(NSubjects - 1) :
           out = Append(SubSeq(o, 1, m), "zregex_rejects")
    BY <1>3 DEF D!Outcomes
  <2>2. m \in Nat /\ m + 1 \in Nat /\ m <= NSubjects - 1 /\ m < NSubjects
    BY <1>1, <2>1
  <2>3. /\ SubSeq(o, 1, m) \in Seq(D!Kinds) /\ Len(SubSeq(o, 1, m)) = m
    <3>1. o \in Seq(D!Kinds) /\ Len(o) = NSubjects
      BY <1>1, <2>1
    <3>2. QED
      BY <1>1, <2>2, <3>1
  <2>4. /\ DOMAIN out = 1..(m + 1) /\ out[m + 1] = "zregex_rejects"
        /\ \A i \in 1..m : out[i] \in D!Kinds
    <3> DEFINE q == SubSeq(o, 1, m)
    <3> HIDE DEF q
    <3>1. q \in Seq(D!Kinds) /\ Len(q) = m /\ out = Append(q, "zregex_rejects")
      BY <2>1, <2>3 DEF q
    <3>2. QED
      BY <2>2, <3>1
  <2>5. \A i \in 1..(m + 1) : out[i] \in Outcome
    BY <2>2, <2>4 DEF D!Kinds, Outcome
  <2>6. Number(1..(m + 1), out, "zregex_rejects") = 1
    <3>1. {i \in 1..(m + 1) : out[i] = "zregex_rejects"} = {m + 1}
      BY <2>2, <2>4 DEF D!Kinds
    <3>2. Cardinality({m + 1}) = 1
      BY FS_Singleton
    <3>3. QED
      BY <3>1, <3>2 DEF Number
  <2>7. \A kind : D!NumberOf(kind, out) = Number(1..(m + 1), out, kind)
    BY <2>4, OutcomesNumber
  <2>8. /\ Number(1..(m + 1), out, "same") + Number(1..(m + 1), out, "different_result")
             + Number(1..(m + 1), out, "zregex_error")
             + Number(1..(m + 1), out, "zregex_rejects") = m + 1
        /\ \A kind \in Outcome : Number(1..(m + 1), out, kind) \in Nat
    BY <2>2, <2>4, <2>5, FourAddUp
  <2>9. "same" \in Outcome /\ "different_result" \in Outcome /\ "zregex_error" \in Outcome
    BY DEF Outcome
  <2>10. QED
    BY <1>1, <2>2, <2>6, <2>7, <2>8, <2>9
<1>4. QED
  BY <1>2, <1>3

LEMMA NoOutcomes ==
    ASSUME NEW kind
    PROVE  D!NumberOf(kind, <<>>) = 0
<1>1. {i \in DOMAIN <<>> : <<>>[i] = kind} = {}
  OBVIOUS
<1>2. Cardinality({i \in DOMAIN <<>> : <<>>[i] = kind}) = 0
  BY <1>1, FS_EmptySet, Zenon
<1>3. QED
  BY <1>2, OutcomesNumber DEF Number

(* The cases that were charged v. *)
Cases(v) == Number(D!Case, charged, v)

(* The sums of a report with a cases answered and not rejected by V8, r of *)
(* them refused by zregex, and x outcomes.                                 *)
InBounds(a, r, x) ==
    /\ a \in Nat /\ r \in Nat /\ x \in Nat
    /\ r <= a
    /\ (a - r) * NSubjects <= x /\ x <= a * NSubjects - r

LEMMA BoundsKept ==
    ASSUME NEW a, NEW r, NEW x, InBounds(a, r, x)
    PROVE  /\ InBounds(a + 1, r, x + NSubjects)
           /\ \A m \in 0..(NSubjects - 1) : InBounds(a + 1, r + 1, x + m)
<1>1. NSubjects \in Nat /\ a \in Nat /\ r \in Nat /\ x \in Nat /\ a - r \in Nat
  BY DEF InBounds, SupervisorsAssumption
<1>2. (a + 1) * NSubjects = a * NSubjects + NSubjects /\ a * NSubjects \in Nat
  BY <1>1
<1>3. ((a + 1) - r) * NSubjects = (a - r) * NSubjects + NSubjects /\ (a - r) * NSubjects \in Nat
  BY <1>1
<1>4. (a + 1) - (r + 1) = a - r
  BY <1>1
<1>5. InBounds(a + 1, r, x + NSubjects)
  BY <1>1, <1>2, <1>3 DEF InBounds
<1>6. ASSUME NEW m \in 0..(NSubjects - 1)
      PROVE  InBounds(a + 1, r + 1, x + m)
  <2>1. m \in Nat /\ m <= NSubjects - 1
    BY <1>1
  <2>2. (a - r) * NSubjects <= x /\ x <= a * NSubjects - r /\ r <= a
    BY DEF InBounds
  <2> HIDE DEF InBounds
  <2>3. ((a + 1) - (r + 1)) * NSubjects = (a - r) * NSubjects
    BY <1>4
  <2>4. (a - r) * NSubjects <= x + m
    BY <1>1, <1>3, <2>1, <2>2
  <2>5. x + m <= (a + 1) * NSubjects - (r + 1)
    BY <1>1, <1>2, <2>1, <2>2
  <2>6. a + 1 \in Nat /\ r + 1 \in Nat /\ x + m \in Nat /\ r + 1 <= a + 1
    BY <1>1, <2>1, <2>2
  <2>7. QED
    BY <2>3, <2>4, <2>5, <2>6 DEF InBounds
<1>7. QED
  BY <1>5, <1>6

TallyInv ==
    /\ tally = [v8Rejected |-> tally.v8Rejected, zregexRejected |-> tally.zregexRejected,
                crashed |-> tally.crashed, compared |-> tally.compared, same |-> tally.same,
                differentResult |-> tally.differentResult, zregexError |-> tally.zregexError]
    /\ tally.v8Rejected \in Nat /\ tally.same \in Nat /\ tally.differentResult \in Nat
    /\ tally.zregexError \in Nat
    /\ tally.compared = tally.same + tally.differentResult
    /\ tally.crashed = Cases("crashed")
    /\ Cases("answered") \in Nat /\ Cases("crashed") \in Nat
    /\ InBounds(Cases("answered") - tally.v8Rejected, tally.zregexRejected,
                tally.compared + tally.zregexError)

LEMMA TallyBalanced == TallyInv => D!Balanced
<1> SUFFICES ASSUME TallyInv PROVE D!Balanced
  OBVIOUS
<1>1. \A v : D!Quantify(D!Case, LAMBDA c : charged[c] = v) = Cases(v)
  BY SameCount DEF D!Quantify, Cases, Number
<1>2. /\ D!Quantify(D!Case, LAMBDA c : charged[c] = "crashed") = Cases("crashed")
      /\ D!Quantify(D!Case, LAMBDA c : charged[c] = "answered") = Cases("answered")
  BY <1>1
<1>3. NSubjects \in Nat
  BY DEF SupervisorsAssumption
<1> DEFINE a == Cases("answered") - tally.v8Rejected
           r == tally.zregexRejected
           x == tally.compared + tally.zregexError
<1>4. InBounds(a, r, x)
  BY DEF TallyInv
<1> HIDE DEF a, r, x
<1>5. r <= a /\ x \in ((a - r) * NSubjects)..(a * NSubjects - r)
  <2>1. a - r \in Nat /\ a \in Nat /\ r \in Nat
    BY <1>4 DEF InBounds
  <2>2. (a - r) * NSubjects \in Nat /\ a * NSubjects \in Nat
    BY <1>3, <2>1
  <2>3. QED
    BY <1>4, <2>1, <2>2 DEF InBounds
<1>6. tally.compared = tally.same + tally.differentResult /\ tally.crashed = Cases("crashed")
  BY DEF TallyInv
<1>7. QED
  BY <1>2, <1>5, <1>6 DEF D!Balanced, a, r, x

LEMMA TallyStarts == D!Init => TallyInv
<1> SUFFICES ASSUME D!Init PROVE TallyInv
  OBVIOUS
<1>1. tally = D!NoCounts /\ charged = [c \in D!Case |-> "none"] /\ NSubjects \in Nat
  BY DEF D!Init, SupervisorsAssumption
<1>2. \A v \in {"answered", "crashed"} : {c \in D!Case : charged[c] = v} = {}
  BY <1>1
<1>3. Cases("answered") = 0 /\ Cases("crashed") = 0
  BY <1>2, FS_EmptySet, Zenon DEF Cases, Number
<1>4. InBounds(0, 0, 0)
  BY <1>1 DEF InBounds
<1>5. QED
  BY <1>1, <1>3, <1>4 DEF TallyInv, D!NoCounts

(* A case that is charged for the first time is counted once more.         *)
LEMMA CasesCharged ==
    ASSUME ParentInv, inFlight # D!None, NEW v \in {"answered", "crashed"},
           charged' = [charged EXCEPT ![inFlight] = v]
    PROVE  /\ Cases(v)' = Cases(v) + 1
           /\ \A u \in {"answered", "crashed"} : u # v => Cases(u)' = Cases(u)
<1>1. /\ IsFiniteSet(D!Case) /\ inFlight \in D!Case /\ charged[inFlight] = "none"
      /\ charged \in [D!Case -> {"none", "answered", "crashed"}]
      /\ charged[inFlight] # v
  BY FS_Interval DEF ParentInv, D!Case, D!None, SupervisorsAssumption
<1>2. /\ Number(D!Case, charged', v) = Number(D!Case, charged, v) + 1
      /\ \A u : u # v /\ charged[inFlight] # u =>
            Number(D!Case, charged', u) = Number(D!Case, charged, u)
  <2>1. charged'[inFlight] = v /\ \A x \in D!Case : x # inFlight => charged'[x] = charged[x]
    BY <1>1
  <2> DEFINE S == D!Case
             f == charged
             g == charged'
             k == inFlight
  <2>2. /\ IsFiniteSet(S) /\ k \in S /\ f[k] # v
        /\ g[k] = v /\ \A x \in S : x # k => g[x] = f[x]
    BY <1>1, <2>1
  <2> HIDE DEF S, f, g, k
  <2>3. Number(S, g, v) = Number(S, f, v) + 1
    BY <2>2, CountSet
  <2>4. \A u : u # v /\ f[k] # u => Number(S, g, u) = Number(S, f, u)
    BY <2>2, CountOther
  <2>5. QED
    BY <2>3, <2>4 DEF S, f, g, k
<1>3. \A u : Number(D!Case, charged, u)' = Number(D!Case, charged', u)
  BY DEF Number, D!Case
<1>4. QED
  BY <1>1, <1>2, <1>3 DEF Cases

(* The counters of the message handler (differential.mjs:152-162).         *)
LEMMA TallyMessage ==
    ASSUME ParentInv, TallyInv, D!OnMessage
    PROVE  TallyInv'
<1> DEFINE msg == child.answer
           N(kind) == D!NumberOf(kind, msg.out)
           v8r == IF msg.v8Rejected THEN 1 ELSE 0
<1>1. /\ inFlight # D!None /\ charged' = [charged EXCEPT ![inFlight] = "answered"]
      /\ tally' = D!Tally(tally, msg) /\ msg \in AnswersTo(inFlight)
  BY OwnAnswer DEF D!OnMessage
<1>2. Cases("answered")' = Cases("answered") + 1 /\ Cases("crashed")' = Cases("crashed")
  BY <1>1, CasesCharged
<1>3. \/ /\ v8r = 1 /\ \A kind : N(kind) = 0
      \/ /\ v8r = 0 /\ msg.out \in D!Outcomes
  <2>1. CASE msg = D!V8Rejected(inFlight)
    BY <2>1, NoOutcomes DEF D!V8Rejected
  <2>2. CASE \E o \in D!Outcomes : msg = D!Compared(inFlight, o)
    BY <2>2 DEF D!Compared
  <2>3. QED
    BY <1>1, <2>1, <2>2 DEF AnswersTo
<1>4. tally' = [v8Rejected      |-> tally.v8Rejected + v8r,
                zregexRejected  |-> tally.zregexRejected + N("zregex_rejects"),
                crashed         |-> tally.crashed,
                compared        |-> tally.compared + N("same") + N("different_result"),
                same            |-> tally.same + N("same"),
                differentResult |-> tally.differentResult + N("different_result"),
                zregexError     |-> tally.zregexError + N("zregex_error")]
  <2> HIDE DEF N, msg
  <2>1. tally' = [tally EXCEPT
                    !.v8Rejected      = tally.v8Rejected + v8r,
                    !.same            = tally.same + N("same"),
                    !.differentResult = tally.differentResult + N("different_result"),
                    !.compared        = tally.compared + N("same") + N("different_result"),
                    !.zregexRejected  = tally.zregexRejected + N("zregex_rejects"),
                    !.zregexError     = tally.zregexError + N("zregex_error")]
    BY <1>1 DEF D!Tally, N
  <2> HIDE DEF v8r
  <2>2. QED
    BY <2>1 DEF TallyInv
<1> HIDE DEF msg, N, v8r
<1> DEFINE a == Cases("answered") - tally.v8Rejected
           r == tally.zregexRejected
           x == tally.compared + tally.zregexError
<1>5. /\ tally.v8Rejected \in Nat /\ tally.same \in Nat /\ tally.differentResult \in Nat
      /\ tally.zregexError \in Nat /\ tally.zregexRejected \in Nat
      /\ tally.compared = tally.same + tally.differentResult
      /\ Cases("answered") \in Nat /\ a \in Nat
      /\ InBounds(a, r, x)
  BY DEF TallyInv, InBounds
<1>6. /\ N("same") \in Nat /\ N("different_result") \in Nat /\ N("zregex_error") \in Nat
      /\ N("zregex_rejects") \in Nat /\ v8r \in Nat
      /\ \/ /\ v8r = 1 /\ N("zregex_rejects") = 0
            /\ N("same") + N("different_result") + N("zregex_error") = 0
         \/ /\ v8r = 0 /\ N("zregex_rejects") = 0
            /\ N("same") + N("different_result") + N("zregex_error") = NSubjects
         \/ /\ v8r = 0 /\ N("zregex_rejects") = 1
            /\ N("same") + N("different_result") + N("zregex_error") \in 0..(NSubjects - 1)
  <2>1. CASE v8r = 1 /\ \A kind : N(kind) = 0
    BY <2>1
  <2>2. CASE v8r = 0 /\ msg.out \in D!Outcomes
    <3>1. /\ \A kind \in Outcome : N(kind) \in Nat
          /\ \/ /\ N("zregex_rejects") = 0
                /\ N("same") + N("different_result") + N("zregex_error") = NSubjects
             \/ /\ N("zregex_rejects") = 1
                /\ N("same") + N("different_result") + N("zregex_error") \in 0..(NSubjects - 1)
      BY <2>2, OutcomesAddUp DEF N
    <3>2. QED
      BY <2>2, <3>1 DEF Outcome
  <2>3. QED
    BY <1>3, <2>1, <2>2
<1>7. /\ a' = a + 1 - v8r /\ r' = r + N("zregex_rejects")
      /\ x' = x + (N("same") + N("different_result") + N("zregex_error"))
      /\ tally'.compared = tally'.same + tally'.differentResult
  BY <1>2, <1>4, <1>5, <1>6
<1>8. InBounds(a', r', x')
  <2> HIDE DEF a, r, x
  <2>1. a \in Nat /\ r \in Nat /\ x \in Nat
    BY <1>5 DEF InBounds
  <2>2. CASE v8r = 1 /\ N("zregex_rejects") = 0
             /\ N("same") + N("different_result") + N("zregex_error") = 0
    <3>1. a' = a /\ r' = r /\ x' = x
      BY <1>7, <2>1, <2>2
    <3>2. QED
      BY <1>5, <3>1
  <2>3. CASE v8r = 0 /\ N("zregex_rejects") = 0
             /\ N("same") + N("different_result") + N("zregex_error") = NSubjects
    <3>1. a' = a + 1 /\ r' = r /\ x' = x + NSubjects
      BY <1>7, <2>1, <2>3
    <3>2. QED
      BY <1>5, <3>1, BoundsKept
  <2>4. CASE v8r = 0 /\ N("zregex_rejects") = 1
             /\ N("same") + N("different_result") + N("zregex_error") \in 0..(NSubjects - 1)
    <3>1. a' = a + 1 /\ r' = r + 1
      BY <1>7, <2>1, <2>4
    <3>2. QED
      BY <1>5, <1>7, <2>4, <3>1, BoundsKept
  <2>5. QED
    BY <1>6, <2>2, <2>3, <2>4
<1>9. (InBounds(a, r, x))'
  BY <1>8 DEF InBounds
<1>10. QED
  BY <1>2, <1>4, <1>5, <1>6, <1>7, <1>9 DEF TallyInv

(* A crash is counted once (differential.mjs:165-171).                     *)
LEMMA TallyExit ==
    ASSUME ParentInv, TallyInv, D!OnExit
    PROVE  TallyInv'
<1>1. /\ inFlight # D!None /\ charged' = [charged EXCEPT ![inFlight] = "crashed"]
      /\ tally' = [tally EXCEPT !.crashed = tally.crashed + 1]
  BY DEF D!OnExit
<1>2. Cases("crashed")' = Cases("crashed") + 1 /\ Cases("answered")' = Cases("answered")
  BY <1>1, CasesCharged
<1>3. tally' = [v8Rejected |-> tally.v8Rejected, zregexRejected |-> tally.zregexRejected,
                crashed |-> tally.crashed + 1, compared |-> tally.compared, same |-> tally.same,
                differentResult |-> tally.differentResult, zregexError |-> tally.zregexError]
  BY <1>1 DEF TallyInv
<1>4. QED
  BY <1>2, <1>3 DEF TallyInv, InBounds

LEMMA TallyStep == ParentInv /\ TallyInv /\ [D!Next]_(D!vars) => TallyInv'
<1>1. ASSUME TallyInv, UNCHANGED <<tally, charged>>
      PROVE  TallyInv'
  BY <1>1 DEF TallyInv, InBounds, Cases, Number, D!Case
<1>2. QED
  BY <1>1, TallyMessage, TallyExit DEF D!Next, D!vars, D!Answer, D!Crash

(* The numbers of both reports add up to what was run: every case and      *)
(* every line is in one of them once (differential.mjs:155-168,            *)
(* pfdiff-arbiter.mjs:82-108).                                             *)
THEOREM ReportsAlwaysAddUp == MCSpec => []ReportsAddUp
<1> DEFINE Both == ParentInv /\ TallyInv /\ Counted
<1>1. MCInit => Both
  BY ParentStarts, TallyStarts, CountedKept DEF MCInit
<1>2. Both /\ [MCNext]_all => Both'
  <2> SUFFICES ASSUME Both, [MCNext]_all PROVE Both'
    OBVIOUS
  <2>1. [D!Next]_(D!vars) /\ [A!Next]_(A!vars)
    BY EachByItself
  <2>2. ParentInv' /\ TallyInv' /\ Counted'
    BY <2>1, ParentStep, TallyStep, CountedKept
  <2>3. QED
    BY <2>2
<1>3. Both => ReportsAddUp
  BY TallyBalanced DEF Counted, ReportsAddUp
<1> HIDE DEF Both
<1>4. QED
  BY <1>1, <1>2, <1>3, PTL DEF MCSpec
=============================================================================
