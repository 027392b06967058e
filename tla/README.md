# A verification of z-regex

z-regex is an ECMA-262 regular expression engine in Zig, with a JavaScript harness that
measures it against test262 and V8.  This directory holds TLA+ modules that model both,
TLC configurations that check them on small instances, and proofs of theorems about them
checked by TLAPS.  Every definition names in `PROJECT.json` (`map`) the lines of the source
it stands for; `hazards` there lists what is hard to test in this code, each at its line.

## 1. The system

### The engine (`src/`)

A pattern travels `lexer -> parser (AST) -> lower -> HIR`, and from the HIR to two
programs: a Thompson program for tier 0 (linear time) when every construct is regular,
and bytecode for tier 2, an explicit-stack backtracker, always or when tier 0 cannot
take the pattern (`compile.zig`).  The DFA's tables are built with the tier-0 program.
`Regex.exec` dispatches an execution to one of the executors, with the buffers of a `Scratch` that
many executions of many expressions share.

| Component | Source | State it keeps | Operations | What makes it correct | Hard part |
|---|---|---|---|---|---|
| Backtracker | `tier2/executor/backtrack.zig`, `core.zig` | pc, position, captures, five stacks (choicepoints, capture trail, loop guards, star positions, lookaround barriers), step count | `exec1` per opcode, `backtrack` per kind of choicepoint | the answer is ECMA-262's; resuming a choicepoint finds exactly the state of the moment it was pushed; limits stop an execution and never change its answer | heights recorded on stacks that nested stars, cuts and clears shrink in another order |
| Loop guard set | `core.zig` `GuardSet`, `backtrack.zig` 255-306 | stack of (head, position), open-addressing mirror past 64 | enter a back edge, truncate | answers as a scan of the stack | no tombstones; failed growth |
| LookLinear memo | `backtrack.zig` 41-120, 645-685 | per lookaround a 2-bit table, `look_gen`, touched range | begin, get/put, grow | same answers as asking tier 0 every time | stale verdicts across executions; the number wraps; errors half way |
| Step limit | `backtrack.zig`, `utils/budget.zig` | steps of a start position, a `Budget` lent to a VM | charge, lend, charge back | one counter, never past the limit | unsigned subtraction; a VM that gives up half way |
| Scratch | `core.zig`, `matcher.zig` | five buffers, `in_use` | acquire, take, grow, give back | exclusive; warm runs allocate nothing | an allocation fails between taking and giving back |
| Tier 2 driver | `matcher.zig` | start position | `exec`, `findAll` | leftmost match, progress past empty matches | empty matches, limits |
| HIR | `ir/hir.zig` | a tree | `nullable`, `fixedLength`, `collectCaptures`, `lookbehindsSupported` | sound attributes | counted, nested, backward bodies |
| Code generator | `tier2/codegen/generator.zig`, `compile.zig` | labels, mark counter | `generate*` per node | the program means what the tree means | clearing captures per iteration, the empty check, right-to-left bodies |
| Bytecode | `tier2/bytecode/*` | byte buffer, patches | emit, define label, decode | a jump decodes to its label | forward patches |
| Tier 0 compiler | `tier0/compile.zig` | instruction list, closures | `check`, `emit*`, `buildClosures` | the program accepts the pattern's language with its priorities | optional iterations of nullable bodies (the phase product) |
| Pike VM | `tier0/pikevm.zig` | two thread lists stamped by generation | `search`, `existsAnchoredMatch`, closures | leftmost match, first priority | order of threads in closures, reuse of lists |
| Tagged VM | `tier0/pikevm_tagged.zig` | a row of slots per thread, undo frames | `execCaptures` in two passes | the second pass finds what the first did | what a branch wrote is undone before the next |
| DFA | `tier0/dfa.zig` | two tables built with the program, caps | `build`, `exec` forward, then backward | same spans as the VM, or none is built | assertions resolved one character late; indices inside a pair |
| Prefilter, Shift-And | `tier0/prefilter.zig`, `shiftand.zig` | literal tables | next candidate | never skips a match | |
| Subject | `subject/root.zig` | a view of Latin-1, WTF-8 or UTF-16 | decode forward and back, index mapping | both directions agree on positions | surrogate pairs, ill-formed bytes |
| Regex and iterators | `regex.zig` | compiled tiers, an index | `exec*`, `findAll`, `MatchIterator.next`, `replace*` | no match skipped or reported twice; progress | empty matches |
| Front end | `frontend/**` | cursor | parse, lower | tree of the text | syntax only |
| Classifier | `analysis/classify.zig` | none | `analyze` | agrees with the tiers | |
| Character sets, Unicode data | `ir/charset.zig`, `unicode/*` | sorted ranges | set algebra, case folding | canonical ranges | generated tables |
| C API, command line | `c_api.zig`, `main.zig` | handles | wrappers over `Regex` | error codes, lifetimes | |

### The harness (`scripts/`, `bench/`)

| Component | Source | State it keeps | Operations | What makes it correct | Hard part |
|---|---|---|---|---|---|
| Worker pool | `scripts/test262/run.mjs`, `worker.mjs` | tasks, results, one worker object per slot with its timer | feed, message, timeout, exit, recycle | each test decided once, by a verdict about itself; the report written once | an answer races the timer and the SIGKILL |
| Differential parent | `scripts/test262/differential.mjs` | the case in flight, counters | send, message, exit | a crash is charged once, to its case; counters add up | a child dies in the middle of a case |
| Arbiter | `scripts/gate/pfdiff-arbiter.mjs` | results per line, the line waited for, a timer per round | message, timeout, error, next round | no line passed over, no answer overwritten | results of a terminated worker still arrive |
| Verdict | `scripts/test262/worker.mjs` | counters of the library, compiled harness scripts | run in the realm, control run in plain V8 | blame where it belongs; nothing carried over | counters run over all tests of a child |
| Discovery, sample | `run.mjs` 100-230 | lists, rounds and turns | walk, sample, classify | spread over the directories, each test once | the sample ends in mid round |
| Baseline | `run.mjs` 300-400 | a committed file of statuses | check, update, record improvements | a test that passed cannot fail unseen | sequences of filtered and partial runs, changed revisions |
| Bridge | `scripts/test262/zregex.mjs` | pattern cache, last subject, encoding | compile, exec, clearCache | answers what it was asked; owns its handles | a memo set before its value; index maps both ways |
| exec of the realm | `scripts/test262/host-exec.js` | the RegExp's source, flags, lastIndex | exec | is RegExpBuiltinExec | user code between the reads |
| Match loop of the benchmark | `bench/compare/v8_xbench.mjs` | lastIndex | exec until null | counts what the library's loop counts | empty matches |

Interactions.  The generator's bytecode is read by the backtracker only; the shape of
a loop is recognised again at run time (`isStarConsumePath`) and run by a fast path.  The
backtracker calls tier 0's VM for capture-free lookarounds (LookLinear) through a memo
that lives in the Scratch, with a Budget of what the step limit leaves.  `Regex.exec` calls the tier 0
executors (prefilter, then DFA, then VM) or `Matcher.exec`.  In the harness `run.mjs`
forks workers; a worker runs a test in a realm whose `RegExp.prototype.exec` is
`host-exec.js`, which calls the library through `zregex.mjs`.

What interleaves: in the engine nothing runs in several threads by itself; executions share
one Scratch one after the other (a second one at the same time is refused), and
choicepoints are pushed, cut and resumed in orders no list of tests covers.  In the harness
processes die, answers arrive late and timers race them.

## 2. What is modelled

| Module | Models | Kind |
|---|---|---|
| `Hir` | `ir/hir.zig`: nodes and pure queries | operators (recursive) |
| `CodeGen` | `generator.zig`: HIR to program | operators (recursive) |
| `Backtrack` | `Matcher.exec` with the backtracker | state machine |
| `Ecma` | ECMA-262 22.2.2: the ordered list of ways to match | reference definition |
| `GuardSet`, `GuardStack` | the loop guards with the set that mirrors them; a set of guards in a stack | state machine, its abstract specification |
| `LookMemo`, `LookOracle` | the memo tables in a shared Scratch; the present truth | state machine, its abstract specification |
| `LookBudget`, `Allowance` | the steps of a start position and what is lent of them; one counter | state machine, its abstract specification |
| `ScratchLife` | the life of a Scratch with every allocation failing | state machine |
| `T0Compile`, `T0Corpus` | HIR to Thompson program, closures, first set; small patterns | operators (recursive) |
| `PikeVM` | search, existence test, both passes with captures, one scratch | state machine |
| `Dfa` | both tables and the search over them | state machine |
| `Limits` | `Dfa` and `LookBudget`: the two limits a tier keeps to, side by side | composition |
| `Subject`, `SubjectWalk` | decoding and index maps; a walk over any bytes in both directions | operators, state machine |
| `MatchOracle`, `MatchLoops` | a pattern as its matches; iterator, `findAll`, exec loop | state machine |
| `TestPool`, `DiffParent`, `TaskBoard` | pool of workers; differential parent; what both promise | state machines, their abstract specification |
| `Arbiter` | the arbiter's rounds | state machine |
| `Verdict`, `Discover`, `Baseline`, `ZRegexBridge`, `HostExec` | the components of those names above | state machines |
| `Clients` | these five with `MatchLoops` and `SubjectWalk`: seven machines of one thread each, side by side | composition |
| `MC*` | instances for TLC and comparisons with `Ecma` | TLC instances |
| `BacktrackProofs`, `GuardSetProofs`, `LookMemoProofs`, `LimitProofs`, `ScratchLifeProofs`, `PikeProofs`, `SupervisorProofs`, `ClientProofs` | theorems | proofs |

### Backtrack

`phase` is where the run loop of `backtrack.zig` stands: "exec" dispatches the instruction
at `pc` (`exec1`, one action per opcode, the four forms of SPLIT apart), "back" is
one turn of `backtrack` (one action per kind of choicepoint), and the other four values
are the ways `exec` ends.  `caps` holds the capture slots with the REPEAT_MARK
marks at their tail as `captureSlotsIn` lays them out.  `stack`, `trail`, `guards`,
`positions` are `choices`, `trail`, `loop_guard` and `positions`, `lookTop` is `look_top` plus one
(0 for none).  A choicepoint is the record of heights the code pushes; its field `saved` is
history, read by no action: it keeps what resuming must bring back, for the
property `Restores`.  `NextStart` and `NoMatch` are the loop over start positions of
`Matcher.exec`.  Growth of a stack goes through `Grow`, which is `checkBytes`: an
execution whose stacks would pass `max_backtrack_stack_bytes` ends.  Writing the trail,
the guard and the choicepoint are parts of the actions that do so.

Abstractions: a character is one position of the subject (`Subject` has the widths);
an address is an instruction's index; all consuming opcodes are
"atom" with the set of characters it accepts, BACK_REF apart; `LookLinear` is off as with
`t2_look_linear = false` (`LookMemo` and `LookBudget` model what it adds); allocation does not fail (it
does in `GuardSet`, `LookMemo` and `ScratchLife`).  A greedy star checks the byte limit once its
last end is recorded (`backtrack.zig:699, 712`) and again when its choicepoint is pushed; the model has both as the one check
of the action.

The constants `ChoiceSize`, `TrailSize`, `GuardSize`, `PositionSize` are the sizes of the entries.
`ProgramsAssumption` is what the code generator guarantees of a program (jump operands are
addresses, groups and marks exist, every lookaround has its END); TLC evaluates it on every
compiled program of every run.

### GuardSet, LookMemo, LookBudget, ScratchLife

`GuardSet` has one step per call of `enterBackEdge` or `truncateGuards`, and one step per turn
of the loops inside them (`rebuild` puts the guards one by one, `removeNewest` removes
them one by one), so that the invariants are checked in the middle of the loops as well.

In `LookMemo` executions (`Jobs`) of different expressions over different subjects use one Scratch.
`gen` is `look_gen` and takes `Gens` values (2^32 in the code).  `Recall`, `Evaluate`, `EvaluateBare` are
the ways `lookLinear` answers; `GiveUp` is each point at which it can fail and what it leaves behind.
What tier 0's VM answers is external: `truth`.

`LookBudget` is the arithmetic of the two executors: the backtracker's `steps`, the VM's Budget
(`lent`), and what is charged back when it answers or gives up.  `Allowance` has the one counter.

`ScratchLife` follows the buffers: in the Scratch, with the execution, or nowhere.  Each allocation
of `initScratchInto` and of the run either grows its buffer or fails, and what the code does then
(errdefer, early return) decides where the buffer is.

### PikeVM

A search is the code's loops turn by turn: `Seed` (a start thread, when nothing is recorded and
the first set allows it), `AddThread` with the closure it starts (`CopyMember` copies a precomputed one;
`Explore`, the `Visit...` actions and `Restore` walk one with the explicit stack, an entry per step),
`Consume` and `RecordMatch` (a thread steps or matches), `Advance` (the lists swap).  `lists` are the two
thread lists with stamps and generations; with `capacity` they are all that is left between calls.
A member carries a row of slots.  `SecondPass` runs the same search again over the span in `pass1`, with captures;
"mismatch" is the error the code returns when the two disagree.  The existence test is the
same machine for calls with `want = "exists"`.

### Dfa

A state is its key: the ordered threads, the mark of acceptance and the context.  The
forward table gives the end of the leftmost-first match, the reverse table its start.  When a table passes a
cap, `build` gives up and the program runs on the VM (`PikeVM`).  In code points an index may lie inside a
surrogate pair: `Regex.exec` moves it to the character's start first (`charStart`), so that only
a direct caller of the executor sees that case; the run covers it.

### The harness

`TestPool` has one action per event handler of `run.mjs` (message, timer, exit) and the steps of the
process outside: it answers, dies, or the kill lands.  A message not yet read outlives the
process that sent it.  `DiffParent` and `Arbiter` are made the same way.  In `Verdict` an action is a message to a
worker, in `Discover` a directory's turn in a round, the end of a round, or a file classified, in `ZRegexBridge` a call, in `Baseline` a run of the runner, in `HostExec` the code
between two calls to user code, in `MatchLoops` one execution.  A pattern in these is what it matches:
a function from start to end (`MatchOracle`) or a set of characters.

In `Verdict` a test is the sequence of its executions of a regular expression, its harness files' first, each with what
follows from the library's answer and from V8's (go on, throw, hang).  Whatever a harness file throws is
`harness_error` (`worker.mjs:96-97`), missing, not parsed or broken by the library alike, and no control run follows one (`worker.mjs:158`).

In `HostExec` `lastIndex` may hold any kind of value: a number on either side of the subject, a BigInt, or one that no conversion
makes a number.  A call ends with an error when ToString of the argument or the conversion of `lastIndex` throws, or when
the bridge does (`host-exec.js:99`).  User code runs between the reads and may move `lastIndex` or recompile the RegExp.

In `MatchOracle` nothing starts or ends between the halves of a pair.  V8 can match the empty string there under `u` and `v`
(`docs/LIMITATIONS.md:83-95`); the loops of `MatchLoops` that run on V8 would advance past such a match as past any empty one, but the
model has none.

## 3. Runs

| Run | Question | Bounds |
|---|---|---|
| `backtrack` | do the stacks stay consistent, is the answer ECMA-262's, does a limit never change an answer, does every execution end? | 30 patterns, all subjects of up to 4 letters from every index, sticky or not; 10 patterns again on subjects of up to 3 with step limits 0 and 12 and byte limits 0, 100, 180, 260 |
| `possessive` | are possessive quantifiers atomic, as the comments say? (violated) | two patterns |
| `guard_set` | does the mirror answer as a scan of the stack? | 5 keys in colliding slots, threshold 1, tables of 4 slots and up |
| `look_memo` | is the memo transparent? | 2 jobs of one and two lookarounds, positions in one and two bytes, numbers of 3 values |
| `scratch` | is a buffer in one place, do warm runs allocate nothing? | 2 threads, 3 programs that want different buffers, any allocation failing |
| `scratch_lost` | does a failed initialisation keep the buffers? (violated) | the same |
| `pike` | are spans, captures and existence ECMA-262's, with reused lists? | the corpus of `T0Corpus`; fresh scratch: subjects of up to 3; one scratch for any number of calls: subjects of up to 1, step limits 2 and none; stamps wrap at 3 |
| `limits` | do both executors draw on one counter? are the two tables right, or not built? | 7 steps, costs 1 to 3, 3 start positions; the corpus of `T0Corpus` in code units with and without a skip, subjects of up to 3; six patterns in code points over a letter and the halves of a pair; caps 1024 states and 32768 cells, 9 and 30 |
| `supervisors` | does each of the three supervisors keep its promise and get to its report? | 4 tests, 2 workers recycled after 2 answers; 4 cases of 2 subjects; 3 lines |
| `test_pool_crash` | is a crash recorded for the test that caused it? (violated) | 3 tests, one worker |
| `uncontrolled` | is every failure run a second time, as the harness's README says? (violated) | the tests of `clients` |
| `clients` | the ten promises of the seven single-threaded clients | in `MCClients`: two tests in a row, with harness files that throw in one realm, in both or in neither; three directories; two revisions; six subjects in two encodings; `exec` with two patterns on one pair of units, `lastIndex` below, inside, at the end, past it, a BigInt, and one that does not convert; loops over a subject of length 5 with a pair; up to 4 arbitrary bytes |

Why these bounds.  Four letters let the outer of two nested loops go round three times and each
inner one twice, which is what it takes for a capture of an abandoned iteration to be
seen by a later one; the corpora hold the shapes of the code generator (each
quantifier form in each policy, alternation, nullable bodies, captures inside loops,
lookarounds inside loops and inside each other, backreferences to open and unset groups).  The byte
limits are two to six entries: every growth site is the one that hits the limit in some execution.
`GuardSetMin` is 64 and `MinSlots` 256 in the code; 1 and 4 in the run keep
the same ratios (a table at most half full, one removal scheme on each side of `Sparse`) with
few keys.  Three numbers of `look_gen` are the fewest at which a table can be current, one execution old
and older than a wrap; three stamps of a thread list (2^32 in the code) wrap within one call.  The DFA caps of 9 states
and 30 cells fall in the middle of the corpus: some patterns fit, some
pass one cap, some the other.  Two workers with two answers each make a slot be recycled, killed and
idle while the other still works.

Three runs put several machines into one module.  `MCSupervisors`, `Limits` and `Clients` (which `MCLimits` and `MCClients` give small instances) hold
components that never run together: the variable `part`, chosen at the start, says which one the behaviour is of, and the
variables of the others stay as they are.  Nothing is shared, so the states are the sum and not the product of the parts'.

`CHECK_DEADLOCK FALSE` where an execution really ends: `exec` returns, a report is written, a runner
exits.  The guard run checks deadlock: a call must always be possible.

Fairness.  `Terminates` (in `backtrack`) is under weak fairness of `Next`: the run loop of `backtrack.zig` is a
`while (true)` in one thread, and as long as `exec` has not returned it takes its next step.  `LoopsEnd` is
under weak fairness of the loop's next execution: the caller keeps calling.  `EachEnds` is under weak fairness of
the handlers of an event loop and of the kernel's delivery of a kill: messages, timers and exits that are due are handled.
There is none on a worker's answer, which may hang, nor on the arbiter's V8; the differential's parent has no timeout, so there
(and only there) a comparison is assumed to end in an answer or a crash.

## 4. What the runs show

**The backtracker.**  `ResultIsEcma` compares the whole
answer (start, end, every capture) with the ordered list of matches that ECMA-262 defines; `EmptyCheckSuffices` says more than
the code promises: after the empty check the loop guard never has to refuse a backward GOTO.

**Abstract specifications.**  `GuardSet` implements `GuardStack`; `LookMemo` implements `LookOracle` (asking tier 0
every time); `LookBudget` implements `Allowance` (one counter per start position); `TestPool` and
`DiffParent` implement `TaskBoard` (every task is decided once, by a verdict about itself, and
the report is written by the step that decides the last).

**Tier 0.**  `ResultIsEcma` and `ExistsIsEcma` (the VM with and without captures, the existence test) and
`SpanIsEcma` (the DFA) compare with the same reference as the backtracker.  `ListsExact`: membership by
stamp is membership.  `ClosureUnwinds`: when a closure is done every slot is what it was.  `PassesAgree`:
the error the code returns when the second pass disagrees with the first is never met.
`StartsNeverLater`: a recorded match is never replaced by one of a later start.

**The harness.**  `AnswersStay` and `NoneMissing` (arbiter), `ReportsAddUp` (differential and arbiter), `BlameExact` and
`LikeFresh` (verdict), `SampleDecided`, `NeverForgotten` (baseline), `AnswersOwn` and `HandlesOwned` (bridge), `IsBuiltinExec`
(exec), `WalksAgree` (subject), `EachMatchOnce`.

`BlameExact` says where the control run puts the blame, and no more than it can: a test whose harness the library breaks is a harness
error, which blames nobody (the run `uncontrolled`).  `IsBuiltinExec` compares with RegExpBuiltinExec of ECMA-262 (22.2.7.2) except for three things
the code does in its own way, which the property states as the code has them:

- the source and the flags are those read before ToString and ToLength (`host-exec.js:81-82, 88`), where the standard reads them last, so that
  user code that recompiles the RegExp under way has no effect on the call;
- a match found from a `lastIndex` inside a pair has the pair's start for its `index` (`host-exec.js:105, 111`), where the standard has `lastIndex` itself;
- a BigInt `lastIndex` counts as its number (`host-exec.js:48`), where ToLength throws.

`AnswersOwn` leaves out the calls that come while a failed encoding is pending (`ranOut`), so it says nothing about the step of `zregex.mjs:173`.
`WarmRunsFree` speaks of programs that are warm, and a failed initialisation makes all cold: what it costs is shown by `scratch_lost`.

Disagreements between the code and its comments, each shown by a run:

- `possessive`: `a?+a` matches "a".  `generatePossessiveQuestion` emits
  `SPLIT_POSSESSIVE consume, skip`, and outside the single-atom star path the backtracker
  treats it as any SPLIT: the skip branch is pushed and resumed.  The comment at
  `generator.zig:674` says "without backtracking".  And `(?:ab)*+` matches the empty string in "ab":
  `SPLIT_POSSESSIVE end, loop` has the way out as first operand, which the star path ignores for a
  single atom but the general path tries first.
- `scratch_lost`: when the capture slots cannot be allocated, the two buffers `initScratchInto` has taken by then are
  neither given back nor freed (`core.zig:283-288`, `matcher.zig:204-210`).
- `uncontrolled`: a test whose harness files plain V8 runs and the library breaks is a harness error without a second run
  (`worker.mjs:96-97, 158`); `scripts/test262/README.md:152` says that "Every engine entry that doesn't pass with zregex is run a second time
  in a plain V8 realm".
- `test_pool_crash`: an answer that arrives after its timer fired is credited, and the next test
  goes to the process that is being killed; it is recorded as a crash it did not cause (`run.mjs:230, 265`).

Seen while modelling and kept as hazards or in the models, without a run of their own:

- the generator counts repeat marks in 16 bits (`generator.zig:430`); 65,536 unrolled copies of a nullable iteration would overflow;
- the three differences above of `host-exec.js` from RegExpBuiltinExec, of which its header (lines 1-3) says it is an implementation;
- `zregex.mjs:173` sets the memo of the last subject before its encoding exists; when the encoding cannot be made (out of
  memory), the next execution on that string is answered from the encoding of an earlier one.  `ExecRunsOut` has the step,
  and `AnswersOwn` speaks of executions after which no such failure is pending (`ranOut`);
- `pfdiff-arbiter.mjs:67`: a result delivered after the timer arms the timer of a worker that is gone, which later marks a
  line a new worker is on; a later answer overwrites the mark (`AnswersStay`), so it costs time and not results;
- `run.mjs:22` says of `--update-baseline-improvements` that a disappeared entry fails the run without writing anything; the check
  it runs first lets disappeared entries pass when the test262 revision changed (`Disappeared`, `shaChanged`);
- `budget.zig:5` says "the whole execution draws on a single allowance"; the allowance is per start position.

## 5. What is proved

Eight modules hold theorems; the assumptions are those named in the modules (`...Assumption`), all evaluated
by TLC on the runs.  Those of `Clients` are one per part (`TestsAssumption`, `LibraryAssumption`, `ExecAssumption`,
`LoopsAssumption`, `WalkAssumption`, `FilesAssumption`, `StringsAssumption`), so a theorem about one part rests on its own only;
those of `LookBudget` and `Dfa` are in `Limits`, which TLC evaluates.

**The backtracker's stacks** (`BacktrackProofs`).  For every set of
well-formed programs, of subjects and of limits, and every size of the stack entries: `TypeOK`, `Nested`,
`Restores`, `LookChain` and `WithinLimit` hold in every reachable state.  The assumptions are
`ProgramsAssumption`, `InputsAssumption` and `LimitsAssumption` of `Backtrack`.

None of the first four properties is inductive alone.  `Restores` speaks of a trail undone to a height, which
means nothing unless the height is on the trail (`Nested`); `Nested` is kept by a greedy star only if
the positions it will still read lie above every older alternative's (`Floor(c) <= Base(d)`); and popping a lookaround's
barrier keeps `LookChain` only if each alternative remembers the barrier under *itself*.  The inductive invariant
`IInv` is the conjunction of them with the types, written as an operator `Inv` on the six components
(captures, choicepoints, trail, guards, positions, barrier) rather than on the variables, so that the code's
operations become lemmas about it that compose:

| Lemma | Operation of the code | Argument |
|---|---|---|
| `WriteInv` | `setCapture` | `UndoneWrite`: a recorded write does not change what an undo to a lower height brings back |
| `GuardInv`, `ExtendInv` | a guard or recorded ends are pushed | a prefix does not see what is pushed above it |
| `PushInv` | a choicepoint is pushed | its heights are the tops, so all older ones are under it |
| `CutDownInv` | the stacks are cut to a choicepoint | the older ones' heights survive; `UndoInv` (captures undone) and `KeepInv` (kept) are its two instances |
| `PushBackInv` | a star is resumed and put back | it asks for no more than it asked for before |

`UndoneTwice` (undoing to a height and then to a lower one is undoing to the lower one) carries `UndoInv`.  That a repeated
atom's ends lie in the subject (`EndsInSubject`) needs that repetition stops: each one moves by at
least one character (`AtomsEnd`), so within the subject's length one fails, and the first that does exists because
the naturals are well-ordered (`LeastNat`).  `BacktrackProofs` has one lemma `...Keeps` per action.
`WithinLimit` is inductive relative to `IInv`: pushing is checked, and every cut or resume gives
stacks no higher than before, whose bytes are no more (`LowerFits`: a monotone sum of products, with the guards counted twice
past `GuardSetMin`).

**The loop guards** (`GuardSetProofs`).  For every set of guards, every hash of them, every threshold and choice of table
lengths: the set holds what the stack holds (`MirrorsStack`), a probe finds what is there (`Searchable`), and `GuardSet`
implements `GuardStack`.  The invariant speaks of a table with the first *m* guards of the stack, oldest first
(`Holds`): a guard's probe only crosses older guards.  That is what makes removing without tombstones right: the
newest guard is the one no other's probe crosses.  *m* moves with the loops that put and remove guards one by one, so the invariant
holds in the middle of them.  `HalfFree` (more slots than guards) gives every probe a slot to stop at, and with it the
`CHOOSE` in `Find` a value.
For the refinement, every turn of a loop but the last of a removal leaves the stack as it was, and a call does to it
what a scan would (`StepIsScan`).

**The memo** (`LookMemoProofs`).  For every set of executions, every number of programs, positions and values
of `look_gen` (at least two): `Covered`, `NeverStale`, and `LookMemo` implements `LookOracle`.  The inductive invariant adds
`GensPast`, that no table carries a number still to come, which is what makes a fresh number
fresh and what the clearing at the wrap restores; and, per table, that its verdicts lie in the
range it will clear (`MemoInv`).  The refinement maps the variables to themselves: each
action is the abstract action that asks for the truth, because the recalled verdict is it (`True`).

**The thread lists** (`PikeProofs`).  For every well-formed program, call and width of the generation counter: `ListsExact` holds, and
no list and no stack of pending branches passes the capacity the code reserved and fills without a
check (`BuffersSuffice`).  A stamp equal to the generation must mean a member, so the invariant says that no
stamp is from the future (`GoodList`), which the wrap would break without its clearing (`ClearedGood`).  The stack's bound
(`Stacked`) is that the first pass pushes at most one branch per member it inserts, so its height follows the list's
length, and a list has no pc twice (`GoodListFits`: an injection into a finite set).

**The rows** (`PikeProofs`, `RInv`).  When a closure is done every slot is what it was (`ClosureUnwinds`), and a recorded match is
only replaced by one of no later start (`StartsNeverLater`).  For the first, undoing the pending frames from any point of the
walk gives the slots the closure began with (`UndoneTo`: for each slot, the oldest frame about it has the value);
a frame is pushed with every write, so pushing keeps it (`UndonePush`) and popping is its definition.  For
the second, the threads of a list are in the order they started, the list being filled comes after the rows already
copied, and the thread stepped is the earliest left (`InOrder`).

**The step limit** (`LimitProofs`, `LookBudget` being its instance `B`).  For every limit and cost: while a VM runs, the steps before it and what it was lent
make up the limit (`IInv`), so no subtraction wraps (`LendsWithin`) and the refinement of `Allowance` holds, with the
mapping `spent = steps + (before - remaining)` while the VM runs.

**The DFA** (`LimitProofs` as well, as `Limits` extends `Dfa`).  For every program, every caps and every finite
code space (`CodeSpace`, the assumption of `Dfa`):

- `TablesAlwaysFit`: the tables that are kept are within the caps, both together.  The code compares sizes before it fills a
  row, never after the last one, so `TablesFit` is not inductive.  `TablesInv` adds that filled rows are of interned
  states, that a state interned with no row is still to come while the table is built, and that both tables fit whenever the
  reverse one is complete: the row that completed it interned nothing, so the comparison before it still holds;
- `LookupsAlwaysFilled`: a search never looks up a row that was not filled or a column a row does not have, which in the code
  is an index into one array.  A row leads to interned states or to the dead one (`Rows`), the starts are interned
  (`ForwardStarts`, `ReverseStarts`), and a search stands in the text and in an interned state (`SearchInv`); a part
  of a pair (`PartIs`) is a character of the code space.

**The Scratch** (`ScratchLifeProofs`).  For every set of threads and programs: the flag is up exactly while an execution has the Scratch
(`FlagTells`), no buffer is in two places (`Exclusive`), and an execution of a program the
Scratch is warm for allocates nothing (`WarmRunsFree`).  The invariant of the first two adds that at most one
execution is busy and says where the buffers are at each point of its life (`Places`).  That of the third (`WInv`)
says that wherever a buffer is (kept or held), it is as large as every warm program needs, unless an allocation
failed since, which is when a program stops being warm.

**The supervisors** (`SupervisorProofs`).  The pool: for every number of tests, workers and answers per worker: a held test is watched by a timer or a
condemned process (`Watched`), an undecided one handed out is held by exactly one slot (`HeldOnce`), a retired worker is
idle (`RetiredIsIdle`), and `TestPool` implements `TaskBoard`.  The invariant describes one worker object by itself
(`WorkerInv`: its channel carries its own task, on one side only), ties `done` to the number of results (`Counts`), and says tasks not
handed out have none (`Ahead`).  One lemma is about `feed`, which three handlers end in (`FeedFeeds`, `DecideStep`).


The arbiter, for every number of lines: `NoneMissing` and `AnswersStay`.  The results in the port are of consecutive lines, up to
the one its worker is at, and the first of them is never past the line waited for (`ArbiterInv`); so a result only
ever comes for a line that has none or was given up.  The differential parent, for every number of cases and subjects:
it implements `TaskBoard`, the case in flight being the one between those charged and those to come (`ParentInv`), and
its report adds up (`ReportsAddUp`), each case adding to the counters what its answer may hold (`TallyInv`, `InBounds`).

**The clients** (`ClientProofs`).  A step of `Clients` moves one part's variables, so each part has an invariant of its own.

| Theorem | For every | Argument |
|---|---|---|
| `NeverForgottenAlways` | set of files, revisions, statuses and sequence of runs | each of the three ways to write keeps every recorded pass, or the run that does not exits with an error (`BaselineInv`) |
| `HandlesOwnedAlways` | set of patterns, flags and sequence of calls | live handles and cached patterns are in bijection; there is always a handle to give, as handles are one more than keys (`HandleLeft`: cardinalities) |
| `LikeFreshAlways`, `BlameExactAlways` | test, of any number of executions in its harness files and its body, with any outcomes | the result is a function of the test alone (`Said`), whatever the counters stand at: the two readings of a counter differ by what the test did.  A harness that throws ends the run before its body, so the blame is read off the body's outcomes alone |
| `EachMatchOnceAlways` | subject, pattern (as its matches) and each of the three loops | what is not yet reported starts where the loop will look next (`Behind`); an empty match moves the loop by one character, which passes over no start |
| `IsBuiltinExecAlways` | set of patterns, subject, list of names, value of `lastIndex` and interleaving of user code that throws or recompiles | the recursion over attempts is the least attempt that matches (`TrialIsSearch`), the fold over names is its closed form (`GroupsKnown`) |
| `SampleAlwaysDecided` | tree of test files with any metadata and size of the sample | every directory has given what the rounds so far give, or all it has, and one file more if its turn has been (`Given`), so the numbers of two directories differ by one at most; a list has no file twice, so the sample's length is the sum of them; each mode of each file passed is one task or one result, and file and mode tell them apart (`Once`, `KeysApart`) |
| `AnswersOwnAlways` | set of patterns, set of strings of 16-bit units (pairs and lone surrogates anywhere), either encoding and sequence of calls | below |
| `WalksAlwaysAgree` | sequence of bytes, well formed or not | where the walk stands is inside no sequence, or between the halves of a pair when units are read (`Standing`); sequences cannot overlap, since no byte both starts and continues one (`Inside`), so at most one ends at a position; the index in units meets every position because it goes from each to the next (`NextUnitIs`) |

Several functions in the models of the clients are recursive over the naturals (`H!Trial`, `H!groups`, `ByteOfUnit`, the
tables of `unitToByte`, `EncodedBytes` and `Attempts`).  They are not
`RECURSIVE` operators but functions, and what they compute is proved from the least number at which it would fail
(`LeastNat`, which the library proves from the well-foundedness of the naturals); that the function exists is shown by
a closed form of it or by extending a shorter one (`TurnsExist`; `Recursion`, once for all the bridge's).

`AnswersOwnAlways` is the longest of them, and goes by layers, each a lemma for every string of 16-bit units:

1. a code point, a lone surrogate too, is read back from the one to four bytes it is written in, whatever stands around them
   (`WrittenIs`, `ReadAgain`);
2. the bytes of a unit are in the text from the place the sums of lengths say (`EncodedIs`), the offsets of the indices
   increase strictly and end with the text (`OffsetsAre`), and the second unit of a pair, and no other, is the middle of four
   bytes (`MidAt`);
3. so one character read at an index and at its offset has one value and ends at an index and at its offset (`Crosses`),
   the attempts of an execution start at the same indices (`AttemptsCross`), and the first that matches is the same
   (`LibraryCrosses`);
4. the table of the way back undoes the strictly increasing one (`BackToUnit`), so the span comes back in indices (`SameAnswer`);
5. what is remembered is the encoding of the last subject unless a call ran out of memory (`Remembered`), and the handle is
   the pattern's own (`HandlesOwned`), so an execution answers what it was asked (`AnswerInv`).

Only model-checked, with the reason:

- liveness (`Terminates`, `LoopsEnd`, `EachEnds`): fairness and `ENABLED` are out of the prover's reach;
- every comparison with ECMA-262 (`ResultIsEcma` of the backtracker and of the VM, `ExistsIsEcma`, `SpanIsEcma`, `EmptyCheckSuffices`): they are
  about what `Ecma`, `CodeGen` and `T0Compile` compute, which are `RECURSIVE` operators over patterns;
- `PassesAgree` of the tagged VM: it relates two searches one after the other, step by step, of which the state only has
  one; a proof needs the first one's lists as a history and the precomputed closures shown to be the walked ones.

## 6. Plan

Done: the backtracker with its generator and reference; guards, memo, budget and Scratch; the tier-0 compiler,
the VM with both passes and the DFA; subjects and loops over matches; the harness.  Next, in this order:

1. The VM's inner skip and the literal prefilters against the plain search: a candidate never lies past a match.
2. Shift-And against the VM (a state is a set of positions, in one machine word).
3. Label patching of the bytecode; `CharSet` algebra against sets of characters.
4. LookLinear inside the backtracker: `Backtrack` with delegated sites, composed with `LookMemo` and `PikeVM`.

## 7. What is not modelled, and why

- Front end, classifier, CharSet and Unicode tables: conversions of text and data without an order of events; the trees
  and sets they produce are inputs here.
- Bytecode format: a jump is an address in every module, and `ProgramsAssumption` says it is one.
- C API and command line: conversions around one call of `Regex` each.
- Prefilters, the inner skip, Shift-And: searches over bytes that keep nothing between calls; only the first set is here (`T0Compile`).
- Within modelled components: which lookarounds are delegated (`linearSites`), the filling of result slots,
  the text of a replacement, the error a negative answer of the library gives (`zregex.mjs:200`), a throw between getting a handle and caching it
  (`zregex.mjs:159-167`), ToString of a Symbol, a `lastIndex` that cannot be written, a result's `input` and `indices`, the numbering of DFA states and its table for ASCII, the cuts of a reverse search, timing and tables of the
  benchmarks, the walk over a test262 checkout, a baseline file cut short by a crash of the writer.
- The race of two threads between the two lines of `Scratch.acquire`: the flag is not atomic and the
  code does not claim to be safe there.
- The lookbehind differential, the corpora, the literal of a parse test and the report filters: single passes over lines, without a
  state beyond counters.

`PROJECT.json` (`components`) has the status of every part.
