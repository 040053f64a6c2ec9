# A TLA+ development of njavac

njavac (`crates/`, Rust) compiles a subset of Java 25 to class files that are
meant to be byte-identical to those of a pinned `javac`. Around the compiler the
repository keeps a differential fuzzer with two long-lived JVM workers, a class
dump and diff tool and a benchmark. This directory models the compiler and the
tools beside it, checks the models with TLC, and proves theorems about eight
of them with TLAPS.

```
tlc -workers 2 -config compile.cfg MCCompile.tla      # any run; PROJECT.json names them
tlapm EmitterProofs.tla
```

## 1. The system

Paths below are under `src/`; `compiler/` stands for `crates/njavac-compiler/src/`,
`fuzz/` for `crates/njavac-fuzz/src/bin/fuzz/`, `bench/` for
`crates/njavac-benchmark/src/bin/benchmark/`.

| component | state it keeps | operations | interacts with | what makes it correct |
|---|---|---|---|---|
| lexer (`compiler/lexer*`) | position and line in the text | next token, skip trivia | parser | the tokens and lines of the JLS |
| parser (`compiler/parser*`, `ast.rs`) | token cursor, arenas | one function per production | semantic analysis | the tree precedence and associativity demand |
| semantic analysis (`compiler/sema*`) | scopes, slots, assigned locals, reachability, verifier locals, a snapshot per statement | declare, assign, read, branch, join | preflight and lowering | accepts exactly the definitely assigned programs; every snapshot is true at its point |
| preflight (`compiler/codegen/preflight.rs`) | none | one predicate per syntactic category | must agree with lowering, file against file | refuses exactly what lowering would assert on |
| lowering (`compiler/codegen/lowering*`, `condition.rs`, `constant.rs`, `ops.rs`) | the pending condition item, the installed snapshot | statement, value, condition, chains | assembler and pool | the code does what the source means; frames and lines belong to the right statement |
| assembler (`compiler/codegen/assembler.rs`, `instruction.rs`) | instructions with tombstones, labels, frame requests, line events, pending line, depth | emit, place, retarget, request frame, reset, finish (compact, lay out, narrow or fat, encode) | called by lowering; produces the `Code` attribute | compaction ends and keeps control flow; every jump lands on a frame; rows are ordered |
| constant pool (`compiler/classfile/pool.rs`) | entries, index map, texts, next index | intern, look up, serialize | lowering interns, the writer interns and then only looks up | indices are stable and disjoint; order is javac's; every child is present |
| classfile writer (`compiler/classfile/*.rs`) | the buffer, the frozen pool | intern structure, write | the plan and the pool | no lookup misses; the bytes read back as meant |
| class dump (`crates/njavac-classdump`) | position in the file | read, resynchronize, compare | used by tests and the oracle | takes a file apart without a rest |
| compiler driver (`compiler/lib.rs`, `codegen.rs`) | the phase | lex, parse, analyze, plan, emit, clean up | runs the above in order, tells an observer | a program is turned down, or its class behaves as the source |
| program generator and renderer (`fuzz/generate*`, `render.rs`) | random state; text | generate; render | lexer and parser read what it writes | what is rendered is the program meant |
| javac worker (`fuzz/javac.rs`, `tools/FuzzJavac.java`) | child and pipes; classes opened | compile a batch | lock-step pipe protocol | a missing class means a rejected unit |
| execution observer (`fuzz/observe.rs`, `tools/FuzzObserve.java`) | driver: child and pipes; worker: `System.out`, class threads, buffers | observe a pair, restart, drop; read, run one class, time out, reply, halt | two processes over two pipes, threads inside the worker | honest answers in the right order; no leaked output; no endless wait |
| fuzz run and oracle (`fuzz/run.rs`, `oracle.rs`, `finding.rs`) | tallies, signatures, files | classify, count, report, stop | all of the above | every case counted once; the exit code tells hard findings |
| minimizer (`fuzz/minimize.rs`) | current program, spawn count, a shared directory | remove, reduce | javac and njavac | ends; keeps the finding; minimal |
| benchmark phase attribution (`bench/phase.rs`, `measurement.rs`, `benchmark_alloc.rs`) | validator, counters of the allocator, phase under way | phase events, allocate, free, accept | the compiler's phase observer | an accepted profile is true |
| benchmark run and report (`bench/main.rs`, `correctness.rs`, `report.rs`) | directories of classes, report file | record, compare, measure, publish | compilers, the file system, other invocations | success is true of the sources; a report is published whole, once |
| command line, spans, diagnostics, hashing, worker self tests, statistics | none worth a model | | | |

What is hard here: decisions made twice (preflight and lowering, semantic
analysis and lowering, the two passes of the writer, the precedence tables of
renderer and parser) that must agree; anchors (labels, frames, line events) that
outlive the instructions they point at; a fixpoint that must end; boundaries of
16 bits and of wrapping counters; and, around the compiler, abandoned threads in
a process whose standard output is shared, a retry with swapped roles, workers
that die or fail half way, directories and files that earlier or simultaneous
runs left behind. `PROJECT.json` lists each hazard with its line.

## 2. The modules

```
                Assembler -> Emitter -> EmitterProofs, MCEmitter
                    |
JavaSource -> Sema -+-> Lowering, Jvm -> Compile (implements SourceRun) -> MCCompile

Ascii -> Lexer, Renderer -+
                 Parser --+-> FrontEnd (against JavaLexis) -> MCFrontEnd

ConstantPool (implements SlotTable) -> MCPool
      |
      +--- StackMap, Ascii -> ClassDump ---> ClassWriter -> ClassFileProofs, MCWriter

ObserveWorker (implements PairObserver) -> ObserveWorkerProofs, MCObserve
                             |
JavacWorker -> FuzzRun (uses PairObserver, implements Campaign) -> FuzzRunProofs, MCFuzz
Minimizer -> MinimizerProofs, MCMinimizer
PhaseProfile -> PhaseProfileProofs, MCProfile
ReportPublication (implements Publication)
         |
         +-> Benchmark -> BenchmarkProofs

FiniteFolds -> EmitterProofs, ClassFileProofs, FuzzRunProofs, PhaseProfileProofs
```

**The compiler.**

* **Lexer** - one step for each token and each kind of trivia, over a text of
  characters; **Ascii** holds what is known of characters. **JavaLexis** is the
  lexical grammar of the Java Language Specification, written as sets of
  spellings and longest matches, without a lexer in it.
* **Parser** - the recursive descent and its binding powers, from tokens to the
  tree. **Renderer** - the fuzzer's way back, from a program to its text: literals,
  precedence, parentheses, statements, mixed line terminators. **FrontEnd** puts
  them in a row.
* **JavaSource** - the tree (from `ast.rs`) and, as an external reference, what
  the Java Language Specification says it means: evaluation, output with the
  line of each call, constant expressions and definite assignment.
* **Sema, Lowering** - the analyzer and the code generator as operators on
  records; **Jvm** - an external type-checking verifier and an interpreter in
  which an uninitialized slot holds any value.
* **Assembler** - the instruction forms lowering emits for the
  modelled subset, and the emitter as a record with one operator for each method
  of `assembler.rs`. Positions are 1-based; a tombstone is `live = FALSE`. A
  failed debug assertion is added to `em.asserts`, a failed release assertion to
  a set of panics, so runs can tell them apart.
* **Emitter** - the same operators as a state machine: a client records
  instructions, branches, chains, frames and lines in any order lowering could,
  then `finish` runs round by round. The client keeps lowering's discipline (a
  chain is pending or resolved, all are resolved before `finish`, no instruction
  after an unconditional branch except at a resolved label), and that is all it
  is assumed to do.
* **Compile** - one compilation and the life of the class, one action for each
  phase and for each JVM step. **SourceRun** is the promise without a compiler in it.
* **ConstantPool** - `intern` stepped: `Intern` allocates the root, `VisitEntry`
  takes an entry off the queue, `VisitChild` allocates one child. The 16-bit
  index is `IndexSpace`; the release build wraps, which sets `overflowed`, and
  every property is about the pool before that. **SlotTable** is the promise.
* **StackMap, ClassWriter** - frame forms, the buffer with its
  modified UTF-8, and `to_bytes`: the interning order, the frozen lookups
  (index 0 stands for the panic of a miss) and every byte of the file with its
  measured lengths. **ClassDump** is the repository's own reader, written apart
  from the writer; it reads what the writer wrote. The fields it lists one
  after another are kept as the tree their paths spell. A reader is a function
  of the position it starts at and returns a tree and the position behind it, 0
  for an error. The sets `Methods` and `ClassFiles` are the structures of
  `model.rs`, with u16 fields and lists a u16 can count.

**The fuzzer.**

* **ObserveWorker** - driver, worker loop and class threads. `System.out` is one
  variable; a class thread first fetches it and then writes, the deadline
  replaces it and then takes the snapshot, each as a step of its own.
  **PairObserver** is the promise.
* **JavacWorker** - both ends of the pipe and javac's progress through a batch.
  A failure inside javac is swallowed and leaves a class half written and the
  rest missing; the JVM may die at any step.
* **FuzzRun** - batches, the oracle's precedence, tallies, the two maps of
  signatures, the files of findings, the stop and the exit code. Of the observer it
  uses only the promise that `ObserveWorker` is shown to keep, and that it may
  not come up or break (`LoseObserver`), on which the driver panics. The disk may
  refuse any source of a finding: of a compiler finding, a scheduled failure or a
  dumped program the error is dropped (`Report`, `unwritten`), of a behavior
  finding it is a panic (`LoseBehavior`). A case whose own class was lost in a
  swallowed failure, or whose observation was cut off at the deadline, is marked
  `doubtful`: the code cannot tell it from an ordinary one, the property
  `ExitHonest` excepts it. **Campaign** is the promise of a run.
* **Minimizer** - the reduction as it exists in the repository, in the self test
  (`selftest`, `minimize_selftest`). A statement stands for the removable
  parentheses in it; whether javac accepted is read from a directory all
  attempts share.

**The benchmark.**

* **PhaseProfile** - the compiler announcing its phases, the validator of their
  order, the counting allocator with its wrapping counters, the observers of
  time and of allocation, and the acceptance of a profile. The history variables
  hold what really was used.
* **ReportPublication** - writers of one destination, each file operation a step
  that may fail or be the last before a kill. The removal of a temporary file may
  fail as well: the error of the preflight's is returned, with the file left
  behind, those of `remove_after_publication` and of the `Drop` are ignored and
  change no outcome (`NotRemoved`, and `refused` remembers it). **Publication** is
  the promise.
* **Benchmark** - invocations with their plans of tasks (remove, compile, check,
  compare, measure, preflight, publish), composed with `ReportPublication`, while
  sources are edited. A compiler may fail or leave a class out (`CompilerFault`); a
  class may be impossible to remove or to read (`FileFault`).

The helpers that end in a word for what is wrong with them (`EmitStaleDepth`,
`RemoveNone`, ...) are deliberately broken variants, each beside the definition
it would replace; no specification uses them. `PROJECT.json` pairs each with the
property that detects it.

## 3. What is checked

| run | instance | what it shows |
|---|---|---|
| `compile` | five families: `ConditionPrograms` (an `if`/`else`, a store and a print of every boolean expression of depth 1 over two locals and two literals, every unary operator on one of those, `&&` and `\|\|` of one with a leaf), `ValuePrograms` (values above a live `System.out`), `NestedPrograms` (ifs in both arms: live, constant and code-free conditions), `LatePrograms` (locals assigned late, on some paths, with a `long` hole), `JoinPrograms` (arms that end with different locals); `MaxOffset = 26` | semantic analysis is exact about definite assignment; preflight refuses exactly what lowering cannot express; no debug assertion but those of section 5; classes verify, give each call its line and print what Java prints, through narrow and fat branches |
| `emitter` | up to 5 instructions and 3 labels, `MaxOffset = 6`; recordings with line events up to 4 instructions and 1 label (`ShortWithLines`) | compaction ends, is complete and harmless; after every round of either attempt live branches lead ahead to live instructions with frames; encoded jumps land on frames; line rows are ordered |
| `pool` | intern calls while there are fewer than 4 entries, 3 interchangeable texts, two NaNs, `IndexSpace = 10` | pool invariants up to and across the boundary; the pool is a `SlotTable` |
| `writer` | class files whose names collide with structural texts, pairs of frames over 7 locals and 2 stacks at deltas around 63, a literal with the units at every boundary of modified UTF-8, each after every single operand lowering may intern | the bytes read back as what was meant; frames take their smallest form; the two passes agree |
| `front` | all texts up to 4 characters over operators and terminators, digits and suffixes, quotes and escapes; every operator beside and inside every other; literals at both ends of every range (`IntBits = 8`, `LongBits = 10`) | texts are lexed as Java's lexical grammar has it; what is rendered is parsed back to the program |
| `observe` | four classes (returns, throws, does not load, prints and hangs), 2 pairs, at most one kill of the worker at any step | safety, honest answers, every question answered unless the worker is killed, no endless wait |
| `fuzz` | 3 programs, batches of 2, 9 combinations of the compilers' verdicts, 1 scheduled program, 1 unsupported dump, 1 fault of the javac worker, an observer that may be lost, any file refused | the exit code is true of the programs and a panic no verdict; a finding is lost only with a file the disk refused; `Campaign` is implemented |
| `minimize` | bodies of up to 4 statements with declarations and nested parentheses, 2 tries, a cap of 12, every answer of both compilers | the result is a really accepted reduction, minimal below the cap; the search ends |
| `profile` | 2 compilations, counters modulo 16 that wrap within a phase or a drop, blocks of 1 and 4 bytes, 2 allocator calls, 3 ticks | an accepted profile is true; a clean one is accepted |
| `bench` | 2 invocations in any mode at the same time or in turn, 2 fixtures, 2 slots, 1 edit, 2 faults (of compilers, class files, or kills), any operation on a report failing | success is true of the sources; a report is published once |
| `v_goto_frames`, `v_verify` | see section 5 | violated |

**The bounds.** Conditions of depth two contain every pair of an outer and an inner
operator, which is what `CondItem` distinguishes: its verdict, its two chains
and its provenance are set by the inner one and consumed by the outer. An if in
an if gives gotos over gotos and joins that meet; three statements after it do
not change what compaction sees. `MaxOffset` replaces 32767: at 26 the short
programs fit narrow branches and the longer ones of each family fall back to fat
ones; the inequality and the lengths are those of the code. Five instructions
with three labels contain a goto chain of two links, a chain into a deleted goto,
and a dead one behind it; line events need neither. A method of 257 bytes makes
lengths and offsets exceed one byte. Two pairs let a restart be followed by a
question, and a timed-out reference by a reversed one that times out too. Three
programs in batches of two give a full and a partial batch, a stop inside a
batch, and two findings of one signature. Four statements let a removal make
another possible and shift the index of a third; 12 compilations let the cap
fall into every phase of the search. Two compilations let the second one inherit
what the first left, in the validator, in the counters and in the live bytes.
Two invocations let one find what the other left, or race it, at every operation.
Four characters are the longest operator; 8 and 10 bits stand for 32 and 64
because a TLC integer has 32.

`CHECK_DEADLOCK FALSE`: compilations, recordings, bounded runs of intern calls,
invocations and dropped drivers are really over. That nobody waits for anybody in
vain is `AlwaysSettles`, `AnswersInTheEnd`, `Ends`, `FinishTerminates` and, of
`Compile` and `FuzzRun`, the fairness of the promises they implement.

**Fairness.** The compiler and the interpreter are sequential (`Compile`), and so
are the loop of `finish` (`Emitter`: weak fairness of the disjunction of its
rounds and selections) and the minimizer, whose compilers come back
(`Minimizer`: weak fairness of `Next`). In `ObserveWorker` the driver and the
worker's main thread keep going, and `FutureTask.get` with a timeout returns in
the end (weak fairness of the driver and of the loop, `Deadline` included);
nothing is assumed of an observed class, which may hang forever. In `FuzzRun` the
driver keeps going, a question to an observer that does not break is answered
(which is `AnswersInTheEnd`) and the javac worker works on; nothing makes either
of them fail.
`PhaseProfile`, `Benchmark`, `FrontEnd`, `ClassWriter` and `ConstantPool` state
safety only and assume none.

`SourceRun` lets a compiler turn any program down; that njavac does not do so
needlessly is `SemaSound` and `PreflightPrecise`, of the same run.

**What some properties do not claim.** `LexesAsJava` is about texts Java can read.
The converse does not hold of literals: njavac also accepts `1_`, `0x_1`, decimal
4294967295 as -1 and `'\u005c'`. Hexadecimal floating point is refused, surrogate
escapes in strings become U+FFFD, and neither texts beyond ASCII nor decimals
that overflow to infinity are in the model. In `Benchmark` two simultaneous
recorders would vouch for each other's golden classes, so `Start` lets one
record at a time and gives each running invocation a slot of its own: that is an
assumption about users, not something the code enforces. `FuzzRun` takes positive
batches; `docs/src/tooling/fuzzing.md` says that a batch of 0 cannot advance.

## 4. What is proved

TLAPS proves, for every value of the constants that meets the named assumptions
of the modules: `LimitsAssumption`, `StraightAssumption` (what a client emits
itself is neither a branch nor a return), `NumbersAssumption`, ...; those that
carry weight are named below. Every inductive invariant was first checked by TLC
on the instance of its run, which caught what the proofs would have caught later.

* **EmitterProofs** - `TypeCorrect`, `StackIsCovered`, `LinesAreOrdered`,
  `GotosOnly`, `BranchesArePlaced`, `RowsAreOrdered`, `FlowIsKept`, `BranchesLand`, for any
  client that keeps the discipline of `Client`. The invariant `IInv` is `TypeOK` with
  `Good` (the depth is covered, events are ordered and anchored below the end),
  `NoLoss` of both the current and the saved stream (only gotos are dead), `Chains`
  while recording (a placed label is within the stream and every branch goes to a
  label that exists), and equal lengths of the two streams afterwards. The fat
  retry falls back on the saved stream, so its facts are kept as well. There is
  one lemma for each emitter operation, one for each of `Finish`, `Round`,
  `RetryFat`, and they meet in
  `NextInvariant`. For `RowsAreOrdered`, `LayoutGrows` shows that pcs grow strictly
  past a live instruction, and the fold of `ResolveLines` is unfolded from the
  front (`RowsGrow`): each row is at the event of a live instruction, behind the
  rows before it.
  `FlowIsKept` (`ControlKept`), `BranchesArePlaced` (`BranchesPlaced`) and
  `BranchesLand` (`JumpsLand`) need a second invariant, `FlowInv`. While a method
  is recorded it says (`Building`) that every
  instruction is entered from the one before it, by a branch, or by a chain still
  to be resolved, and that a placed label lies ahead of its branches and has a
  frame. When recording ends this makes the stream `Woven`: it ends with the return,
  only gotos are dead, every branch goes forward to a live instruction with a
  frame; and nothing recorded is dead code (`Reached`). From then on the stream stays
  woven, whatever labels a round threads and moves, which is `BranchesPlaced`, and
  has the flow of the recorded one. As branches go forward, the
  bounded number of hops `thread_from_position` allows itself suffices: threading
  always comes to rest at an instruction that is no goto (`Threads`). Since each
  instruction of the recorded stream is reached, so it is in every later one
  (`AllReachable`, `FlowCarries`), so a goto is deleted only when it is redundant or
  never passed on the way to anything, and `ThreadingKept` shows by induction from
  the end of the method that threading leads where it led before the round. The
  fat retry starts from the recorded stream once more. `BranchesLand` adds the
  layout: dead instructions have no bytes (`DeadHasNoBytes`), a widened test has
  eight and is never last, so what a branch goes to is encoded (`WrittenBy`) and
  has its frame (`TargetsFramed`); the narrow form is in reach because it was
  selected only without an overflow.
* **ClassFileProofs**, the pool - `TypeCorrect`, `IndicesAreCounted`,
  `SlotsAreDisjoint`, `PoolIsSerializable`, `IndicesAreKept`,
  `PoolImplementsTable`, `CallsAddInOrder`. `IInv` is `Numbered` (entries and index agree, indices
  follow from widths, spread out far enough for every pair) with `Closing` (an
  entry's missing children are exactly what the queue and the visit in progress
  still hold). Without `Closing` the statement that an idle pool is closed under
  children cannot be carried through the breadth-first steps.
  `PoolImplementsTable` maps each step to a store, an exhaustion or a stutter.
  `CallsAddInOrder` (`JavacOrder`) needs `Ordering` as well: for the call in
  progress it says, by the kind of its entry, what waits in the queue and in the
  visit and how many entries of `LevelOrder` are accounted for (`Reached`). What was
  known before the call is closed under children, so a child met in the pool
  before its turn was there, with its own children, before the call; and no part
  of a member reference can be one of the parts before it.
* **ClassFileProofs**, the writer - `WriterReadsBack`, `WriterSmallestForms`,
  `WriterPool`, `WriterImplementsTable`, `WriterKeepsIndices`, `TextIdsAreExact`,
  for any plans, texts, interned operands and width of an index up to 16 bits.
  `ReadsBack` speaks of the end only. What carries it there is `WriterInv`: the
  invariant of the pool; no text is there twice, and each is mentioned by an entry
  that is there or will be when the call in progress is over (`PoolInv`); and, of
  the list of what the structure of the file needs, what lies behind `step` is in
  the pool or on its way (`Stages`). So no lookup of `to_bytes` misses: what is
  looked up is on that list (`PlanIsReady`), including the classes of the frames, as
  `frame_object_classes` makes the choices of the writer again (`ClassesCovered`).
  A text id is a u16 as well, and nothing checks it. `TextIdsAreExact` says that none
  is cut before the counter of the indices has overflowed: between calls every text
  has a Utf8 entry of its own (`Mentioned`), and each of these took an index of its
  own (`TextsFit`, a pigeonhole).
  That the file is read back goes from the bottom up. A lemma says for each
  structure that its bytes, wherever they stand in a file, are read back as that
  structure, up to the position behind them (`Holds`, `Spans`): numbers (`ShortHeld`,
  `WordHeld`), counted rows (`ItemsHeld`, `CountedHeld`), types, each of the seven frame forms
  (`FrameHeld`: the tags keep them apart), constants (`ConstantHeld`), the pool with
  the phantom slot of a wide entry (`PoolHeld`: the reader counts the indices the
  pool handed out), modified UTF-8 (`TextDecoded`), attributes behind their measured
  length (`AttributeHeld`), methods (`MemberHeld`) and the file (`DumpHeld`). On what
  was read the deltas add up to the offsets and each frame to its snapshot
  (`MapRecovered`). Attributes nest in attributes; two levels of the reader suffice,
  and a file is longer than that (`ReadersNest`). `WriterSmallestForms` compares the
  length of what `classify_frame` chose with every other form that would say
  the same (`SmallestForm`): each relative form that expresses a frame is the one
  `classify_frame` looks for (`BareExpresses`, `StackExpresses`, `ChopExpresses`,
  `AppendExpresses`) up to the ways to write the delta, and the full frame takes
  the most.
  The proofs rest on `PlansAssumption`: the fields are u16, as their Rust types
  say; frames come in the order of their offsets and one at an offset, as
  `finish` sorts and merges them; a stack map takes at most 10^9 bytes, as its
  length is cast to a u32 which the model reads as signed. `TextsAssumption`: a
  text of more than 65535 bytes is a panic (`modified_utf8.rs:16-17`), and
  different texts have different code units. `WidthAssumption`: indices are u16,
  and the bit pattern of a number is below 2^31.
* **MinimizerProofs** - `MinimizerInvariant`, `TypeCorrect`, `KeptHolds`,
  `MinimalHolds`, for any bodies, tries, cap and answers. `Minimal` speaks of
  the end of the search only; what carries it there is `Searched`: each statement
  above the index while statements are removed, and then each pair of parentheses
  below it and those tried of the statement at hand, was refused on exactly the
  program at hand, unless the cap is met.

* **ObserveWorkerProofs** - `TypeCorrect`, `ProtocolHolds`, `OutputIsIsolated`,
  `AnswersAreHonest`, for any classes, number of lines printed, pairs and kills.
  `OutputIsolated` fails to be inductive because a thread abandoned at the
  deadline writes whenever it likes. `ObserverInv` says where: a thread that once
  fetched the null stream never comes back to its buffer, every thread but the
  newest is over once the worker reads again (a timeout makes it halt), and while
  a class is being captured its buffer is exactly as long as what it has printed.
  `Conversation` follows one question through the pipes: sent, in work, replied,
  or lost with a worker that was killed; the observation held back while a pair is
  asked in reverse is part of it. From that an answer is honest, in the order
  asked, and each step is one of `PairObserver` or a stutter.
* **FuzzRunProofs** - `ExitIsHonest`, `KeepsItsPromise` (the safety of `Campaign`),
  `NothingIsLost`, for any cases, batch sizes, verdicts and faults: of the worker,
  of the observer, of the disk. The observer enters with its promise, or is lost.
  `FuzzInv` relates the place in the run to the
  tallies (their sum is the number of programs settled), to the conversation with
  javac (`Sent`, `AtJavac`, `Back`: what is still to be compiled is a tail of the
  batch, and what was opened before it is true of the programs unless javac
  failed) and to the observation under way; `HonestSoFar` is the exit code's claim
  about the tallies before there is an exit code. A lost observer leaves one divergence
  counted without a verdict (`Undecided`). `FindingsInv` adds that files, written or
  refused, carry the names of settled programs only, so that the next finding cannot
  overwrite one. That the counts of the signatures add up needs a sum over a set
  that grows: `FiniteFolds`.
* **PhaseProfileProofs** - `AcceptedIsTrue`, `CleanIsAccepted`, for any width of
  the counters, sizes, number of compilations and calls of the allocator. A
  difference of two readings modulo `2^w` is true only while less than `2^w` went by
  between them, and the readings say nothing of that. `ProfileInv` is exact
  outside a phase (every charge is what was used, no counter has wrapped since the
  baseline) and inside one allows the phase at hand what it has used and one wrap;
  a recorded error means a counter did pass its end, and either somebody will look
  at the error or the totals no longer add up (`FailedOK`; that is the drop after
  the last compilation). `ProfileAssumption` asks that the bytes one phase requests
  are fewer than `2^w`, 2^64 in the code; over the whole profile they may be more.
* **BenchmarkProofs** - `PublishedOnceHolds`, for any number of writers: `PubInv`
  says what the stage of each writer implies of its temporary file (`TempsMatch`:
  it is whole when it is about to be linked, and gone from a writer that ended
  unless its removal was refused) and of the destination
  (`DestMatches`: a writer has linked, or crashed behind it, exactly when its whole
  report is there), and every file operation, failure and kill is a publication, a
  report to the writer, or a stutter of `Publication`. `SuccessIsAlwaysTrue` and
  `BenchmarkPublishesOnce` are about whole invocations. `BenchInv` says of each
  directory whose classes it holds, that running invocations share none that
  one of them writes, and of each invocation and fixture what the tasks behind it
  have achieved: past the removal a class found is the invocation's own, past the
  check it was made, past the comparison it is the same as the other's or the
  mismatch is recorded.
* **FiniteFolds** - lemmas that know nothing of this system, for the proofs above
  to rest on: what the library's fold of a sum over a finite set returns, in
  whatever order it picks: `SumGrows`, `SumBounds` and the lemmas before them; what
  its left fold over a sequence returns, unfolded from the front: `LeftFold`; what
  `FlattenSeq` puts in a row, and where it is then found: `FlattenBuilds`,
  `SpansEach`; and numbers split into bytes and six-bit groups: `ByteSplit`,
  `TwelveBits`. The
  induction over the set is a minimal counterexample (strict inclusion is well
  founded on finite sets), because the induction theorems of the library take an
  operator as a parameter.

The proofs changed the models. `CleanAccepted` excused a profile
that was rejected at the very end because the phase counter had gone back to one
that can fail; it now asks that compilations are left to fail. `ExitHonest`
held two classes that print nothing for different when their texts were
(`BehavesLikeRef`), and took for granted which verdicts a case may carry
(`RunAssumption`). `ProfileAssumption` makes explicit what the bound on the calls
of the allocator had hidden. `ThreadFrom`, `EncodeOne` and `Encode` were rewritten
without functions of two arguments and the operators `:>` and `@@`, which the
provers do not accept; they compute what they did. `ClassDump`, `ClassWriter` and
`StackMap` read and wrote with `RECURSIVE` operators, which the prover does not accept in
any form; they are now flattened rows and recursive functions, with a name for
each reader, so that a lemma can be about it, and what a plan may be, which only the
values of the run said, is an assumption.

Only model-checked: everything temporal under fairness (`FinishTerminates`,
`AnswersInTheEnd`, `AlwaysSettles`, `Ends`, the liveness in `Implements` of
`Compile` and of `FuzzRun`), which is out of the prover's reach; and `Compile` and
`FrontEnd`, whose operators recurse over syntax trees and texts with `RECURSIVE`,
which the prover does not accept.

## 5. Where the code and what is said of it differ

Two runs are expected to be violated. The families of the passing runs that
check the same property leave these shapes out.

* `v_goto_frames`: "frame requested at a goto" (`assembler.rs:316-324`) fires in
  a debug build for an if that ends a then arm (`fixtures/branches/NestedIf.java`).
  A release build goes on; for that program the class verifies and is right.
* `v_verify`: two joins at one pc may request different frames
  (`boolean z; if (a) { z = true; if (b) ...; }`), against "Duplicate requests at one
  PC must carry identical states" (`docs/src/architecture/assembler-and-metadata.md`).
  Only debug builds compare them; the first is kept, and the class of a release
  build does not verify.

Four more were met while modelling. They have no run of their own; the families of
`compile` keep clear of the three that are the compiler's:

* preflight visits the right operand behind a left one that is false only in its
  residual verdict (`preflight.rs:147`), and refuses a program lowering handles,
  although it is said to mirror lowering (`preflight.rs:122`);
* semantic analysis sees the verdict of a short circuit through a `(boolean)`
  cast (`constants.rs:41`) that lowering materializes (`condition.rs:135-138`),
  so a read the analysis calls impossible is in the code. Whether javac's own class
  has the same defect is not something this model can say;
* the fuzzer prints "wrote compiler finding to ..." (`finding.rs:135`) although the
  errors of creating the directory and of both writes were dropped
  (`finding.rs:131-134`): the finding is counted, and the exit code tells, but
  it may be nowhere on disk. `FindingsKept` therefore promises an attempt under a
  name of its own, and `unwritten` holds those refused;
* a call behind a code-free if on the same line can lose its row, because the
  goto that took the pending line is deleted (`assembler.rs:73`,
  `lowering/body.rs:11-13`).

`AssertsHold` leaves out three debug assertions: the two about frames at gotos, and
"chain resolved with non-empty operand stack" (`lowering/condition.rs:393-397`),
which fires when the materialization diamond of `boolean x = (a == b)` resolves its
false chain one call before it resets the stack. It has no consequence in a release
build, and no run of its own.

## 6. What is not modelled

* **Within the compiler**: types other than `boolean` and `long` zero, type
  checking, arithmetic, numeric comparison, compound assignment and numeric casts
  (the programs of `Compile` are well typed); declarations inside branches, which
  the code rejects, so branch scopes stay empty; overflow of the 16-bit slot
  counter, line numbers and depth; the 65535-byte limits of methods and texts,
  whose error exits have no state behind them. The code of a method is opaque to
  `ClassWriter`; `Assembler` encodes it. Numbers there are bit patterns below
  2^31, TLC integers being no wider; a long has them in its lower half.
* **Within the tools**: the observer's frame bytes, `stderr` (it follows
  `stdout`), detail texts, output cut at 1 MiB, a println cut between its text and
  its newline; times, wording and arguments of the fuzzer;
  repeated warm-ups and samples of the benchmark (one stands for all), the
  context and rendering of its report.
* **Failures within the tools.** Of the files of a finding only the source is
  modelled, whole or refused: its companions (`.diff`, `.observe`, `.txt`,
  `.diagnostic`) are written beside it, their errors dropped in the same way, and
  nothing reads them back. Creating a directory and writing into it fail
  together. A javac that cannot be started is the dead JVM of `Die`. A panic
  of the driver is its end: unwinding, in which the workers are dropped and waited
  for, is left to `ObserveWorker`. The `println!` panic of a closed standard output,
  which the fuzzer may meet anywhere and the benchmark also after a report is
  published (`report.rs:113`), is not an action; of the benchmark it would be a
  failure that is reported although the report is in place. A destination that
  `path.exists()` cannot see is taken for absent by the code: what keeps it from
  being replaced is the `hard_link`, which is modelled. `create_dir_all` of the
  preflight fails as the creation of its file does. The two removals after a
  publication are one step, which leaves the file or not.
* **Left out altogether**: the program generator (random choice: javac judges
  what it yields, and the runs take all programs of a family instead), the
  comparison and the text of class dumps, the self tests of the workers (read as
  documentation of their contracts), the command lines, spans, diagnostics and
  hashing, and the statistics and resource accounting of the benchmark: formatting,
  arithmetic and sequential input and output, without a protocol or a state to
  get wrong.

## 7. What is left

1. Numeric lowering: arithmetic and its constant folding at `2^w`, compound
   assignment, ranges of constants, local access forms; with it the types in
   `Sema` and `Jvm`.
2. Proofs: the safety of `Emitter`, `ConstantPool`, `ClassWriter`, `Minimizer`,
   `ObserveWorker`, `FuzzRun`, `PhaseProfile` and `Benchmark` is proved. Left is
   `Compile`, as far as it needs no induction over data (the stages of a
   compilation), once its operators on trees are written without `RECURSIVE`.
3. The comparison of two dumps (`njavac-classdump/src/diff.rs`).
