# A TLA+ development for tomita-parser

tomita-parser reads documents, splits them into sentences, finds in each
sentence the stretches of words that a user's grammar derives, and turns them
into facts.  This directory models the parts of it whose correctness is an
argument about many steps: the document pipeline with its threads, the job
queues under it, the grammar compiler's table construction, the generalised LR
parser that runs on the table, and the longest-match step that selects among
what the parser found.  TLC checks the models on small instances.  For every
instance TLAPS proves the safety properties of the queues, the tasks, the
pipeline, the grammar compiler, the parser and the longest match, and that both
queues implement what their clients rely on, the adaptive one but for jobs added
while it stops.  In particular the compiler's
tables are proved to be what the proofs about the parser assume of a table.

Paths below are relative to `src/src/`; `Parser/` is `FactExtract/Parser/`.

## 1. Inventory

| Part | Source | State | Operations | Modelled by |
|---|---|---|---|---|
| Thread-pool queue | `util/thread/queue.cpp` (TMtpQueue) | `Queue`, `ShouldTerminate`, `ThreadCountReal`, two mutexes, three condition variables | `Add`, `Start`, `Stop`, worker loop `DoExecute` | `JobQueue`, `MtpQueue` |
| Adaptive queue | `util/thread/queue.cpp:307` | one job slot, count of free threads | `Add`, `Stop`, threads that expire | `AdaptiveMtpQueue` |
| Tasks | `util/thread/tasks.cpp` (TMtpTask) | processors with their task, mutex and condition variable | `Process`, `Done`, `Wait`, destructor | `MtpTask` |
| Document pipeline | `Parser/textminerlib/processor.cpp`, `Parser/simpletextminerlib/simpleprocessor.cpp`, `Parser/afdocparser/rusie/parseroptions.cpp` | position in the input, shared options, two locks, writers, error streams | `NextDocument`, `ProcessString`, `OutputFacts`, `Run` | `TextMiner` |
| Source grammars | `Parser/afglrparserlib/sourcegrammarparser.cpp`, `regexp.cpp`, `Parser/tomalanglib` | source rules | parse, expand regular right parts | no: text processing |
| SLR table | `Parser/afglrparserlib/loader.cpp`, `lr-items.cpp`, `glrtable.cpp/.h` | rules, FIRST/FOLLOW sets, item sets, table | `BuildGLRTableForGrammar` and its calls | `SLRTable`, `GrammarCompiler`, `TableBuilder` |
| Prefix automaton | `Parser/afglrparserlib/ahokorasick.cpp` | trie with failure links | `Create`, `NextState`, `FindOccurrencesWithTrie` | `AhoCorasick` |
| GLR parser | `Parser/afglrparserlib/glr.cpp`, `inputsequence.cpp` | graph structured stack, active nodes, pending reductions and shifts | `ParseSymbol`, `Actor`, `Reducer`, `ReduceOnePath`, `Shifter`, `ApplyGLR_Parsing` | `GLRParser` |
| Agreement, weights | `Parser/afdocparser/rusie/tomitaitemsholder.cpp`, `factgroup.cpp`, `syngroup.cpp` | items | `CreateNewItem`, `EqualNodes`, `AddWeightOfChild` | parameters of `GLRParser` and `SolveAmbiguity` |
| Longest match | `Parser/afdocparser/rusie/solveperiodambiguity.cpp` | occurrences, best selections | both overloads of `SolveAmbiguity` | `SolveAmbiguity`, `BestSelection` |
| Chain search, facts | `Parser/afdocparser/rusie/tomitachainsearcher.cpp`, `commongrammarinterpretation.cpp` | parse trees, facts | interpretation, normalisation | no: data conversion |
| Sentences, multiwords | `Parser/afdocparser/rusie/sentencerusprocessor.cpp`, `multiwordcreator.cpp`, `dictsholder.cpp` | words, cache of compiled grammars | passes over a sentence | no; the cache is described below |
| Document readers | `Parser/common/docreaders` | file positions | next document | the folder reader, in `TextMiner`; the others are I/O |
| Morphology, clauses, names | `Parser/lemmerlib`, `Parser/afdocparser/rus`, `.../rusie/clauses.cpp` | dictionaries | lookup, heuristics | no: linguistic data |
| Gazetteer | `kernel/gazetteer` | trie of serialised articles, read-only in use | search | no |
| Writers | `.../rusie/factsxmlwriter.cpp` and others | output streams, documents prepared | `AddFacts`, `AddDocument` | what each output holds, in `TextMiner`; no formatting |
| Threads, locks | `util/system/mutex.cpp`, `condvar.cpp`, `util/thread/pool.cpp` | pthreads objects | lock, wait, signal | their meaning is in `MtpQueue` |

How the parts interact.  `TMtpTextMiner::Run` starts a `TMtpQueue` and gives it
one job per worker through `TMtpTask::Process`, which processes the last one,
and every one that `Add` refuses, in its own thread; without a queue
`TMtpTask` makes a `TAdaptiveMtpQueue`.  Each worker takes
documents from `CProcessor::NextDocument` and hands results to
`CProcessor::OutputFacts`; the two are serialised by `InputLock` and
`OutputLock`.  The miners share the parser options and the dictionaries.
Inside a document everything is sequential.  For each sentence
and grammar `CTomitaItemsHolder::RunParser` calls `CInputSequenceGLR::Process`
(start points, then one GLR parse of the whole sentence) and then
`SolveAmbiguity`.  The table the parser reads was built by
`BuildGLRTableForGrammar` when the grammar was compiled.

What is hard here: the interleavings of `Add`, the workers and `Stop`; the
order in which reductions extend a stack that is being walked; packing of equal
nodes with cyclic rules; limits that break a parse off; the encodings of the
table; ties and borders in the longest match; threads that leave when idle
while jobs arrive; processors that are used again; options that all miners
resolve; writers that fail half way.  `PROJECT.json` lists each as a
hazard at its line.

What makes each part correct:

- queue: an accepted job is processed exactly once, a refused one never; `Stop`
  returns, and only after all accepted jobs; no caller and no job is forgotten;
- compiler: the table offers every action the grammar needs, every reduction
  it offers can be carried out, and the compact form is the table;
- parser: the occurrences are exactly the stretches the root derives, with all
  their derivations; the parse ends;
- longest match: what is kept is disjoint and covers as much as possible;
- tasks: `Process` returns when every context was processed once, and a
  processor is neither set up nor freed while a thread is in it;
- pipeline: every document is read by one miner, and its facts are written once
  or its failure is reported; what was written stays.

## 2. Modules

| Module | Role |
|---|---|
| `JobQueue` | what `IMtpQueue` promises, without threads or locks |
| `MtpQueue` | `TMtpQueue::TImpl`; refines `JobQueue` |
| `MtpQueueProofs` | proofs about it: types, the limit, `Stop`; its jobs, processed once and never forgotten; the refinement |
| `AdaptiveMtpQueue` | `TAdaptiveMtpQueue::TImpl`; refines `JobQueue` but for late jobs |
| `AdaptiveMtpQueueProofs` | its proofs, the refinement included |
| `MtpTask` | `TMtpTask` on top of `JobQueue` |
| `MtpTaskProofs` | its proofs |
| `TextMiner` | miners, their common input and output, the writers |
| `TextMinerProofs` | proofs about documents, each handled once, and about the outputs |
| `AhoCorasick` | the prefix automaton, as operators |
| `SLRTable` | table construction, as operators: what one turn of each loop does, the encoding of the table and how it is read |
| `GrammarCompiler` | `BuildGLRTableForGrammar` as a state machine, an action for a turn of each loop, and its properties |
| `TableBuilder` | the same loops run to their ends as functions, for the instances of the parser |
| `ParserTable` | what the parser takes for granted in a table: the border between compiler and parser |
| `GrammarCompilerProofs` | proofs about the compiler, that its tables are fit for the parser among them |
| `GLRParser` | the parser and its driver |
| `GLRParserProofs` | proofs about its stack, its parses and its limits |
| `GLRParserResult` | proofs about its result: it is sound and complete |
| `MCGLRParser` | composes `GLRParser` with the tables of `TableBuilder` |
| `SolveAmbiguity` | the longest-match step |
| `BestSelection` | `SolveAmbiguity` observed by a rival selection |
| `SolveAmbiguityProofs` | proofs about both |
| `MC*` | bounds and symmetry |

Operators described as faulty variants stand for plausible bugs; no
specification uses them.  They are substituted for the definition they precede
to see that a property notices the bug (`mutants` in `PROJECT.json`).

### MtpQueue

One behaviour is the life of one `TImpl`, from the end of `Start` to the end of
`Stop`.  Each thread has a program counter (`apc` in `Add`, `wpc` in
`DoExecute`, `opc` in `Stop`); a lock is its holder; a condition variable is
the set of threads whose program counter says they wait on it.  `Signal` moves
one arbitrary waiter to the acquisition of the mutex, and waiters may wake by
themselves.  `ShouldTerminate` is read outside the lock in the code, so its
test and what follows are separate steps.  Whether the queue blocks, and
which of the workers it was started with, possibly none, is chosen in `Init`
(`Blocking`, `Tharr`; the constant `Kinds` holds the values of `Blocking` to
consider).  Signals are sent after the release
of the mutex, as in the code, and are steps of their own.  `verdict`, `started`
and `finished` record what happened to each job.

Limits of the model.  `Stop` destroys the object without waiting for callers
that are still in `Add`; `StopClear` waits for them, so behaviours in which a
call outlives the object are left out.  The restart after `fork` and a `Start`
that throws half way are not modelled.  With a blocking queue and jobs that add
jobs, all workers can wait for room in the `Add` of their own jobs (`PoolIsStuck`),
and only `Stop` ends that.  It is what the code does, so `AddReturns` and
`AcceptedIsProcessed` make this one exception, and `StopReturns` makes none.

### AdaptiveMtpQueue

The queue holds one job and makes a thread when none is free.  Everything but
the thread count is touched under `Mutex_`, and no critical section does
anything before it releases the mutex or waits, so each is one step; the
signals after the release and the decrement of `ThrCount_` are steps of their
own.  A thread that waits may be signalled, may wake by itself or may find its
idle time over; a creation of a thread may fail.  `Stop` spins, releasing the
mutex and signalling, until the count is zero.  Names of threads are used again
once the thread has gone.  The owner calls `Stop` when no producer is inside
`Add`; jobs may be.  `AddThreads` has no callers and is left out.

An `Add` that finds `AllDone_` set has already put its job into `Obj_`; it throws,
and the job is processed all the same.  `JobQueue` and `queue.h:88-90` say that a
job which was not added is not processed, so this queue does not implement
`JobQueue` (`ImplementsJobQueue`, violated in `adaptive_late_add`).  That there is
no other difference is `ImplementsButForLateJobs`: the queue refines `JobQueue` if
a late job is shown as its caller sees it, refused (`Told`).

`Progress` has two parts, since a folded critical section hides the competition
for `Mutex_`.  `Fairness` only says that a thread outside `Mutex_` goes on, and that
when threads want it one of them gets it, whichever.  Until `Stop` is called that is
enough, provided spurious wakeups come to an end: there are finitely many jobs and
idle times to be over, so nobody is overtaken without end.  `Stop` releases
and takes `Mutex_` in a loop until the count is zero (`queue.cpp:432-436`), and
may overtake a thread for ever; from then on the promise rests on `MutexIsFair`, a
mutex that starves nobody.  Nothing in the repository provides that, nor does
pthreads promise it.

Two facts more.  A thread whose time is over still takes
what is in `Obj_`; `TimedOutLeave` shows the job that is lost otherwise.  An
`Add` whose thread cannot be created uses up a `CondFree_` signal and sends
none, so another caller may stay in `Wait`: `Progress` promises the return of
`Add` only as long as no creation failed.

### MtpTask

`Process` is called by one owner, up to `Calls` times with any number of
contexts; a job is the pair of the call and the processor.  The queue is
`JobQueue`, instantiated with this module's variables: its actions are conjuncts
of the task's, so what is shown holds on `TMtpQueue`, which implements it.  On the
adaptive queue it holds with one action more, `AddThrowsLate`, for the job that
this queue processes although its `Add` threw.  A queue passed in may
refuse (full) or process the job inside `Add` (no threads).  `Add` of any queue may
throw, as it cannot create a thread or was not started, upon which `Process` throws
without waiting for the processors already queued.  The destructor then waits for
them only if the queue is its own: it stops `MyQueue_` and nothing else
(`tasks.cpp:83-85`), so after an exception on a queue that was passed in, processors
are freed that the queue still holds.  `ProcessorIsFree` says that this is the only
such case.  `TProcessor::Done` releases its mutex in a
step after its signal, so a thread can be inside a processor whose `Task_` is
already null.  After an exception from `Process` the client destroys the object,
as the code's callers do; a further `Process` would meet the assertion of
`SetData`.

### TextMiner

A miner is one `TSimpleTextMiner::Run`; that each runs once and that all have
returned when `TMtpTask::Process` returns is `MtpTask`'s part.  The steps of
`NextDocument` are separate although `InputLock` is held over them, so the lock
is what the property depends on.  A document is its number in the folder; its
kind says whether it has facts, is unreadable, fails in the analysis, or makes
`GetNextDocInfo` throw.  The last stops the miner that meets it, and then every
other, as the position is not advanced.  `ResolveOptionArticles` is two steps,
the test and the end of the insertion.

A writer is the sequence of documents in its output (0 is what an existing file
held), the place it writes at, and the documents it has prepared: children of
the XML root not yet cleared, or `Documents` of the protobuf writer.  XML in
append mode starts at the beginning of the existing file (`OpenAlways` without a
seek, `simplexmlwriter.cpp:45`) and overwrites it; protobuf appends; text opens
its file for every document, truncating it unless in append mode, in which an
absent file is an error for every document.

A write may fail.  The XML and the protobuf writer, which also writes JSON, put the
prepared documents into the stream one after the other and forget them after the
last (`simplexmlwriter.cpp:86-91`, `factsproto.cpp:382-394`).  An exception after k of
them leaves k written and all prepared (`Broken`), so the next flush writes those
once more.  In the binary format it is different: the adaptor between protobuf
and the stream keeps the exception (`contrib/libs/protobuf/messagext.h:77-85`), the
result of `Save` is ignored (`factsproto.cpp:409`) and `Documents` is cleared, so the
documents that were not written are lost and `OutputFacts` returns true (`Dropped`,
`WriteUnnoticed`).  The field `lost` records them for the properties; no action reads
it.  What a stream has taken counts as written: the buffer of a file stream, whose
last flush may fail as well, is left out.  Formatting, the tags
around an XML file, statistics and interviews are left out; the `mapreduce`
format writes nothing, since `MapReduceMode` is never set (`processor.cpp:14`).

The parameters are records (`Setups`): the miners that run, articles in the
options, format, mode, what the file held, the text dump and the pretty output.

### SLRTable and GrammarCompiler

A grammar is a root, a sequence of symbols and a sequence of rules with
non-empty right parts, no rule twice (`CWorkRule::operator==`).
`GrammarCompiler` runs the calls of `BuildGLRTableForGrammar` in their order, and
a step is one turn of a loop: a rule in a sweep for the prefixes, for FIRST or
for FOLLOW (`SweepAgain` when the last sweep changed something), a pass of
`CloseItemSet`, a transition of a line (`TakeSymbol`, passes, `AddTransition`),
a cell of the table.  `FillTable` is one step, since its cells do not
depend on each other.  `Compact` is modelled with its encodings: the sparse
matrix with its row index, the low bit that tells a rule index from an index of a
complex cell, the shifted goto line.  The mask of the cells that are not empty is a
set of pairs; its packing into bits is left out.  Lines are numbered from 1 and `NoLine` = 0
stands for the code's -1.  Rule lists (`TCompactStorage`) are sets, and numbers
are unbounded: `CheckIndexOverflow` throws for tables of 2^31 entries.
A pass of `CloseItemSet` adds at once what the code, which inserts into the set
it iterates over, adds in one pass or in several; only the end of the loop is
used.  `IsGrammar` says what the earlier stages hand over
(`GrammarAssumption`).  `BuildAutomat` has no step for a root without a prefix:
`CreateTrie` would read a pattern that is not there, so nothing is said of such
grammars from there on.  `TransferOutCountFromSymbolToItsDependencies` is not
modelled: it changes agreements, and throws for a meta-symbol that no rule has on
its left (`loader.cpp:581`), after which there is no table.

The parser's instances need tables, not steps.  `TableBuilder` runs the same
operators to the ends of their loops; its drivers are `RECURSIVE` and nothing is
proved about them.

### AhoCorasick

The trie is a sequence of nodes (parent, symbol, depth, pattern that ends
there).  Patterns are added in the order of `CWorkRule`'s `<`, each continuing
from what it shares with the one before, which is correct only because that
order is lexicographic; the loops are recursive functions.  Failure links are set level by level.  The search keeps
a set of states, one per way of reading the words so far.  `TrieIsExact`
compares what it finds with direct search, for the automaton the compiler built
and for those of the root's prefixes of up to `MaxPrefix` symbols, so that links
of more than one step occur although `loader.cpp:719` asks for prefixes of one
symbol.  `GLRParser` takes its start
points from the same operators.

### GLRParser

A step is one turn of a loop of the code: one `Actor`, one reduction taken, one
path reduced (`RejectPath`, `PackPath` or `LinkPath` are the three ways through
`ReduceOnePath`), one shift.  Nodes are numbered from 1 in order of creation;
the order of reductions, paths and shifts is the code's.  The parser is robust
(`m_bRobust`), as `ApplyGLR_Parsing` makes it, and every word carries the end
symbol.  `breakAfterMax` (`m_bBreakAfterMaxSymbolNodesCount`) says whether the
limits hold; it comes with the grammar in `Parsers`.  The options of `CSynAnInputSequence` (`m_bSynAnOptions`, `GROUP` and
`WORD` symbols) are not modelled; nobody sets them on the path from
`RunParser`.

`Reducer` walks the stack depth first and reduces while it walks; the model
takes all paths of a reduction at once and reduces them in the order of the
walk.  That is the same only if the walk never sees a change made during it,
which is the property `EarlierStackIsFrozen`.  After a full path the code's
walk also descends further below the bottom node when that has several
children; no reduction is made there and the detour has no effect, so it is
left out.

`ParserTable` says what the parser takes for granted in the table it is given.
`IsTable`: right parts are not empty; no transition leads to the start state or
is over the end of input, and all transitions to a state are over one symbol; an
item with the dot behind a symbol came over that symbol from the same item with
the dot before it; a state with the dot at the beginning of a rule has a
transition over the rule's left part; and a state reduces by rules that it has
read to the end.  `IsComplete` says that such a table misses nothing: a state
with a transition over a left part can begin each of its rules, read on in a rule
it has read a part of, and reduce by one it has read to the end before all of
FOLLOW; FIRST and FOLLOW are closed under the rules, and the end of input may
follow the root.  The item sets are those of `CLRCollectionSet`, which the table
carries for this purpose together with FIRST and FOLLOW; no action of the parser
looks at them.  Both are an assumption of `GLRParser` (`TableAssumption`) and a
theorem about `GrammarCompiler` (`TableIsFitAlways`); TLC also evaluates them in
both parser runs, on the tables of `TableBuilder` for every grammar of the
sweep, with the assumptions that words are read as terminals of the grammar
(`WordsAssumption`) and each also as the end of input (`EndmarkAssumption`,
`BuildWordsInterpretation`).

The result is compared with the chart of the sentence: `Chart[height]` holds the
entries `<<symbol, start, end, item>>` of all derivations up to a height.
`OccurrencesAreSound` and `OccurrencesAreComplete` state the two directions.  A
derivation may be of any height when rules form a circle, so TLC looks for those
up to `MaxHeight`; `ForestIsComplete` in `MCGLRParser` lets the chart grow until
it is full, compares both ways, and compares the parses under each occurrence.

Items are abstracted to what `EqualNodes` and the weight compare.
`CreateNewItem` is a parameter that may reject a rule (agreement), so packed
variants of an item are one value in the model.  `LeafItem` never fails, as in
`CTomitaItemsHolder`.

### SolveAmbiguity and BestSelection

One step is one turn of the inner loop, one selection put, or one turn of the
scan for dropped occurrences.  `std::sort` is any permutation that is sorted.
Indices count from 1 and 0 stands for a null pointer.  The virtual group and its
weight are parameters: a group is any value, adding an item gives any group,
and weights are numbers that may fall.  `BestSelection` adds a rival who walks
along and takes or passes each occurrence, keeping clear of its last one; its
choices are all disjoint selections, so a bound on the rival is a statement
about every selection.

## 3. Runs

| Run | Question | Bounds |
|---|---|---|
| `queue_safety` | `TypeOK`, `StopDrains`, `RunOnceOrRefused`, `WithinLimit`, `QueuedJobIsSeen` in all interleavings; is it the abstract queue | 2 workers, 2 producers, 3 jobs, limit 1, blocking or not, with or without threads, nested, 1 spurious wakeup; symmetry |
| `queue_blocking` | does every `Add` return and is every accepted job processed, unless the pool is stuck; does `Stop` return even then | 1 or 2 workers, 2 producers, 3 jobs added in order, limit 1, blocking, nested |
| `adaptive_queue` | is the queue with threads on demand the abstract queue but for late jobs; are its counts exact, is nobody left behind or forgotten | 3 thread names given in order, 2 producers, 3 jobs added in order, nested, 1 failed creation, any timeouts and spurious wakeups |
| `adaptive_late_add` | is it the abstract queue (violated) | 2 thread names, 1 producer, 2 jobs, nested |
| `task` | does `Process` return, exactly when all is done, with processors used again | 2 calls of up to 3 contexts, own queue or not, any `Add` may throw |
| `text_miner` | is every document handled once, is what was written kept, does the program end | 2 miners, 3 documents of any of 5 kinds, 6 sets of parameters, 2 failing writes, 1 warning |
| `miner_options` | are the shared options stable while they are in use (violated) | 2 miners, 2 documents, articles to find |
| `miner_append` | is a text file appended to when no mode is given (violated) | 1 miner, 2 documents |
| `grammar_table` | the properties of the compiler and of its prefix automaton; is its table fit for the parser | all 9750 grammars of 2 to 4 rules: S with right parts of up to 3 symbols, A of up to 2 |
| `parser_limits` | well-formed stack at every step, only derivations found, limits obeyed, termination | 7 grammars, with and without limits of 11 symbol nodes and 14 facts, all sentences of up to 4 words with any readings |
| `parser_sweep` | compiler and parser together against the chart | S with one right part of 1 or 2 symbols, or with another that is `a` or `S S`; A with one of 1 or 2 symbols; all sentences of 3 words |
| `longest_match` | disjoint, complete, best | all vectors of up to 4 occurrences in 3 words, 3 kinds of item |

Why the bounds are enough for the cases that matter.  Two workers and a limit
of one give every race for a place or a job; a third job lets a job be queued
while one runs and one is taken.  The grammars include useless non-terminals,
left, right and middle recursion, circular unit rules and rules with a common
prefix; empty rows of the table, and cells with a shift and several reductions,
occur.  Four words give two overlapping pairs and a nested ambiguity of three
readings.  In `parser_limits` a limit is met in a reduction, between two
reductions and by a shift, and for circular rules whose items are never equal.  Three words with four occurrences give chains,
nests, duplicates and touching borders, and items that count for fewer words
than they span.  Three jobs in the adaptive queue give one that runs and adds
another, one in the slot and one waiting for it; there are as many thread names
as jobs, and an `Add` makes at most one thread.  A second call with another
number of contexts meets processors that are in use, done or not yet made.
Three documents and two failing writes let one document fail, be written by a second
flush that breaks off, and be written again with the third; two miners race for
each lock.  Where symmetry would be unsound because progress is checked, `JobsInOrder`
and `NamesInOrder` leave out behaviours that differ in names only.

`PrefixLength` is 1 as in `loader.cpp:719`.  `MaxForm` bounds the sentential
forms used as the reference for FOLLOW and `MaxSteps` the length of their
derivations, not the construction; `MaxPrefix` the automata `TrieIsExact` looks
at.  The model's
`MaxSymbolNodesCount` and `MaxCreatedGroups` are the code's limits at a size
TLC can reach.  `MaxHeight` is 5, as high as any derivation of three words by
three rules without a repetition.  `MaxSpurious` bounds spurious wakeups, `MaxFailures` threads
that cannot be created and writes that fail, `MaxWarnings` messages about
documents that succeed, `MaxCount` and `Calls` the contexts and calls of a task.

Deadlock is not reported in any run: a queue nobody uses, a task that was
freed, and a finished program, compilation, parse or selection stop.

Fairness.  The progress properties of `MtpQueue` assume weak fairness of each caller
inside `Add`, of each worker and of `Stop`: a thread that can take a step is
scheduled eventually.  Nobody is assumed to call `Add` or `Stop`.  Weak fairness
is enough for its mutexes because each is acquired finitely often within the bounded
number of jobs and spurious wakeups, by `Stop` too, which sleeps on a condition
variable and is woken once for a worker that leaves.  That is not so for the adaptive
queue, whose `Stop` spins; what it assumes of its mutex is stated in `Progress`, see
there.  The task assumes weak fairness of the owner and of the queue's threads, and
that a job ends; that no wait
ends by itself is not excluded and its ending is not assumed.  The miners assume
weak fairness of each miner: nobody is promised a lock that others keep taking,
but there are finitely many documents.  The parser's termination assumes weak
fairness of its single thread.

What the runs show.  All properties of the passing runs hold.  Some facts about
the code are worth knowing: that `HasPathOfLengthTwo` compares no symbols is
sound only because a state is entered over a single symbol (part of `TableIsFit`);
that the root is reused for the start state at any word is harmless only because
no transition leads to it (part of the same property); with items that change in every
reduction it is the node limit alone that ends a parse of circular rules; a
document whose writing failed is written with the next one by the XML and the
protobuf writer, although its failure was reported, and several times if further
flushes break off; and binary protobuf output loses documents without a report when
its stream fails.

Three runs disagree with what the repository says.

- `adaptive_late_add`: `queue.h:88-90` says that `Add` returns true if the object was
  added and false if the queue is shutting down.  The adaptive queue puts the job into
  its slot, makes a thread for it if none is free, and only then finds that it is
  stopping and throws (`queue.cpp:378-386`); a thread processes the job.  It needs a
  job that adds a job while the queue is destroyed.
- `miner_options`: the miners of a `TMtpTextMiner` share one `CParserOptions`
  and each resolves its articles without a lock until one has set `Resolved`
  (`parseroptions.cpp:180-196`), so the sets are changed by two threads at once
  or while another iterates over them.  `simpleprocessor.h:23` promises that
  several processors may be used at the same time after `Init`.  It needs
  articles to find in the options and more than one thread.
- `miner_append`: `textminerconfig.proto:68` and `docs/en/dg/run-parser.md:67`
  give `append` as the default mode.  `IsAppendFdo` uses the mode only when it
  is given and otherwise answers no; the text writer then truncates its file for
  every document, so only the last one remains.

Seen in reading and not checked: the message of an input that throws stays in
the miner's stream and is never reported; `DocCount` is written under
`InputLock` and read under `OutputLock` (`PrintSpeed`); `CStdinDocPerLineReader`
and `COneDocReader` swallow an exception in `GetNextDocInfo` and return true,
which hands out the previous document again, for a single file without end;
`TRWMutex::Release` of Windows builds keeps its mutex when the last reader
leaves and no writer waits (`util/system/rwlock.cpp`), but the guards used here
call `ReleaseRead`.

## 4. Proofs

Every safety property that a passing run checks, but for `TrieIsExact` and
`ForestIsComplete`, is a theorem for all values of the constants.  Each rests on an inductive invariant, a conjunction of named parts,
with a lemma for each action, or for the group of actions that leave a part alone.

### The queues

`MtpQueueProofs`: for any threads, jobs and limit, with or without
blocking, threads, nesting and spurious wakeups, from the assumptions that the
workers are finite and the names distinct:

- `TypeCorrect`: `Spec => []TypeOK`.  That the thread counter stays a natural
  number needs `CountInv`: it is the number of workers not yet exited.
- `LimitKept`: `Spec => []WithinLimit`.  `RoomInv` says that a caller about to
  push has found room, and it is stable because that caller holds the mutex.
- `StopDrainsAlways`: `Spec => []StopDrains`.  The key is `LeftInv`: once a
  worker has left its loop, the queue is empty, `ShouldTerminate` is set and no
  caller is past its second test, so nothing can be pushed any more.
  `KeptInv` (an accepted job is queued, taken or processed), `HasJobInv` and
  `CountInv` turn "all workers have left" into "all accepted jobs are done".

The inductive invariant `IInv` is the conjunction of these parts with mutual
exclusion, `StopInv`, and `PoolInv`, which says that a worker the queue was not started
with never runs.  TLC was used to check it, and the invariants of the parser and
of the longest match, on the instances above before they were proved.

About the jobs, on top of this:

- `RunOnceOrRefusedAlways`: `Spec => []RunOnceOrRefused`.  `JobInv` follows a
  job from hand to hand: it is with the one caller that adds it, in the queue
  once, with the one worker that took it, or finished, and its place tells
  whether its processing has begun.
- `QueuedJobIsSeenAlways`: `Spec => []QueuedJobIsSeen`.  The property itself is
  inductive together with `AsleepInv`: a worker goes to sleep only if it saw an
  empty queue under the mutex, and it holds the mutex until it sleeps.
- `Refinement`: `Spec => ImplementsJobQueue`.  The place of a job is its status
  in `JobQueue`; every step moves at most one job, and to where an action of
  `JobQueue` moves it.

`AdaptiveMtpQueueProofs`, for any finite sets of threads and jobs with no fewer
thread names than jobs, any failures to create a thread and any time-outs:

- `NobodyLeftAlways`: `Spec => []NobodyLeft`.  `CountInv` says that `Free_` and
  `ThrCount_` count the threads in `WaitForJob` and the living ones; `ObjInv`
  that a job in the slot always has a thread that is yet to look there, the
  timed out ones included, which is why `Stop` cannot leave it behind.
- `Refinement`: `Spec => ImplementsButForLateJobs`, again by the place of each job.
  A job whose `Add` threw because of `AllDone_` stays refused for the abstract queue,
  whatever the threads do with it.

### Tasks and pipeline

`MtpTaskProofs`, for any number of calls and contexts and on any queue that
behaves as `JobQueue`: `ReturnedIsProcessedAlways` and
`ProcessorIsFreeAlways`.  The invariant gives the state of each processor in the
present call: the owner has not come to it, it is at work on the context of
this call (`WorkInv`), or it is idle again and the context was processed
(`OwnerInv`).  `QueueInv` says that the queue holds only jobs of processors that
wait for them, so that no job of an earlier call can turn up late, and
`ReturnedInv` keeps the result of the calls that have returned.  After a call
that threw its processors may be at work still; the destructor of a queue of its own
waits for them, which is where `ProcessorIsFree` tells the two kinds of queue apart.

`TextMinerProofs`, for any finite set of miners and any documents, failures and
parameters: `HandledOnceAlways`.  `DocInv` says that a document is over once at
most, and that one which was read is over, held by a miner or passed over;
`HoldInv` that a document that is held is one miner's alone, with its own text,
and nothing was said of it yet, which rests on `InputLock` (`LockInv`);
`StreamInv` that a miner's stream holds a failure only while the miner is about
to report it; `EndInv` that a miner stops when nothing is left to read.

`OutputIsKeptAlways` is about the writers, wherever a flush breaks off.  `Sound`
describes a writer: nothing but what was there before lies behind its place.
`Settled` says that a writer has nothing more to do with a document: it is in the
output once or lost, and not prepared.  `KeptInv` says that what was put out is
settled, so that the flushes that fail repeat other documents only.  `ComingInv`
says that a document which has not come to the writers is with none of them, and
`PlaceInv` that the document being written is settled with the writers already
passed, behind everything that was put out, and with no other; this gives the
common order (`Precedes`) of any two outputs.  By `DocInv` a document that came to
the writers and was not put out is one whose failure was said.
That `None` is no miner (`MinerAssumption`) is what makes the value of a lock
unambiguous.

### The grammar compiler

`GrammarCompilerProofs`, for every set of grammars with `IsGrammar`:
`PrefixesMatchFirstAlways`, `FollowIsCompleteAlways`, `VerifyAlways`,
`TableIsFitAlways`, `ReductionsReturnAlways` and `RulesAreRecognisedAlways`, each
`Spec => []` the property of that name.  The inductive invariant `Inv` has a part
for each stage, which stays true to the end.

- `SetsInv`, the sweeps.  While a sweep has changed nothing, the family of sets is
  closed under the rules it has passed, so it is closed under all of them
  when a sweep ends without a change (`FirstClosed`, `PrefixClosed`,
  `FollowClosed`).  FIRST and the prefixes are besides within every closed family
  (`FirstLeast`, `PrefixLeast`).  That the two agree follows from both: the
  symbols of the prefixes make a closed family and so do the sequences of one
  symbol of FIRST, and the rule that the augmentation adds is for a symbol no
  other rule mentions (`SameStart`, `AugmentKeepsPrefixes`).
- `FollowIsComplete` needs closure only.  `IsGoodForm` says of a sentential form
  that any symbol behind a non-terminal opens with what is in FOLLOW of it; it is
  kept by replacing a symbol by a right part (`RewrittenIsGood`), by induction on
  the number of steps (`FormsAreGood`).
- `ItemInv`, the collection.  `IsCollection`: the item sets are closed and begin
  no rule that the closure did not ask for (`IsGrounded`), the first has no item
  with anything read, every other is entered, and a transition over X leads to a set whose items with
  something read (`Kernel`) are those of the other end moved over X.  A kernel
  determines the symbol before its dots, which is why states are entered over one
  symbol.  `LineInv` and `CloseInv` say which transitions are still missing, so
  that none is at the end (`LinesDone`).
- `CompactInv`, the encoding.  `IsMatrix` is what `TSparseMatrix::Add` relies on,
  rows and columns in ascending order, and `IsHeld` that a cell which was passed
  and is not empty has its value between the borders of its row; an addition
  behind it moves none of the borders it lies between (`MatrixAdded`,
  `HeldMore`), rows without a value included (`MatrixSkipped`).  `Get` looks for
  the first column not less and finds it (`MatrixFound`).  `Decodes` says that
  the value is either the rule or the number of a complex cell, and the low bit
  tells which (`Decoded`).

At the end the cells the parser reads are those of the item sets
(`CompactIsRead`), and items and transitions are linked in both directions
(`Linked`): an item moved over a symbol is in the next state exactly if the item
before is in this one, and a rule can begin exactly where its left part has a
transition.  `IsTable` and `IsComplete` follow (`PartsAreTable`,
`PartsAreComplete`).  The other two properties are about ways of any length in the
table, by induction on the right part: forward over it from a state that can begin
it (`WalkForward`), and backward from a state that has read it
(`WalkBackward`); that there is a way back at all uses that every state but the
first is entered (`WayBack`, `WayFound`).

### The parser

`GLRParserProofs`, for every table with `IsTable`, all sentences over its
terminals, all limits, with or without `breakAfterMax`, and for every
`CreateNewItem` and `LeafItem`:

- `StackFollowsInputAlways`, `OneNodePerStateAlways`, `AmbiguityIsPackedAlways`,
  `ParsesAreDerivationsAlways` and `ReductionsHavePathsAlways`, each
  `Spec => []` the property of that name;
- `EarlierStackIsFrozenAlways` and `LimitStopsTheParseAlways`, the two action
  properties;
- `TypeCorrect`: `Spec => []TypeOK`, for a `FactsCount` whose values are natural
  numbers (a `size_t` in the code; TLC cannot evaluate that for all items, so it
  is a hypothesis of the theorem and no assumption of the module).

The parts of the inductive invariant `IInv` and why they are needed.

- `LevelInv`: `InputLevels` never falls and has as many entries as the words
  read require, so the borders of nodes are what the parser thinks they are.
- `StackInv` and `LinkInv`: a symbol node lies between state nodes at the
  borders where it starts and ends and is a transition of the table between
  their states.  This is what a walk down the stack uses.  With `IsTable` a
  state that has read k symbols of a rule has below it only states that have
  read k - 1, over the right symbol (`StepDown`), so a path of the length of the
  rule exists (`ChainExists`), spells its right part, covers the words without a
  gap and ends in a state with a goto (`PathFacts`).  The walk is an induction
  over the numbers 1..n, made with sets of numbers (`LeastNatural`,
  `UpInduction`), since the library's induction rules are out of the provers'
  reach.
- `StateInv` and `LeafInv`: a closure set has one node per state, and the symbol
  node of a word is alone under its state node.  The latter keeps Shifter, which
  looks for the symbol only, and `ReduceOnePath` from meeting each other's nodes.
- `ParseInv`: each stored parse is an application of its rule.  Symbol nodes
  that later steps touch keep symbol, item and stretch, so it is preserved.
- `PackInv` and `OnceInv`: the second is the deeper one.  A reduction over a
  path is carried out once because, when its parse is there, the last symbol
  node of the path is under no active node, no pending reduction has its rule
  and that node, and the path is no longer among those to do.
- `PendingInv` and `ShiftInv`: pending work belongs to the closure set being
  built, and its rules have been read to the end.
- `LimitInv`: a closure set that was left past a limit has an active node.  A
  step of the loop for it finds the limit and ends the parse, so the level is
  never closed and nothing is shifted.

`GLRParserResult`, on top of it, for every `CreateNewItem` and for every table
that satisfies `IsComplete` as well:

- `OccurrencesAreSoundAlways`: `Spec => []OccurrencesAreSound`.  By `ParseInv`
  the first parse of a symbol node is made of nodes with smaller numbers, so the
  node's entry is in the chart of the height of its number (`NodesAreDerived`),
  whatever cycles the packed parses close and wherever the parse was broken off.
- `OccurrencesAreCompleteAlways`: `Spec => []OccurrencesAreComplete`, for every
  `MaxHeight`.

Completeness has a dynamic and a static half.  The dynamic half is `AllInv`, on
top of `IInv`.  `ReduceInv` says that no work is forgotten: for a state node whose
`Actor` has run, every rule it reduces by before its word and every symbol node
under it, the reduction is pending, or each of its paths is in hand, was rejected
by the agreement or has its entry in the stack on top of its bottom node.  It is
preserved although the stack grows, because a path can come into being only
through a new symbol node under a node of the closure set being built, whose
reductions are then taken up again or whose `Actor` is yet to run, and because
what lies below is frozen.  `ShiftedInv` says the same of the words: each reading
over which a state node has a transition is in the stack or pending, the root
counting at every start point.  `EndInv` says that a parse that met no limit ends
behind the last word with nothing pending.

The static half looks at the last state alone.  `ChartInStack`: an entry of the
chart that starts where a state node stands, has a transition there, and is
followed by a word in FOLLOW of its symbol, leads down to that node.  By induction
on the height; for an application of a rule, `RowClimbs` finds the entries of the
right part in the stack from left to right, each state node on the way having
read one more symbol of the rule, and `RowInStack` turns them into a path of a
reduction that the node at the top offers, which `ReduceInv` says was carried out.
That the inner symbols are followed by what FOLLOW expects is `Placed`: an entry
begins with a word its symbol can begin with.  The recursive function `Chart` is
shown to satisfy its equation (`ChartDef`), and the inductions are made with sets
of numbers (`NatUp`).

### The longest match

`SolveAmbiguityProofs`, for every sentence length, every vector of
occurrences, every coverage and weighting of items (`InputsAssumption`,
`GroupsAssumption`):

- `SolveTypeCorrect`: every index followed lies inside its vector.
- `SolveKeepsDisjoint`: `Spec => []KeptAreDisjoint`.  `SolutionsInv` says that
  each stored selection has increasing indices and disjoint occurrences within
  its prefix.  If all occurrences were chosen the code leaves the vector as it
  is; that this is the selection in its order follows because increasing
  indices are bounded by their place on both sides, which is part of
  `Disjoint`.
- `SolveKeepsOrDrops`: `Spec => []KeptOrDropped`.  `DropInv` follows the scan:
  the chosen indices up to the next one are those already passed, and what was
  missed has been reported as often as it was found.
- `LongestMatch`: `RSpec => []BestIsKept`.  `MonotoneInv` says that a longer
  prefix never has a worse selection, `LoopInv` what the inner loop has learnt,
  and `RivalInv` that the rival covers no more than the selection stored at its
  last occurrence, and when it covers as much without items has no fewer
  members.

### Only model-checked

The progress properties `AddReturns`, `AcceptedIsProcessed`, `StopReturns`,
`Progress`, `ProcessReturns`, `RunReturns` and `Terminates` are liveness under
fairness.  `TrieIsExact` is about a trie made by recursive functions over
sequences of patterns and compares it with direct search, which needs
induction over data; the proofs about the parser therefore take the start points
as given.  `ForestIsComplete` also says that the start points miss nothing
and that the packed parses of an occurrence are all there are; the chart it grows
until nothing changes is a `RECURSIVE` operator.  That the loops of the compiler
end, and that `TableBuilder` computes what they compute, is left to the runs as
well.

## 5. Not modelled, and the plan

Not modelled.  Lexing and expansion of source grammars, morphology, clauses,
names, the interpretation of facts, the gazetteer and the formatting of output
are data conversions or tables of linguistic conditions, executed in one thread,
whose correctness is not a matter of state or order.  The readers other than the
folder reader and the initialisation of `CProcessor` are I/O.  `TMtpTasksPool`,
the restart of a queue after `fork` and thread-specific resources are not on the
parser's path.  Vendored libraries and generated tables, which make up nearly
all lines of the repository, are left out.

Left for modelling, in this order:

1. the cache of compiled grammars (`dictsholder.cpp:673-805`): a look under a
   read lock, and a second look and the load under a write lock; each grammar is
   loaded once and everybody gets the same one, also when a load throws;
2. `TransferOutCountFromSymbolToItsDependencies` in the compiler.

Left for proof: that the prefix automaton is exact, and that the parses under an
occurrence are all there are.
