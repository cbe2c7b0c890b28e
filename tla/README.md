# bulk_server: a TLA+ model

`bulk_server` accepts TCP connections, reads commands line by line, groups them
into blocks and runs each block twice: one line on the console and one file per
block. This directory models the program in TLA+, checks small instances with
TLC and proves theorems about the models with TLAPS.

## The system

| Part | State it keeps | Operations | Modelled in |
|---|---|---|---|
| `async_server`, `async_session` (bulkserver_internal.h) | acceptor, one socket and one library context per client, a 1024-byte buffer | accept, read, close handlers on one `io_context` | `AsyncServer` |
| libasync (async.cpp) | `s_context_pool`, the static `guard_mx_` | `libasync_connect`, `_receive`, `_disconnect`, each under `guard_mx_` | `AsyncServer` (pool, handles, what a call returns or throws), `InputParser` and `QueueExecutorMT` (what a call does) |
| `LibAsyncCtx_t` (async.cpp) | a `stringstream` and a processor | append the buffer, run `process` | `InputParser` |
| `Processor` (bulk.cpp) | parser, input queue, executor | `process`, `exec_queue` | `InputParser` |
| `InputParser` (bulk.cpp) | status, counts of commands and open braces, last command, block number | `read_next_bulk`, `read_command`, `set_status` | `InputParser` |
| `CommandQueue` (bulk.cpp) | commands, `bulk_size_`, `bulk_id_` | push, pop, reset, move/copy from array | `InputParser`, `QueueExecutorMT` |
| `QueueExecutorMT` (async_internal.cpp) | log queue, file queue, workers | `execute` hands a block to each worker | `QueueExecutorMT` |
| `QueueExecutorWithThread` (async_internal.cpp) | a thread, its stop flag; a condition variable and mutex shared by all of them | start, `execute_q`, stop and join | `QueueExecutorMT` |
| `CommandToFileInitDecorator`, `BulkCommand` (bulk_internal.h) | a queue of commands shared by all files of a session | open the file, pop the block's commands into it | `QueueExecutorMT` |
| synchronous executor (bulk.cpp 300-312) | two workers, no thread | used when `thread_count < 2` | `QueueExecutorSync` |
| program `async` (main_async.cpp), options | arguments, one processor over `std::cin` | parse, create, process, destroy | `BulkProgram` |
| version, trace, tests | - | - | not modelled: nothing of it runs concurrently or keeps state |

How they interact: a read handler of the server calls `libasync_receive`. The
call takes `guard_mx_`, appends the buffer to the session's stream and runs
`Processor::process(true)`, which alternates `read_next_bulk` and `exec_queue`
until the stream is exhausted. `exec_queue` moves the block out of the input
queue and hands it, worker by worker, to the log queue (a thread prints it), to
the file command provider (it copies the commands into a shared queue and pushes
one file command) and to the file threads (they only get a notification).
Closing a connection destroys the session object, which calls
`libasync_disconnect`: `process(false)` runs what is pending and the context,
with its threads, is destroyed while `guard_mx_` is still held.

What is hard here: the parser's state survives between calls that cut the input
anywhere; two kinds of threads share one condition variable across sessions; the
file threads share one queue; stopping races with waiting. The list, with the
lines where each hazard bites, is `hazards` in PROJECT.json.

What makes each part correct: the server never gives one client's context to
another, executes everything a client asked for before its session is gone, and
goes on serving when an accept fails; the parser neither loses, repeats nor regroups
commands, blocks are whole, numbered and bounded, and each call returns; the
executor prints a session's commands once and in order, writes complete files,
and a closed session has written everything and left no thread behind.

## Modules

| Module | Content |
|---|---|
| `InputParser` | one session from the bytes of a receive to the blocks given to the executor |
| `BulkAssembly` | abstract specification: commands and braces arrive, blocks come out |
| `InputMeaning` | the reference meaning of an input: its lines, and the blocks they make |
| `InputParserProperties` | a session against the meaning of its input, the mapping to `BulkAssembly`, the inductive invariant of both |
| `MCInputParser`, `InputTexts` | inputs for TLC, and what the documents say |
| `InputParserProofs` | theorems about `InputParser`: types, the shape of blocks |
| `InputAssemblyProofs` | theorems about what a session makes of its whole input |
| `QueueExecutorMT` | the executors and threads of the sessions of one process |
| `QueueExecutorProperties` | what the console and the files show, the mapping to `BlockOutput`, the inductive invariant |
| `MCQueueExecutorMT` | symmetry, progress of the threads and what the documents say, for TLC |
| `QueueExecutorProofs`, `QueueExecutorFilesProofs`, `QueueExecutorTheorems` | the steps of the call, the queues and the threads; the shared queue of the files; the theorems |
| `BlockOutput` | abstract specification: what the executors promise of the console and the files |
| `QueueExecutorSync` | the executor in the calling thread |
| `AsyncServer` | the server: connections, sessions, the pool of contexts, the end of `run` |
| `AsyncServerProperties` | what the server owes its clients, the inductive invariant |
| `MCAsyncServer` | its liveness and what the README asks of static blocks, for TLC |
| `AsyncServerProofs` | theorems about `AsyncServer` |
| `InductionLemmas` | induction over the natural numbers in a form the provers can use |
| `BulkProgram` | the program `async`: arguments, `InputParser` and an executor composed |
| `BulkProgramProperties` | what its output must be for its input, the inductive invariant |
| `MCBulkProgram` | command lines and inputs for TLC |
| `BulkProgramProofs` | theorems about `BulkProgram`, and with it about `QueueExecutorSync` |

### InputParser

A step is one iteration of the loop in `read_next_bulk`: one call of
`read_command` and everything done about its outcome. `ReadNextBulk` is the
entry of that function, `EndOfChunk`, `EndOfInput` and `ReadLine` are the three
ways `read_command` goes, and `OnStatus` is the switch that follows, with
`exec_queue` and the end of `process` when they come next. Calls are `Receive`,
`Disconnect` and, for the program `async`, `Standalone`. `pc` says where the
session is. The stream is a sequence of symbols with `eofbit` and `failbit`;
`std::getline` and the insertion operator are external and modelled by what they
do to those (a stream with only `eofbit` set tests true but takes no input).

A symbol stands for a character. Texts other than `{` and `}` only matter by
identity, so an alphabet of one or two characters is enough. `bulk_id` is the
process-wide counter; here only this session advances it. `last_tok_` is never
read and left out. `chunk_size_` is a member of the parser and never assigned: a
variable that keeps the value it starts with, any of `ChunkSize`, so that a
program that learns it from its command line can instantiate the module. The
history variables are `received`, `executed` and `stray`
(unmatched closing braces read so far).

### BulkAssembly

What a client is promised: static blocks of N commands (N is fixed when a session
starts), a dynamic block between
the outermost braces, a shorter static block only before a brace or at the end,
an open dynamic block dropped at the end. `InputParserProperties!ImplementsAssembly` maps
the session to it: pending commands are the input queue, the depth is
`block_count_`, the blocks are those executed. `more` becomes false when a closing
call has read the whole stream.

### QueueExecutorMT

One call of the library is in progress at a time (`pc`, `session`, `worker`,
`pos`), since `guard_mx_` is held throughout. `Execute` takes the block; for each
worker, `Pack` compares block numbers, `Push` is one locked push, `Copy` one
locked push into the shared queue, `Start` starts the thread, `Notify` is
`notify_one`. `Disconnect` starts the destructors: `Stop`, `StopNotify` and
`Join` for each worker in turn. A thread runs `Lock`, `Test` (the predicate, the
queue's two ends read in two steps because `empty()` is not locked), `Wait`,
`PopCommand`, `PopFileCommand` or `PopNothing`, `Open`, `Write`, `EndWrite` and
`Check` (the end and the head of the loop). `NotifyOne` wakes any one blocked
thread of any session; `Wakeup` is a spurious wakeup.

What is merged: taking the mutex with the first read of the queue; the loop head
with the check at its end (`q_empty_at_stop` is then in `pc`); the delimiter, the
text and the line end of one command on the console. `stop_flag_` is a plain
`bool` in the code and an atomic one here. A block is its session and its size;
its commands are numbered, and block numbers are positions in `bulks`. File names
are left out. A file may fail to open (`OpenFails`): `Open` does not look, as the
code does not, and `Write` then pops in vain.

### BlockOutput

What an executor promises to the processor: the console gets the commands of a
session one after the other in the order they were executed, the file of a block
gets the commands of that block in order, a file that cannot be opened loses its
block and nothing else, and a session is over when both are done. Blocks, console
and files are those of the detailed modules. `QueueExecutorMT` implements it with
one file thread (`QueueExecutorProperties!ImplementsOutput`) and does not with two: that
is the finding of `executor_file_mixed`. `QueueExecutorSync` implements it inside
`BulkProgram`.

### QueueExecutorSync

One call, step by step: `CopyToLog`, `PrintCommand` for each command, `Pack`, `Open`,
`Write` for each command, `Return`. `os_` is the stream of the context the call
got. A command writes to the stream of its context, whatever that is; `Open`
redirects it to the file and nothing sets it back, so that the next block reaches
the console rests on `ContextStream`, the copy made for each block.

### AsyncServer

A step is one completion handler, or a step of a client. One thread calls all
handlers and `guard_mx_` covers each library call, so no finer step can be seen.
`Accept` makes the session, connects it to the library and reads; `ReadSome` is a
read with data, `ReadError` the read that finds the connection closed, after which
nothing holds the session and its destructor disconnects. `Accept` and
`AcceptError` start the next accept. A context is its input queue, its block
number, the depth of braces, and how many of its threads run. `Process` is the
loop of the parser with each line acted on at once, as `BulkAssembly` says and
`InputParser` is shown to do: a line is a "command", a "begin" or an "end", `Parse`
acts on one of them, `Enter` is the entry of `read_next_bulk`, and `Parsed` is the
state of the call after all its lines.

Two failures of the executor are kept. A thread may not start: the exception gives
the block up (`broken`), leaves `libasync_receive`, the handler and
`io_context::run`, and `Unwind` then destroys the session of that handler and after
it those with an outstanding read, which disconnects each of them; the same
exception in a destructor ends the process. And the join in a disconnect may never
return (the finding of `executor_disconnect`): `run` is then "hung" and no handler
is called any more.

A handle is an address. It is free again once its context is erased and may be
given to the next session (`FreeHandles`).

### BulkProgram

The program from its command line to the end of `main`. It instantiates
`InputParser` with the block size that was given, `QueueExecutorSync`, and
`BlockOutput` for the threaded executor (two threads at most: with more it is not
kept); `cmd_chunk_sz` is the block size the processor is created with; a step of the parser that executes a block
is at the same time the call of the executor, and the parser waits while the
synchronous one runs. `Rejected` are the two notifiers that throw for zero,
`Refuse` also the return for a missing block size, `Threaded` the choice
`create_processor` makes, `Finish` the end of the processor, which joins threads if
there are any.

## Runs

Deadlock is not checked: a closed session, or a program whose clients are gone,
really has nothing more to do. What must not stop is stated as liveness.

| Run | Shows |
|---|---|
| `parser_lines` | for clients with matched braces: types, the blocks are those the input describes, only an open dynamic block is ever dropped, and the session implements `BulkAssembly` |
| `parser_bytes` | for any bytes: whole, numbered, bounded blocks, the inductive invariants, the described blocks, and every call returns |
| `executor_threads` | one session, two file threads: complete files, each command once, order, everything written at the end, stopped threads leave, and the inductive invariant |
| `executor_sessions` | two sessions with spurious wakeups and files that may not open: printed once and in order, files hold their block (one file thread), a closed session is written out and quiet, together they implement `BlockOutput`, and the part of the inductive invariant that is about one file thread |
| `server` | two clients, with failing accepts and threads and hanging joins: the pool holds exactly the living sessions' contexts, a session that is gone has executed all its client asked for, a dynamic block is executed whole and with nothing else in it, a static one is bounded and never goes across a brace, numbers are unique, only a missing thread stops the server, a client that closed is served, and the inductive invariant |
| `program` | inputs of up to four lines, either executor, arguments missing or zero: the program ends (with threads: processes all its input), the console shows what the input asks for, the files hold the same, the program implements `BlockOutput` with both executors, and the inductive invariant |

Six more runs check what a document or comment says and find it violated
(`findings` in PROJECT.json): `parser_whole_lines` (a line cut by TCP becomes
two commands), `parser_last_commands` (a buffer after an unmatched `}` is lost),
`executor_file_mixed` (files get each other's commands), `executor_disconnect`
(a disconnect may hang on a missed stop notification), `executor_printed` (a
block may never be printed) and `server_static_mix` (README.md:14 asks that
static commands of different connections be mixed, and they never share a block:
each context has a parser and a queue of its own; `StaticBlocksMix` says that as
soon as enough of them have come they are in a block). The other half of
README.md:14, that dynamic blocks are not mixed, holds: `DynamicBlocksApart`.
The same cause has another effect, which has no run of its own: each session has
a log thread that writes to the console command by command without a lock, so
the lines of two sessions may be written into each other (README.md:31-39 shows
one block a line); `PrintedInOrder` therefore speaks of the commands of one
session.

Three more things the code does show in the conditions of the properties, not in
a run. A disconnect drops an open dynamic block, although async.h:19 counts the
call as the end of the block (`DropsOnlyOpenBlock`, `BulkAssembly!Finish`). An
unmatched `}` while a block is being read queues the last command once more, so a
static block may outgrow its size (`stray = 0` in `StaticBlocksBounded` and
`AssemblesBuffers`). With a block size of zero, which only the options refuse, a
call never returns (`CallReturns` is checked with a size of two; `ProgramEnds`
shows that the options are enough for `async`).

Bounds. Parser: block size 2, the smallest with a boundary inside a block; four
buffers of up to two lines (`parser_lines`) or three of up to two symbols
(`parser_bytes`, every cut of six symbols), and standard inputs of up to three or
five lines. Four buffers are enough for a block that spans three calls, a nested
brace and what follows it; for all but `CallReturns` the theorems remove the
bounds. Executor: two blocks of two entries: two files open at the
same time, a block queued while another is written, a stop with work left, and
three threads or two sessions competing for one notification. `executor_sessions`
uses the symmetry of the sessions; it checks no liveness. Server: two clients, two
addresses, blocks of two, two threads, four lines in reads of up to two lines: a
block begun in one read and completed in another with the other client's block
between, an address used again, a dynamic block longer than a static one, and each
place at which a thread can fail to start. Program: any three lines
over two commands, the braces and the empty line, the last one ended or not, and
four lines that are not empty: a static block and a shorter last one, a dynamic
block with what follows it, nested and open ones.

Fairness. A call that holds `guard_mx_` keeps running (`WF_vars(Step)`,
`WF_vars(CallStep)`), and so does each thread that is not blocked
(`WF_vars(ThreadStep(t))`). Nothing forces a client to send or close, a blocked
thread to wake, or a spurious wakeup to happen; the liveness runs have no
spurious wakeups, for with endless ones a mutex that is not fair could be kept
from a thread forever. In the server, `io_context` runs the handler of each
operation that completes: `WF_vars(Accept(c))` and `WF_vars(ReadError(c))`. The first
also says that an accept does not fail for ever; nothing is assumed of clients, of
reads with data or of when an accept fails. `ClosedIsServed` allows the server to
stop or hang, both of which it really may. In `BulkProgram` only
the main thread is fair: the other threads may miss a notification, and the join
at the end of a threaded program may then hang, so `ProgramEnds` asks of one only
that its processor has executed everything.

What the server's model leaves out: data sent and not read (a line is chosen when
it is read, so one lost with a broken connection never existed), lines cut by TCP
and unmatched closing braces (they are in `InputParser`, where they break what is
promised here), the backlog of the operating system, and what the workers that
did start make of a block that was given up.

## Proofs

Each `*Proofs` module starts from the named assumptions of the module it is about
and proves that its inductive invariant, which a run also checks, holds at the
beginning and is kept by each action; the properties follow from it.

### InputParser

`InputParserProofs` proves, for every alphabet, every set of inputs, every number
of receives and every block size, from the named assumptions of
`InputParser` (braces and line end are distinct and not characters; inputs are
finite sequences; block sizes are natural numbers):

* `TypeCorrect`: `Spec => []TypeOK`;
* `Invariant`: `Spec => []IInv`, and from it `WholeBlocks`, `IncreasingNumbers`,
  `TaggedCommands` and `BoundedBlocks`;
* `DropsOnlyOpen`: `Spec => DropsOnlyOpenBlock`.

`InputAssemblyProofs` proves from the same assumptions:

* `InputInvariant`: `Spec => []MatchedInv`, and from it `BuffersAssembled`:
  `Spec => []AssemblesBuffers`;
* `AssemblyImplemented`: `MatchedSpec => ImplementsAssembly`, where `MatchedSpec`
  is `Spec` for clients that close no brace they have not opened. For others it
  is false, and the code does not claim it: an unmatched brace repeats a command.

The blocks' properties are not inductive: whether a block is whole depends on
what the queue held when it was taken, and how much is taken on a number counted
across calls. `IInv` adds that the counted size is the length of the queue
(`SizeAgrees`; between the execution of a block and the next entry of
`read_next_bulk` the number is stale, and harmless only because the queue is
empty and the status `kReady`), that the queue is the beginning of one block with
the current number (`QueueIsBlockStart`, `NumbersAgree`), that nothing is pending
at a boundary (`ReadyIsEmpty`), and that without unmatched braces the parser's
count is the queue's length (`CountAgrees`). TLC checks `IInv` in `parser_bytes`.
The proof has a lemma for the status switch (`OnStatusInv`), shared by the steps
that end in it, and one for each step.

What the blocks are for a whole input needs more: where the stream stands.
`StreamInv` says that what is unread is the end of the last input, that a call
ends with an empty stream which the next insertion can clear (`eofbit` never alone:
with an unmatched brace it may be, which is the finding of
`parser_last_commands`), and that a status `kStop` with nothing to keep means the
stream is exhausted. `MeaningInv` relates the session to `InputMeaning`, which reads
an input symbol by symbol: the symbols read of the last buffer make what the
session holds (`IsMadeOf`), and an exhausted stream means all of the input. The
code completes a static block only when it would read on, the reference at once;
`Current` is what the session holds with a full block counted as completed.
`ReadingSteps` and `MadeBySteps` unfold the recursive functions of the reference,
`ReadingActs` reads one line of it by induction over its symbols, `LineMakes` says
that a step of the parser does with a line what the reference does. For the
refinement `LineAssembles`, `ChunkAssembles`, `EndAssembles` and `CallAssembles`
map the steps; `EndOfChunk` may be the abstract `Complete` or `FlushLast`, and that
it is allowed to be the latter, the input being at its end, is `StreamInv` again.

### QueueExecutorMT

`QueueExecutorTheorems`, on the lemmas of `QueueExecutorProofs` and
`QueueExecutorFilesProofs`, proves for every number of sessions, blocks, commands
and threads (`SessionAssumption`, `ThreadAssumption`: at least two threads, as
`create_processor` makes sure; `SizeAssumption`: no block is empty):

* `TypeCorrect` and `Invariant`;
* `ConsoleInOrder` (`PrintedInOrder`), `CommandsOnce` (`EachCommandOnce`),
  `FilesAreInOrder`, `FilesAreComplete`, `ClosedSessionsAreWritten` and
  `ClosedSessionsAreQuiet`;
* with the hypothesis `thread_count = 2`, one file thread: `FilesHoldTheirBlocks`
  and `ExecutorsImplementOutput`, the step simulation of `BlockOutput`. With more
  file threads both are false: that is the finding of `executor_file_mixed`.

`IInv` (`QueueExecutorProperties`) follows a command through the program.
`CallInv` says how far the call is and which block each queue has met last: without
it the comparison in `Pack` could queue a block twice. `LogInv` makes the log queue
the continuation of the console, `CopyInv` the shared queue that of the files.
`FileInv` keeps a file command in one place, the file queue or one thread.
`ThreadInv` is why a closed session is written out: only a destructor sets a stop
flag, a thread leaves only when its queue is empty after that, and the join waits
for it. `DebtInv` is the heart of the file part: the size of the shared queue is
read once and other threads pop before it is used, so that a file may well find
other commands than it counted; what holds is that the queue is as long as what
all unfinished file commands together will still take (`Debt`), hence no thread
ever finds it empty too early. `HoldInv` says, for one file thread, whose commands
those are (theorem `QueueHoldsWhatIsOwed`). `executor_threads` checks `IInv` with two file threads and
`executor_sessions` `HoldInv` with two sessions and files that fail to open.

### AsyncServer

`AsyncServerProofs` proves for every set of clients and addresses, every block
size, every number of threads and every length of a read (`NobodyAssumption`,
`SizeAssumption`: block size and threads are positive, as the options make sure;
`BoundAssumption`):

* `TypeCorrect` and `Invariant`;
* `PoolHoldsTheLiving`, `GoneSessionsAreExecuted`, `DynamicBlocksAreApart`,
  `StaticBlocksAreBounded`, `NumbersDiffer` and `OnlyThreadsStopIt`, for the properties of the run `server`.

What a session owes its client when it is gone depends on every read before. `IInv`
(`AsyncServerProperties`) says for each living context (`ContextAgrees`) which of
its client's lines are parsed, that the lines not parsed are in its stream, that
what is pending is exactly the open dynamic block or the last commands outside of
braces (`IsPending`), that everything before is executed, in order and nothing
else (`IsServed`), and that its number is still unused (`IsFresh`), also by the
other contexts. `BlocksInv` says how the blocks so far are cut and numbered, and
that their commands are settled: lines that come later cannot change how a block
ought to have been cut (`CutGrows`). It says of static blocks, too, that they are
one client's (`WellCut`): that is what the code does and the induction needs, not
what the server is asked for, and no run states it by itself. The contexts agree only while `run` is
"running" or "unwinding": a process that ended or hangs in a call leaves a context
half worked on.

The proof goes line by line. `IsCall` says of the state of a call that its first m
lines are accounted for. `EnterIsCall`, `OpenBraceIsCall`, `CloseBraceIsCall` and
`CommandIsCall` take it from m lines to m + 1, `ParsedIsCall` to the last one by
induction, `ProcessIsCall` and `LastProcessIsCall` to the end of a call of the
library; `CanCallNow` and `CallLeaves` are the way from the invariant into a call
and back. The library states induction for operators, which the provers
cannot instantiate; `InductionLemmas` states it for sets, from the finite subsets
of `Nat` being well founded.

### BulkProgram

`BulkProgramProofs` proves for every alphabet, every set of inputs and every set of
block sizes, with and without files that cannot be opened, from `ArgumentAssumption`
(arguments are numbers or not given; at most two threads: with three or more there
are two file threads, and the executor does not implement `BlockOutput`),
`InputAssumption` (that of the parser) and `StreamAssumption` (the console is not a
file):

* `TypeCorrect` and `Invariant`;
* `ConsoleShowsTheInput` (`PrintsTheInput`) and `FilesAreMirrors`
  (`FilesMirrorConsole`);
* `OutputImplemented` (`ImplementsOutput`): the program, with either executor,
  implements `BlockOutput` for the blocks its processor makes.

That the output is right when the program ends rests on everything before. `IInv`
(`BulkProgramProperties`) has four parts. `Processor!IInv` and
`Processor!MatchedInv` are the invariants of the session: a step of the program is a
step of the session or leaves it alone (`SessionSteps`), so the lemmas behind the
theorems of `InputParser` carry over (`SessionKeeps`); the lemmas `Same...` say that
the operators of the session are the same under the two names by which
`BulkProgramProperties` and the proofs instantiate it. `PhaseInv`, `FitsInput` and `BlocksAgree`
tie the session to the program: nothing has happened before the processor starts, it
then has one input and no other, and the executor is given exactly the blocks the
session counts as executed. `FitsInput` bounds a block by the input, which the
promise needs (`SizesFit`): the block sizes of `BlockOutput` are those an input can
ask for. `ConsoleInv` and `FileInv` say what the output is between any two steps: the
console shows the commands of all blocks in order, without a gap and from the first
on, and a file the first commands of its block. `SyncInv` follows the synchronous
executor through a block: which queue holds the commands still owed, which are
already printed, and that the stream of its context is the console as long as it
prints. Without that last part nothing would say that the next block is printed
instead of written into the file of the one before; `Execute` establishes it again
for each block because the context is copied.

A step that prints or writes is handled once for both executors (`OutputStepKeeps`):
`SyncSteps` shows that a step of the synchronous one is such a step, and the threaded
one takes them by definition. At the end (`EndInv`) everything is printed and
written. From `ConsoleInv` it follows that each block is then on the console in one
piece, the first at its beginning and each where the one before it ends
(`PrintedIsShown`, `ShownInOrder`), so the console is the concatenation of the
blocks (`AllAreShown`, by induction over the blocks). `EndPrints` replaces numbers by
texts: the texts of the blocks are those `InputMeaning` reads in the input, by
`MatchedInv` of a session that is closed.

That the threads of `QueueExecutorMT` keep the promise which stands for them here is
`ExecutorsImplementOutput`, above.

### Only model-checked

Liveness: `CallReturns`, `StoppedThreadExits`, `ClosedIsServed`, `ProgramEnds`.
Fairness and `ENABLED` are out of the prover's reach. Every invariant, action
property and refinement that a passing run checks is also proved. What is proved of
the refinements is their safety part; the abstract specifications have no other.

No module uses RECURSIVE operators.

## Plan

1. Done: `InputParser`, `BulkAssembly`, their runs and proofs; `QueueExecutorMT`
   and its runs.
2. Done: `AsyncServer`; `BlockOutput` with both executors below it; `BulkProgram`
   as the composition of parser and executor.
3. Done: `QueueExecutorMT` with its refinement of `BlockOutput`, `AsyncServer`, and
   `InputParser` with its whole input and its refinement of `BulkAssembly`:
   inductive invariants and the theorems of all their safety properties.
4. Done: `BulkProgram` with `QueueExecutorSync`: its inductive invariant, its output
   and its refinement of `BlockOutput`.

Nothing of the plan is left. What could follow: the executor with more than two
threads inside `BulkProgram`, which needs a weaker promise than `BlockOutput`.

## Not modelled

* Version, trace and the printing of queues through visitors: constants and debug
  output; nothing reads them back.
* Tests and build files: read for what they say, not part of the program.
* The server's option parsing beyond its effect, a block size of at least one; help
  texts and malformed values of any option.
* Writes that fail on an open file or on the console, file names (two blocks whose
  files get the same name), and the counters `cmd_idx_` and `created_at_`, which
  nothing but names and traces uses.
* `CommandLastInBulk`, `QueueExecutorToFile`, `remove_worker_at`, `last_tok_`: no code
  path of the programs reaches or reads them.
* A thread of `async` that does not start, and the exception `main` then catches
  (main_async.cpp:21-24). In the server it is `Unwind`.
* The data race on `stop_flag_`: the flag is atomic in `QueueExecutorMT`. A thread
  that sees the store late is one that read before it, which is among the orders
  explored; a read the compiler moves out of the loop is not.
* A composition of `AsyncServer` with `QueueExecutorMT`: the threads of a session see
  nothing of the server but the end of their session, and the product of both is
  beyond TLC; the two failures that cross the boundary are in `AsyncServer`.
