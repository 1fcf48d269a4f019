# Astraship in TLA+

TLA+ models, TLC runs and TLAPS proofs for the Python platform `astraship`
(`src/src/astraship`): a tool runtime with a fair shared/exclusive gate, a
JSON-RPC client that owns a Felix kernel as a child process, the requests that
the kernel sends back, sessions with their event streams, and the durable
transcripts of those sessions. Paths below are relative to the repository
(`registry.py` is `src/src/astraship/tools/registry.py`, and so on); design
documents are in `src/docs/superpowers/specs/`.

## 1. The system

### Components, their state and their operations

| Component | State | Operations | Modelled in |
|---|---|---|---|
| Execution gate, `registry.py` `_ExecutionGate` | `_waiting`, `_active_shared`, `_active_exclusive`, one `asyncio.Condition` | `hold`, `_acquire`, `_release` | `ExecutionGate` |
| Tool registry, `registry.py` `ToolRegistry` | `_definitions`, the gate, the observer | `register`, `execute`, `execute_many` | `ToolRegistry` |
| Kernel client, forward half, `client.py` | the process, three transport tasks, `_pending`, `_next_id`, `_write_lock`, `_failure`, three flags | `start`, `request`, `close`, `_read_stdout`, `_watch_process` | `KernelClient` |
| Kernel client, reverse half, `client.py` | `_server_tasks`, `_execution_tasks`, `_response_tasks`, `_cancelled_server_requests` | dispatch, `$/cancelRequest`, handling, refusal of duplicates, done callbacks | `HostCalls` |
| Kernel session, `session.py` | subscription queue, bounded `_events`, `_demux_task`, `_closed` | `create`, `prompt`, `events`, `close`, `_demultiplex` | `KernelSession` |
| Transcript store, `persistence.py` | one append-only file per session | `append`, `read`, `list_sessions`, `query` | `TranscriptStore` |
| Built-in file tools, `builtins.py` | the files, worker threads | `read_file`, `write_file`, `list_files` | `FileTools` |
| Tool arguments schema, `schema.py` | none | `validate_schema`, `validate_arguments` | `ToolSchema` |
| Tool values, `types.py` | none | the checks of `ToolDefinition`, `ToolCall`, `ToolContext` | `HostTools` |
| Wire protocol, `protocol.py` | none | `decode_message`, `encode_*` | `HostTools` |
| Host tool adapter, `host_tools.py` | a snapshot of the schemas | `capability`, `handle` | `HostTools` |
| Command line, `cli.py` | none of its own | `run`, `kernel check`, `session list/replay` | `PromptRun` (`run`) |
| Configuration, errors | none | `resolve_kernel_command` | not modelled, see section 7 |

### How they interact

Everything but the file tools runs on one event loop, so code between two
`await`s is atomic and every `await` is a place where anything else may run.

- A batch (`execute_many`) runs safe tools in groups through `gather` and
  exclusive tools alone; every call holds the gate while its tool runs. The
  built-in tools wait for worker threads, which nothing can interrupt.
- The client registers a future in `_pending`, writes a line under the write
  lock and waits. The stdout reader settles the future; the watcher of the
  process, the reader and `close()` fail all of them.
- The reader starts a task for each request of the kernel. Its response goes
  through the same write lock, and its done callback may fail all forward
  requests. A `tool/execute` request goes through the adapter, the argument
  schema and the registry to a tool and back.
- The reader puts each notification into the queue of every subscriber. The
  demultiplexer of a session appends the session's events to the transcript,
  then to the queue of the consumer.
- A replay reads a transcript from another process while it is being written.
- `astraship run` is one task that owns a client, a session and a store, and
  closes them on every way out.

### What is hard

- Cancellation and timeouts at every `await`: of a waiter that has been
  notified, of a batch with calls at the gate, of a request whose response is
  waiting for the write lock, of a demultiplexer that has been woken.
- Several parties that end the same thing: `_pending` is failed by the reader,
  the watcher and `close()`; the client is closed by a failing `start()` and by
  any number of `close()`.
- State read before an `await` and used after it: the process while it is being
  launched, the list of server tasks in `close()`, the kind of a tool in a
  batch plan.
- What lies outside of a `try` statement: a `start()` that finds no command, a
  validator that raises, an answer that cannot be encoded.
- IDs chosen by the other side, repeated at once or later.
- A bounded queue whose producer never waits.
- Appends that stop half way.
- Worker threads that outlive the call they work for, over files that only the
  gate protects.
- Values of Python that several checks tell apart differently: `None` for a
  keyword, booleans that are integers, floats that equal them, NaN, integers that
  no float can hold, strings that UTF-8 cannot express.

`PROJECT.json` lists each of these hazards at its line with the properties that
cover it, or the reason why none does.

### What makes each component correct

- Gate: exclusive calls alone, shared width respected, no slot lost or given
  back twice, nobody sleeps who could enter, exclusive calls wait in order of
  arrival and are not starved.
- Registry: the gate is held exactly by the running bodies; an exclusive call
  of a batch is a barrier; results in order of submission; one observation per
  result; calls and batches end.
- File tools: atomic under the gate; a created file is not replaced; a call that
  ended starts nothing.
- Client: a caller gets the answer to its own request, no caller waits for a
  future that nobody can settle, nothing but `initialize` precedes the
  handshake, a closed client is quiet, requests and `close()` end.
- Reverse half: one answer per request, a cancellation that arrives in time
  wins and harms no other request, the request in progress stays in the tables.
- Messages, schemas, adapter: the connection ends at nothing but a line that is no
  message, or one that the client does not support or cannot read; a tool runs only
  for arguments its announced schema allows; every answer can be read, and its code
  is the right one.
- Session: the stream has no gaps, is in the transcript before it is delivered
  and ends with an exception or not at all.
- Transcript: acknowledged events survive, a read is exact or raises.
- Run: an exit with 0 means a complete turn, the session is released on every
  way out, the run ends.

## 2. Modules

| Module | Contents |
|---|---|
| `Queues` | lines of distinct waiters: membership, position, removal |
| `SharedExclusiveLock` | the abstract lock: who waits before whom, who is inside |
| `ExecutionGate` | the gate; implements `SharedExclusiveLock` |
| `ToolRegistry` | extends `ExecutionGate` with calls, batches, threads, observer |
| `KernelClient` | start, request, close, reader, watcher, write lock |
| `HostCalls` | requests of the child, cancellation, duplicates, write lock, close |
| `FileTools` | extends `ToolRegistry` with the three file functions in their threads |
| `JsonValues` | JSON values with their kinds |
| `ToolSchema` | checking a schema, checking arguments, and what a schema means |
| `HostTools` | one line of the kernel: decoding, the handshake, a tool call and its answer |
| `KernelSession` | create, demultiplexer, events, close, for several sessions of one client |
| `PromptRun` | extends `KernelSession` with `_run_prompt` and its interrupt |
| `TranscriptStore` | append, read and query over one file, with crashes and power loss |
| `MC*` | instances for TLC |
| `SharedLemmas` | what the operators of `Queues` return, the line at a write lock (`LockLine`), induction over numbers, recursion over values of some depth |
| `ToolsProofs` | invariants and theorems of `ExecutionGate`, `ToolRegistry` and `FileTools`, layer by layer |
| `KernelClientProofs`, `HostCallsProofs`, `KernelSessionProofs`, `PromptRunProofs`, `TranscriptStoreProofs`, `HostToolsProofs` | those of each of those modules |

Schemas and values nest. What the code computes by recursion over them is a
recursive function on the constant `Values`, the set of the values there are:
each stands in it with its parts, and `Depth` says that the parts are not as
deep as the whole. So TLC can evaluate it and the provers can reason about it;
`RECURSIVE` operators are used only in `MCHostTools`, to collect the parts of
the values of the instance.

Conventions. Names are those of the source where TLA+ allows. An action is what
a task does between two suspensions, including everything it calls. The state of
a task is a program counter (`stage`, `pc`, `closing`) whose values name the
`await` at which the task is. Definitions whose comment begins with `Fault:` are
mistakes the code could plausibly make and does not: dropped guards, forgotten
notifications, swapped orders. They are part of no specification; each property
was seen to fail when one of them replaces the definition that follows it, which
shows that the property depends on the code it is about.

### Correspondence of state and steps

- **`ExecutionGate`.** `waiting`, `activeShared` and `activeExclusive` are the
  fields. `notify_all` only resolves futures, so `notified` holds the waiters
  that are to look again, and each looks in a step of its own (`Recheck`); a
  cancelled waiter stays queued until its task runs (`cancelled`, `Abandon`).
  `inside` is the body of `async with hold()`; `CanEnter` reads the fields only,
  as `_can_enter` does.
- **`ToolRegistry`.** `Execute` is lookup, validation and the first part of the
  gate; `BodyEnds`, `BodyInterrupted` and `AbandonGate` are the ends of the
  `try` statement, `ObserverEnds` the observer and the return. `Deadline` is the
  timer of `asyncio.timeout`; a timer and a cancellation may both be due.
  `Proceed` is the loop of `execute_many` up to its next `await`, with the
  definitions as they are at that moment; `StartChild`, `GroupReturns`,
  `GroupRaises` and `SingleEnds` are `gather`, its end and the exclusive call.
  Values and schemas are in `HostTools`; elapsed times and messages are left out.
- **`FileTools`.** `worker` is the thread of a call: queued in the pool, running,
  finished. While it runs, `OpenForWrite`, `WriteBlock` and `EndWrite` are
  `_write_file`, `OpenForRead`, `ReadBlock` and `EndRead` are `_read_file`, one
  system call at a time, and `ListFiles` is `_list_files`. Opening with mode `w`
  truncates, mode `x` refuses; an `OSError` may end a write at any block.
  `FileBodyEnds` is the `await` that gets what the function returned. A block
  is named for the call that wrote it, so that mixed contents show. A path
  escapes or does not (`_resolve_path`); the registry is that of `ToolRegistry`,
  with its deadlines and cancellations. `ThreadedCalls` are the calls of the three
  tools; those of other tools compete for the gate and leave the files alone.
- **`KernelClient`.** `pending` is the key set of `_pending`; `future` and
  `reply` what a future was given; `writers` the write lock with its FIFO queue;
  `wire` what the child received. `ReadResponse`, `ReadMalformed` and `ReadEof`
  are the reader, `WatchExit` the watcher. `Reject` is the failing `start()`
  with the `close()` it calls. `Close`, `CloseEscalate` and `CloseReap` are
  `close()` from one suspension to the next: stdin closed, SIGTERM, SIGKILL.
  `Start` fails before its `try` statement if there is no command ("config").
  `SpawnCancelled` and `CancelCall` are a `start()` that is cancelled before and
  after the launch, `CancelClose` a `close()` that is cancelled as it waits for the
  exit, the one that a failing `start()` calls included; where `close()` awaits the
  tasks it ended it suppresses the cancellation and goes on.
- **`HostCalls`.** The tables are keyed by ID, as in the code. `ReadRequest` and
  `ReadCancel` are the reader; a task is created, started (`HandleRequest`),
  waits for its handler, for the lock and for `drain()`, and is removed by its
  done callback (`TaskDone`). `DieCancelled` is a task that `close()` cancelled.
  `FinalAnswer` is the decision that `_write_final_response` makes with the lock.
  `duplicates` holds the requests whose task is one of `_reject_duplicate_request`:
  the reader decides that once, when the line comes.
- **`KernelSession`.** `stdout` holds the lines between child and reader,
  `subscription` the unbounded queue of a session, `events` the bounded one.
  `ReadLine` broadcasts; the demultiplexer handles all lines that wait in one
  step, because `get()` suspends only on an empty queue and `append` never
  suspends. `Own` is what it takes out of them, its session's events in their
  order (`Among`). `CreateReturns` subscribes only after the response woke the task, as
  the code does, so events read before are lost.
- **`PromptRun`.** `pc` names the `await` of `_run_prompt`, `error` the exception
  on its way out. `PromptReturns` and `TakeEvents` are the `async for` up to its
  next suspension; a step that leaves the loop takes the first part of
  `session.close()` with it (`Leave`). `Interrupt` is the cancellation of the
  task by SIGINT. The client's own start and requests are single steps that may
  fail, as `KernelClient` shows in detail.
- **`JsonValues`, `ToolSchema`.** A value is tagged with its kind. `CheckNode` is
  `_validate_schema_node` and `ValidateNode` is `_validate_value`, in the order of
  the code, with the three ends that they have (accepted or valid, refused or
  invalid, raising) and with what the calls for the parts of the schema find as a
  parameter; `Check` and `Validate` are the functions that they are so defined by.
  `Conforms` is the meaning of a schema, keyword by keyword, in no order and
  written from JSON Schema rather than from the code's control flow; the code is
  compared with it. `Beyond` are the integers for which `math.isfinite` raises, in a
  bound of a schema (`Finite`) and in an argument (`ValidateNumber`); `MaxFloat` says
  where they begin. `Hollow` and `Huge` name what makes validation raise.
- **`HostTools`.** `Receive` is the reader with `decode_message` and, for the
  response to `initialize`, `_parse_initialize_result`; `Register` is
  `ToolDefinition` and `register`; `Start` sends the snapshot; `Handle` and
  `BodyEnds` are `_handle_server_request`, `HostToolAdapter.handle` and
  `ToolRegistry.execute`. `Unreadable` are the lines for which `readline()` or
  `json.loads` raises. A body returns, raises or times out (`ended`); `Finish` is the
  `ToolResult` on the wire and `Refuse` an error response. `Answer` is `_write` with
  `_server_task_done`: if something that the response repeats is not `Encodable`, the
  task fails, and what is pending with it. The properties read what the child reads:
  `sent` and `answer` are encoded values, and are decoded again. They take a message
  for one by what JSON-RPC 2.0 says of its members, in definitions of their own
  (`IsCall`, `IsReply`), and name what the client does not support of it
  (`Unsupported`) or asks less strictly for.
- **`TranscriptStore`.** A record is three parts: the beginning of its text, the
  rest, the newline. This is as much as `json.loads` of a line can tell: a line
  is a record if it holds exactly one whole text; a beginning leaves a brace
  open whatever follows, and two texts are "Extra data". `Write` may write any
  number of the parts, `Acknowledge` is `fsync` and the return, `Abandon` an
  exception or a killed process, `PowerLoss` drops any part that was not synced.
  `Open`, `ReadChunk` and `Finish` are `query()` with a limit of one or without
  one, called again with the next offset.

## 3. Runs

| Run | Instance | What it shows |
|---|---|---|
| `Gate` | 3 shared and 2 exclusive calls, width 2 | `Exclusion`, `NoLostWakeup`, `NoOvertaking`; `ImplementsLock` under fairness |
| `Registry` | batches `<<s1, late, s2>>` and `<<twin, twin>>` beside a direct exclusive call, width 1; observers that suspend for `s1` and `late` | `NoSlotLeak`, `BatchBarrier`, `ResultsInOrder`, `ObservedOnce` |
| `Files` | batch `<<look, over>>` beside a direct creation, width 2; 2 files of 1 or 2 blocks | `GatedFilesAreAtomic`, `CreatedStays`, `NoLateStart`; `CallsEnd` |
| `FilesOverlap` | the same | violation of `ExclusiveToolsNeverOverlap` |
| `Client` | start, 2 requests, 2 `close()`; start, a request and a `close()` cancellable | `Correlation`, `InitializeFirst`, `ClosedMeansQuiet`; `ClientCallsEnd` |
| `Host` | 2 requests with one ID, 1 forward writer, four ends of a handler | `AnsweredOnce`, `CancelExact`, `OriginalStaysTracked`; `HostTasksEnd` |
| `HostBreaksClient` | 2 requests with one ID | violation of `HandlersDoNotBreakClient` |
| `HostTools` | 62 schemas, 26 arguments, 229 lines, 10 outputs and 2 exceptions | `MessagesAreSorted`, `OnlyConformingCallsRun`, `AnswersAreExact` |
| `Session` | 2 sessions, one with a transcript and 3 events for a queue of 1, one with 1 event | `NoGaps`, `DeliveredIsStored`, `EndIsReported`, `SilentAfterEnd` |
| `Prompt` | 1 session with a transcript, its events for a queue of 2, one of them early | `TurnIsComplete`, `SessionReleased`; `RunEnds` |
| `PromptHangs` | the same | violation of `RunNoticesExit` |
| `Transcript` | 4 appends, 1 reader in pages or at once | `AckedAreDurable`, `ReadIsExact`, `ReadableUnlessTorn` |

`Gate`, `Files`, `Client`, `Host`, `HostTools`, `Prompt` and `Transcript` also
check the type invariant of their module; that of `Files` contains the one of
the registry, and that of `Prompt` the one of the session. Deadlock is not
checked where the system rightly stops: each call, request and append of an
instance is made once, and a closed client does nothing more. The gate's calls
come back, so `Gate` checks it.

### Why the bounds suffice

- `Gate`: five calls fill the width, leave a shared and an exclusive waiter
  behind an exclusive one, and let a cancelled waiter stand at any place. The
  safety properties are proved for every bound (section 5).
- `Registry`: three calls are the least that have something before and after a
  barrier; `late` becomes known between the planning and the execution of its
  batch; the duplicate batch never runs; the direct call competes for the gate.
  An observer that suspends differs from one that does not for a call of a group
  and for a call alone, and both are there.
- `Files`: two writers of one file, of which one overwrites or creates, and a
  reader or a listing: the least that can mix. The second file is there before,
  for the listing to find and be cut at `MaxList`. Two blocks are the least that
  can be interleaved, and the second is past `MaxRead`. There are no calls of other
  tools here: `Registry` has them, and the proofs.
- `Client`: two requests are the least whose answers can be swapped; two
  `close()` besides that of a failing `start()` give three in one run, of which two
  may be cancelled before the third. Each
  task makes one call, since a call leaves nothing behind but its entry in
  `_pending`, which stays in the state.
- `Host`: two requests with one ID give all cases of a duplicate, refused while
  the first is in progress or accepted when it is over, and the forward writer
  gives every order at the lock. Requests of different IDs share the lock and
  `close()` only. The ends of a handler are a result that cannot be serialized,
  one that cannot be encoded, a cancellation and an exception before the first
  `await`: a result that can be sent, and one exception or another, take the path
  of the first and differ in what is written.
- `Session`: a queue of 1 overflows with the second event, and the third would show
  a gap if the demultiplexer went on after that. `MaxEvents` bounds
  the events of each session, `PipeSize` the lines between child and reader, and
  one malformed event is under way at a time. The second session has one event,
  for the first to skip.
- `HostTools`: every keyword of the schema language appears with a value of the
  right kind, of a wrong one, with `None`, and reversed against its partner;
  every part of a message with each kind. A schema nests one level, as the code
  recurses in one place per kind; the proofs hold for any depth. `MaxFloat` is 10, so
  that 11 and -11 are beyond it; `MaxNesting` is 2, with outputs of depth 2 and 3; `~`
  stands for a lone surrogate in each place of a request, in outputs and in the text
  of an exception; one line of each kind is unreadable. One line is read, since
  decoding has no memory.
- `Prompt`: one event before the prompt and enough in the turn to overflow the
  queue of 2. Interrupts come once, as the second SIGINT ends the process.
- `Transcript`: `MaxEvents` bounds the appends: one torn, one that shares its
  line, and others around them, for pages of one event and for all. Readers do
  not touch the file, so one stands for all.

### Fairness

Weak fairness is assumed of the steps that the event loop runs as soon as they
are ready (the loop is FIFO, so a ready callback is never passed for ever), of
timers, and of little else:

- gate: bodies end, because `execute` gives every call a timeout; fairness of
  `Recheck` and `Abandon` is the loop's. Nothing makes calls arrive.
- registry and file tools: `Deadline` for every call; a tool that swallows the
  cancellation is assumed to end afterwards. Worker threads owe nothing.
- client: the timers of requests and of `close()`, and SIGKILL, which a process
  cannot ignore (`Killed`). The child need not answer, read its stdin, close, or
  exit; `ClientCallsEnd` excepts a living child that never reads a request that
  is half written. A `close()` that is cancelled raises, and has ended with that.
- reverse half: handlers end (those of the host adapter do by the registry's
  timeout) and the child reads its stdin or the pipe breaks.
- run: the tasks of the program, and a kernel that answers the prompt and plays
  its turn to the end while it lives. `RunEnds` is about runs whose kernel lives;
  `RunNoticesExit` is what fails for the others.

`Session`, `Registry`, `HostTools` and `Transcript` check safety only.

## 4. Abstract specifications

`SharedExclusiveLock` states what the gate promises without a queue, counters
or wake-ups: a request is granted when it is admissible beside the holders and
the earlier requests. `ImplementsLock` maps `requests` to the queued calls,
`holders` to the calls inside and `ahead` to the calls before each one; the
fairness of the lock, that an admissible request is granted or withdrawn, is
implemented by the notifications: this is where a lost wake-up would show.
`Gate` checks all of `ImplementsLock`; that every step of the gate is a step of
the lock or none is also proved (`GateImplementsLock`).

## 5. Proofs

The theorems hold for all values of the constants that the assumption of the
module allows (`GateAssumption`, `RegistryAssumption`, `ClientAssumption`,
`HostAssumption`, `SessionAssumption`, `PromptAssumption`, `TranscriptAssumption`,
`FilesAssumption`, `JsonAssumption`, `HostToolsAssumption`): any finite sets of calls,
any batches, requests, IDs, sessions, queue sizes, lengths of a turn, readers and
files, any set of JSON values of any depth, regular expressions, lines of the kernel
and outputs of tools. The assumptions say no more than that the sets are disjoint
where they must be, that bounds are natural numbers, that finitely many paths are
spoken of, that exactly the calls that do not write are safe, as the definitions
of the tools say, that a run has one session and that `turn/end` is not among the
events before its prompt, that `None` and `Absent` are no values of the data, and
that a JSON value is what its kind says, has each key of an object once and is
deeper than its parts, as everything that `json.loads` returns, and that the texts of
exceptions are strings. Which integers no float can hold, which strings cannot be
encoded, which lines cannot be read and how deep a result may be is left open. The
theorems about
the gate and the registry rest on `GateAssumption` and `RegistryAssumption` alone,
though they stand in one module with those about the file tools.

Each module has one inductive invariant, checked by TLC on the module's run
before it was proved, one lemma per action (or per group of actions that change
the same variables), and a theorem per property.

| Module | Theorems | Not stated by a run |
|---|---|---|
| `ToolsProofs`, gate | `GateTypeCorrectness`, `GateExclusion`, `GateNoLostWakeup`, `GateNoOvertaking` | `GateSlotAccounting`, `GateImplementsLock` |
| `ToolsProofs`, registry | `RegistryNoSlotLeak`, `RegistryBatchBarrier`, `RegistryResultsInOrder`, `RegistryObservedOnce` | `RegistryTypeCorrectness`, `RegistryExclusion` |
| `ToolsProofs`, file tools | `FilesTypeCorrectness`, `FilesGatedAtomic`, `FilesCreatedStays`, `FilesNoLateStart` | `FilesKeepRegistry` |
| `KernelClientProofs` | `ClientTypeCorrectness`, `ClientCorrelation`, `ClientInitializesFirst`, `ClientClosedMeansQuiet` | |
| `HostCallsProofs` | `HostTypeCorrectness`, `HostAnsweredOnce`, `HostCancelExact`, `HostOriginalStaysTracked` | |
| `KernelSessionProofs` | `SessionNoGaps`, `SessionDeliveredIsStored`, `SessionEndIsReported`, `SessionSilentAfterEnd` | `SessionTypeCorrectness` |
| `PromptRunProofs` | `PromptTypeCorrectness`, `PromptTurnIsComplete`, `PromptSessionReleased` | `PromptKeepsSession` |
| `TranscriptStoreProofs` | `TranscriptTypeCorrectness`, `TranscriptAckedAreDurable`, `TranscriptReadIsExact`, `TranscriptReadableUnlessTorn` | |
| `HostToolsProofs` | `HostToolsTypeCorrectness`, `HostMessagesAreSorted`, `HostOnlyConformingCallsRun`, `HostAnswersAreExact` | `ValidatorIsExact` |

### The invariants, and why they are needed

- **Gate.** `GateInvariant == GateTypeOK /\ SlotAccounting /\ Exclusion /\
  NoLostWakeup`. `Exclusion` is not inductive alone: `_can_enter` reads counters,
  so the step that enters needs `SlotAccounting` to learn that nobody is inside,
  and leaving needs `Exclusion` to learn that an exclusive call was alone.
  `NoLostWakeup` needs the types: `notified` and `cancelled` hold queued calls
  only and nobody is queued twice, so that the place of a waiter is unambiguous.
  `GateNoOvertaking` follows from the invariant and the guard of `Enter`.
  `GateImplementsLock` maps each action: an arrival is a request, and a grant too
  if it enters at once; the calls before a waiter are those ahead of it in the
  line, which `AppendAhead`, `WithoutToken` and `HeadToken` follow through every
  change of the line.
- **Registry.** `RegistryInvariant` ties the stages of the calls to the gate
  (`NoSlotLeak`), says what each call has observed (`ObservedBy`), that the calls of
  a batch start and queue in order of submission (`InOrder`), and which of them have
  returned, run or not begun at each position of the loop of `execute_many`
  (`Plan`). The proofs use the gate as the lock it implements: an action of the
  registry is one step of `SharedExclusiveLock` or none (`GateMove`). `BatchBarrier`
  then follows from `InOrder` and the lock's rule of admission, not from the plan of
  the batch, and so it holds where the plan took an unknown tool for a safe one.
  `RegistryResultsInOrder` needs `Plan`, whose steps need that the scan for the next
  exclusive call finds the first one (`LeastNatural`).
- **Client.** `ClientInvariant` has the order at the write lock (`WriteOrder`), the
  uniqueness of IDs and what is on the wire under them (`OwnIds`), the agreement
  of futures and `_pending` (`OwnFutures`), what has not happened before
  `initialize` is answered (`StartFirst`), and that a closed client with a child is
  quiet or has a `close()` on its way or cut short (`ClosingOrQuiet`). `Correlation`
  alone does not survive the next request: that its ID is new is `OwnIds`.
  `ClosingOrQuiet` makes precise which interleavings `ClosedMeansQuiet` excepts.
- **Reverse half.** `HostInvariant` says of each task what it may have done at its
  stage (`Progress`, `Sending`), that a request is in the tables from its arrival
  to its done callback (`Tracked`), and that a cancelled ID belongs to the request
  that is in the table now (`Cancelling`, `Cancelled`). The last is what makes IDs
  that are used again safe: the done callback of a request takes its ID out of the
  cancelled ones before the next request of that ID is admitted.
- **Session.** `SessionInvariant` relates where the events of a session are: those
  that the consumer got, those in its queue, those that the demultiplexer is to
  handle and those on `stdout` follow each other without a gap (`Gapless`), and the
  transcript is the first two together (`Recorded`), at each stage of the life of
  demultiplexer and consumer (`Life`). The demultiplexer handles any number of
  lines in one step, so `Own` is a recursive function; that it obeys its recursion
  and returns the events that `Gapless` speaks of is proved by induction over a set
  of natural numbers (`NaturalsBySteps`). The invariant has two parameters, for what
  a user of the session adds: the lines of the child that are none of a session, and
  how many events a session may miss before it subscribes.
- **Run.** `PromptInvariant` is `SessionInvariant` with the receipt of the prompt as
  another line and at most `Early` events missed, and three facts of the program:
  how far the session is at each `await` (`Course`), that nothing after the first
  `Early` events is published before the prompt, which is sent once the session has
  subscribed (`PromptFirst`), and that a run on its way out without an exception has
  the stream up to `turn/end` (`TurnTaken`). `TurnIsComplete` needs the last two
  together: `Gapless` alone would let a run begin in the midst of its turn, and the
  bound on what is missed makes the first event taken one of the first `Early + 1`.
  A step of the loop takes any number of events and may begin `close()`, so it is no
  step of `KernelSession`; the steps of child, reader, demultiplexer, `create()` and
  `close()` are, and for them the lemmas of the session are used as they stand.
- **Transcript.** `TranscriptInvariant` says what any file looks like, torn or not:
  records stand in the order of their appends (`Ordered`), no part of one is there
  without the part before it (`Chained`), and the file ends in what the running
  `append()` has written (`EndsInAppend`), so what it writes next cannot fall into
  another record. A page holds the first records of the file (`PagesOfFile`); since
  the file only grows while a reader lives, it is still so at the next page, which
  is why paging by offset is exact. `ReadIsExact` then follows from `Ordered`: an
  acknowledged record that precedes one on the page has its beginning before that
  one's, hence its place on the page. `ReadableUnlessTorn` counts: three parts of a
  record that begins at `p` can only be at `p`, `p + 1` and `p + 2`, and by
  induction over the records every third place is a beginning.
- **File tools.** `FilesInvariant` adds to `RegistryInvariant`, which every step of
  a worker thread keeps, how the thread of a call goes with its stage (`ThreadOf`,
  kept by every step of the registry by `TaskFollows`), and two descriptions of a
  file. While no write strayed or broke (`Orderly`), a file holds what its one
  writer has written so far, or is whole, and each read in a body has seen a prefix
  of it (`Atomic`): a step that writes belongs to an exclusive call in its body, so
  by the exclusion of the gate there is no other writer and no reader. Whatever
  strayed, a file that was opened exists from then on, and so at most one call
  creates it (`Creation`); this half does not need the gate at all, only mode `x`,
  and it is why `CreatedStays` holds also of calls that timed out.
- **Schemas.** That `Check`, `Validate` and `Conforms` are functions at all has to be
  proved: each is defined by itself, and such a definition means something only if
  the recursion ends. `PassHasFixpoint` proves it for any pass over the members of a
  set that looks only at those that are less deep (`LooksDown`), and each of
  `_validate_schema_node`, `_validate_value` and the meaning of a schema is such a
  pass: it looks at `properties` and `items` (`CheckLocal`, `ValidateLocal`,
  `ConformsLocal`). `ValidatorIsExact` is then by induction on the depth of the
  schema. What it rests on is what an accepted schema looks like, keyword by keyword:
  that the bounds are numbers if they are not `None`, that `required` is a list of
  strings and `properties` an object of accepted schemas. An `enum` or a `pattern` of
  `None` passes, and is with an integer beyond the largest float the one way to raise.
  The validator decides at the first
  check that fails, and the meaning knows no order: where it raises, the theorem
  leaves open whether the value conforms.
- **Host tools.** `HostToolsInv` has four parts: every registered tool has an accepted
  schema of an object (`ToolsInv`), which makes `ValidatorIsExact` apply to it; what
  the child was told agrees with the registry (`SentInv`), as nothing is registered
  twice; what became of a line is what it decodes to (`LineInv`); and a call in its
  body was well formed and conforms, and an answer is a refusal for its reason or the
  outcome of the call (`TaskInv`). `AnswersAreExact` reads the encoded answer with
  `Decode`, so the proof also follows it through `EncodeResult` and `EncodeError`.

`SharedLemmas` proves what `Queues` is used for: positions are in range
(`PositionOf`), appending keeps them (`AppendToken`), removal keeps distinctness
and removes exactly one (`WithoutToken`). `LockLine` relates the line at an
`asyncio.Lock` to the stages of those who wait or hold it; the client and the
reverse half both use it, with one lemma for each way to enter or leave
(`LineEntered`, `HeadServed`, `LineLeft`). `LeastNatural` and `NaturalsBySteps`
are induction over the natural numbers, stated for sets of them, from the
well-founded order of the library: the induction theorems of the library take an
operator as a parameter, which the provers cannot instantiate, and a set does as
well. `PassHasFixpoint` is recursion in the same manner.

### What is model-checked only

- Liveness, and with it the fairness of `ImplementsLock`: the provers have no
  temporal reasoning beyond `PTL`, and none about `ENABLED`.

## 6. Disagreements between the code and its documents

With a run that shows them:

- `FilesOverlap`: an exclusive tool whose call timed out still runs in its
  thread while others run.
- `HostBreaksClient`: a handler that raises before it returns an awaitable, or
  whose result has a lone surrogate, gets no `-32603` and fails the client.
- `PromptHangs`: a run in the loop over its events is not told that the kernel
  exited, and waits for ever.

Known from the models, without a run of their own:

- A shared call can be passed for ever by later shared calls (`registry.py:243`);
  the docstring of the gate says "fair".
- `execute()` raises when the validator does (an `enum` or a `pattern` of `None`,
  `math.isfinite` of an integer that no float can hold) or when a result is nested
  too deeply (`registry.py:76`, `:99`); the kernel is told `-32603` where
  `invalid_arguments` or `invalid_result` would be the answer. `AnswersAreExact` names
  these three causes and shows that there is no other.
- A lone surrogate in the ID of a request, in its `callId` or `name`, in an output or
  in the text of an exception is repeated by the answer, which then cannot be written
  (`client.py:412`): the request gets no answer, and what is pending is failed.
  `AnswersAreExact` shows that nothing else goes unanswered.
- Of JSON-RPC 2.0 the client does not support an ID that is null, which the standard
  requires in the answer to a request that could not be read, one that is a float, and
  a method with an empty name: they end the connection (`protocol.py:131`, `:161`).
  It does not ask that `params` are an array or an object, nor that a call has no
  `result` and no `error`. A message that is longer than the 64 KiB of the stream's
  limit, nested too deeply for `json.loads` or has a number with too many digits ends
  the connection too (`client.py:251`). `MessagesAreSorted` shows that no other
  message does.
- A `TimeoutError` raised by a tool is reported as the registry's timeout
  (`registry.py:85`).
- `close()` during the launch sees no process, and the `close()` of the `start()`
  that then fails returns at once (`client.py:107`, `:172`): the child is left
  running. `ClosedMeansQuiet` excepts this order (`StartOvertaken`).
- A `close()` that is cancelled while it waits for the child, also the one of a
  `start()` that failed, leaves `_closed` set and the child running, and every later
  `close()` returns at once (`client.py:172`, `:190`). `ClosedMeansQuiet` excepts this
  too, and nothing else.
- A `start()` that finds no command to launch fails outside of its `try` statement
  (`client.py:105`) and leaves the client open, so that a later `start()` may succeed;
  `ClosedMeansQuiet` shows that there is no child then, and that every other failure of
  `start()` closes the client.
- Two concurrent `start()` would launch two children (`client.py:103`).
- After a malformed line or the end of stdout the reader is gone, but requests
  are still accepted and wait for their timeout (`client.py:279`).
- The timeout of a request does not cover its write (`client.py:217`), and a
  write that is suspended as the child exits raises `ConnectionResetError`.
- A server request read while `close()` waits starts a task that `close()` does
  not know (`client.py:175`); `HostTasksEnd` shows that it ends.
- Events published right after `session/new` is answered can be lost
  (`session.py:74`); `NoGaps` therefore does not say with which event a stream
  begins. `TurnIsComplete` shows that a run loses none that its prompt caused.
- `validate_schema` accepts an `enum` or a `pattern` of `None`, and the first call
  with a string for it is answered with an internal error (`schema.py:162`).
- The design of the host tool adapter speaks of "all five `tool/execute` fields"
  (`2026-09-18-host-tool-adapter-design.md:25`) and names four, as the adapter
  requires (`host_tools.py:15`).
- After a torn record and a later append, the transcript cannot be read at all
  (`persistence.py:41`); `ReadableUnlessTorn` shows that nothing else does this.

## 7. What is not modelled

- `next_notification` and the stderr tail change no state that the properties
  speak of. `_notifications`, which nobody empties when sessions are used, is
  left out; so is the growth of the queue of a session whose demultiplexer
  ended, which no document bounds.
- A second concurrent `start()`.
- The precedence of configurations: three branches of a pure function, whose
  model would be its text. Exception classes.
- The text of JSON, of messages and of regular expressions. `Patterns` gives the
  strings that an expression finds. Integers with more digits than Python converts are
  left out of values; a line that has one is `Unreadable`.
- Schemas that are nested more deeply than the stack bears, and exceptions whose
  `str()` raises. A forward request whose parameters UTF-8 cannot express, which
  `_request` raises for after it was registered, as for a failed write.
- A cancellation of the `close()` in `HostCalls`: as it awaits the tasks it suppresses
  one, and what comes after that is in `KernelClient`.
- `list_sessions` and the filter of `query` by type, which only read; argument
  parsing and printing.
- Directories, links that change while a path is resolved, and permissions. A
  path escapes the workspace or does not.
- That a directory entry may be lost although the file was synced:
  `TranscriptStore` assumes a file system that keeps it.
- One state space for everything. `KernelClient` and `HostCalls` share the write
  lock and `close()`: `HostCalls` has a forward writer at the lock and the end of
  the connection, `KernelClient` none of the reverse half. `PromptRun` takes the
  requests of its client as single steps.

## 8. Plan

The order follows the importance of the behaviour: the gate and the registry
(interleavings of every call), the client in both directions (everything
depends on it), sessions and transcripts, then the compositions (file tools over
the registry, a run over a session) and the data of one line (protocol, schema,
adapter). These are done, and so are the proofs of their safety properties: every
invariant and action property that a run checks is a theorem, but for liveness.
