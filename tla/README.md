# A TLA+ model of the wac platform, its services and its tools

wac-mono is a compiler (`wacc`) for a small language, wac, the libraries written
in that language, the *platform* that runs wac programs on Deno, Node and in the
browser, the host side of a few network services, and the tools that build, test
and mutate all of it.  The wac code is sequential: parsers, codecs, cryptography,
shell applets.  What is hard to test is the TypeScript around it: a WebAssembly
program that can only block talks through shared memory to a host that may never
block; handlers that await while other handlers run; children, sockets and timers
that end in any order; processes that share ports, caches and copies of the tree.
This project models that code, checks it with TLC and proves parts of it with
TLAPS.  Paths below are relative to the repository's root.

## 1. Inventory

### The parts modelled

| part | state it keeps | operations | who it talks to |
|---|---|---|---|
| **bridge** (`platform/host/call.ts`, `respond.ts`, `layout.ts`) | a SharedArrayBuffer: per slot a status, a generation, an opcode, attached buffers, an inline area; two pools of payload buffers; two sequence counters and HOST_GONE.  On the host: the tail of each answer, the pieces of each request, the handlers under way | worker: `submit`, `collect`, `cancel`, `waitAny`; host: `loop`, `take`, `reply`, `write`, `abandon`, `stop`, `failPending` | the program's thread blocks in `Atomics.wait`; the host's event loop parks in `Atomics.waitAsync`; capabilities are promises that settle at any time |
| **provider** (`provider.ts`, `faults.ts`) | nothing but numbers: a ticket is a slot and a generation in 32 bits | every capability of `Core`, `Cli` and `Page`: blocking, ticketed or forgotten; resolvers, `settled`, `drop`, `waitAny` | a program on one side, the bridge on the other |
| **scheduler** (`schedule.ts`) | answers ready, guests having a turn, a hurry-up timer | `ready`, `quiet`, the pump and its policies | every responder of a test process |
| **hosts** (`deno.ts`, `node.ts`, `browser.ts`, `child.ts`) | maps of sockets, listeners, children and error streams; the current input and output; a stack of pushed programs; options (grants, input, directory) | some forty handlers per host | the operating system or the page; each spawned child gets a world of its own |
| **byte queue** (`queue.ts`) | queued bytes, parked writers, one waiting reader, an ended flag, a cap | `push`, `next`, `rest`, `end`, `endWith` | a child's handlers push, its parent's handlers read |
| **children** (`children.ts`, `childLife.ts`) | two promises, a timer, a worker, three byte queues | spawn, the worker's messages and errors, kill | each child has a bridge of its own; parent and child share the queues |
| **entries** (`entry.ts`, `entryNode.ts`, `entryBrowser.ts`) | a worker, an object URL, a result; in the page two queues with a waiter each | launch, evaluate, run `main`, dump coverage, report, clean up; listen, draw, hand over files | launcher and worker by messages, the user by events |
| **stream transform** (`stream/host`) | two byte rings in shared memory, their counters, EOF, error, done and status words | `write`, `close`, `abort`, `pull`, `cancel`; `read` and `write` of the transform | a Web stream's producer and consumer on one thread, a wac transform on another |
| **tls** (`tls/host` over `tls/src`) | the protocol's phase, keys and sequence numbers; bytes not yet a record, data not yet read | `tlsClientFeed`, `tlsServerFeed`; open, pump, read, write, close; a one-shot request and a one-shot server | a socket that takes and gives what it likes |
| **http** (`server/host/serve.ts`, `http/host/client.ts`) | connections counted, a buffer per connection | accept, serve with two time budgets, request | clients that pipeline, stop or vanish |
| **mutation sweep** (`tools/mutate.ts`, `tools/mutate/*`, `harness/wacProfile.ts`) | mutants and verdicts, staged copies of the tree, profiles | generate, locate, sample, triage, stage, baseline, run in parallel, report | compilers and test runs as processes with a deadline |
| **build cache** (`harness/buildCache.ts`, `wacFiles.ts`) | files under keys, temporary files | key, look up, produce, rename, prune | other processes doing the same |
| **harness** (`harness/*.ts`, `tools/runTests.ts`, `testChanged.ts`, `suiteGuard.ts`) | ports handed out, items in flight, a detector's last look | hold a port, retry a spawn, race a deadline, run a pool, run a program, run the suite, reap orphans | test files in parallel on one machine |

What makes each of them correct:

- *bridge*: an answer reaches the call that asked for it, whole and in order, or
  nobody; a slot and a buffer are never lost nor in two hands; an answer does not
  change while it is read; every park ends, also when the responder stops.
- *provider*: a ticket finds its call as long as it is held and no other call ever;
  slots come back; a failure is an answer; what is packed on one side is unpacked on
  the other.
- *scheduler*: the policy's order, and never a stall.
- *hosts*: a handle means one thing and once; nothing runs that no handle reaches;
  bytes acknowledged are in one place; a pushed program stays inside; authority only
  shrinks from parent to child.
- *byte queue*: bytes accepted are delivered exactly once, an empty read means the
  end, the cap holds, and every promise is settled by the event that should.
- *children*: a child that is gone leaves nobody waiting, says why, and its output
  is whole; `spawn` answers whatever the child does.
- *entries*: the process ends, with the program's code, after its cleanup and its dump.
- *stream transform*: bytes in order, none overwritten unread, back-pressure, and a
  clean end only for the whole input.
- *tls, http*: whole records and whole messages whatever the socket does, answers in
  order, sockets and room that come back.
- *sweep*: every mutant once, alone in its tree, an honest score, and an exit code that
  tells the truth; edits that are edits.
- *cache and harness*: never half a product, keys that name what they stand for, no
  port twice, exclusive files alone, every start and every run ends.

The hard behaviours: two threads on unlocked shared words; promises that settle
after the slot they answer has another owner; handlers interleaving at their awaits;
cancellation at any moment; a responder, a child or a process dying with somebody
parked; pools, queues and buffers at their limit; flags loaded one after the other;
short reads and writes; deadlines racing late answers.  `PROJECT.json` lists them one
by one with the line where each bites.

### Not modelled

| part | why |
|---|---|
| lightclient, tor, ssh | protocol state machines written in wac; pure functions from a state and bytes to a state and bytes.  The parts of them that meet concurrency are the host files modelled here |
| inside `tls/src` | what a message, a certificate or a key is: `TlsStream` has the kinds of records and what each does in each phase |
| sh, fs, box | sequential wac programs over the platform |
| Ethereum codecs, cryptography, compression, text and data libraries, wacc, wactest | pure functions over bytes, tested against vectors and against the host's own implementations |
| packages' `cov.ts` | straight-line scripts that call each export once; no state |
| `tools/check.ts`, `bench.ts`, `coverage.ts`, `emitgen.ts`, `map.ts`, `size.ts` and the like | run one command after another and print |
| platform library (`platform/src/*.wac`), platform build | declarations, whose promises are quoted in properties and findings; bundling |
| inside the hosts | a file's contents beyond tokens, path resolution, DNS, fetch, the canvas, the wrappers over `node:fs` and `node:net`: I/O |

## 2. Modules

| module | models | composed in |
|---|---|---|
| `Bridge`, with `BridgeProofs`, `AnswersProofs` | `call.ts`, `respond.ts`, `layout.ts` | `MCBridge` |
| `Tickets` | `provider.ts` over a ring reduced to what a ticket can tell apart | `MCPrograms`, `MCTickets` |
| `Schedule` | `schedule.ts` with the sweeps, handlers and stops of several responders | `MCPrograms` |
| `Page`, `Launch` | `entryBrowser.ts`'s page; the three entries | `MCPrograms` |
| `HandleSpace` | what a program may rely on about handles (abstract) | |
| `Handles` | the handle maps of the three hosts; implements `HandleSpace` | `MCHosts` |
| `Files` | streams, files, grants and the frames of `child.ts` in the three hosts | `MCHosts` |
| `Family` | what `startChild` gives a child, over generations | `MCHosts` |
| `ChildLife` | `childLife.ts` (abstract) | |
| `Queue` | `apply` of `queue.ts`: a state and an event give a state and effects | |
| `ByteQueue` | the class `ByteQueue`, any number of outstanding calls | `MCTools` |
| `SpawnChild` | `children.ts` and the hosts' handlers for a child; composes three `Queue`s and implements `ChildLife` | `MCSpawnChild` |
| `Stream` | `stream/host` | `MCStream`, `MCTools` |
| `Wire` | the payload formats between `provider.ts` and the hosts | `MCTools` |
| `TlsStream`, `Http` | `tls/host` over the feeds of `tls/src`; `server/host` with `http/host` | `MCServices` |
| `Sweep` | `tools/mutate.ts` | `MCServices` |
| `Mutants`, `Generate` | `operators.ts`, `sample.ts`, `types.ts`, `locate` | `MCTools` |
| `Profile`, `Attribution` | `wacProfile.ts`, `profile.ts` and the narrowed run | `MCTools` |
| `Cache`, `KeyParts`, `Sources` | `buildCache.ts`; its key's parts; `wacFiles.ts`, framing of keys, `deadexports.ts` | `MCTools` |
| `Pool`, `Suite` | `inFlight.ts`; `runTests.ts`, `testChanged.ts`, `testLane.ts`, `suiteGuard.ts`, `reap.ts` | `MCTools` |
| `Retries`, `AppRun` | `port.ts`, `spawnRetry.ts`, `deadline.ts`; `appRun.ts` | `MCServices` |

| proof module | proves about |
|---|---|
| `BridgeProofs`; `AnswersProofs`, which extends it | `Bridge` |
| `SpawnChildProofs` | `SpawnChild` with its `Queue`s, `ByteQueue` |
| `HostsProofs` | `Handles`, `Files`, `Family` |
| `ProgramsProofs` | `Tickets`, `Page`, `Schedule`, `Launch` |
| `ServicesProofs` | `Http`, `Retries`, `Pool`, `AppRun`, `Suite`, `Cache` and `KeyParts`, `Profile` and `Attribution`, `Sweep` |
| `StreamProofs` | `Stream`, `TlsStream` |
| `Induction` | nothing of the system: induction over the naturals, as facts about sets |

Each extends the modules it is about and adds nothing but definitions and lemmas.

`MCHosts`, `MCPrograms`, `MCServices` and `MCTools` put parts that do not share state
side by side: the initial state chooses which part runs and the others stay where they
began, so a run is the disjoint union of the parts' state graphs.  Parts that do share
state are composed where they meet: `SpawnChild` (lifecycle, queues, handlers), `Files`
(frames and host streams), `Schedule` (several responders and one scheduler), `Http`
(server and client).

A definition that differs from its neighbour by one plausible mistake and is
marked `mutant` is part of no specification.  `PROJECT.json` pairs each with the
property that catches it.

### Bridge: state and steps

`status`, `gen`, `op`, `reqBuf`, `resBuf`, `resStatus`, `inline` are the words of a
slot; `reqHeld` and `resHeld` the pools' free flags (as the set of buffers in use),
`reqMem` and `resMem` what the buffers hold.  The response length word is the
length of what was written.  `w` holds the worker's program point and local
variables, `h` the host's.  `ticket` and `shape` are the program's: what it was
given by `submit` and what it asked for.  `pending`, `finalStatus` and `partial`
are the responder's three maps, and `handlers` the capability calls under way,
each with the generation `take` loaded for it.

`Live` tickets may be collected, cancelled or waited for at any time the worker is
idle, in any order.  `HandlerDone` is a capability's promise
settling; it happens while the host is at its event loop, as promises do.

One step is one access the other thread can tell apart.  Accesses merged into one
step, and why that is sound:

- `claim`'s exchange and its load of READY on failure: only a release or a cancel of
  the worker itself takes a slot out of READY, and the worker is in `claim`.
- `parkForHost`'s check of HOST_GONE and the arming of the wait: HOST_GONE is stored
  before DONE_SEQ is bumped, so a wait armed after the check still sees the bump as
  a changed value.  The second check on waking is its own.
- `submit`'s filling of a buffer, attaching it, opcode, length, PENDING and the bump:
  the host looks at none of them before it sees PENDING, and the bump after the
  store can only make the host sweep again.
- `take`'s loads of status and generation, its detaching, copying and release of the
  request: the worker writes none of these words in a PENDING slot except through
  `cancel`, whose two stores are steps of their own.  The exchange
  PENDING to RUNNING is a separate step, since a cancel may come between.
- `write`'s filling of the response is one step and its exchange with the bump
  another.  `release` and `abandon` are one step each: the status word is the last
  that the other thread waits for.  `readRes`'s copy and its hand-back are two,
  because `write` may be looking for a buffer in between.
- `cancel`'s load of the status and bump of the generation are one step (only the
  worker writes the generation), its store of CANCELLED another.
- SUBMIT_SEQ and DONE_SEQ have one waiter each, who compares them with a value it
  loaded; the model keeps the fact "bumped since that load".

Left out: `opts.signal`, an exception inside the responder's own loop and the
diagnostic text of a slot; the scheduler is `Schedule`'s.  Payloads are sequences of units
`<<call, i>>`, so that a unit at the wrong call, twice or out of order is seen.

### Stream

`inHead`, `inTail`, `outHead`, `outTail` are the Int32 counters (taken modulo
`WIDTH`), `inMem` and `outMem` the rings.  `p`, `t` and `c` are the program points
of producer, transform and consumer.  The transform copies its input to its output,
and may trap.  Each load of a head, EOF, error or done word is a step; a store and
the signal that follows it are one, because a signal after the store can only wake
a sleeper who then finds nothing new.  `inMoved` and `outMoved` are the two event
counters, kept as in `Bridge`.

### Queue, ByteQueue, SpawnChild

The queue's list of chunks is kept joined; `releaseRoom` and `take` work on the
bytes.  `rest` is a loop of `next` and adds no state.  In `SpawnChild` a host call
is one step (its insides are `Bridge`'s).  The worker's posts arrive in order; its
error event may overtake them; posts of a terminated worker may be lost.
`Awaits = TRUE` is `node.ts`, whose write handlers wait for the push;
`Awaits = FALSE` is `deno.ts` and `browser.ts`, whose handlers do not.  In `ByteQueue`
any number of calls may be outstanding, and an answer is delivered by its caller's
promise: `delivered` is what readers got, in the order the queue gave it.

`childLife.ts:28` says that `spawnChild` drives `step`; `children.ts` does not import
it and has the same decisions written out again.  `ImplementsLife` shows that the two
agree: every step of `SpawnChild` is an event of `ChildLife` or leaves its state
alone.  A refused spawn (a source without the marker) is the lifecycle's error event.

### Tickets, Schedule, Page, Launch

`Tickets` keeps the ring as a status and a generation per slot; a held ticket is the
number `Pack` makes of them, with the call it was made for beside it, and the
resolvers are operators from a kind of reply to what the program is told.  `Schedule`
keeps, per bridge, what was posted, is with a handler, is ready; a guest may stop
submitting, cancel, or be stopped at any time.  In `Page` a cancelled ticket's handler
keeps its promise and takes the next event, as in the code.  `Launch` has one
specification for the three entries, told apart where their code differs (a web worker
drops a message nothing handles, Node's port keeps it).

### Handles, Files, Family

A handler runs to its first await in one step; the rest is another step, and handlers
of other tickets come between.  The three hosts have actions of their own where their
code differs in order or in what it answers, and share operators where it does not.
Resources are numbered by the call that made them and writes are sequences of tokens
`<<call, i>>`, so a resource under two handles, or bytes in two places, are seen.
`ImplementsHandleSpace` maps the maps to one table of meanings; a handle leaves it for
good.  `Family` grows a tree of worlds by `startChild`, each with its grants and the
line its input comes from.

### TlsStream, Http

Bytes are the two halves of a record or of a message, numbered by the record they
belong to, so a cut inside a record, a lost half and a wrong order are seen.  A peer's
record is of a kind (a hello, a part of the flight, Finished, data, an alert, a KeyUpdate,
one that is refused, broken or out of order) and `Feed` is what `tlsClientFeed` and
`tlsServerFeed` do with each in each phase: a record is taken, answered with an alert that
fails the connection, or traps.  A sealed record opens only as the next one under the
reader's keys (`Opens`).  A trap leaves the caller with the state from before the call and
nothing of its data or answers (`Returned`), while `connect.ts` has cut the call's records
off already; that is `inbox.lost`.  Sockets read and take any number of cells; peers and
clients may stop or close at any point.

### Sweep, Mutants, Generate, Profile, Attribution

`Sweep`'s initial state chooses a roster of mutants with what compiling and testing them
will give; everything after it is `mutate.ts`: verdicts, trees and their contents, workers
with the index they hold, the report's exit code.  `Mutants` and `Generate` are pure
functions, each applied by one step to an input of the initial state and compared with a
reference definition: edits by position, functions and scopes by tokens, a sample by rounds.
`Profile` follows counters and dumps through tests and programs, next to what the tests
really executed: a line the compiler folded into its callers has a counter that stays 0
(`Inlined`), and a dump may be half written when its test ends and wait for a later drain
(`half`, `late`).  `Attribution` merges the files' profiles, with dumps credited to the
wrong test or to none, and narrows a run.

### Cache, KeyParts, Sources, Pool, Suite, Retries, AppRun, Wire

`Cache` interleaves processes between their file operations and lets any of them be
killed; a product has the time its temporary file was written, which the rename keeps.
`KeyParts` edits the compiler while processes start, read its sources once and
build.  `Pool` keeps the watch's map beside what is really at work.  `Suite` runs the
two passes on a machine with a few process ids, which the system gives out again: a
server's pid has a live parent, init's, or is free, a reaper lists the orphans and kills
what has their pids later, and others' processes come and go between.  `Retries`
gives ports to tests while other programs take them; a server that finds its port taken
says so, or lives on in silence until the alarm.  `AppRun` looks at a child that
moves, wedges or exits.  `Wire` packs and unpacks each format over small alphabets that
hold NUL, line feed and a byte that is not UTF-8.

## 3. Runs

Every passing run is exhaustive within its bounds.  `CHECK_DEADLOCK FALSE` appears
where the system may stop: a program that makes no more calls after `stop()`, a
stream that has ended, a child that is gone, a tool that is done.

| run | bounds | what it shows |
|---|---|---|
| `bridge_calls` | 2 slots, 1 buffer per pool, 3 calls in pieces, cancels after the take | own answers, whole, in order and stable while read; response pool exact; "all slots hold answers" is never a false alarm |
| `bridge_stop` | 2 slots, 1 buffer, 2 calls, cancels and `stop()` at any moment, unknown opcodes and failures | no slot stranded, request pool exact, a worker in a host call gets out when the responder is gone, cancelled slots come back without their capability, and if capabilities answer host calls return |
| `spawn` | cap 2, writes of 1 and 2 bytes, 2 writes, 1 feed, awaited | the lifecycle, output in order and whole, the reason last on the error stream; spawn answers, ends are heard, writes that fit return |
| `hosts` | handles: 5 numbers, 3 calls; files: 2 paths, 3 calls, 2 opens in flight, a frame of 2 tokens; family: 3 worlds; each on each host | handles mean one thing once and nothing leaks; bytes and files stay where they belong; authority and input come down the line |
| `programs` | tickets: 2 slots used twice each; page: 2 kinds, 3 user acts, 2 asks; scheduler: 2 bridges, every policy, 3 submits; launcher: 2 codes, each entry | tickets, answers and slots; events in order and none lost; the scheduler neither stalls nor reorders under fifo; launchers end, clean, with their code |
| `services` | tls: 11 conversations of up to 5 records, among them a refused hello, a KeyUpdate, records that do not open and records behind a close; 2 writes, at most 3 half-records (`MaxRead`) a read, which is two records in one call; http: a pipelining and a plain client, limit 1; sweep: 2 workers, 2 packages; ports: 2 tests, 3 ports, 2 attempts; a program of 3 moves | whole records and messages, exact counts, honest scores; sockets close, connections, sweeps, starts and runs end |
| `tools` | rings of 2 with 7 bytes; a queue of 3 with 5 calls; 2 builders, 2 keys; 3 items, 2 workers; 2 pids (`Pids`); 2 tests, 3 lines, one of them folded, dumps written slowly up to 2 (`MaxLate`), counts up to 2 (`MaxCount`); 4 symbols with up to 2 edits; and the rest of `Tools.cfg` | the byte pipes; cache, pool, suite, profile; edits, samples, walks, keys and formats against their reference definitions |
| `bridge_stale_answer` | 1 slot, 2 calls, cancels at any moment | *violated*: an answer delivered to another call |
| `stream_truncated` | rings of 2, 1 byte | *violated*: a clean end short of the input |
| `spawn_output_lost` | cap 2, 3 writes, not awaited | *violated*: exit code 0 with output missing |
| `tickets_wrap` | 2 slots used 4 times each, 1 bit for a packed generation | *violated*: a held ticket that fits no call |
| `tls_short_write` | as the tls part of `services` | *violated*: a one-shot's message only partly written |

A run's properties are conjunctions of named parts, each stated and commented beside the
others in its module; the type invariant of a module is the first part of its first
property.  A counterexample is to one part, which the error trace tells.

| property | parts, and the hazards it is for |
|---|---|
| `TypeOK`, `ResPoolExact`, `ReqPoolExact`, `NoSlotStranded` (`Bridge`) | as they stand: the pools and the ring after any cancels and stops |
| `AnswersAreOwn` | `OwnAnswer`, `HandlerHoldsItsTicket`: a slot that comes round while an earlier handler is out |
| `WorkerIsNotMisled` | `PublishedStable`, `FullIsTrue`: words read one by one while the other thread writes |
| `EveryParkEnds` | `GoneIsHeard`, `CancelledComesBack`, `CallsReturn`: lost wake-ups, a responder that stops |
| `GoneIsTold`, `OutputIsTrue`, `SpawnEnds` (`SpawnChild`) | an exit, an error event, a kill and the load timer in any order; writes parked when the child ends |
| `ImplementsLife` | `children.ts` against `childLife.ts` |
| `NothingIsLost`, `ImplementsHandleSpace`, `ClosedChildAnswers` (`Handles`) | a close, an exit or a cancel while an open, accept or load is under way |
| `BytesAreInOnePlace`, `FilesAreAccounted` (`Files`) | opens that overtake each other, pushed programs, a refused grant, `mkdir` twice |
| `ChildGetsNoMore` (`Family`) | authority and input after two levels of options |
| `TicketsTellTheTruth`, `TicketFindsItsCall` (`Tickets`) | stale tickets, failures, `waitAny`, packing |
| `PageIsHeard` (`Page`), `SchedulerKeepsFaith` (`Schedule`), `EndsWell` (`Launch`), `EveryWaitEnds` | acts and asks in any order; answers held while guests stop or cancel; an exit code before the dump |
| `RecordsStayWhole` (`TlsStream`), `ServerTellsTheTruth` (`Http`) | cuts inside a record or a request, records that do not open or are fed behind a close, timeouts, the connection limit |
| `SweepTellsTheTruth` (`Sweep`), `PortsAreOwn` (`Retries`), `RunIsJust` (`AppRun`), `EveryServiceEnds` | workers sharing trees and a score; ports that others take; a wedged child |
| `RingsAreSound`, `EndIsHeard` (`Stream`), `QueueKeepsItsWord` (`ByteQueue`) | ring counters, parked readers and writers, the end |
| `CacheTellsTheTruth` (`Cache`, `KeyParts`), `PoolIsExact` (`Pool`), `SuiteIsSafe` (`Suite`) | killed builders, prunes, an edited compiler; a worker that fails; a red pass before a green one, arguments, and reapers with old listings |
| `NarrowingIsSafe` (`Profile`, `Attribution`) | credits of tests that share a process and of dumps that come late, and the run made of them |
| `EditsLandRight` (`Mutants`), `MutantsAreReal` (`Generate`), `SourcesAreExact` (`Sources`), `PayloadsCross` (`Wire`) | pure functions against reference definitions |

Why the bounds are enough.  A pool of one buffer is contended by any two pieces under way,
so both the pooled and the squeezed-inline paths happen in each run, as does the park for a
request buffer.  An answer of three units is a pooled piece with a tail, or three inline
pieces.  Two slots fill up with two calls, so a third finds the ring full, parks, or becomes
the next owner of a slot whose earlier handler is still out, which is the longest history a
generation has to tell apart.  Rings of two bytes wrap after one chunk of three, and seven
bytes go round three times.  In the queue, five calls are enough for two parked writers, a
displaced reader, the read that makes room and the end.  In `hosts`, three calls are an
open, a second open that overtakes it and a write or close between, and a spawn takes two
handles, so five numbers hold two children and a socket.  A family of three is a grandchild,
where an option has been passed on twice.  Two workers, two packages and rosters of up to
three mutants hold a duplicate, a control and a mutant shared by two packages.  One bit for
a packed generation tells two uses of a slot apart, which is what `programs` makes of each;
`tickets_wrap` makes four, as the code's 25 bits do after 2^25.  `WIDTH = 64` keeps the
stream's counters from wrapping: see the observations.

`bridge_calls` lets the program cancel only what the host has taken (RUNNING or
READY), because `OwnAnswer` fails without that restriction; `bridge_stale_answer` is
that failure.  The properties of `bridge_stop` hold for cancels at any moment.  In
`hosts` a socket or file takes a write whole (`ShortWrites = FALSE`); see the
observations for Node.

## 4. Fairness

Weak fairness throughout; nothing assumes that a peer, a user or a program acts.

- *Bridge*: of the worker's steps and of the host's, because the operating system runs
  both threads.  The program need not call, deadlines need not pass, capabilities need
  not answer; only `LiveSpec` assumes that some handler under way settles, which is what
  `CallsReturn`, a part of `EveryParkEnds`, is about.
- *Stream*: of the three loops.  Nobody need write, close, abort or cancel.
- *SpawnChild*: messages are delivered, the timer fires, spawn's continuation runs, and
  the parent reads each of the child's streams.  The child need do nothing.
- *Handles*: a promise that has settled runs its continuation (an exit code's waiter, a
  load's).  Sockets need not connect, accept or send.
- *Schedule*: armed timers fire, sweeps that are due begin and end, a stop goes through
  its slots.  Handlers need not finish and guests need not submit.
- *Launch*: once the launcher has begun, the threads and messages make progress.
- *TlsStream*, *Http*: the host's own steps and the server's timers.  Peers need not
  send.  A socket takes what is written to it; the server times no write (observations).
- *Sweep*: the driver, each worker, and the deadline of a test run that hangs.
- *Retries*: each caller's steps and its alarm.
- *AppRun*: the detector's interval, the settled promises, and a child that is not
  wedged goes on to its end (a program that computes for ever is not the detector's
  business, `appRun.ts:220`).
- The other modules state no fairness; their properties are about states and steps.

## 5. Findings

Five runs end in a counterexample to something the repository says.

1. `cancel` bumps the generation and then stores CANCELLED (`call.ts:453`).  A `take`
   between the two keeps the new generation; when the slot comes round again the old
   handler's answer is taken for the new call's (`bridge_stale_answer`).
2. `read` looks at the input ring and then at EOF (`worker.ts:91`); a last chunk and a
   close in between are lost and the stream still closes cleanly (`stream_truncated`).
   `pull` has the same window between OUT_HEAD and OUT_DONE (`bridge.ts:141`), and
   `read` another between IN_ERR and IN_EOF, where an abort is read as an end
   (`worker.ts:90`); `CleanMeansWhole` excludes all three.
3. The Deno and browser write handlers answer before the queue has the bytes
   (`deno.ts:486`).  A child that returns 0 with a write parked loses it
   (`spawn_output_lost`).  The same child may have its output put out of order, against
   `children.ts:127`: two of its writes are parked at once, and the queue lets a later,
   smaller one in first (the observation on `queue.ts:157`).  Both need `Awaits = FALSE`;
   `OutputStaysTrue` shows that neither happens when the handler waits.
4. A ticket is packed with the low 25 bits of its generation and compared with all of
   it (`provider.ts:40`): a slot used 2^25 times gives tickets that fit no call
   (`tickets_wrap`).
5. The one-shot TLS request and server ignore how much a write took
   (`connect.ts:137`, `serve.ts:76`), which `connect.ts:222` warns of
   (`tls_short_write`).

### Observations

Met while modelling; no run is kept for them, because no line of the repository says
otherwise, or because a property states the weaker thing that holds.

Bridge, queue, stream:

- `collect` throws only the last piece of an error that came in pieces (`call.ts:417`).
- A call cancelled while READY with more to come leaves its tail with the host until
  the slot's next large answer (`call.ts:450`, against `respond.ts:82-84`).
- A handler that settles after `stop()` has answered its slot writes over that answer
  before its exchange fails (`respond.ts:144`).
- A leading byte order mark in text that crosses the bridge is dropped by the decoder
  (`call.ts:482`).
- The rings' counters are Int32 cells: after 2^31 bytes `head - tail` is negative
  (`stream/host/layout.ts:3-6`).
- `push` compares a write with the room and not with the writers already parked
  (`queue.ts:157`), so a smaller later write overtakes, against `queue.ts:85-89`.
- A write longer than the cap parks for room there can never be, unless a reader is
  waiting when it comes (`queue.ts:157`, against `queue.ts:251`).
- A reader already waiting is handed a write whole, however long (`queue.ts:148`).

Scheduler, page, hosts:

- "Two guests are never executing at once" (`schedule.ts:147-150`) is not kept: a sweep
  that finds a second call of the running guest says quiet (`respond.ts:359-361`).
- After a cancelled `nextEvent` or `nextFile` the next event or file goes to nobody.
- `node.ts` awaits a child's WRITE handlers but not its LOG handlers, which push to the
  same queue; LOG into a full frame is dropped.
- Node's file write may be short (`entryNode.ts:218`); the host counts it as whole.
- `RECV` of handle 0 asks neither the open source nor the stack of pushed programs: in all
  three hosts a pushed program gets the host's own standard input through it
  (`deno.ts:679-687`, `node.ts:558-561`, `browser.ts:791-795`), against `deno.ts:599-600`,
  "A pushed child reads what it was fed and then end of input — never the parent's own
  standard input".  `NeverTheTerminal` says it is the only operation that does.
- `readChunk` inside a pushed program reads the parent's open source, if there is one.
- Two opens of one stream in flight leave the first file open (`node.ts:501`);
  `NoFileLeftOpen` is about programs that do not do that.
- `outputError` keeps an old reason after a later write succeeded.
- In a page `openOutput` without the grant reaches the program as "other"; `mkdir` looks
  before it creates; `rename` is a copy and a delete; an inheriting child does not read
  what its parent's world reads (`browser.ts:279-286`).
- A cancelled CONNECT, ACCEPT or SPAWN still registers its handle, which nobody knows.
- `randomBytes` above 64 KiB throws on Deno and in a page (`deno.ts:409`,
  `browser.ts:537`) although the limit checked is 1 MiB and `node.ts:318` says why.
- A failed `captured` looks like a program that printed nothing.

TLS and HTTP:

- `client.wac:405-423` and `server.wac:340-349` say that a `close_notify` with another
  record behind it in the same call is refused rather than trapping.  What is checked is
  the state at the start of the call, so the second record still traps
  (`client.wac:615-617`, `server.wac:437-438`), as does one that does not open
  (`record.wac:156-164`).  The call's plaintext and answers are then lost, also of the
  records before it: `connect.ts:291-295` has cut all of them off what is kept.
  `PlainIsWhatArrived` allows that, and says that nothing later takes their place.
- The client ignores a KeyUpdate (`client.wac:615`), so what the server seals after it does
  not open.
- A handshake that fails in `TlsStream.over` leaves the socket below open, and a proxy
  connection that `openStream` made stays open when it throws.
- Two concurrent writes over a socket that takes part of one interleave their records;
  a write after `close` traps in the protocol.
- The one-shot decodes each record with a `TextDecoder` of its own, so a character cut
  between records is two replacement marks.
- The server times reads and not writes: a client that stops reading holds its
  connection.

Tools and harness:

- A test run that ends with 0 as its deadline fires is scored as a kill
  (`mutate.ts:920-929`); `total` counts unhit survivors twice; exits 2 and 130 leave
  staged trees behind; one worker's rejection removes the trees under the others.
- `selectTests` may leave out a test for a span that does not hold its construct's
  entry; `profile.ts:14-20` calls under-selection a wrong answer.
- A line the compiler folded into its callers has a counter that stays 0 (`profile.ts:214-219`),
  so a span of such lines is "unhit" though tests reach it.  `planFor` then runs everything,
  which is why `NarrowKeepsWhatReaches` says of "unhit" only what the counters can.
- "Losing one is over-selection at worst" (`wacProfile.ts:119-120`), of a dump still being
  written when it is drained: its own test is not credited with it, so a mutant that only that
  test reaches is run without it, and the test that ends next is credited instead.
- `home` is keyed by test name, so of same-named tests in two files one runs
  (`profile.ts:156`).
- `locate` does not look for overlapping edits; `perShape` 1 divides by zero; two
  same-named functions share a scope in a literal's shape.
- `runTests.ts` passes its arguments to both passes (`runTests.ts:23`, `:133`, `:157`): a
  subset's own files outside the lane run twice, and the whole lane runs with them.
  `GreenMeansAllRan` counts it so (`Times1`).  When all that was asked for is in the lane, or
  has no tests, the first pass has no modules, and `deno test` exits with an error.
- `reapOrphans` kills by pids it listed a moment before (`reap.ts:92`), so a pid given out
  again in between is a live process's, against "this cannot touch either"
  (`packages/ssh/test/server.ts:49-50`).  `OwnServerLives` has that as its one exception.
- A compiler edited between a process's start and its first key is keyed under the new
  sources though the old code builds (`buildCache.ts:85-107`); the directory hash is not
  recursive; a prune may remove the product another process has just been told of.
- `appRun`: a load failure throws before the `try`, so the child is not killed; a
  rejected `workerSource` is kept; a child's late dump is credited to the next test.
- `deadexports` takes recursion and a same-named local in the exporting file for a use, and
  does not see a value passed on a line of its own (`deadexports.ts:345`).

## 6. Proofs

Every theorem holds for every value of the constants that the named `ASSUME`s of the
component allow (sizes are naturals, where the code needs it at least one); a further
hypothesis is part of the theorem's statement and explained below.

| theorem | states | beyond the component's assumptions |
|---|---|---|
| `TypeCorrect`, `RequestPool` (`BridgeProofs`) | `TypeOK`, `ReqPoolExact` | none: cancels and stops at any moment |
| `SlotsAreKept`, `FullIsNoFalseAlarm` (`BridgeProofs`) | `NoSlotStranded`, `FullIsTrue` | none |
| `ResponsePool` (`BridgeProofs`), `OwnAnswers` (`AnswersProofs`) | `hostGone \/ ResPoolExact`, `hostGone \/ AnswersAreOwn` | nothing PENDING is cancelled |
| `ResponsePoolExact`, `NeverMisled` (`BridgeProofs`), `AnswersStayOwn` (`AnswersProofs`) | `ResPoolExact`, `WorkerIsNotMisled`, `AnswersAreOwn` | nothing PENDING is cancelled, no `stop()` |
| `SpawnImplementsLife`, `GoneIsAlwaysTold` (`SpawnChildProofs`) | `ImplementsLife`, `GoneIsTold` | none, and both values of `Awaits` |
| `OutputStaysTrue` (`SpawnChildProofs`) | `OutputIsTrue` | `Awaits` |
| `QueueIsTrue` (`SpawnChildProofs`) | `QueueKeepsItsWord` | none |
| `NothingIsEverLost`, `HandlesImplementSpace` (`HostsProofs`) | `NothingIsLost`, `ImplementsHandleSpace` | none |
| `FilesAreSafe` (`HostsProofs`) | `FilesAreAccounted` | none |
| `BytesStayInOnePlace` (`HostsProofs`) | `BytesAreInOnePlace` | `~ShortWrites` |
| `ChildrenGetNoMore` (`HostsProofs`) | `ChildGetsNoMore` | none |
| `TicketsAreTrue`, `TicketsAreFound` (`ProgramsProofs`) | `TicketsTellTheTruth`, `TicketFindsItsCall` | `MaxGen <= 2 ^ GenBits` |
| `PageIsAlwaysHeard`, `SchedulerIsFaithful`, `LauncherEndsWell` (`ProgramsProofs`) | `PageIsHeard`, `SchedulerKeepsFaith`, `EndsWell` | none |
| `ServerIsTruthful`, `PortsStayOwn`, `PoolIsAlwaysExact` (`ServicesProofs`) | `ServerTellsTheTruth`, `PortsAreOwn`, `PoolIsExact` | none |
| `RunsAreJust`, `SuiteStaysSafe` (`ServicesProofs`) | `RunIsJust`, `SuiteIsSafe` | none |
| `CacheStaysTrue` (`ServicesProofs`) | `CacheTellsTheTruth` | none: of `CacheSpec /\ KeyPartsSpec`, which share no variable |
| `CreditsStaySafe`, `NarrowingStaysSafe` (`ServicesProofs`) | `CreditsAreSafe`, `NarrowingIsSafe` | none: the second of `ProfSpec /\ AttSpec`, likewise |
| `SweepStaysTrue` (`ServicesProofs`) | `SweepTellsTheTruth` | none |
| `RingsStaySound` (`StreamProofs`) | `RingsAreSound` | `MaxBytes < WIDTH \div 2` |
| `RecordsAreWhole` (`StreamProofs`) | `RecordsStayWhole` | none |

The hypotheses are where the code itself stops being right.
`"PENDING" \notin CancelFrom`: `bridge_stale_answer` is what a cancel of an untaken call can
do.  `Awaits`: `spawn_output_lost` is what a handler does that answers before the queue has
the bytes.  `~ShortWrites`: Node's file write may be short and is counted as whole
(section 5), so a byte that was answered for is then nowhere.
`MaxGen <= 2 ^ GenBits`: `tickets_wrap` is what a slot does after as many uses as a
packed generation can tell apart.  `MaxBytes < WIDTH \div 2`: above it a ring's Int32
counters wrap, and `head - tail` is no longer what is in the ring (section 5).  `~MayStop`
is needed for the response pool and the answers because `stop()` writes failures over
whatever slots are in use; until it does, `ResPoolExact` and `AnswersAreOwn` hold on any
bridge, which is what the forms with `hostGone` say.

### The bridge

`BridgeProofs`.  `submit` would attach a buffer over another one if the slot it fills still
had one, so `RequestAttached` says that only PENDING and CANCELLED slots have a request, and
not the one `take` has emptied and not yet exchanged.  That the slot the worker fills is in
none of those states is `WorkersSlot`; both need the meaning of the registers at each
program point, `WorkerAt` and `HostAt`.  Typing a handler's answer needs that every
request, in a buffer, in pieces or in a handler, belongs to a call that was submitted:
`RequestsKnown`.  `IInv` is the conjunction.  Each conjunct has a lemma with one step per
action, over lemmas about payloads, the pools' search and the parks.

The second half of `BridgeProofs`.  That a slot in use is somebody's needs `TInv`: a call
being submitted or collected holds its slot by its ticket from claim on (`WorkerHolds`), no
two tickets are the same and none is ahead of its slot's generation (`TicketsApart`), and
nobody holds a slot that is free or being cancelled (`Unheld`).  `Scanned` is what makes a
claim's verdict true although it reads one slot at a time: a READY slot it has passed can be
changed by the worker only, which is busy claiming.  `TInv` holds on every bridge.  `RInv`
adds the host's half: the slot it works on is in the state `take`, `reply` or `write` found
it in (`HostsSlot`), a handler whose generation is current is the only one of its slot
(`HandlersRun`), and a response is attached from `write` to `readRes` and at no other time
(`ResponseAttached`).  It is an invariant while `Quiet`: the responder is there and nothing
PENDING is cancelled.

`AnswersProofs`.  `OwnAnswer` speaks of the moment `collect` decides; `AInv` follows the
payload there.  For the call that holds a slot it says which pieces of the request are with
the host and which is on its way (`Pushed`, `Asked`), and that whatever the host is about to
write, has written or has published is the next piece of that call's answer with the rest of
it in the tail (`Told`, `Says`); `Read` says the same of what the worker has copied out, and
`HandlersAreOwn` that a handler's ticket is the one its call was given.

### Children and their queues

`SpawnChildProofs` maps the four variables of the lifecycle to themselves.  `LifeInv`
supplies what single handlers do not check: an exit implies that loading was settled and
the streams stopped, and before the spawn nothing has happened.

`Flows` is what one of the child's queues and its parent know of each other: the parent
waits just where the queue has it parked, a parked reader means an empty queue, and nobody
is parked on a queue that has ended.  `push`, `end`, `endWith` and `next` each keep it and
lose no byte (`PushFlows` to `ReadFlows`).  A step of the whole leaves the streams alone, stops the
child, or is one write or one read (`StepKinds`).  `ToldInv` is `Flows` of every stream
(`PipesInv`, with the streams' ends), that the services have stopped exactly when the child
has an exit code, a cause and no thread (`EndInv`), and that a child
that threw or died has its reason as the last word of its error stream (`WhyInv`); it gives
`GoneIsTold` on every host.  `OutInv` adds that at most one write of a stream is parked and
the child is waiting for it (`OneWaits`), which is what `Awaits` buys.

`ByteQueue` has any number of callers.  `Tells` says who hears what of one event, and
`PushTells` to `NextTells` derive it from `apply`.  The reader's part, that a read lets in
parked writers as far as there is room, is a recursive function over the writers
(`ReleaseRoom`): it is described by `LetIn` and unfolded one writer at a time (`TakenOnce`,
`AllLetIn`, by `SetInduction`).  `QInv` adds to the property who is parked (`QParked`) and
that an empty answer was given at the end or while a later read displaced it (`QEnd`),
from which the end is final.

### Hosts

`Handles`.  A spawn holds a number for as long as its worker loads, while other calls
are numbered.  `Reserved` says that number is below `nextHandle`, unused and no other
spawn's; `Issued` that everything ever named is below `nextHandle`; `OneFlight` that a call
is in flight once.  With them each action of the maps is a step of `HandleSpace` or a
stutter, by case on the action.

`Files`.  The places a byte can be in (what was captured, the files, the frames) are one
row of `Cells`, and `Boxed` says that a byte is in one cell once and that what was answered
for is in some cell; a step moves whole cells or adds empty ones (`CellsMove`), or adds the
bytes of one new call at the end of one of them (`CellsWrite`).  That no file is left open
takes that every open file is a stream's and a stream being opened has let its old file go
(`NoneDangle`), which holds until two opens of one stream are in flight.

`Family`.  What a world was given is decided by its parent alone (`Local`); that this
bounds a whole line of descent is an induction over its length (`SetInduction`, on the set
of lengths for which it holds).

### Programs

`Tickets`: every ticket is the one of the call its slot has now (`TicketsAreCurrent`), a
blocked call's is nobody's ticket, and a number that was used packs a generation its slot
has left (`SpentIsPast`); that a number is unpacked to what it was packed from is a lemma
about division (`Quotient`).  `Page`: what is queued comes after all that was heard
(`EventsInOrder`), and a file is being read, picked or got, one of them, once (`FilesOnce`).
`Schedule`: calls are failed only while their responder stops (`FailingIsStopping`), and
taking an answer out of the middle of the queue keeps the others in their order
(`WithoutKeeps`).  `Launch`: what is in the launcher's mail in each state of the worker
(`MailInOrder`) and how far `main` has got (`MainOnce`).

### Services and streams

`Http`: what the server has said to a connection and has still to say are together the
responses to the requests it took out of its buffer, and at most a 408 after them
(`Served`); a client holds a beginning of it (`Heard`).  That the count of connections is
exact takes the cardinality theorems.  `Retries`: what a caller was given was given to
nobody else, as often as it asked (`GivenOnce`), without which the bound on its attempts
says nothing about ports.  `Pool`: a worker is over only when the items are or the pool has
failed, and an item taken is made, at work or failed (`Accounted`).

`AppRun`: two looks that saw the same are two whole intervals in which nothing moved
(`Looked`), and `Ends` says where the program is once `run` has decided.  `Suite`: while no
pass was killed, how often a file has run is a matter of the passes that are over and of
what the current one has left (`Passes`), whose sum is `Times1`; a listed pid is init's
child or one whose process has ended since (`ListedIsNobodys`).  `Cache`: some builder has
still to list the directory (`Owing`), or what is on nobody's listing of files to remove
(`Going`) is within the limit, because of any number of files the newest few are few
(`NewestAreFew`); that no product is half written takes that a live builder's temporary is
its own.  `Profile`: at every moment what a test has executed and counts is what it would be
credited with, counters that are not dumped yet included, or is in a dump being written
(`Crediting`); afterwards it is in its credit or in a late dump, and a late dump waits or is
somebody's (`Settled`). `Attribution`: what a file left is of the lines it loaded and has
what a finished test executed, unless its dump was late (`LeftIs`); the profile is what the
files that were read have left, nothing more or less (`Merging`); every file to be run is
still to be timed or is timed (`Timed1`); and any finite set can be listed by cost, each
member once (`OrderExists`, `ListHasAll`), without which the choice in `ByCost` says
nothing. `Sweep`: what workers hold and what has a result was handed out (`Handed`), no
mutant is twice among them (`Apart`), and unless a worker threw every one handed out is
among them (`Covered`); a worker's tree is what its stage says (`Grown`); and unless a
deadline fired on tests that would have ended, what is called killed is what its tests
notice (`Timed`).

`Stream`: below the wrap each counter is a number of bytes (`Counted`), and every byte
between two counters is where its reader will look (`Intact`).  A writer copies by a tail it
loaded earlier; `Loaded` says that the reader has reached that tail, so the room can only
have grown.  The verdict is the transform's because the status does not change once
OUT_DONE is stored (`Ended`).

`TlsStream`: after each record of a call, the data held with that of the call is the data of
the records up to the last taken (`InStep`), by induction over the call's records (`FedTo`,
one case per phase and kind of record), and a call that trapped has added nothing.  What is
kept is the part of one record that has been read (`WholeFed`), and what was made and has
not gone out is in one place, the reader's or the writer's (`Gone`, `InTurn`): the stream
answers before it may be written to, and a client's feed makes nothing once it is
established, so records of the two are never mixed.

### What the proofs changed in the model

- `Http`: the arms of the `CASE` in `Receive` overlapped, so that what a client concluded
  from a whole response followed by the end was left to the choice of an arm.  It is now
  decided in the order of the code.
- `Sweep`: the verdict on a test run had overlapping arms in the same way and is now an
  `IF` chain in the order of `mutate.ts`.
- `ByteQueue`: `AcceptedExactlyOnce` said that the bytes of an accepted write come once each
  in what was delivered and what is queued.  It now says that they come in one piece.
- `TlsStream`: the bound on what one read gives is a parameter, `MaxRead`.
- `Attribution`: `ByCost` is any list in order of cost, as its ties are the code's business.

### Induction

The library's induction theorems take an operator as their parameter, which the provers
cannot instantiate.  `Induction` states the same as facts about sets: a set of naturals has
a least member (`LeastOne`), and a set that holds 0 and the successor of each of its members
holds every natural (`SetInduction`).  A proof defines the set of numbers for which the
claim holds.  That a recursive function is what its defining equation says is shown the same
way, by the set of lengths for which such a function exists.

### Only model-checked

- Everything temporal beyond `[]` (`EveryParkEnds`, `SpawnEnds`, `ClosedChildAnswers`,
  `EveryWaitEnds`, `EveryServiceEnds`, `EndIsHeard`): liveness and ENABLED are out of the
  prover's reach.
- `EditsLandRight` (`Mutants`), `MutantsAreReal` (`Generate`), `SourcesAreExact`
  (`Sources`) and `PayloadsCross` (`Wire`): pure functions compared with reference
  definitions over bounded inputs.  They are built from folds and recursive operators over
  token lists, characters and bytes, and a proof would restate each fold as an induction of
  its own.
- The five violated properties, which the code does not have.

## 7. Running

    tlc -workers 2 -config BridgeCalls.cfg MCBridge      (and so on, see PROJECT.json)
    tlapm BridgeProofs.tla
    tlapm AnswersProofs.tla       (extends BridgeProofs)
    tlapm SpawnChildProofs.tla    (the longest: about a quarter of an hour from nothing)
    tlapm HostsProofs.tla
    tlapm ProgramsProofs.tla
    tlapm ServicesProofs.tla
    tlapm StreamProofs.tla
    tlapm Induction.tla

## 8. Plan

Done, in this order: `Bridge` with its runs and theorems, `Stream`, `Queue` and
`ByteQueue`, `ChildLife` and `SpawnChild` with the refinement; then the provider, the
scheduler, the page and the entries, the hosts, TLS and HTTP, the sweep, the cache and
the harness; then the theorems of section 6, from the bridge outwards, until every safety
invariant of a component with state was proved.  What would come next:

1. *Abstract specifications*: a bridge as a set of outstanding calls each answered once,
   which `Bridge` implements when nothing untaken is cancelled; a stream as one bounded
   queue, for `Stream`.
2. *Prove*: the edits of `Mutants` and the framing of `Wire`, by induction over their
   lists.
3. *Model*: the wac state machines that keep windows or a store (tor's SENDMEs, ssh
   channels, the lightclient), as systems of their own.
