# TLA+ model of the CA19.32 memory simulator

The repository holds a discrete-event simulator of a small computer: a CPU that
issues a list of read and write requests, a bus, and a 64 KiB DRAM with two
access modes and a periodic refresh (`src/src`), the scripts and the Pin tool
that make its input (`src/src/pin`), and the report that describes it
(`src/doc/main.tex`). Paths below are relative to the repository root
(`src/...` is the simulator's own directory).

This directory holds the TLA+ specifications of that simulator, the TLC
configurations that check them, and TLAPS proofs.

    tlc -config FastPage.cfg MCSimulator.tla      # model-check
    tlc -config HeapOneCPU.cfg MCHeapSimulator.tla
    tlc -config AnyModules.cfg MCOrchestrator.tla
    tlapm SimulatorProofs.tla                     # check the proofs
    tlapm HeapProofs.tla
    tlapm TimingProofs.tla
    tlapm OrchestratorProofs.tla
    tlapm ExampleModuleProofs.tla
    tlapm PinTraceProofs.tla
    tlapm LaunchProofs.tla
    tlapm SequenceLemmas.tla

Section 3 names the module that goes with each configuration.

## 1. The system

### Components

| component | files | state | operations |
|---|---|---|---|
| event list | `orchestrator/System.{h,cpp}` | registered modules, priority queue of events, current time | `addModule`, `run`, `tick`, `notify_all`, `insert` |
| module base class | `orchestrator/module.{h,cpp}`, `structures.h` | name, priority, local time, events sent by the running handler, message counter | `initialize`, `notify`, `sendWithDelay` |
| bus | `bus/bus.{h,cpp}` | busy flag, request, address, data | `set`, `get` |
| CPU | `orchestrator/CPUTest.{h,cpp}` | request list, `op_counter` | constructor (the list is drawn or read from a trace), `onNotify`, `sendRequest` |
| memory | `memory/memory.{h,cpp}` | cells, open row, `first_access`, refresh phase and its start | constructor, `onNotify` with read, write, postpone, start and end of refresh |
| main | `orchestrator/simulator.cpp` | - | plugs one CPU and the memory into one event list and one bus |
| command line | `orchestrator/parameters.{h,cpp}` | parameters, constant after start-up | `parseCommand` |
| example module | `orchestrator/ExampleModule.{h,cpp}` | none | ping-pong demonstration, commented out of `main` |
| recorder | `pin/source/tools/SimpleExamples/pinatrace.cpp` | trace file, `WriteAddr`, shared by the recorded program's threads | records each access |
| trace script | `pin/real.sh`, `examples/` | - | turns a recording into the trace files of the examples |
| test scripts, Pin kit | `test/`, the rest of `pin/` | - | test loops, plots, vendored tool |

### How they interact

Everything happens in handlers. `System::tick` takes an event of least time,
offers its message to every module, and the module it is addressed to runs its
`onNotify`. Modules influence each other in two ways only: they send messages
(`sendWithDelay`), which become events of the same list, and they share the bus.
The protocol on the bus is cooperative: a module puts a transaction on it with
`set` (refused while the bus is busy) and tells its peer by a message; the peer
takes it with `get`, which frees the bus.

One request of the CPU goes like this. The CPU sets the bus and sends a request
due at the next tick. For a write it also sends itself a beep for the next tick
(the write is *posted*), for a read it sleeps. The memory, on the request, gets
the transaction; a write is stored and nothing is answered; for a read it sets
the word on the bus and sends an answer that is due after the access time. The
CPU, on the answer, gets the word and issues its next request in the same
handler. If the request finds the memory in a refreshing phase, the memory
re-sends it to itself, in the name of the CPU, for the end of the phase, and the
bus stays busy meanwhile. If the CPU finds the bus busy it beeps itself and
tries again at the next tick. When its list is exhausted the CPU calls `exit(0)`
from its handler, with whatever is still in the event list.

### What is hard to get right or to test

- Several events are due at the same tick, and nothing specifies their order: a
  beep and the posted write it follows; a postponed request and the timer that
  ends the phase it waits for (they are *always* due at the same tick).
- A request lives across postponements while other handlers run; the bus must
  keep it, exactly one continuation of its CPU must survive, and its retry
  delay, a difference of unsigned numbers narrowed to `int`, must not be negative,
  because `sendWithDelay` drops such a message silently.
- The same kind of message toggles the refresh on and off.
- The open row is remembered across posted writes, postponements and refreshes,
  and determines the access times that the simulator exists to measure.
- `exit(0)` in a handler abandons the event list.
- `op_counter` is never initialised.
- A tick is many calls into the modules, between the moment the clock moves and
  the moment the new events are in the queue. Each module computes with a clock
  of its own, set when it is notified; another module may intercept the message.
- Event times are ints: beyond the last one they wrap, and `insert` drops the
  event silently.
- With several CPUs, one that reads never leaves the bus free.
- The recorder's threads share the address of the store under way, and the
  recorded program may exit while another thread is between the two calls. The
  call that records a store is made whether the store was executed or not.
- A trace passes a script that cuts off a fixed number of lines and a reader
  that stops silently at the first word it does not expect.

The simulator itself is one thread; only the recorder has real concurrency. There
is no crash recovery (nothing is persisted) and no message loss other than the
two silent drops (`sendWithDelay` with a negative delay, `insert` of an event in
the past).

The hazards are listed one by one, with their lines and the properties that
cover them, in `PROJECT.json`.

### What makes each component correct

- event list: events come out in time order; none is lost or doubled; modules
  of higher priority are notified first; a tick looks atomic; the process ends.
- bus: each transaction set is got exactly once, by the module it is meant for.
- CPU: requests are issued one at a time, in order; it never stalls.
- memory: a read is answered with the word last written; the refresh alternates
  on schedule whatever the traffic; a postponed request is served right after
  the phase; the access time is that of the row that is really open.
- the whole: to the CPU's program it is one memory with atomic operations.
- command line and request list: arguments are looked at only if they are there;
  the probabilities mean what the report says of them at 0 and 100.
- recorder, script and reader: the CPU's list has the accesses of the recorded
  program, complete and in order.

## 2. The modules

| module | models | rests on |
|---|---|---|
| `System` | event list and `sendWithDelay`, as the plugged-in modules see them | - |
| `Bus` | class `Bus` | - |
| `CPUTest` | class `CPUTest` | `System`, `Bus` |
| `Memory` | class `Memory` | `System`, `Bus` |
| `Simulator` | `main()`: the composition; its properties; its refinement mapping | `CPUTest`, `Memory`, `SharedRAM` |
| `SharedRAM` | nothing of the code: the promise made to the programs | - |
| `BinaryHeap` | `std::priority_queue` of libstdc++ with `comparator` | - |
| `HeapSimulator` | `System::run` and `tick` with that heap: ties settled, the process goes on | `Simulator`, `BinaryHeap` |
| `ReferenceTiming` | nothing of the code: the time a request list takes, from the memory's timing | - |
| `DocClaims` | what comments and report say of the simulator and the code does not do | `Simulator` |
| `Orchestrator` | classes `System` and `module` in full, for any modules; its refinement of `System` | `System` |
| `ExampleModule` | class `ExampleModule` | `Orchestrator` |
| `Parameters` | `parseCommand` | - |
| `PinTrace` | `pinatrace.cpp`, in the threads of a recorded program | - |
| `TraceFiles` | `real.sh` and the words of a trace file | - |
| `Launch` | from the command line to the CPU's request list: the constructor of `CPUTest` | `Parameters`, `TraceFiles` |
| `MCSimulator`, `MCHeapSimulator`, `MCDocClaims`, `MCOrchestrator`, `MCExampleModule`, `MCPinTrace`, `MCLaunch` | values of the constants for TLC | |
| `SimulatorProofs` | proof of the inductive invariant, for all values of the constants; the open row, the exit, the starvation; the refinement of `SharedRAM` | `Simulator` |
| `HeapProofs` | proof that the heap is the queue, and that with it the simulator implements `Simulator` | `SimulatorProofs`, `HeapSimulator`, `SequenceLemmas` |
| `TimingProofs` | proof that the time printed at the exit is one `ReferenceTiming` gives | `HeapProofs` |
| `OrchestratorProofs` | proofs for any client modules; refinement of `System` | `Orchestrator` |
| `ExampleModuleProofs` | proof that the letters alternate and that every one arrives | `ExampleModule`, `OrchestratorProofs` |
| `PinTraceProofs` | proofs about what a recording holds, for any number of threads | `PinTrace`, `SequenceLemmas` |
| `LaunchProofs` | proofs about the drawn list, the command line and the lists read from a trace file | `Launch`, `SequenceLemmas` |
| `SequenceLemmas` | induction by a least counterexample; what `FlattenSeq` computes | - |

The modules fit together at two places. `Simulator` takes ticks to be atomic, as
`System` has them; that the code's loops amount to such ticks is `TicksAreAtomic`
of `Orchestrator`. `Simulator` starts from any request list of `Programs`; what
lists there are is the subject of `Launch`, whose `TypeOK` is what `Simulator`
assumes of them, and whose recordings have the frame that `PinTrace` gives them
(`TraceIsFramed`).

### Correspondence

*Events.* `queue` is the set of pending events, records with the event's address
(`ptr`), `time` and the message's `source` and `dest`. The message's `id`,
`timestamp` and `magic_struct` are never read by these modules and are left out;
`valid` is set by every sender and never cleared by these modules. The address
is kept so that two events with equal contents stay two events; which free
address `new` returns is not observable, so the least one is taken.

*One step is one tick.* `System::tick` sets the time, runs the handler, removes
the event and inserts what the handler sent; no other code runs in between, so it
is one atomic action. The action has one disjunct per path through the handler:
`Finish`, `BackOff`, `IssueRead`, `IssueWrite` for the CPU; `startRefresh`,
`endRefresh`, `PostponeRequest`, `onReadRequest`, `onOtherRequest` for the
memory. The handlers' own copies of the bus (`bus_status`) are dead between
handlers and are not state.

*Order of simultaneous events.* `std::priority_queue` promises only that the top
has least time, so in `Simulator` any event of least time may come first
(`Notifies`). What holds there holds for every standard library. Two things do
depend on the order: that the process ends, and the time it reports.
`HeapSimulator` therefore settles it as libstdc++ does: `heap` is the vector
inside the queue, `BinaryHeap` its sift operations, and the events of a handler
are pushed in the order `tick` inserts them. Every step there is a step of
`Simulator` (`HeapIsTheQueue`; the theorem is `HeapImplements`), so what is
proved of `Simulator` holds for it.

*The freed root.* `tick` deletes the event before it pops the queue, whose root
still points to it (`System.cpp:58-60`). `PopIgnoresFreedEvent` says that
`pop` gives the same heap whatever that memory holds: libstdc++ moves the root
to the back and never compares it.

*Exit.* `exit()` leaves the event list as it is, with the current event still in
it. The specification then stutters (`Exited`). Deadlock checking is on in all
runs: `run()` never leaves its loop by running out of events.

*Undefined values.* `op_counter` starts with any value of `OpCounterAtStart`;
`dram` (no program loaded, or some program loaded) with any words of
`InitialWords`; the bus's address and data with any value.

*Numbers.* Addresses are those of `AddressRange`; a cell is the address divided
by 4, a row the cell divided by 256, as in the code. Times are unbounded in
`Simulator`; times that wrap around are in `Orchestrator`.

*More than one CPU.* `main()` builds one `CPUTest`. `CPUs` is a set because
neither the modules nor the protocol depend on there being one, and contention
for the bus is what the protocol is for. All CPUs get the same request list,
as they would from one command line. One thing does depend on there being one:
a CPU takes its answer and sets its next request in one handler, so a CPU with
only reads ahead keeps the bus and the others starve (`ReaderKeepsTheBus`).

*Orchestrator.* Here one step is one iteration of one loop, or one call that
touches the lists. `phase` says where the program is: `main` (modules are built
and added), `constructing`, `initializing` (the first loop of `run`), `looping`
(the second one), `notifying` (the loop of `notify_all`), `handling` (an
`onNotify`), `inserting` (the loop at the end of `tick`), `done`. `i` is the
index of the loop at work, `self` the module whose code runs, `todo` the calls of
`sendWithDelay` it has yet to make. `events`, `localTime` and `messageId` are the
members of `module`; `modules`, `queue` and `currentTime` those of `System`;
`newEvents` is the vector that `notify_all` fills and `tick` empties from the
back. `std::sort` may leave equal priorities in any order, so `addModule` may
too. Modules may be built and not added, or added in any order.

What a module does is a parameter: `FirstSends(m)` has the lists of messages its
constructor may send, `onNotify(m, message, now)` what its handler may do, that
is, the messages it sends and whether it leaves the message valid. An int is one
of `Ints`, and `Wrap` is what the machine does at the end of their range (the
language leaves it undefined; the build has no trapping arithmetic).

`dispatched`, `dropped`, `lastTime` and the fields `due` and `sender` of an event
are histories: they remember what the program does not, so that the properties
can speak of it. The heap is left to `BinaryHeap`; here any event of least time
may be the top.

*Refinement of System.* In `Orchestrator` a tick counts as done when its event is
popped. Until then the abstract time is that of the last tick, and from then on
the abstract queue holds already the new events that `insert` will take.
`TicksAreAtomic` says that a step which changes either is `Tick` of `System`, and
that the other steps stutter.

*ExampleModule.* `FirstSends` and `onNotify` of `Orchestrator`, for modules called
Alice and Bob, of which there may be any number.

*Launch.* `argv` keeps of the arguments what `parseCommand` looks at: how many
there are, the first letters, and the values. `atoi` of a missing argument, or a
string made from one, is behaviour that C++ leaves undefined, and the phase is
called so. `RandomAddress` expands `MEM_SIZE` as the preprocessor does, without
parentheses. `generator()` may return any of `Numbers`. `file` holds the words of the
trace file that `operator>>` has not yet taken; a word that is no number, or one
too large for 16 bits, ends the loop.

*PinTrace.* One call of a function of the tool is one step of the thread that Pin
calls it in. Between the calls for one store the other threads may do anything.
The calls before an instruction are inserted with `INS_InsertPredicatedCall`
(lines 145, 157, 171), the one after a store with `INS_InsertCall` (179, 186). Pin
documents (`pin/doc/html/group__INS__INST__API.html`) that the predicate of a
conditional move is its condition, that of a repeated string operation a count
that is not zero, and that only predicated calls are suppressed when it is false.
So an instruction has a flag `executed`; `Reads` and `Stores` are the operands
for which there are calls before it, and `RecordMemWrite` comes for every
instruction that has a store. The comment above these calls (lines 167-168,
"the call happens iff the store will be actually executed") is true of the one
that announces the store only.
Pin itself and the recorded program are the environment: `code` is what each
thread executes, any sequences of `Codes`. A line is written in one step; that the
threads share the stream without a lock, and may tear each other's lines, is left
out. A line keeps the fields that `real.sh` reads, and, as a history, its thread.

## 3. Runs

| run | question | bounds |
|---|---|---|
| `fast_page` | (`MCSimulator`) one CPU, fast page mode: types, refresh schedule, postponement, continuations, open row, exit, each request served once and in order, and that the whole is one shared memory | every list of at most 3 requests over 4 addresses |
| `heap_one_cpu` | (`MCHeapSimulator`) libstdc++'s heap, one CPU: every run ends in a normal exit and reports a time that `ReferenceTiming` gives | every list of at most 5 requests over two rows |
| `heap_three_cpus` | (`MCHeapSimulator`) libstdc++'s heap, three CPUs that contend for the bus: bus protocol, fatal errors, starvation, shared memory; the heap is the queue, the freed root is never looked at, every run ends | every list of at most 2 requests over two rows |
| `any_modules` | (`MCOrchestrator`) modules that send, answer and digest messages as they like, times that wrap: nothing is lost or doubled, times, priorities, order of insertion, atomic ticks, end of `run` | three modules of two priorities, answers to answers cut after one, 8 ints |
| `letters` | (`MCExampleModule`) Alice and Bob's exchange: who writes when, and how it ends | up to one Alice and two Bobs, plugged in in any order |
| `pin_two_threads` | (`MCPinTrace`) what a recording holds, for one thread and for two | two threads of at most 2 instructions of 7 kinds |
| `launch` | (`MCLaunch`) every command line and every drawn number; every short recording through `real.sh` and the reader | a memory of 2 * 4 bytes, 16 addresses, modulus 15, at most 2 accesses recorded |
| `set_fails_on_reads` | (`MCDocClaims`) refutes the comment on `CPUTest.cpp:83` | memory.h's constants |
| `access_while_refreshing` | (`MCDocClaims`) refutes `main.tex:486` | memory.h's constants |
| `refresh_period` | (`MCDocClaims`) refutes `main.tex:499` | memory.h's constants |
| `both_flows` | (`MCLaunch`) refutes `main.tex:650` for the flow with instructions and data | at most 1 access recorded |
| `totally_random` | (`MCLaunch`) refutes `main.tex:658` | a memory of 2 * 4 bytes, numbers 0 to 15 |

*Why the bounds are enough.* The addresses 0, 3, 4 and 1024 are two bytes of one
cell, a second cell of the same row, and a cell of another row: all the code
distinguishes. With `REFRESHING_INTERVAL` 4 and `REFRESHING_TIME` 6 a list of two
or three requests runs into at least one refresh, and since an access takes 2 to
4 ticks and a posted write 1, the lists bring requests, beeps and answers to the
memory before, at and after every boundary of the phases. As in `memory.h` the
phase is longer than the interval. `Pointers` has enough
addresses for all the events pending at once and for those a handler allocates
while the dispatched event is not yet freed; if a handler found none free TLC
would report a deadlock.

*The orchestrator's runs.* `any_modules` has two modules of equal priority, to be
arranged in any order, and one that precedes them. A constructor may send a list
with a negative delay and a delay 0 in it, and a handler one of two messages, of
which delay 3 leads beyond the last int, 3, from any time but 0: both ways to
lose a message occur, and messages are answered in the tick they are sent in.
Interception is free. `IntLimit` is 80 in `letters`, which ends at tick 60, so
nothing wraps there.

*The recorder's and the launch runs.* The instructions are a load, a store, a
comparison, an increment in memory and a copy of a word, and besides them a copy
whose count is zero and a conditional load whose condition is false: each
combination of calls that Pin makes. The addresses of recordings are one within the modulus, the modulus
itself and one beyond it. The probabilities are the two ends and one between,
the numbers fall on either side of it, with 199 for the reduction modulo 100.

*Mutants.* Each property is also checked against a faulty variant of a
definition (`..._variant` next to the definition, listed in `PROJECT.json`) that
it must reject: a forgotten busy check, a swapped assignment, a timer that is set
one tick early, a call that is no longer predicated, and so on. The variants are
used nowhere else.

*The heap runs.* A list of five requests crosses two refreshes with the timing
above. One CPU never has more than three events pending, so the heap itself is
checked with three CPUs, which bring it to five: elements sift two levels up and
down, past parents with one child and with two. The contention for the bus is
checked there too, in the order of ties that the library chooses; that its
properties hold for every order is proved (section 4). The same properties were tried
with two CPUs and lists of three, with other timings, and with one CPU and lists
of six.

*Cross-check with the program.* With the constants of `memory.h` in place of the
small ones, `HeapSimulator` ends at the total time that the built program prints,
for random traces of 400 requests in either mode. Its ties can be seen in those
totals: a write that waited for a refresh keeps the bus one tick longer than its
service whenever the heap prefers the CPU's retry to it. `ReferenceTiming`
leaves that tick open and nothing else.

*Fairness.* Only `Terminates`, of `HeapSimulator` and of `Orchestrator`, assumes
any: `WF(HeapTick)` and `WF(Step)`, because the program is one thread that goes on
while it can. Nothing is assumed of the order of events. In `Orchestrator` the
modules may be built and added for as long as there are any, and chains of
answers are bounded in `MCOrchestrator`: `run` ends only if the modules stop
sending. In `HeapSimulator` termination rests on the heap: it fails for an arbitrary order of ties,
where a postponed request that is always preferred to the timer of its tick is
sent again with delay 0 for ever, and it fails with `>=` for `>` in `comparator`
(the mutant of that property).

### What the refuted claims show

- `SetFailsOnlyOnWrites`: after a posted write the CPU attempts its next request
  at the next tick, when the memory may not have taken the write yet; if that
  next request is a read, `set()` fails on a read. The program's own log has the
  line `Fail accessing the bus on R`.
- `NoAccessWhileRefreshing`: the memory starts a refresh when its timer is due,
  also in the middle of an access, whose answer is delivered during the phase.
- `RefreshedEvery64ms`: `endRefresh` counts the 1024 cycles from the end of a
  phase of 1536 cycles, so refreshes start every 2560 cycles, 80 ms at 32 kHz.
- `RandomAccessIsTotal`: `MEM_SIZE` is `64 * (1 << 10)` without parentheses
  (`CPUTest.h:19`), and `generator() % MEM_SIZE` (`CPUTest.cpp:15`) is
  `(generator() % 64) * 1024`. Of the 65536 addresses only 64 are ever drawn, one
  in each row. `CertaintiesAtTheEnds` states what does hold at probability 100.
- `BothFlowsLoadWhole`: the report says that a real sequence is the one that
  pinatrace extracted (`main.tex:650`). In the flow with both instructions and data
  `real.sh` prints two lines for each line of the recording (line 8), and still
  cuts three lines off the front: the second half of the doubled header stays in.
  The reader takes two of its lines for a write and a read of address 0 and stops at
  the third, which has one word, so the simulation runs with these two requests
  and no other. The `*.t.txt` files in `examples/` begin with accesses of the
  program, so they were not left as the script makes them. That it is so for
  every recording is proved (`BothFlowsNeverLoadWhole`).

### What the other runs show of the input files

- What the recorder says of itself (`pinatrace.cpp:62`: the address of each access
  is recorded) holds for a program of one thread: every access is there, exact and
  in order (`SingleThreadAccessesAreExact`). But the recording may have more than
  the accesses: a repeated string store with a count of zero leaves a line "W" with
  the address that was last announced, by whatever store. With more threads a store
  may be recorded with the address of another thread's store, and, as long as
  lines are whole, nothing else goes wrong (`OnlyStoresAreMixedUp`).
- The two single flows of a recording arrive in the CPU complete
  (`SeparateFlowsLoadWhole`), lines of stores that were not executed included.

## 4. Proofs

Seven modules hold theorems, and `SequenceLemmas` lemmas that three of them use.
The theorems about the simulator are for every set of CPUs, request lists, timing
and number of addresses, under `PointersAssumption`, `BusAssumption`,
`CPUAssumption`, `MemoryAssumption` and `SimulatorAssumption`; those about the
heap add `HeapAssumption` (there are finitely many CPUs; `main` plugs in one);
those of the orchestrator for every set of modules and whatever they do, under
`OrchestratorAssumption` and `ClientAssumption`; those of the letters add
`ExampleAssumption` and `ExampleClientAssumption` (the modules are Alices and
Bobs, and 60 is an int). Those of the recorder need `PinTraceAssumption`: an
instruction writes one address, as `pinatrace.cpp` expects, and the value that
stands for "no thread" is none of the threads. Those of the start need
`ParametersAssumption`, `TraceFilesAssumption` and `LaunchAssumption`: the
addresses that `real.sh` leaves, below `0xffff`, fit into the CPU's 16 bits, and
a recording has the header and footer that the recorder gives it, which is
`TraceIsFramed`, proved of `PinTrace`.

| module | theorem | property |
|---|---|---|
| `SimulatorProofs` | `Invariance` | `IInv` |
| | `TypeCorrect` | `TypeOK` |
| | `BusProtocolHolds` | `BusProtocol` |
| | `OneContinuationHolds` | `OneContinuation` |
| | `RefreshScheduleHolds` | `RefreshSchedule` |
| | `NoRequestOutlivesRefreshHolds` | `NoRequestOutlivesRefresh` |
| | `NoFailureExitHolds` | `NoFailureExit` |
| | `OpenRowTracksProgramHolds` | `OpenRowTracksProgram` |
| | `ExitAbandonsOnlyAWriteHolds` | `ExitAbandonsOnlyAWrite` |
| | `ServedOnceInOrderHolds` | `ServedOnceInOrder` |
| | `ReaderKeepsTheBusHolds` | `ReaderKeepsTheBus` |
| | `Implementation` | `ImplementsSharedRAM`, the refinement of `SharedRAM` |
| `HeapProofs` | `HeapInvariance` | `HInv` |
| | `HeapIsTheQueueHolds` | `HeapIsTheQueue` |
| | `TopIsDueFirst` | (no event is due before the heap's top) |
| | `PopIgnoresFreedEventHolds` | `PopIgnoresFreedEvent` |
| | `HeapImplements` | `Spec` of `Simulator`, which `HeapSpec` implements |
| `TimingProofs` | `ReportsReferenceTimeHolds` | `ReportsReferenceTime` |
| `OrchestratorProofs` | `Invariance` | `IInv` of `Orchestrator` |
| | `TypeCorrect` | `TypeOK` |
| | `MessagesAreKept` | `NoMessageLost` |
| | `OnTime` | `EventsAreOnTime` |
| | `ByPriority` | `HigherPrioritiesFirst` |
| | `InOrderSent` | `InsertedInOrderSent` |
| | `Monotone` | `TimeIsMonotone` |
| | `AtomicTicks` | `TicksAreAtomic`, the refinement of `System` |
| `ExampleModuleProofs` | `LettersTakeTurns` | `TakesTurns` |
| | `LetterInvariance` | `LInv` |
| | `LettersExchangedHolds` | `LettersExchanged` |
| `PinTraceProofs` | `PinTraceInvariance` | `IInv` of `PinTrace` |
| | `SingleThreadAccessesAreExactHolds` | `SingleThreadAccessesAreExact` |
| | `OnlyStoresAreMixedUpHolds` | `OnlyStoresAreMixedUp` |
| | `TraceIsFramedHolds` | `TraceIsFramed` |
| `LaunchProofs` | `LaunchTypes` | `TypeOK` |
| | `Certainties` | `CertaintiesAtTheEnds` |
| | `ArgumentsGiven` | `ArgumentsAreGiven` |
| | `SeparateFlowsLoadWholeHolds` | `SeparateFlowsLoadWhole` |
| | `BothFlowsNeverLoadWhole` | (the claim that `both_flows` refutes fails for every recording) |

*The simulator.* None of its properties is inductive alone. That the bus protocol
survives a postponement needs the retry delay not to be negative, or the request
would be lost with the bus busy for ever; that needs the refresh timer to be in
the queue, unique, and due at the end of the phase (`RefreshSchedule`), and the
dispatched event to be no later than it (`NoEventInThePast`, which is there for
this only: `System` keeps it whatever the handlers do). In the service phase
`RefreshSchedule` has the timer due exactly one interval after the last phase
ended, which the handlers that serve and postpone leave alone, and only
`endRefresh` sets. That a CPU's handler finds the bus as it
expects needs `BusProtocol` (an answer is the only event on the bus) and
`OneContinuation` (what wakes the CPU is all it has). The bound on postponed
requests needs in addition that in the service phase a request is at most one
tick away (`RequestsAreSoon`). `IInv` is the conjunction of all of them and of
`UniquePointers`. The module first derives facts about the dispatched event, then
the effect of each action as "removes e, adds these events", and then has one
lemma per conjunct with one step per action.

*Outcomes.* The open row and the exit are invariant given `IInv`. For the open
row, an issue raises both the number of requests issued and the number in
flight, so `Served` stays, because `BusProtocol` leaves no earlier request of the
CPU in flight; the step that takes the request away opens its row. For the exit,
only `Finish` ends the process normally, and what woke its CPU up is the CPU's
one continuation, so anything else that concerns it is the request of a write.
For the starvation, a CPU with only reads ahead has the bus or an answer on it,
and the other CPUs' beeps find it busy.

*Each request once.* `Served(c)` counts the requests that `c` has issued less the
one in flight. `ServedOnceInOrder` says that a step which raises it raises it by
one and does to the memory what the program's next request asks, and that no
other step touches cells or open row. The steps of the CPUs leave `Served` alone, as
above; of the memory's steps only the service of a request takes it from the
flight, and then `BusProtocol` has on the bus the request that its CPU issued last.
What a write stores is the word on the bus, of which `PostedWord` says that
it is the word every write carries.

*Refinement of SharedRAM.* The mapping is in `Simulator`: `ram` is `dram` with the
write on the bus already done, `expects` the word that the answer in flight
carries, or that the request in flight will find. There is one lemma per action: the steps of the memory, and a back-off, leave every mapped
variable alone; `IssueRead`, `IssueWrite` and `Finish` are `Read`, `Write` and
`Stop`. At the heart is that the bus, while it carries a transaction, concerns
one CPU only, so no other CPU expects anything, and no write can come between a
read and its service.

*The heap.* `push` and `pop` are recursive functions, and no induction theorem of
the library can be instantiated, so what they compute is established with
`LeastNat`: every set of numbers that is not empty has a least element, and the
least counterexample of a claim about the recursion refutes itself by one
unfolding. The existence of the recursive function is shown the same way. `Climb`
and `Sink` are one unfolding of the two sifts. `ClimbedFrom` says of `push` that
the result has the elements of the vector and the new one, and is ordered if the
vector was ordered everywhere but at the hole; `SunkTo` says of `pop` that the hole
ends in a leaf, with the order kept above and below it, after which the last
element climbs from there. `HInv` is `IInv`, that the vector is ordered, has the
events of the queue, and has each once. That the new events are inserted as a
list without repetitions rests on a handler sending two at most, with different
addresses (`UniquePointers`). That no event is due before the top follows from the
order by one more least counterexample, along parents; it makes the event that the
heap selects one that `Simulator` may select, whence `HeapImplements`. The freed
event is never followed because `pop` overwrites the root before it compares
anything.

*The time.* `TInv` has for a program of one CPU that the refresh timer is due where
a cycle of the reference has it (`OnSchedule`), and that either the next event of
the CPU comes when the reference goes on (`GoingOn`), or its request is on the way
to the memory (`Waiting`) and will be taken when the reference serves it. A request
on the way is `Fresh` or has been `Postponed`. A postponed one may come before or
after the CPU's retry of the same tick, and the reference allows for both. For a
fresh one that is due with the refresh timer the order decides whether it waits a
whole phase, and so does the order for the request and the beep that a posted write
sends for one tick. There `Fresh` says what the heap is: the timer, the request,
the beep. The first part of the module computes what `push` and `pop` make of such
small heaps, the last has one lemma per handler. The theorem has three hypotheses
beside the assumptions. Both refreshing periods are longer than one tick, as in
`memory.h` (1024 and 1536 ticks): a refresh that comes back at the next tick
overtakes the request that tied with the last one, and with an interval of 1 TLC
finds the property violated. And `op_counter`, which no constructor sets, starts
at 0: from any other value the program skips requests. What the reference
computes from a list is a recursive function; of it the proof needs only that each
state follows from the one before (`StatesSteps`), and that such a function exists
is shown with `LeastNat`.

*The orchestrator.* What has to be known is where in its loops the program is.
`Clocks` and `Broadcast` say it of the times and of the loop of `notify_all`: the
event at work is still in the queue, and the modules offered so far have its
time. `Lists` and `Emptied` say it of the modules' own lists: between ticks all
of the plugged-in modules' are empty, and in a tick only that of the module at
work is not. `SentInTick` says it of `newEvents`. `Timed` is the arithmetic: as
clock and delay are both below the limit, a time wraps at most once, and a
wrapped time is negative, hence in the past; so `insert` drops what was meant for
a time beyond the limit and nothing else. That the delay was counted from the
right moment rests on the clock of the module at work being the system's
(`Broadcast`). No message is lost because the five places partition the ids, and
each step moves one part to another or adds the next id. For the refinement,
`pop` is the `Tick` of `System` and every other step of the loop leaves the
mapped queue and time alone; that `insert` does needs that what it takes it would
have taken when the event was popped. The module's first lemmas are about
sequences (`Reverse`, `ToSet`, concatenation), stated once.

*The letters.* `Turns` adds to the pending letters those a module has yet to
send: they are in turn at the present time. A letter that is answered was
written ten ticks before and before tick 50, so the answer is in turn, and its
time, at most 60, does not wrap. That every letter arrives is a matter of
counting. Letters are due at multiples of ten. In decade `d`, when `n` letters of
it have been dispatched, `Accounted` has: the letters of all earlier decades were
dispatched too; `n` and the letters due now make up the number expected in this
decade; those due in the next decade, and the answers that are on their way to
the queue, are one per dispatched letter and module that answers it, of which the
letter being offered has only those offered it so far. `Posted` and `Written` give
the first decade: each Alice that was built has written once. A decade ends when
none of its letters is left, and the count for the next one is then exact. The
counting itself is done with the library's lemmas about finite sets.

*The recorder.* `RecordInv` says of each thread that its lines so far are those
due for its instructions so far, one by one, but for the addresses of stores;
`SoFar` follows the calls that Pin makes for an instruction. `WriteAddrInv`
says that `WriteAddr` has, between the two calls for a store, that store's address
or the one of a store of another thread, which is the only way it can be
overwritten; and at any time the address of a store that some thread has
executed, or is about to, or 0 (`Stale`), which is what the line of a store that
was not executed gets. With one thread there is no other. `FrameInv` is about
header and footer. That the lines of one thread, picked out of the file, grow by one and are
otherwise left alone follows from the lemmas about `FlattenSeq`.

*The start.* `Drawing` follows the drawing loop: the list has as many requests as
there were turns, and each of them is as the probabilities demand. For the
reading loop the words of the file that `real.sh` makes are determined first, from
the lines of the recording (two words a line in a single flow; the first of them are
the header's where the script doubles the lines). `Loading` then says how far the
reader is in those words, and what it has made of the ones before. With both flows
it has at most the two requests of the header, of which the first is a write; a
recording would give none, or a read of an instruction first.

*Model-checked only.* `Terminates`, twice, because the provers here handle neither
fairness nor ENABLED. The refuted claims are refuted by a run and need no proof.

## 5. Not modelled

- Printing, logging and the printing operators, which keep no state.
- `test/` and the Makefile: shell loops over the simulator whose runs share only
  the report they append to, and plots. A model would be one of the shell.
- The seed of the generator, which may return anything here; `atoi` of negative
  numbers, for which no document says what a negative probability is.
- What a stream leaves in a variable when a conversion fails in the middle of a
  line: the loop that read it ends.
- Lines of a recording torn by two threads that write to the stream at once: what
  the file then holds is up to the library's buffers.
- Modules that misuse the orchestrator: one added twice, a message sent a second
  time after it was deleted. No module of the repository does either.
- The modulus of `real.sh`, `0xffff` and not `0x10000`, is modelled, but no
  document promises anything that it would break.
- The rest of the Pin kit. It is vendored, is used to build and run
  `pinatrace.cpp`, and is no part of the simulator. It makes up all but a few
  hundred of the repository's lines of code, so the share of the repository that
  these modules cover is very small, although they cover nearly all of the
  simulator.

What could still be added: a composition of `Orchestrator` with the clients `CPUTest`
and `Memory` in place of the argument through `System`, and 32-bit times in
`Simulator` itself.
