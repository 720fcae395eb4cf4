# FluxTrade in TLA+

Specifications of the exchange in this repository: what its components do, step by step, which
properties TLC checks on small instances, and which of them TLAPS proves for every instance.
`PROJECT.json` lists the runs, the source lines behind every definition, the hazards each property is
about, the findings and the theorems.

## The system

A client order passes through these parts:

1. **Gateway** (`gateway/`): the gateway thread accepts connections, reads and frames packets, keeps
   sessions, gives every order a sequence number and pushes it to `inbound_queue_`.
2. **Exchange** (`exchange/src/exchange.cpp`): the gateway thread then empties `inbound_queue_` into the
   dispatcher's queues (by `symbol_id % 32`). The exchange owns one `EngineManager` per symbol, one
   outbound queue and the response thread that sends reports back.
3. **EngineManager** (`exchange/include/exchange/engine_manager.hpp`): one thread per symbol. It pops
   a command, asks the **RiskEngine**, appends the command to the **journal** queue, executes it in
   the **MatchingEngine**, pushes the reports to the outbound queue and feeds them back to the risk engine.
4. **RiskEngine** (`risk/`): a fixed sequence of policies. The halt flags and the market status are
   static and shared by the engines of all symbols and by operators; the rest belongs to one engine.
5. **MatchingEngine and LimitOrderBook** (`matching/`): price-time priority matching on an intrusive
   order book with object pools.
6. **DiskJournal** (`persistence/`): a thread that moves the journal queue to numbered files.
   **Snapshots, metadata and replay** are for recovery.
7. **SPSCQueue and MPSCQueue** (`common/include/common/ring_buffer.hpp`): the first is every hand-over
   between these threads; only tests and a benchmark use the second.
8. **Kernel** (`kernel/`): modules with dependencies, started in topological order and stopped in
   reverse; signals request the shutdown. It owns a **ThreadManager** and an **EventBus**.

The directories `config`, `core`, `execution`, `marketdata`, `metrics`, `monitoring`, `network`,
`replay`, `router`, `scheduler`, `simulator` and `storage` contain no code.

## Modules

| Module | Models | State and steps |
|---|---|---|
| `BoundedFifo` | what a queue promises | a sequence of at most `Capacity` values and the last value delivered |
| `SPSCQueue` | `common/ring_buffer.hpp` | `buffer_` and the two indices; one step per load, store and slot access of `push`, `pop` and `size`. Implements `BoundedFifo` |
| `MPSCQueue` | the same file | cells with sequence numbers; one step per load, compare-and-swap (which may fail spuriously), cell access and store. Implements `BoundedFifo` |
| `OrderBook` | `matching/order_book/` | levels per side (a list, best first), the orders of a level (a queue of pool slots), the order pool, the lookup by id; the operations as actions on these |
| `MatchingEngine` | `matching/src/matching_engine.cpp` | extends `OrderBook`; `submit_order` is its entry, one step per maker, and its end; cancel, modify and reset are one step each |
| `RateLimiter` | `risk/rate_limit_validator.hpp` | a tracker per account: ring of times, write position; time passes between calls |
| `RiskEngine` | the rest of `risk/` | extends `RateLimiter`; `validate` with a step per load of a shared flag, the sequential policies as one step; fills, cancels and operators as further actions |
| `EngineManager` | `process_command`, `dispatch_reports` | extends `MatchingEngine` and instantiates `RiskEngine`; one step per part of a command and per report dispatched; the outbound queue and the execution context may fill |
| `Journal` | `disk_journal.hpp`, the loop and `start`/`stop` of `engine_manager.hpp` | the main, engine and writer threads, their flags and queues, the stream and the files; crash and restart |
| `Recovery` | snapshot, metadata and replay in `persistence/` | extends `MatchingEngine` (the live engine); records in queue, stream and files, snapshot files, metadata; crash at any point; `recover` one order or record at a time |
| `Gateway` | `gateway/` | descriptors, session table, read buffers, sequence number, what each client wrote and which length each header states; one step per accept, read, packet, reply and disconnect |
| `Exchange` | `exchange.cpp`, `dispatcher.hpp` | extends `Gateway`; the caller of `start` and `stop`, the gateway, engine and response threads and their queues |
| `Kernel` | `kernel.cpp`, `dependency_resolver.cpp`, `health_monitor.cpp` | states of the modules, in-degrees and queue of the resolver, the module a lifecycle loop is at, workers; every call of a module may fail, `stop` and `shutdown` included |
| `ThreadManager` | `thread_manager.hpp`, `.cpp` | the mutex, the thread list, the worker table; callers and workers inside `spawn_worker`, `get_stats` and `join_all`; a worker that joins itself |
| `EventBus` | `event_bus.hpp` | the subscriber lists and a stack of frames per thread, since callbacks may call the bus |
| `SequenceOps` | | insertion, removal and concatenation of sequences |
| `DataLemmas` | | lemmas on `%`, sequences and finite sums, used by the proofs |
| `SPSCQueueProofs`, `MPSCQueueProofs`, `OrderBookProofs`, `MatchingEngineProofs`, `RiskEngineProofs`, `JournalProofs`, `ExchangeProofs` | | inductive invariants, lemmas and theorems |
| `MC*` | | model values, symmetry and small sets for TLC |

An operator whose comment begins with "Mutant" is a plausible mistake in the definition below it, kept
to show that a property notices the mistake. No specification uses one.

### How the components are put together

* `MatchingEngine` EXTENDS `OrderBook`, `RiskEngine` EXTENDS `RateLimiter`, and `EngineManager` joins the
  two engines: the code embeds one in the other and calls it synchronously.
* `Recovery` EXTENDS `MatchingEngine`, so that the recovered book is compared with the book of the same
  engine, and replays with the book's own `insert` and `cancel`.
* `Exchange` EXTENDS `Gateway`. A command there is data with at most one report (a new order has exactly
  one); what an engine does with it is in `EngineManager`.
* `Journal`, `Recovery`, `EngineManager` and `Exchange` use atomic FIFO queues, which is what `SPSCQueue` is
  proved to implement for one producer and one consumer.
* `MCQueues`, `MCMatchingEngine`, `MCRiskEngine`, `MCKernel` and `MCEngineManager` hold several independent
  instances: a variable `which` chooses one per behaviour and the others rest. `MCMatchingEngine` holds the
  matching engine and, with a second engine, `Recovery`; `MCRiskEngine` the rate limiter alone and the pipeline
  under operators and under fills; `MCEngineManager` the processing of commands and `Journal`.

### Choices of abstraction

* `SPSCQueue` and `MPSCQueue` interleave sequentially consistent accesses. The code publishes with release
  stores and reads the other side with acquire loads; `NoSlotRace` and `CellsExclusive` state that
  conflicting accesses of a slot never meet. `size()` and `empty()` of `SPSCQueue` load both indices
  relaxed. They are modelled for the producer and the consumer, the only callers in the code, for whom one
  load is of their own index; nothing is claimed for a third thread.
* `Modulus` stands for 2^64 in the queues, and `Word` for 2^64 in `RiskEngine`. `MPSCQueue` assumes that no
  thread sleeps through 2^64 pushes between two of its steps.
* In `OrderBook` intrusive lists are sequences and maps are functions. Pool slots are explicit,
  because exhaustion and reuse are observable. A failed allocation throws out of a `noexcept` function: the
  process ends, and the engine stops for good.
* Time in force is never read by the matching engine, and is not part of an order.
* `RiskEngine` takes the policies after the flag loads as one step: they touch only state of the
  engine's own thread. Their order, and what they change before a later policy refuses, is kept.
* `Journal` and `Recovery` count the size of a file in records, and a record that a crash leaves half
  written counts as not written.
* `Recovery`: replay inserts every order, so that the book may be crossed and have a bid and an ask level at one
  price. `cancel` looks for the level by price alone and may then take an order out of a list it is not in; from
  there on the model says nothing (`mode = "undefined"`).
* `Recovery`: no code outside tests and benchmarks saves a snapshot or calls `recover`. As in
  `tests/persistence/replay_tests.cpp` the snapshot is saved before the metadata that names it. Two things
  are assumed of a future caller: no command is executed between the two, and the metadata names the
  writer's current file.
* `Gateway`: a packet is two units long, as long as its header; a read cuts the stream between any two units.
  The length that a header states is chosen apart from that, since the decoder compares it with what has
  arrived and with nothing else (`packet_decoder.hpp:22`): 0, shorter than the header, true, longer, or longer
  than the read buffer. The loop goes on by the stated length, so that a wrong one makes it read other bytes
  as a header, which may then be any packet, and 0 makes it handle one packet for ever. An order of length 0
  is handled `repeats` times, after which the model's gateway thread stands still where the code's goes round;
  the properties do not tell the two apart. The clients of one `poll` round are taken in any order and number,
  which includes what erasing from the client table during its iteration (`tcp_transport.hpp:77`) does in
  practice: one skipped, or read again.
* `Exchange`: a report that is passed to `send` may be lost there, for any of three reasons: the connection has
  gone, `write` takes a part or nothing, or the gateway thread encodes a reply into the same `write_buffer_`.
* `Exchange` serves one symbol. Other symbols have a queue that nobody reads, or share that of the served one,
  whose engine then executes their commands. With more served symbols `outbound_queue_` has several producers
  and is no FIFO (first finding); two served symbols that are equal modulo the number of queues are excluded
  by `ExchangeAssumption`.
* `Kernel`: a module may spawn a worker when it starts. Modules are not part of the kernel; it is assumed
  that a worker ends once its module was stopped or shut down without an error.
* `EventBus` explores both policies of `std::shared_mutex`: a waiting writer does or does not hold up new
  readers.

## Runs

| Run | Shows | Distinct states |
|---|---|---|
| `MCQueues` | `SPSCQueue` with one producer and one consumer and `MPSCQueue` with two producers: no race on a slot, a bounded FIFO, what was accepted is delivered; `size()` of `SPSCQueue` errs on the safe side before the first wrap | 93,189 |
| `MCSPSCQueueShared` | **violation**: with two producers, as on `outbound_queue_`, `SPSCQueue` is not a FIFO | |
| `MCMatchingEngine` | the book is sorted, uncrossed and consistent in every state, also in the middle of a sweep; price-time priority; every iteration of the loop makes progress. Wherever a crash falls, a `recover` that returns true gives the live book after the last safe command, if none of the replayed orders had traded and no record was refused | 2,021,935 |
| `MCMatchingEngineRemainder` | **violation**: a partly filled order rests with its full quantity | |
| `MCMatchingEngineLevels` | **violation**: a level of quantity 0 stays in the book | |
| `MCMatchingEngineRecovered` | **violation**: replay does not match, and the recovered book is another one | |
| `MCRiskEngine` | the sliding window holds under a limit that changes; halts; no buying power is created; an accepted order moves the cost that was checked; an id passes again only when another took its slot | 2,940,103 |
| `MCRiskEngineFullCost` | **violation**: the 64-bit product wraps and the order reserves less than it costs | |
| `MCKernel` | resolver and lifecycle on every graph of three modules, with workers that `join_all` waits for; `ThreadManager`; `EventBus` | 518,818 |
| `MCEngineManager` | fills are reported but for those that a full context or a full queue drops, takers' positions are those of their trades, orders whose ids the duplicate check remembers are found, every command ends. Files are a gap-free copy of what was appended; `stop` drains and returns; a crash loses less than a batch | 583,326 |
| `MCEngineManagerJournal` | **violation**: `stop` ends the journal before the engine | |
| `MCExchange` | framing, sessions, the order of commands from socket to engine, stop and restart, answers | 225,031 |

### Bounds, and why they are enough

* `SPSCQueue`: capacity 2, modulus 4, 6 pushes: the ring fills and empties and the indices wrap while
  both threads are in the middle of an operation. The theorems cover every capacity and modulus.
* `MPSCQueue`: capacity 2, modulus 8, 3 pushes by two producers, from position 0 and from 6: the ring fills,
  the producers race for the last cell, and the indices wrap in the second case.
* `MatchingEngine`: three prices, three orders, four commands: a taker sweeps two levels, a level is
  inserted between two others, an order is modified in front of another and then traded.
  Order ids are symmetric; prices are not.
* `RateLimiter`: a ring of 3 with limits 0 to 3 and 7 orders: the ring wraps twice and the limit takes
  every value up to the size of the ring. The code's limit must not exceed its ring of 100.
* `RiskEngine`: one account and one symbol (state is per account and symbol, and different accounts meet only
  in the shared flags), three calls. Ids 1 and 3 share one of two slots of the duplicate validator, and id 0 means
  none. Words have 8 values, so that a product of price and quantity within the limits wraps. Quantities
  and prices stand on both sides of every limit.
* `EngineManager`: one price, three ids, two accounts, three commands, two order slots, three reports in the
  context and two places in the outbound queue: orders trade against each other, a pool is exhausted, a sweep
  makes more reports than the context holds, and the queue refuses reports in the middle of a command. Ids 1
  and 3 share a slot of the duplicate validator and 0 is never a duplicate, so that there are two live orders of
  one id.
* `Journal`: files of 2 records, batches of 2, 4 commands, 2 starts and 2 processes: a rotation happens
  in the middle of a batch, after a stop, and after a crash.
* `Recovery`: two prices, three commands, files of 2 records, two snapshots: a snapshot falls before, in and
  after a file, replay goes through two files from a snapshot, the second snapshot overwrites the
  first, and orders come back in queues of two. The journal queue has one place or two, and refuses a record.
* `Kernel`: three modules, all graphs on them, with cycles, self-dependencies and dependencies that are not
  registered, and every failure, of which at most two (`MaxIgnored`) are of `stop` or `shutdown`.
  `ThreadManager`: two callers, two workers, five calls. `EventBus`: two threads, two events, four calls,
  callbacks of each kind.
* `Exchange`: the queues for commands have two places and that for reports has one; there are two sessions. A
  behaviour has one of eight sets of limits (`MCExchange`): two clients of which one may hang up; one client
  with every kind of reply; three clients for two sessions with packets that are refused; three orders of one
  client, for two symbols of one queue, which fills; a restart with a second client on the descriptor of the
  first; a restart with orders left in the queues; headers of one client, and of one beside an honest one,
  that state any length from 0 to one more than the true one. Cancels and replaces take the same path as new
  orders and are not among the kinds explored here.

Deadlock checking is off where the program may come to rest: an engine with no more commands, a kernel
that is destroyed, a process that has stopped.

### Fairness

* Queues: a thread inside an operation goes on, and the consumer polls again and again, possibly with
  calls of `empty()` in between (strong fairness of the first step of `pop`; the consumer loops do so). The
  compare-and-swap of the only consumer of `MPSCQueue` does not fail spuriously for ever. No
  producer has to push.
* `EngineManager`: a command that was popped is processed; nothing makes clients send or the response
  thread empty the queue.
* `Journal`: the threads go on; nothing makes the main thread stop the engine, a client submit or
  the process crash.
* `Exchange`: each thread is scheduled, and a `start` or `stop` that was called goes on; nobody has to call
  them and no client has to do anything.
* `Kernel`, `ThreadManager`, `EventBus`: a call that has begun goes on, and workers end as said above. The
  calls of a behaviour are finite in number, so weak fairness of their union is enough.

## Findings

Six runs show disagreements between the code and what its comments or documents say; `PROJECT.json`
quotes them.

1. The outbound ring has one producer per symbol (`exchange/src/exchange.cpp:94`).
2. The resting remainder of a limit order is the whole order (`matching/src/matching_engine.cpp:143`).
3. `EngineManager::stop` stops the journal before the engine (`engine_manager.hpp:51`).
4. A modification to 0 leaves a level of quantity 0 in the book (`order_book.cpp:110`, `docs/ORDER_BOOK.md:85`).
5. Replay inserts orders without matching them (`replay_engine.hpp:109`), so that the recovered book differs from
   the live one as soon as a replayed order had traded (`README.md:91`, `docs/MATCHING_ENGINE.md:64`).
6. The cost of an order is a product that wraps before it is divided (`risk_engine.cpp:19`): within the limits
   on price and quantity an order may reserve less than it costs.

## What the models show that no property forbids

The code does these things. A property that forbade them would be false, and the properties nearby are
stated so that they allow for them. The first group disagrees with a document or a comment.

* A fill is booked without the scaling of the check (`risk_engine.cpp:72`): the amount is taken from the
  reserved capital, then from the free buying power, and added to the exposure.
* A full journal queue lets a command execute without a record (`engine_manager.hpp:97`).
* Client order id 0 is never a duplicate (`duplicate_validator.hpp:15`), and an id is forgotten when another takes
  its slot (`risk/docs/RISK_ENGINE.md:59` speaks of "zero-heap collisions"). Either way there may be two live
  orders of one id, of which the lookup finds one, against `docs/ORDER_BOOK.md:87`. `DuplicateOnlyIfDisplaced`
  and `KnownOrdersFindable` show that there is no other way.
* No connection is closed for a missing heartbeat (`docs/GATEWAY.md:34` says so).
* `join_all` holds the mutex while it joins (`thread_manager.cpp:17`, "gracefully" in
  `thread_manager.hpp:82`): with a worker that waits for the manager it never returns, and a worker that calls it
  and comes to itself ends the process. `CallsReturn` shows that these are the only such cases.

The second group is behaviour to know of.

* A callback that subscribes deadlocks with its own `publish`; one that publishes may deadlock with a
  waiting subscriber. `BusReturns` shows that there is no other case.
* A second snapshot of the same sequence truncates the one the metadata names; after a crash at that
  point `recover` fails. So it does on a journal file whose header did not reach the disk.
* A new process truncates journal file 1, and later ones as it reaches them (`disk_journal.hpp:112`).
* Cancels built by the gateway have price 0 and are refused by the price band.
* A maker's report goes to the taker's connection and carries account 0, so makers' positions are not booked.
* A report may reach another client: descriptors are reused, and queues survive a restart.
* Both threads that send share `write_buffer_` (`gateway.cpp:96`).
* Commands for symbols that were not added stay in their queue; a command that meets a full queue is dropped
  without an answer (`gateway.cpp:169`, `exchange.cpp:43`).
* A header of length 0 keeps the gateway thread in the loop of `on_read` (`gateway.cpp:63`), and `stop` then
  waits for it; a length below the size of the header makes the loop go on inside the packet. `StopReturns` shows
  that `stop` has nothing else to wait for, and `FramesIntact` that clients with true lengths lose no packet.
* A report of which `write` takes only a part, or nothing, is not sent again (`tcp_transport.hpp:104`,
  `exchange.cpp:106`).
* An error of a module's `shutdown` is ignored (`kernel.cpp:119`), and `join_all` then waits for its worker if
  that was not told to end. `DestructionEnds` shows that destruction waits for no other.
* A context with no room drops reports of fills that stand (`execution_context.hpp:25`).
* Orders may trade with others of their own account in the matching engine, and immediate-or-cancel orders rest
  like others.
* Constructing another symbol's risk engine lifts halts (`risk_engine.cpp:93`).
* A signal between `std::signal` and the clearing of the flag is forgotten (`kernel.cpp:20`).
* A module that was never initialized is shut down all the same (`kernel.cpp:115`), and a worker of a
  dependant may still run when its dependency is shut down, since `join_all` comes last.
* `MPSCQueue` with capacity 1, which its `static_assert` admits (`ring_buffer.hpp:108`), overwrites what it
  holds: the sequence of a filled cell is the one that the next push waits for. The code has no such queue.
* A worker's name is refused for ever, also after its thread was joined.

## Proofs

Run `tlapm` on `DataLemmas.tla`, `SPSCQueueProofs.tla`, `MPSCQueueProofs.tla`, `OrderBookProofs.tla`,
`MatchingEngineProofs.tla`, `RiskEngineProofs.tla`, `JournalProofs.tla` and `ExchangeProofs.tla`.

**Queue** (`TypeCorrect`, `RaceFree`, `QueueIsFifo`, `SizeSafe`), for every capacity that divides the modulus,
assuming at most one producer and one consumer (`OneOfEach`); the first finding shows that this is needed. The
code sees only indices that wrap. `IInv` ties them to counters that do not: each index is its counter modulo
`Modulus`, the counters are at most `Capacity` apart, what a thread has read of the other's index may be
stale in one direction only, and the slots between the counters are filled. `QueueIsFifo` is the
refinement: `ContentsOfRing` says what the mapping shows, `PushRefines` and `PopRefines` that the store of an
index is the abstract operation, and every other step stutters. `SizeInv` adds what a thread inside `size()`
knows. The arithmetic is in `DataLemmas`.

**`MpscRaceFree`** (`Spec => [](claimed < Modulus => CellsExclusive)`), for every number of producers, every
capacity from 2 on that divides the modulus, and every start. The bound on `claimed` is the assumption that no
thread sleeps through 2^64 pushes; `MaxPushes` plays no part. `InvFrom(s)` speaks of the counters behind the
positions of a behaviour that starts at `s`: `Lap` says which sequence each cell of the current lap may have,
`OwnerInv` that a producer between claim and store is the only owner of its position and has not handed the
cell on, `ProducerInv` that one which found its cell free has room if its position is still the next, and
`ConsumerInv` that a pop claims only what was handed on. Capacity 1 must be excluded: see above.

**`RateLimiterCorrect`** (`LimiterSpec => [](LimiterTypeOK /\ RateWithinLimit)`), for every ring size, every
set of limits up to the ring size and any number of accounts. `RateWithinLimit` speaks of
the history of accepted orders; the code only sees the ring. `RateInv` connects the two:
`RingHoldsLast` says that the ring holds the latest accepted times at the positions behind the write
position, `TimesInOrder` that these times do not decrease. `CountIsLimit` says that `count`, which never
decreases, is itself a limit that all recorded orders respect: it is why an order let through because
`count` is below a raised limit is still late enough.

**`HaltsRespected`** (`Spec => HaltedIsRejected`). A halt that covers an order throughout its validation
refuses it, although each flag is loaded separately. `HaltInv` states which halts have been seen to be
lifted, by how far `validate` has come.

**`BuyingPowerSafe`**. `AccountInv` strengthens the property to each account separately: all amounts are
naturals and what is free plus what is reserved is at most the initial buying power. It is inductive
for fills and cancels with any arguments, so it needs no assumption on what the matching engine reports.

**`ReservationComplete`** (`Spec => ReservesCheckedCost`): `validate` and `update_on_accept` agree for every price and
quantity, also when the product wraps. That the cost is price times quantity is false then (sixth finding).

**`DuplicatesRefused`** (`Spec => []DuplicateOnlyIfDisplaced`), for any ids and number of slots, collisions included. The
map only holds the last id of each slot; `marked` is the history of all that passed. `DuplicateInv` says of each of
them that its slot still holds it or that another id of that slot came later.
**`PipelineRateSafe`** carries `RateLimiterCorrect` over to the pipeline.

**The book and the matching engine** (`BookSorted`, `BookUncrossed`, `AccountsExact`, `OrdersFindable`, `MatchesInOrder`,
`SweepEnds`), for any prices, orders and pools, also in the middle of a sweep. `OrderBookProofs` shows that `Insert`,
`Cancel`, `ModifyQty` and `FillOrder` keep `BookOK`: every side is sorted with one level per price, every bid level is
below every ask level, a level's sums are those of its queue, which is in the order of arrival and not empty,
every order stands in a queue at its price and the lookup is exact. `Apart`, the condition on bids and asks, is what
makes the rest inductive: `cancel`, `modify_qty` and `fill_order` look for a level by price alone, bids first, and find
the right one only because no price has a level on both sides. `MatchingEngineProofs` adds what is known of the
order being submitted (`TakerOK`): it is newer than all in the book, and its id is not in it.

**`JournalKeepsOrder`** and **`StopLosesNothing`**, for every policy and size: files, stream, record in hand and queue
are, put together, what was appended; and when the writer leaves its loop nothing appended before `stop` is
left in the queue, although the engine goes on appending.

**`CrashBound`**, for every batch size, file size and queue capacity: a crash takes no written record under
`Immediate` and fewer than a batch under `Batch`. `Holdback` bounds the stream by `batch_count`, which is
a local of the writer and starts at 0 again with every start; so `IInv` also says that between a stop and
the next start the writer has ended (`Ended`) and the stream is empty.

**`StoppedIsQuiet`**: `QuietInv` says in which states of the caller of `start` and `stop` each thread may run
or have sockets open. **`SessionsAreTheClients`** and **`OnlyLoggedInOrder`**, for any
number of connections, rest on `SessionInv`: clients have distinct descriptors, only accepted clients have
logged in, and the connection that `on_read` works on is open and has a session. The last needs `QuietInv`,
since `Gateway::stop` must not empty the table under a reader.

The types of `SPSCQueue` and `RateLimiter` are proved (`TypeCorrect`, `RateLimiterCorrect`); the other
modules state no type invariant.

Only model-checked: `EngineManager`, `Recovery`, `Kernel`, `ThreadManager`, `EventBus`; that `MPSCQueue` is a FIFO;
`FramesIntact` and `CommandsInOrder`, which speak of concatenations and selections that need induction over
sequences. All liveness properties stay with TLC, since the prover handles neither fairness nor ENABLED.

## Not modelled

* `Exchange::poll` and `submit_command`, which dispatch from the caller's thread and are called nowhere in the
  repository; adding symbols while the exchange runs.
* The service registry, an unlocked map that only the kernel's constructor and tests use.
* `SimulationTransport` and the exchange simulator, which forward calls for tests and benchmarks.
* `size` and `empty` of `MPSCQueue`, which change nothing and have no caller outside tests.
* Domain types, events, checksums, clocks, CPU pinning, statistics, logging and byte layouts.

## Plan

1. A proof that `MPSCQueue` is a FIFO, on top of the invariant of `MPSCQueueProofs`.
2. `Recovery` together with the restart of `Journal`, once the code says where a new process continues.
