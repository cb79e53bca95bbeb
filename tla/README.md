# IceFlow: TLA+ specifications

IceFlow is a stream-processing library on top of Named Data Networking. An
application is a directed graph of tasks; every running node instance takes
part in one State Vector Sync (SVS) group, publishes data for its downstream
edges and consumes the data of its upstream edges, each edge split into
partitions. This directory holds TLA+ specifications of the library, TLC
configurations that check them, and TLAPS proofs.

## 1. Inventory

| part | code | state | operations |
|---|---|---|---|
| producer | `src/producer.cpp` | partition set, partition count, production timestamps; entries of the node's data store | `pushData`, `setTopicPartitions`, backchannel callback, `getProductionStats` |
| consumer | `src/consumer.cpp` | subscription handles, callback, consumption timestamps, idle-since | data callback with acknowledgement, `repartition`, `setConsumerCallback`, `getConsumptionStats`, destructor |
| node | `src/iceflow.cpp` | a map of producers, a map of consumers, `m_running` | `run`, `shutdown`, `pushData`, `register*Callback`, `repartition*`, `get*Stats`, edge accessors |
| SVS group | ndn-svs (external) | publications, data stores, subscriptions, fetches under way | publish, subscribe, unsubscribe, notify, fetch |
| ring buffer | `include/iceflow/ringbuffer.hpp` | bounded buffer, mutex, condition variable | `push`, `pushData`, `waitAndPopValue` |
| node-instance service | `src/services/node-instance-service.cpp` | none of its own | `Repartition`, `QueryStats` |
| executor, node-executor service | `src/executor.cpp`, `src/services/node-executor-service.cpp` | gRPC server and its service object, stub of the node, report callback | `runGrpcServer`, `runGrpcClient`, `repartition`, `queryEdgeStats`, `ReportCongestion`, destructor |
| scaler | `src/scaler.cpp` | gRPC server, stub of the executor | construction, `reportCongestion`, destructor |
| DAG parser | `src/dag-parser.cpp` | parsed graph | lookups of nodes and edges |
| measurements | `src/measurements.cpp` | entries, file counter | `setField`, `recordToFile` |
| word count | `examples/wordCount` | position in the text, word counts | `text2lines`, `lines2words` (several instances), `countWord`, SIGINT handler |

**Interaction.** A producer publishes on `<sync prefix>/<edge>/<partition>`
with a partition chosen at random. The sync protocol announces the publication
to every node; the subscriptions of that moment decide whether the node fetches
it. The consumer's callback runs on the event loop, calls the application, and
publishes the sequence number of what it consumed on
`<sync prefix>/<edge>/backchannel`. Producers listen to that name and erase
*their own* publication with that number. Acknowledgements are publications of
the consumer's node and take numbers from the same sequence as its data.

**Threads of a node.** (1) The event loop `run()` starts: every callback of the
library runs there. (2) Threads of the application, which push data and
register callbacks. (3) The threads of the gRPC server, which run `Repartition`
and `QueryStats` at once, each on a thread of its own; or the application's own
`repartitionConsumer` before `run()`. Nothing in the library is locked.

**Control plane.** An executor manages a node instance through synchronous gRPC
calls in both directions: the executor repartitions the node and queries its
statistics, the node's scaler reports congestion, and the executor's report
callback may call the node back while the node waits for the answer.

**What is hard.** Repartitioning goes one library call at a time while the
event loop maps and delivers; fetches outlive the subscription that started
them; acknowledgements travel through the same unordered, lossy medium as data;
application callbacks throw; the statistics copy objects that own
subscriptions, beside the threads that use them; the ring buffer has two kinds of waiting threads on one
condition variable; `m_running` is a plain bool that two threads may both find
unset; the executor's handlers may outlive everything else that refers to the
executor; a server that shuts down waits for handlers that may wait themselves;
a signal handler runs a function that another thread is inside of; instances of
an application deal out partitions among themselves without talking to each
other.
`PROJECT.json` lists each hazard at its line.

**What makes each part correct.** Producer: what it erases was consumed, what
it publishes is on the configured partitions. Consumer: it is subscribed to
what it was last asked to serve, and sees nothing twice. Node: data for a
served edge is eventually consumed and released. Ring buffer: FIFO order,
nothing lost when bounded, no lost wake-up. Event loop: one at a time, it
survives throwing handlers, it ends after `shutdown`. Control plane: the node
serves the bounds it last reported, every report is delivered and answered, a
stop completes.
Graph: a producer and a consumer that read the same file agree on the edge
between them. Measurements: every field is recorded once, in a file that could
be opened. Word count: every
word is counted, and once.

## 2. Modules

| module | models |
|---|---|
| `SVSPubSub` | the SVS group, external, from the calls in `producer.cpp` and `consumer.cpp` |
| `Timestamps` | the clock, `cleanUpTimestamps`, `determineIdleTime` (the same text in producer and consumer) |
| `IceflowProducer` | `producer.cpp`; extends the two above |
| `IceflowConsumer` | `consumer.cpp`; extends the two above |
| `IceFlow` | `iceflow.cpp` and the node-instance service's calls: all nodes, all threads; the system's properties |
| `EdgeDelivery` | what one edge promises to the tasks at its ends: the abstract specification that `IceFlow` implements and `WordCount` builds on |
| `MCIceFlow` | graphs, assignments and bounds for TLC |
| `RingBuffer`, `MCRingBuffer` | `ringbuffer.hpp` |
| `FifoQueue` | the bounded FIFO queue that `RingBuffer` implements; lossy where threads use `push` |
| `EventLoop` | `run` and `shutdown` of `iceflow.cpp`, the threads that call them and the loops they start |
| `ControlPlane`, `MCControlPlane` | `executor.cpp`, `scaler.cpp` and both services: one executor, one node, their calls |
| `DAGParser`, `MCDAGParser` | `dag-parser.cpp` and the constructor in `iceflow.cpp` |
| `Measurement` | `measurements.cpp` and the examples' signal handler |
| `WordCount`, `MCWordCount` | the three programs of `examples/wordCount`, composed over two edges |
| `IceFlowProofs` | type correctness of the composed system, acknowledgements |
| `IceFlowDeliveryProofs` | subscriptions, consumption, statistics and the refinement of `EdgeDelivery`; extends `IceFlowProofs` |
| `RingBufferProofs`, `EventLoopProofs`, `ControlPlaneProofs`, `MeasurementProofs`, `DAGParserProofs`, `WordCountProofs` | theorems and proofs about the module of that name |

### State and actions

Publications are records `[from, seq, edge, chan, ack]`: publisher, sequence
number, edge, partition number or `BackChannel`, and, on the backchannel, the
acknowledged number. Payloads and names are not modelled beyond that; the JSON
text of an acknowledgement and its parsing carry a number there and back, and
the number is all that arrives: the publisher of the acknowledged data is lost,
as in the code.

`SyncUpdate` announces one publication to one node, in any order, and creates a
fetch per matching subscription. `Fetched` is the answer of a fetch and is the
guard of the three things that can follow: `DataIgnored` (no callback),
`DataConsumed` (the callback returns), `DataRefused` (the callback throws: its
outputs are published, the rest does not happen). `handler[n]` is where the
event loop is inside `subscribeCallBack`: after the callback come
`saveTimestamp` and `acknowledge`, and the other threads run between them.
`onBackchannel` is the lambda of `setupBackchannel`. `FetchTimeout` gives a fetch up, always possible when the
data is gone, a bounded number of times otherwise. A node that stops shows to
the others as a node that takes no more steps and whose data is not fetched.

The threads of the gRPC server are small program counters, one per consumer and
one per query, that interleave with each other and with the event loop.
`control[n][e]` is the thread that repartitions the consumer of `e`:
`repartition` starts it, `unsubscribeNext` and `subscribeToTopicPartition` are
the iterations of its two loops, `clearHandles` and `repartitionReturns` end
them. `query[n]` is the thread that asks for statistics: `getConsumerStats`
starts it, and for each consumer, in any order (an unordered map),
`copyConsumer` is the copy that the loop variable makes, `getConsumptionStats`
reads the clock and reports on the copy, `destroyNext` and `copyDestroyed` are
the copy's destructor, which unsubscribes the copied handles.
`getProducerStats` ends the query. Producers are copied too, but their
destructor does nothing.

`consumed`, `requested`, `consumptionStats` and `productionStats` are history
variables for the properties, and so are the fields `copied` of a repartition (a
query has copied the consumer since the handles were cleared) and `before` of a
query (what had been consumed and time-stamped when it began). `budget` counts
down what the environment may still choose; it starts as one of `Limits`.

**Refinement of an edge.** `EdgeDelivery` knows messages that were sent, what
each consumer was given and what producers have let go: a message is given to a
consumer at most once and only while it is kept, and is let go only after its
*number* was given to somebody. In `IceFlow`, `Delivery(e)` maps `sent` to the
data published on `e`, `taken` to what consumers' callbacks took of it, and
`released` to what is no longer in its publisher's store; `EdgesDeliver` says
that every step of the system is, for every edge, a step of `EdgeDelivery` or
leaves that edge alone. Partitions, subscriptions, fetches, the backchannel and
the control threads are hidden. That a number and not a message is acknowledged
is visible at this level, because it is what an edge with two producers suffers
from.

`WordCount` uses two instances of `EdgeDelivery`, `T2L` and `L2W`, and adds what
the application decides itself: `createConsumerPartitions` and its fixed step of
2, the random partition of every line and word, the sequence numbers that words
and acknowledgements of an instance share, the counts. `LostWords` are words
that left their producer's store before `wordcount` fetched them.

`RingBuffer` takes what happens under the mutex as one step and `notify_all`,
sent after the unlock, as another. Every thread in `pushData` has a threshold of
its own. `Full` is the comparison of a `size_t` with an `int`: a negative
threshold never blocks, zero always does. The abstract queue it implements is
bounded by the capacity and loses nothing if all producers use `pushData` with a
threshold from 0 to the capacity; otherwise an item that enters a full queue
displaces the oldest one, as `circular_buffer::push_back` does.

`EventLoop` splits `run()` where another thread can get in between: the check
of `m_running` (`run`), its assignment (`setRunning`), the start of the thread
(`startLoop`), the `join`. `startFails` is the constructor of `std::thread` that
throws, after which `m_running` stays set; `startFailed` remembers it until
somebody calls `shutdown`. A loop alternates between reading `m_running` and
`processEvents`, which it leaves by the timeout or by a `std::exception`
(`handlerThrows`); any other exception ends the process (`handlerThrowsOther`,
`terminated`).

In `ControlPlane`, `call[t]` is the call that thread `t` of the executor waits
for, and the steps of the node's handler are steps of that record. The report
callback is a thread of its own (`CallbackThread`) that may call while a report
is handled. `IceFlow::reportCongestion` hands a report to the scaler, or warns
and returns if there is none, and has no state of its own. The life of the executor object
is a state: `released` when only the handler's `validExecutor` refers to it, `destroying` inside the destructor,
whose `Shutdown` waits for running handlers. The service object exists between
`runGrpcServer` and `runGrpcServerReturns`; a report that arrives later is
undefined behaviour and either works or ends the process. Partition numbers are
taken modulo `Modulus`, which stands for 2^32.

The consumers of that node are sets of subscriptions with handles. The handler
of a repartition goes through `m_subscriptionHandles` (`UnsubscribeNext`), clears
it (`ClearHandles`), and subscribes and records one handle at a time
(`SubscribeNext`). A query copies each consumer's handles (`CopyConsumer`) and
unsubscribes them, and `QueryReturns` ends it. Nothing keeps two of these
handlers apart: a repartition that races with another of the same edge may read
handles that the other has just recorded, clear them, or lose one that both
push at once, and a subscription whose handle is lost stays for good. The history
variable `disturbed` holds the edges of which something may have cancelled
subscriptions since the last repartition began (a copy, an overlapping
repartition, the end of the process), `overlapped` those of which the process
has ever run two repartitions at once. When the process ends (`NodeGone`), the
last responses stay as they were, and every edge is disturbed.

The node's process is down, up or stopping: `ScalerDestructor` and
`ScalerShutdown` are `~IceflowScaler`, which waits for handlers that are still
running, `StopNode` is a crash at any moment.

`DAGParser` starts from every graph that the syntax allows within the bounds,
partition counts that `get<uint32_t>` takes modulo `Modulus` (which stands for
2^32) included, and lets instances start, fail and stop. `findUpstreamEdges` is
a function recursive in the number of nodes visited, one iteration of the
code's loop at a time. `getDownstreamEdge` and `getUpstreamEdge` are operators:
an edge, `"none"` for an empty optional, `"out_of_range"` for the exception of
`at()`. `ByIndex` says what each index has to yield.

`Measurement` has two callers of `recordToFile`: the thread that sets fields and
the signal handler. Their steps interleave freely, which contains the case that
the handler runs on top of the thread; once they have overlapped, the process
may also crash. `OpenResults` says whether a file can be created under its name.
It always can where the directory exists; it never can in the examples, whose
node name is `/node-WordCount/<uuid>` (`lines2words.cpp:93`, `iceflow.cpp:32`),
which puts the file in a directory that nobody creates. The code looks at neither
case: the lines of a file that is not open are dropped and the vector is cleared.
`parts` is what was handed to each file, `files` what arrived in it.

### Assumptions of the abstraction

* `IceFlow` has, per consumer, one repartition at a time and, per node, one query
  at a time. Repartitions of different consumers and a query run at once.
  Overlapping repartitions of one consumer are part of `ControlPlane`, which takes
  each of their library calls as atomic and the vector of handles as the set of
  handles it may hold.
* `SVSPubSub` makes the answer of a fetch and the consumer's callback one step.
  Data that is in transit, or in a cache of the network, when the publisher
  erases it does not reach a consumer any more; that a consumer takes a message
  "only while it is kept" (`EdgeDelivery`) rests on this.
* `ControlPlane` has one node, at most one report under way, and an application
  that does not release the executor from inside one of its own calls.
* `EventLoop` gives every read of `m_running` the current value: between two
  reads the loop calls functions the compiler cannot see through.
* `Measurement` takes `push_back` as one step, and a loop over entries that were
  cleared meanwhile as over; what else unsynchronised accesses may do is `Crash`.
  SIGINT arrives once, because the handler ends in `exit`.
* `WordCount` has edges that do not fail and callbacks that do not throw; both
  are part of `IceFlow`. An instance keeps its partitions.
* In `ControlPlane` a node stops in an orderly way only while none of its threads
  is inside `reportCongestion`.
* A library call, a callback of the application and the copy of a consumer are
  single steps, although nothing locks them. The races themselves are undefined
  behaviour and are listed as hazards.
* Partition vectors hold no partition twice when `AtMostOncePerConsumer` is
  checked (the ranges of `Repartition` do not).
* Handles are never reused.

## 3. Runs

| run | instance | checks |
|---|---|---|
| `IceFlow_handover` | 1 producer, 2 consumers, 2 partitions, 2 pushes, 2 repartitions to any of `0`, `1`, `0 1`, also at once | `MappedOnlyIfRequested`, `EdgesDeliver` (the refinement) |
| `IceFlow_chain` | 3 tasks in a row, 1 push, callbacks that push up to 1 item, assignments `0` or none, and one of three bounds: 1 of everything (repartition, producer repartition, query, throwing callback, lost fetch, clock tick); 2 repartitions, 1 throwing callback, 1 lost fetch, 1 tick; 2 repartitions and 1 query | `TypeOK`, `ErasedOnlyIfConsumed`, `AtMostOncePerConsumer`, `RepartitionEstablishes`, `RecentConsumptionIsCounted`, `EdgesDeliver` |
| `IceFlow_released` | 1 producer, 2 consumers with a partition each, fairness | `ConsumedByOne`, `SubscriptionsFollowRepartition`, `PushedIsEventuallyReleased` |
| `RingBuffer_mixed` | 1 thread in `push`, 3 in `pushData` with thresholds 2, 0 and -1, 2 in `waitAndPopValue`, capacity 2, 5 items, fairness | `TypeOK`, `NoLostWakeup`, `IsFifoQueue`, `OnlyPushDisplaces`, `BlockedPushProgresses`, `ItemLeaves` |
| `EventLoop_shared` | 2 threads, 3 loops that start and any number that do not, 2 events, fairness | `LoopsAreJoined`, `RunningHasLoop`, `ShutdownEndsLoops`, `EventsAreHandled` |
| `ControlPlane_calls` | an application thread and the report callback, 2 edges of which the node serves 1, numbers modulo 3, the ranges 0..2, 2..2 (empty) and 2..1 (swapped), and one of three bounds: 1 of everything (repartition, query, report, crash, orderly stop, release of the executor); 2 repartitions, 1 report, 1 crash, 1 stop; 2 repartitions, 1 query, 1 report; fairness | `TypeOK`, `BoundsAreCurrent`, `ReportsReturn`, `StopCompletes`, `CallsReturn` |
| `DAGParser_graphs` | every graph of 2 nodes, 3 tasks, 2 edge names, up to 2 edges of the first and 1 of the second node, 1 or 4 partitions, numbers modulo 4; a third name that is not in the graph | `SingleEdgesAreConsumed`, `ConsumesOnlyOwnEdges`, `EdgesByIndex` |
| `Measurement_saved` | thresholds 0, 1, 3 and 4, 6 fields, each file opened or not, SIGINT at any step | `TypeOK`, `RecordedOnce`, `BufferIsBounded` |
| `WordCount_two` | a text of 3 lines, one empty, one word in two spellings; the partitions of `application-DAG.json`; instances 0 and 1 of `lines2words`; fairness | `NeverOvercounted`, `CompleteUnlessLost`, `EveryWordIsCounted` |

Two consumers, two partitions and two pushes are the smallest instance in which
a partition moves while one publication is in flight and another is being
acknowledged. Two repartitions are needed for a consumer to have old handles to
drop; after the second, the state of a consumer is again "some handles, some
fetches under way", so a third adds no new situation. The chain needs three
nodes for one of them to number data and acknowledgements in one sequence. In
the ring buffer, more threads of each kind than free places make both kinds
wait at once. Three starts of a loop are enough for a restart on top of a
restart. Modulo 3 a range can be empty at the largest number, hold several
partitions, and wrap around; two repartitions from two threads, alone or with a
query, a report, a crash or a stop, put every kind of call before, inside and after
every other. (What a third repartition can do after two that overlapped,
`ControlPlane_overlapping.cfg` checks when it is run by hand; the theorem covers
it.) In the graphs, modulo 4, 4 partitions become 0, and every index up to the
largest is looked at. Six fields fill two files of threshold 3, and one of
threshold 4 with a remainder. Three lines on the three usable partitions of the first edge reach every way
to deal them out, and two instances that publish for one edge already lose words
to each other's acknowledgements. The instances are numbered 0 and 1 because only
a numbering from 0 gives every partition of the first edge to somebody; the start
scripts number them 1 and 2 and leave partition 0 to nobody (`WordCount_scripts`).

The runs of `IceFlow` without `CHECK_DEADLOCK FALSE` never stop because a
callback can always be registered anew, those of `EventLoop` because
`shutdown` is always possible (a process that has ended stutters), those of
`DAGParser` because instances restart. The ring buffer, the control plane, the measurements and the word count may stop
once the bounded number of items, calls, fields or lines is through.

### Where the code departs from what the repository says

Each of these configurations has one property, and TLC finds it violated. Three
are part of the project's runs:

| run | property | what happens |
|---|---|---|
| `IceFlow_statsUnsubscribe` | `SubscriptionsFollowRepartition` | `QueryStats` copies the consumers; the copies' destructors cancel the subscriptions |
| `IceFlow_twoProducers` | `ErasedOnlyIfConsumed` | two producers on one edge: an acknowledgement for one erases the other's publication of the same number |
| `ControlPlane_lastReference` | `ReportsAlwaysReturn` | the executor's destructor runs inside the handler it waits for |

The others are kept beside them and run by hand,
`tlc -config X.cfg MCIceFlow` (or `MCControlPlane`, `MCDAGParser`,
`Measurement`, `EventLoop`, `MCWordCount`):

| configuration | property | what happens |
|---|---|---|
| `IceFlow_producerPartitions` | `PublishedOnTopicPartitions` | `setTopicPartitions` changes a set nobody reads (`producer.cpp:160`; `producer.hpp:44`: "The data is split across one or more `topicPartitions`") |
| `IceFlow_staleConsumption` | `ConsumptionStatsAreRecent` | old timestamps are never dropped: the age is computed with the wrong sign (`consumer.cpp:58`) |
| `IceFlow_productionCount` | `ProductionIsCounted` | `pushData` saves no timestamp: production is always zero (`producer.cpp:96`) |
| `IceFlow_queryBeside` | `RepartitionAlwaysEstablishes` | a query beside a repartition copies the new handles and unsubscribes them before the repartition returns (`iceflow.cpp:209`) |
| `ControlPlane_twoCallers` | `BoundsAreAlwaysCurrent` | two repartitions of one edge at once mix their subscriptions and forget handles (`node-instance-service.cpp:50`; `node-instance.proto:44`) |
| `ControlPlane_destroyedService` | `ReportsAreDelivered` | the server uses a service object that went away with `runGrpcServer` (`executor.cpp:46`) |
| `DAGParser_parallelEdges` | `EveryEdgeIsConsumed` | the second edge from a node to the same task has no consumer (`dag-parser.cpp:151`) |
| `Measurement_interrupted` | `ExitSavesEverything` | SIGINT inside `recordToFile` loses or repeats fields (`measurements.cpp:81`) |
| `Measurement_noDirectory` | `ExitSavesEverything` | where the file cannot be opened, as in the examples, the entries are cleared all the same (`measurements.cpp:87`; `measurements.cpp:105`: "Saved to file and cleared the vector") |
| `EventLoop_twoLoops` | `AtMostOneLoop` | two callers of `run()` both pass the check of `m_running` (`iceflow.cpp:105`; `iceflow.cpp:106`: "Iceflow instance is already running!") |
| `WordCount_scripts` | `EveryWordIsCounted` | the start scripts number the instances 1 and 2: nobody serves partition 0 of the first edge (`lines2words.cpp:65`, `start_lines2words1.sh`) |
| `WordCount_three` | `NeverOvercounted` | the number of instances on the command line is ignored: with three, two of them serve the same partition (`lines2words.cpp:86`; `lines2words.cpp:130`: "`<number-of-instances>`") |

### Fairness

`Fairness` of `IceFlow` is weak fairness of announcements, callbacks, the rest of
a callback that has begun (`FinishData`) and the steps of a repartition
(`ControlStep`) or a query (`QueryStep`, `getProducerStats`) that has begun: `run()` calls
`processEvents` in a loop until `shutdown`, SVS repeats its announcements, and a
thread inside a call goes on.
Pushing, registering, repartitioning, querying, throwing and failing are never
forced. `PushedIsEventuallyReleased` is checked where no fetch fails and no
callback throws, since the code repeats neither. In `RingBuffer`, a thread
inside an operation goes on and consumers keep asking; spurious wake-ups are
possible and never relied on.

In `EventLoop`, threads inside `run()` and loops go on (a thread that has set
`m_running` starts its loop or fails to), and the timer of
`processEvents` fires (weak fairness). Handling an event is strongly fair: the
Face dispatches what is ready in order, so the timer does not win against a
waiting event for ever. In `ControlPlane`, a call whose peer is there, a
handler and a destructor that can go on do so; nothing is assumed about the
callers or about a node that is down, which is why `CallsReturn` speaks of a node
that stays up in the end. In `WordCount`, the text is read to its end on a thread
of its own and every event loop handles what it can fetch; acknowledgements need
not arrive.

## 4. Proofs

All theorems hold for every value of the constants that satisfies the named
assumptions (`GraphAssumption`, `TimeAssumption`, `PartitionAssumption`,
`AssignmentAssumption`, `BoundAssumption`, `RingBufferAssumption`,
`EventLoopAssumption`, `ControlPlaneAssumption`, `MeasurementAssumption`,
`DAGParserAssumption`, `WordCountAssumption`), which TLC evaluates on every run.
Some have a further hypothesis. Each of these separates what the code
guarantees from what it does not, and a run satisfies it:

| hypothesis | meaning | satisfied by | without it |
|---|---|---|---|
| `SingleProducer` | no two nodes produce for one edge | `IceFlow_chain` | `IceFlow_twoProducers` |
| `DistinctAssignments` | no assignment names a partition twice, as the ranges of `Repartition` do not | all runs of `IceFlow` | two subscriptions to one partition deliver each publication twice |
| `NoSelfEdge` | no node consumes an edge it produces for | all runs of `IceFlow` | a callback that pushes takes from and puts on one edge in one step |
| `SharedEdgesAreSole` | nodes that produce for the same edge, the replicas of a task, produce for no other | all runs of `IceFlow` | an acknowledgement of one edge erases a publication of another |
| `DisjointAssignments` | no partition is ever assigned to two node instances | `IceFlow_released` | a fetch outlives its subscription while the partition moves, and both consume |
| `NoQueries` | nobody asks for statistics: every member of `Limits` has no query | `IceFlow_released` | `IceFlow_statsUnsubscribe` |
| `Edges # {}` | the control plane has an edge | `ControlPlane_calls` | there is nothing to repartition |
| `DifferentParity` | any two numbers of instances of `lines2words` differ in parity; `WordCount_two` uses 0 and 1, and the 1 and 2 of the start scripts satisfy it too | `WordCount_two` | `WordCount_three` |

### The composed system

* `IceFlowProofs!TypeCorrect`: `Spec => []TypeOK`. `TypeOK` alone is not
  inductive, because reported idle times are natural numbers only while
  `m_idleSince` is in the past; `TypeInv` adds that.
* `IceFlowProofs!AcknowledgedIsConsumed`: with `SingleProducer`,
  `Spec => []ErasedOnlyIfConsumed`. The inductive invariant `AckInv` follows an
  acknowledgement backwards: what is fetched was published
  (`FetchesArePublished`), only producers of an edge listen to its backchannel
  (`BackchannelOnOwnEdges`), an acknowledgement was sent by a node that had
  consumed a publication of that number on that edge (`AckHasWitness`), data
  is on the publisher's own edges (`DataOnOwnEdges`), so with a single producer
  the publisher is the node that erases, and numbers identify publications
  (`Numbered`). `AckInv` itself needs no hypothesis.
* `IceFlowDeliveryProofs!RepartitionIsEstablished` and `FetchesAreRequested`:
  `Spec => RepartitionEstablishes`, `Spec => MappedOnlyIfRequested`. Both follow
  from `SubInv`, which says for every step of a repartition what the
  subscriptions of the consumer are, whatever a query does beside it: the consumer
  keeps the handle of every subscription it has (`HandlesKept`), handles have
  been given out (`HandlesGivenOut`) and belong to one consumer (`HandlesApart`),
  a repartition drops handles of its own consumer (`DropsOwnHandles`), and those
  still to drop cover all that is left (`HandlesToDrop`); the copy of a query
  holds none of the handles made since the last `clear()`, unless the repartition
  says `copied` (`CopyIsOld`); what is subscribed to and what is still to come is
  the request unless copied (`RequestInProgress`), and outside of the first loop
  nothing else is subscribed to (`OnlyRequested`). So a query that copied the
  consumer before the `clear()` does no harm, even if the copy is destroyed after
  it, and one that copied it later cancels what the repartition has just made;
  `IceFlow_queryBeside` is that case.
* `IceFlowDeliveryProofs!ConsumedAtMostOnce`: with `DistinctAssignments`,
  `Spec => []AtMostOncePerConsumer`. `OnceInv` adds to `SubInv` that a consumer
  has at most one subscription per partition, that the partitions still to
  come are not subscribed to (`PartitionsToCome`), that a node has at most one
  fetch per publication (`FetchedOnce`), and that what was consumed was announced
  before and is not being fetched any more (`ConsumedWasFetched`).
* `IceFlowDeliveryProofs!EveryEdgeDelivers`: with `DistinctAssignments`,
  `NoSelfEdge` and `SharedEdgesAreSole`, `Spec => EdgesDeliver`, the refinement
  of `EdgeDelivery` by every edge. The initial states map to initial states, and
  every step maps to a `Put`, a `Take`, a `Release` or a stutter: a push to a
  `Put`, a consumption to a `Take` on the edge of the data and to a `Put` on the
  edges the callback pushes to, an acknowledgement that arrives to a `Release`
  of what it erases. `DeliveryInv` is `AckInv` (for `Release`: the number was
  taken), `OnceInv` (for `Take`: not before) and that data is fetched from
  upstream edges.
* `IceFlowDeliveryProofs!OneConsumer`: with `DisjointAssignments`,
  `Spec => []ConsumedByOne`; whatever a node is subscribed to, fetches or has
  consumed is in a partition of its assignments (`WithinInv`).
* `IceFlowDeliveryProofs!ReportsAreComplete`:
  `Spec => RecentConsumptionIsCounted`. `TimedInv` adds to `AckInv` that a
  consumer has a timestamp in the past for everything it consumed, except for
  what the event loop is about to time-stamp (`ConsumptionsAreTimed`), that the
  copy of a query has one for everything that was time-stamped when the query
  began (`BeforeIsTimed`), and that nothing in it is later than the clock
  (`QueryInPast`). `CleanUpKeepsPast` shows that the clean-up drops no such
  timestamp, so the proof also shows why reports count what is long over
  (`IceFlow_staleConsumption`). What is time-stamped only after the copy is
  missed, by the code and by the statement.
* `IceFlowDeliveryProofs!SubscriptionsFollow`: with `NoQueries`,
  `Spec => []SubscriptionsFollowRepartition`. `FollowInv` adds to `SubInv` that
  no query can begin (`NoMoreQueries`) and no copy is about, so that nothing but
  the repartition itself drops a handle.

### The other components

* `RingBufferProofs!TypeCorrect`: the buffer never exceeds its capacity.
* `RingBufferProofs!WakeupsAreNotLost`: `NoLostWakeup` is inductive together
  with the type: who makes a condition true has not notified yet, who starts to
  wait does so while its condition is false, and `notify_all` leaves nobody
  waiting.
* `RingBufferProofs!ImplementsFifoQueue`: `Spec => IsFifoQueue`, without
  assumptions on the threads or the thresholds; every step is a `Put`, a
  `Displace`, a `Take` or a stutter, and a `Displace` only where the abstract
  queue is lossy. `RingBuffer_mixed` checks the lossy case; the lossless one,
  which needs `Pushers = {}`, follows from the theorem.
* `RingBufferProofs!DisplacementsArePushes`: `Spec => OnlyPushDisplaces`; a
  thread that enters an item through `pushData` with a threshold within the
  capacity has found room.
* `EventLoopProofs!RunningMeansLoop`: `Spec => []RunningHasLoop` for any number
  of threads. `LoopInv` adds the type and that no more events wait than have
  arrived. A loop ends only when it has read `m_running` as false; a thread that
  sets it again goes on to start a loop or fails to, which `startFailed` records.
* `EventLoopProofs!RunReturnsAfterLoop`: `Spec => []LoopsAreJoined`; a loop is
  alive only while a thread inside `run()` waits to join it.
* `EventLoopProofs!SingleCallerSingleLoop`: if one thread calls `run()`,
  `Spec => []AtMostOneLoop`, from `LoopsAreJoined`. `EventLoop_twoLoops` is the
  counterexample for two threads.
* `ControlPlaneProofs!ResponseIsTrue`: if there is an edge,
  `Spec => []BoundsAreCurrent`, for every `Modulus`, requests with swapped bounds
  included, every number of calling threads and every failure. The inductive
  invariant `RangeInv` adds that the node's state is typed (`NodeTyped`), that a
  repartition has subscribed to as many partitions as it has counted
  (`ProperCalls`), and for every edge: repartitions that overlap leave it in
  `disturbed` and `overlapped` (`AloneOn`); a remembered handle has been given out
  (`IssuedOn`); undisturbed, each partition that the repartition at work or the
  last response covers has a subscription whose handle is remembered, and copies
  made before the `clear()` know none of these handles (`LowerOn`); without an
  overlap, every subscription is remembered and in the range, or is about to be
  dropped (`UpperOn`). The two halves need different histories because a
  forgotten handle outlives every later repartition, and a cancelled subscription
  does not. `RangeOfOrdered` shows that the partitions counted modulo 2^32 are
  the range from the lower to the upper bound if these are in order.
  `BoundsAreAlwaysCurrent`, without the histories, is refuted by
  `ControlPlane_twoCallers`.
* `ControlPlaneProofs!TypeCorrect`: if there is an edge, `Spec => []TypeOK`, for
  requests with bounds in any order.
* `MeasurementProofs!TypeCorrect` and `BufferStaysBounded`:
  `Spec => []TypeOK`, `Spec => []BufferIsBounded`. `TypeInv` adds that there are
  no more entries than fields; without it the numbers of the entries written
  would not be typed. `BoundInv` says that the bound holds whenever the thread
  is outside, also while the handler is at work.
* `MeasurementProofs!EveryFieldRecordedOnce`: `Spec => []RecordedOnce`, for every
  threshold, every number of fields and every outcome of `open()`. `RecordInv`
  says that, while the thread and the handler have not overlapped, the parts
  followed by what the caller at work still has to write are all fields, and each
  file that was opened holds its part (`InOrder`), and that at most one of the
  callers is at work (`Apart`). The lemmas about the concatenation of all parts
  are proved by induction on their number. The parts of files that could not be
  opened are lost; `Measurement_noDirectory` is that case.
* `DAGParserProofs!OwnEdgesConsumed`, `SingleEdgesConsumed`,
  `EdgesFoundByIndex`: `Spec => []ConsumesOnlyOwnEdges`,
  `Spec => []SingleEdgesAreConsumed`, `Spec => []EdgesByIndex`, for graphs of any
  size and, for the accessors, every index of any width, the largest included. `GraphInv` says that an instance has nothing, or what its node in the
  graph asks for; `UpstreamEdges` says what the loop of `findUpstreamEdges`
  returns: the first edge to the task of every node that has one, in order.
* `WordCountProofs!NoWordOvercounted` and `CountsAreComplete`: with
  `DifferentParity`, `FairSpec => []NeverOvercounted` and
  `FairSpec => []CompleteUnlessLost`, for every text. `WordInv` says that every
  line read was sent once (`LinesSent`), that an instance takes lines of its own
  partitions and sends all their words (`LinesTaken`), that a word comes from a
  line that was taken and is the only one from its place (`WordsSent`), and that
  the counts are those of the words taken (`Counts`). Two instances have no
  partition in common (`PartitionsDisjoint`), so no line is split twice. The
  words taken map injectively to the places of the text; when nothing is missing
  the map is onto.

The inductive invariants were checked by TLC on the constants of the runs
before they were proved.

The library's induction theorems have an operator parameter, which the provers
do not instantiate. Where a proof needs induction over data (`FlattenSeq` in
`MeasurementProofs`, the loops of `DAGParserProofs`), it uses the least-number
principle for a set of numbers instead: `LeastNumber`, from the well-foundedness
of `<` on the natural numbers.

Only model-checked are the liveness properties, since the prover handles neither
fairness nor `ENABLED`: `PushedIsEventuallyReleased`, `BlockedPushProgresses`,
`ItemLeaves`, `ShutdownEndsLoops`, `EventsAreHandled`, `ReportsReturn`,
`StopCompletes`, `CallsReturn` and `EveryWordIsCounted`. Every other property of
a passing run is stated by a theorem.

## 5. Not modelled, and the plan

1. Proofs: the safety part of the liveness arguments, that is, what keeps a
   waiting step enabled (in `ControlPlane`, that a destructor waits only for
   handlers that are not waiting for it).
2. `ControlPlane` composed with the detailed control thread of `IceFlow`, and
   shown to be an abstraction of it.
3. The merge of the two lists in `queryEdgeStats`, as a pure operator against a
   reference definition.

Not modelled because the repository does not determine it: the destructor of an
`IceFlow` instance whose loop still runs, and data races inside ndn-svs when an
application thread publishes beside the event loop.

Left out for good: JSON parsing, logging, file formats, key management and the
wire protocol of NDN (third-party or plain I/O); option parsing and output of
the examples; `tryAndPop`, `waitAndPop` and `waitForAndPop` of the ring buffer
(they call a member the buffer does not have and cannot be instantiated);
members that are declared but have no definition or no caller
(`registerConsumer`, `getPartitions`, `reportCongestion` of producer and
consumer, `saveTimestamp` of the producer, `findEdgeByName`, which returns a
reference into a destroyed copy).
