# Verification of NDNperf

NDNperf measures the throughput of NDN servers.  The repository holds a client
and a server in C++ (`c++/`), a client and a server in Java (`java/client`,
`java/server`), and a Java server that spreads signing over a message broker
(`java/rabbitmq_server`).  This directory holds TLA+ models of these programs,
the TLC runs that check them on small instances, and TLAPS proofs of the
properties that matter most for instances of any size.

## Inventory

| Part | State | Operations | Interacts through | What is hard |
|---|---|---|---|---|
| C++ client, download | window of pending Interests, `_current_packet`, `_current_segment`, `_pending_segments`, `_file` | `run`, `onDataFile`, `onTimeoutFile`, `onNack`, `displayFile` | callbacks of the Face, timer, all on one io_service thread | reordered Data, retries, a window larger than the file, the end of the process |
| C++ client, benchmark | pending Interests, `_pkt_count`, `_rtt` | `run`, `onData`, `onTimeout`, `onNack`, `display` | the same | constant load, names never repeated, the arithmetic of the report |
| C++ server | queue of Interests, `_stop` | `on_interest`, `process`, `display`, `stop`, `on_register_failed` | the queue between the Face thread and the signing threads, the plain bool `_stop`, `Face::put` | shutdown while threads block, unsynchronised flag, the order of the steps of `stop` |
| C++ blocking queue | `m_count`, POSIX semaphore, the lock-free queue inside | `enqueue`, `try_dequeue`, `wait_dequeue` and their bulk forms | atomics | lost and duplicated wake-ups, bulks larger or smaller than the number of sleepers |
| C++ lock-free queue, sub-queue of a producer | `headIndex`, `tailIndex`, `dequeueOptimisticCount`, `dequeueOvercommit`, blocks, block index | `enqueue`, `dequeue` and their bulk forms, for implicit and explicit producers | atomics between one producer and all consumers | optimistic reservations, blocks and index entries used again, failures in the middle of a bulk |
| C++ lock-free queue, block pool | initial pool, free list with reference counts | `requisition_block`, `add_block_to_free_list` | atomics, between all threads | the ABA problem, an add that leaves its work to another thread |
| C++ lock-free queue, producers and tokens | `producerListTail`, `producerCount`, the hash of implicit producers, tokens | `get_or_add_implicit_producer`, `recycle_or_create_producer`, `try_dequeue` with and without a token | atomics, between all threads | resizing the hash, recycling producers, scanning a list that grows |
| Java server | `pending_interest`, `pending_files`, the queue | `onInterest`, `DataProcess.run`, `doBenchmark`, `doDownload` | two concurrent maps and the queue | the same name twice, check-then-act on a map, exceptions in a thread, a queue that may leave threads parked |
| Java queue `LFBQ` | deque, `consumerWorker` | `offer`, `take` | park and unpark | lost wake-ups |
| Java client, download | `pendingFile`, `retry_table`, `file_pass`, `Main.cont` | `onData`, `nextDownloadInterest`, `onTimeout`, `FileManager.run` | semaphore, concurrent map and flag between two threads | sleeping over a segment, Interests that cannot be sent, a flag without synchronisation |
| Message-broker server | SignQueue, ReturnQueue, deliveries not acknowledged | `RabbitMQServer.run`, `onInterest`, `RabbitMQWorker.run` | the broker | a worker that dies, exceptions before an acknowledgement, prefetching, counting messages |

Parts that are not modelled are listed under "Not modelled" below.
`PROJECT.json` lists every part, the hazards of the code at their lines and the
properties aimed at them, and, under `map`, the source lines each definition
stands for.

## Modules

| Module | Models | Extended or instantiated by |
|---|---|---|
| `FileTransfer` | abstract: a file grows by whole segments in order, and is complete or given up | `CppDownload`, `JavaDownload` (refinement) |
| `CppDownload` | `c++/client/client.cpp` with `-d` | `CppDownloadProofs` |
| `CppBenchmark` | `c++/client/client.cpp` without `-d` | `CppBenchmarkProofs` |
| `CppServer` | `c++/server/server.cpp` | `CppServerProofs` |
| `Semaphore` | abstract: a counting semaphore | `BlockingQueue` (refinement) |
| `BlockingQueue` | `c++/server/blockingconcurrentqueue.h` | `CppServerProofs` |
| `Sums` | the sum of a function over a finite set | `BlockingQueue`, `SubQueue` |
| `ElementQueue` | abstract: a FIFO queue to which calls append all their elements or none | `SubQueue` (refinement) |
| `ProducerBase` | `ProducerBase` and `Block` of `c++/server/concurrentqueue.h`: reservations, reading, block arithmetic | `ImplicitProducer`, `ExplicitProducer` |
| `ImplicitProducer` | `ImplicitProducer`: its block index of shared entries | `SubQueue` |
| `ExplicitProducer` | `ExplicitProducer`: its ring of blocks and circular index | `SubQueue` |
| `SubQueue` | one sub-queue, of either kind, with its consumers | `MCSubQueue`, `ImplicitIndex` |
| `ImplicitIndex` | no code: the inductive invariant of the implicit block index, for the proofs | `SubQueueProofs` |
| `BlockPool` | `FreeList`, the initial pool and `requisition_block` | `SubQueueProofs` |
| `Producers` | the list of producers, the hash of implicit ones, producer tokens | `ConcurrentQueue` |
| `ConcurrentQueue` | `try_dequeue` and `try_dequeue_bulk` with and without consumer tokens | `MCConcurrentQueue`, `ConcurrentQueueProofs` |
| `ParkingQueue` | abstract: a queue whose consumers may park over an element that came too early, until the next one | `LFBQ` (refinement) |
| `LFBQ` | `java/server/src/LFBQ.java` | `JavaServerProofs` |
| `JavaServer` | `java/server/src/Server.java` | `MCJavaServer`, `JavaServerProofs` |
| `JavaDownload` | `java/client/src/Client.java`, `PendingFile.java` in download mode | `JavaDownloadProofs` |
| `RabbitMQ` | `java/rabbitmq_server/src/RabbitMQServer.java`, `RabbitMQWorker.java` | `RabbitMQProofs` |

Variables and actions keep the names of the members and methods they stand
for.  A handler that runs on a single thread (the C++ client) is one action.
Where threads share state, an action is one access to it: the steps of a method
are told apart by a program counter (`pc`, `producer`, `manager`, ...).
The specifications of modules that share a proof module have names of their own
(`QueueSpec` of `BlockingQueue` and of `LFBQ`, `PoolSpec` of `BlockPool`).
Definitions whose comment begins with "Fault:" are not part of any
specification; each one is a plausible mistake in the definition after it, and
the matching property is known to fail when it takes that definition's place.

### C++ client

An entry of `interests` is a pending Interest with what `expressInterest` bound
into its callbacks: the segment and the retries left.  The Face is external: it
calls one of the three callbacks for each entry, in any order.  A lost packet is
a timeout.  Content is abstracted to the number of its segment, so that `file`
shows which Data was written where.  `CppDownload` assumes that the file exists;
without it the code reads an empty optional (`client.cpp:131`).  Segments past
the end, which the first window may request, have an empty content.
`onTimeoutFile` takes the segment, a `size_t`, as an `int`; `IntAssumption` keeps
the model to files whose segment numbers fit.

`CppBenchmark` abstracts time to the latency of each Data.  `display` chooses
whether `_pkt_count` is halved before or after `_rtt` is divided by it, because
`client.cpp:119` does both in one expression and the build asks for C++14, which
does not order them.

### C++ server and its queue

`CppServer` has the Face thread (`face`), the workers (`pc`, `job`), the display
thread and the main thread (`main`).  The read of `_stop` is a data race.  A
worker may read the old value, except when it has just taken a dummy, which
main enqueued after it wrote `_stop`: the queue orders the two.  The queue is
FIFO for the Face thread, and the dummies of the main thread have no order with
respect to it, as in the lock-free queue.  What a blocked `wait_dequeue` relies
on is the subject of `BlockingQueue`, in which each atomic operation of
`LightweightSemaphore` is a step.  There every call is a bulk: the others are
bulks of one element, a failed enqueue and a failed `try_dequeue` change
nothing, and a token only tells the queue inside where to look.  The counters `i[0..3]` of
a worker and the sums in `display` only feed the log and are left out; so is the
generated key, which is deleted after `join_all`.

### The lock-free queue inside

`concurrentqueue.h` is modelled in three layers, because its parts meet in few
places: a sub-queue gets its blocks from the pool one at a time, and the queue
sees of a sub-queue only whether it has elements.

`SubQueue` is one producer and its consumers.  `isExplicit` says of which kind
the producer is; TLC takes both.  An element is identified with the index it was
enqueued under, so that `elements[b][i]` shows which element a consumer would
read.  Each load or read-modify-write of `tailIndex`, `headIndex`,
`dequeueOptimisticCount` and `dequeueOvercommit` is a step of `ProducerBase`,
and so is each access to the block index that the other side can observe; stores
that no other thread can tell apart are made in one step, and so is the undoing
of a failed bulk.  `enqueue` and `dequeue` are bulks of one.  A requisition of a
block, a larger index and a constructor may fail at each step.  The first index of
an implicit producer is there: its constructor ignores a failure
(`concurrentqueue.h:2259`), after which every call follows a null pointer.

`BlockPool` has one step for each access to an atomic variable of `FreeList`,
with the local variables of a call in the record `call[t]`.
`SHOULD_BE_ON_FREELIST` is 8 instead of `0x80000000`, more than the references
that three threads can hold.  The thread that got a block gives it back; in the
code another one may, which is the same to a list that does not know its callers.

`ConcurrentQueue` has threads with implicit producers, producer tokens,
consumers, and consumer tokens.  A sub-queue is the number of its elements.  The
hash is the set of its keys and its capacity: probing finds a key if it is there,
and a free slot if there is one, which `FreeSlotInHash` shows.  A constant `Casts`
lists which threads, tokens and consumers take part in one behaviour; the
combinations are explored one after the other.  `itemsConsumedFromCurrent` stops
one above the quota: the code compares with `==`, and a larger count is as far
from it as any.  A bulk dequeue takes all or nothing of what it asks of a
sub-queue, and the new hash is published in the step that clears the flag of the
resize: a thread that would fail to get the flag in between looks at the table
again, as it does after it.

The memory order of the accesses is taken to be sequential consistency; the
indices do not wrap around; the listener for exiting threads
(`concurrentqueue.h:423-480`) is not compiled in.

### Java server and its queue

`LFBQ` has one step for each access to the deque and to a slot of
`consumerWorker`.  It is not a blocking queue (see the finding below), and the
server is not modelled on one.  `ParkingQueue` is what is left: an offer wakes up
every thread that is parked by then, and a thread that has found the queue empty
parks a step later, whatever was offered in between.  `ImplementsParking` shows
that `LFBQ` does at least this.  A thread counts as parked from the moment it is
in its slot until the scan of an offer is sure to unpark it (`WillReturn`).

`JavaServer` uses its queue in the steps of `ParkingQueue` (`take`, `takeEmpty`,
`takeRegisters`, `takeReturns`, and `onInterestOffer`, which wakes up).  It has one
step for each access to `pending_interest` and `pending_files`.  An exception
sends the thread back to `take`, as the `catch`es of `doBenchmark`, `doDownload`
and `DataProcess.run` do.  Two of them are part of the races on the maps: a key
that is gone and a file that has no channel.  The others come from the libraries:
the file cannot be opened (`openFails`), or reading, signing or `putData` fails
(`putFails`).  These give up the name, which leaves `waiting` unless it arrived
again or another thread is working on it (`GivenUp`).  Names are grouped by what
the switch of `DataProcess.run` and the length tests of `doDownload` do with them.

### Java client

`JavaDownload` has the Face thread (`face`) and FileManager (`manager`).
`pendingFile.put` and `file_pass.release` are two steps, and so are the reading
of `availablePermits` and `acquire`.  Each `expressInterest` may throw: at the
start (`Init`), in the first window (`onDataLength`, which also stands for a file
that cannot be created), after a segment (`onDataRelease`, when `next` has moved
on already) and after a timeout (`onTimeoutThrows`).  The exception is caught and
nobody asks for that segment again; `failed` keeps such names.  `Main.cont` is
neither volatile nor guarded by a lock.  A thread sees its own writes; the write of
`onData` for a missing file may be missed by FileManager (`MayMissCont`), and the
main loop need not ever see the one of FileManager (`runReturns` is not fair).
The undeclared variable `prefix` in `Client.java:80` concerns the benchmark mode
only, which is not modelled.

### Message-broker server

The broker is modelled from the calls: manual acknowledgements, `basicQos(2)`,
auto-delete queues, and a message count that leaves out what was pushed to a
consumer.  A message is reduced to the name it carries.  The exceptions that the
loops catch are actions: in the server before the Data is put (`putFails`), at its
acknowledgement (`ackFails`) or in `onInterest` (`publishFails`), in a worker at
the acknowledgement (`workerAckFails`) or later (`workerFails`).  A delivery that
was taken and not acknowledged is not pushed again as long as its consumer lives,
and counts against the prefetch: `withheld` is their number at the server, `kept`
are those of a worker, which go back to the queue if it dies.

## Runs

| Run | Instance | Distinct states | Shows |
|---|---|---|---|
| `cpp_download` | window 3, 5 segments, 2 retries, 1 Nack | 10 439 | `NoSegmentLost`, `WindowKept`; `ImplementsTransfer`; `Termination` |
| `cpp_benchmark` | window 2, 6 names, latencies 2 and 3, 1 Nack, 2 reports | 49 124 | `EveryNameOnce`, `RatesAddUp` |
| `cpp_server` | 2 workers, 3 Interests (one that cannot be parsed) | 106 184 | `NoWorkerStuck`, `NoDummySent`; `ShutdownCompletes`, `EveryInterestServed` |
| `blocking_queue` | 2 producers, 3 consumers, 4 elements, bulks of up to 3 | 128 635 | `ElementForEach`, `NoLostWakeup`; `ImplementsSemaphore`; `EverythingDequeued` |
| `sub_queue` | a producer of either kind, 2 consumers, 3 blocks of 2 elements, bulks of 1 and 3, 6 elements, 6 dequeues | 772 127 | `ReadsItsElements`, `ReservationsBalance`, `BlocksOwnedOnce`, `EmptiedBlocksComeBack`; `ImplementsFifo` |
| `block_pool` | 3 threads, 2 blocks, 1 of them in the initial pool | 926 159 | `NoBlockGivenTwice`, `NoBlockForgotten`; `LockFree` |
| `queue` | up to 2 threads, 2 tokens and 2 consumers, 3 producers, hash of 2 | 125 369 | `OneOwner`, `FreeSlotInHash`, `ListComplete`, `FailsOnlyIfAllEmpty`; `CallsEnd` |
| `lfbq` | 2 consumers, 3 offers, 1 spurious return | 176 865 | `ParkedIsFindable`; `CoveredIsTaken`; `ImplementsParking` |
| `lfbq_lost_wakeup` | 2 consumers, 2 offers | violation | `OfferedIsTaken` fails |
| `java_server` | 2 threads, 6 names, 3 arrivals | 117 039 | `NameNotLost`, `NoKeyLeft`, `ChannelsBounded`; `EveryNameAnswered` |
| `java_download` | window 3, 5 segments, 2 retries | 84 020 | `NoSegmentLost`; `ImplementsTransfer`; `AllIsWritten` |
| `rabbitmq` | 2 workers, 3 Interests, prefetch 2, 2 failures | 263 937 | `EachInterestOnce`, `DeliveriesSuffice`; `AnsweredLostOrPushed` |

To repeat a run: `tlc -config MCCppDownload.cfg CppDownload`, and so on
(`MCJavaServer`, `MCSubQueue` and `MCConcurrentQueue` are the modules of the
configurations of these names).  `FileCorrect`,
`ReportedOnce` and the `TypeOK` of the modules with proofs are proved for instances of any
size and not repeated in the runs; the `TypeOK` of the other modules holds on the
same instances, and can be added to a configuration as an invariant.

### Finding

* **`lfbq_lost_wakeup`**: `take` does not poll again after it has registered its
  thread.  An Interest that comes in between waits until the next one.  What is
  offered while a thread is registered is taken (`CoveredIsTaken`).  For the server
  it means what `EveryNameAnswered` says: a name is answered or given up to an
  exception, unless all the threads stay parked for good.

### Observations

These have no run of their own.

* Latency of the C++ client: the packet count is halved in the expression that
  divides by it (`client.cpp:119`), so that the latency shown may be twice the
  mean, or 0 for a single packet; the server divides first.  `LatencyIsMean` as
  an invariant of `MCCppBenchmark.cfg` with `Rtts = {3}` is violated.
* The Java client does not end when the file does not exist: the Face thread
  leaves its loop and FileManager stays in `acquire` (`Client.java:102`).
* Nor does it end when `expressInterest` throws once (`Client.java:73`, `126`):
  the segment is neither asked for again nor is the transfer aborted, and
  FileManager waits for it.  All that comes before it is written (`AllIsWritten`).
* A reply that the broker has already pushed to the server is not counted by
  `queueDeclare` (`RabbitMQServer.java:136`), and is transmitted only after
  another reply has come.
* Two exceptions in the delivery loop (`RabbitMQServer.java:137-149`) use up
  `basicQos(2)`: nothing is pushed to the server any more, and as soon as
  ReturnQueue has a message the server blocks in `nextDelivery`, and does not
  process Interests either.  `DeliveriesSuffice` and `AnsweredLostOrPushed` are
  about the time before (`withheld < Prefetch`).
* `enqueue_bulk` of an explicit producer that runs out of memory
  (`concurrentqueue.h:1932-1953`) restores `pr_blockIndexSlotsUsed` but leaves
  the blocks it has got in the ring.  There are then more blocks in the ring than
  the index has entries for, and the next block used overwrites the entry of one
  that still has elements, against the comment at `concurrentqueue.h:1704-1708`.
  `ReadsItsElements` is violated by `MCSubQueue.cfg` with `BulkMayFail = TRUE`.
  The server uses implicit producers only.
* The limit `MAX_SUBQUEUE_SIZE` is tested for new blocks only: an explicit
  producer that uses an empty block of its ring again does not look at it.
* After a constructor has thrown in a block of its own, an explicit producer has
  reset that block and does not use it again, although the comment at
  `concurrentqueue.h:1761` keeps it "available for next time".
* A consumer token rotates when its count of consumed items equals the quota
  (`concurrentqueue.h:1044`); a bulk that goes past it stops the rotation that
  this token asks for.
* A thread may stay in `get_or_add_implicit_producer` for ever while others get
  the producers and allocations of a larger hash keep failing; `CallsEnd` states
  that calls keep ending, not that each one does.
* "Timeout after 3 retries" (`Client.java:130`) is printed after two; a segment
  of a missing file is never answered by the Java server; `displayFile` of the
  C++ client divides the bytes by 64 (`>>= 6`) where `display` divides by 256.

### Bounds

Retries, Nacks, arrivals, offers, failures, reports and spurious returns are
bounded by constants in the guards.  The instances are the smallest in which the
interesting cases happen: a window smaller than the file that slides at least
twice, and in which two segments may be ahead of the one that is missing; two
workers that compete for one element or one key, of which either can be the one
left behind; three consumers, so that one sleeps, one spins and one is woken up;
one more message than the prefetch limit of the broker; two failures, so that both
workers may die, or the prefetch of the server be used up.  That a window larger
than the file does no harm is proved for the file (`DownloadIsTransfer`);
`Termination` holds with `Window = 4` and `LastSegment = 1` in
`MCCppDownload.cfg`.  For the lock-free queue: blocks of two elements and bulks of
three, so that a bulk spans blocks and begins in the middle of one; an index of
two entries, which has to grow for the third block and whose entries are used
again; two blocks in the pool and three threads, so that one thread holds a
reference while the two others take the block and put it back; a hash of capacity
2 that two threads fill, three producers and a token that moves between them while
one is added.

`sub_queue` uses the symmetry of the consumers and of the blocks; what it checks
is a safety property, for which that is sound.  The others use none.  Deadlock is
checked for `block_pool` and `queue`, whose threads call again and again.  The
other systems may stop: a client when it is done, a server when the bounded
number of Interests or elements is used up.

### Fairness

* C++ client: the Face resolves every Interest (it has a lifetime), and the
  io_service runs what is posted.  Neither a display nor a Nack is assumed.
* C++ server: each thread that can run does; the registration is answered; a
  store to `_stop` is seen in the end.  For `wait_dequeue` the fairness is that
  of the queue as a whole, because which waiting worker gets an element is not
  determined.  The arrival of Interests and SIGINT are not assumed.
* Blocking queue and LFBQ: a call that began goes on; nothing says that an
  element is ever enqueued, nor that park returns without a permit.
* Block pool: some thread that is inside a call takes a step (`LockFree` is about
  progress of the whole, and no single thread is assumed to run).  Queue: each
  thread that is inside a call runs.
* Java server: `onInterest` returns, and every thread that is not parked runs.  A
  parked thread need not ever return.
* Java client: both threads run, and the Face resolves every Interest it has.  That
  the main loop sees `Main.cont` is not assumed.
* Message broker: the server loop, the broker and the workers that are up run; no
  worker has to be started, and none has to be started again after it died.

## Proofs

The constants are arbitrary: any window, file length and retry budget, any
finite set of threads, any number of Interests, elements and producers.  The
assumptions are the `ASSUME`s of the modules: a window of at least 1, finite sets
of threads, model values that differ, a hash of at least two slots, and a history
of the queue (`Casts`) with no more producers than there is memory for.

* **`CppDownloadProofs`**.  `FileCorrect` alone is not inductive: it needs that a
  callback is bound to the segment its name asks for (`Bound`), that the write
  loop always ran to the first missing segment (`LoopDone`), that a running
  client has something left to write (`Progress`), and that a segment being
  awaited is not stored already (`NoSegmentLost`).  `DownloadInv` is their
  conjunction.  It gives `TypeCorrect`, `FileIsCorrect`, `SegmentsAreKept`;
  with the cardinality of `interests`, `WindowIsKept`; and, because the output
  is then a prefix of the file, `DownloadIsTransfer` (the refinement).
  `ReportsAreExact` adds that `reported` and `payload_size` together count the
  segments of the file received so far (`ReportInv`); the segments past the end,
  whose Data is empty, must not be in that set.
* **`CppBenchmarkProofs`**.  `BenchmarkInv` says that a name has at most one pending
  Interest (`OneInterestPerName`), that every name handed out is awaited or
  received (`EveryNameOnce`), and that the packets counted since the last report
  make up the difference to what was received (`Counted`).
  `NamesAreUsedOnce` and `RatesAreExact` follow.
* **`CppServerProofs`**.  `NoWorkerStuck` needs to count: the dummies in the queue
  and the workers that took one make up what `stop` has enqueued, and a worker
  that took one does not wait again (`DummiesCounted`).  `StopOrder` fixes what
  has happened at each step of `stop`, and `DummiesUnsent` that no Data for a dummy
  exists while the io_service runs.  From them follow `JoinNeverStuck` and
  `DummiesAreNotSent`.  The second half is about the queue
  between the threads, `BlockingQueue`.  `Accounted` says where each element is:
  not yet signalled, in `m_count` (a sleeper counting as minus one), or owed to a
  consumer that was let through.  `WakeUps` says that the sleepers without a
  wake-up on its way are as many as `m_count` is below zero.  `Held` fixes what a
  thread has at each place of a call.  With bulks these are sums over the
  threads: `Total` counts pairs, and `TotalExcept` says what changing one term
  does to it.  From the two equations follow `DequeueFinds`, `NoWakeupIsLost` and,
  with `m_count` plus the sleepers as the abstract counter,
  `SemaphoreIsImplemented`.
* **`JavaServerProofs`**.  `NameNotLost` and `NoKeyLeft` support each other: a
  thread that finds its key gone may drop the name only because the thread that
  removed the key has not answered yet; and a thread that gives a name up may do so
  only for itself (`GivenUp`).  `ThreadsOK` says which name a thread may
  have at each place.  For `ChannelsAreBounded` the strengthening is that a file
  without a channel in the map was never opened (`ChannelInv`), so that the
  threads that open one are those that looked before the first put.  Of the queue
  `LFBQ`, `ParkedIsFindable` is inductive together with the types.
* **`JavaDownloadProofs`**.  Until the length of the file is known nothing has
  been asked for and FileManager is held at `acquire` (`BeforeLength`);
  afterwards it is not asked for again (`AfterLength`), and exactly the segments
  below `next` have been asked for, with or without success (`NoSegmentLost`).  What is on disk is the prefix that `position` says, and
  `Main.cont` is taken down only at the end or on the way out (`Written`).
  `SegmentsAreKept` and the refinement `TransferIsImplemented` follow.
* **`RabbitMQProofs`**. For every Interest the occurrences in SignQueue, in the
  deliveries of the workers, those they could not acknowledge included, in
  ReturnQueue, at the server and among the answers are counted, and their sum is
  that of the arrivals (`Once`).  Lemmas say what `Append`, `Tail` and the
  concatenation of requeued deliveries do to the occurrences. `WorkersOK` says
  what a worker is about to acknowledge, which a crash between the acknowledgement
  and the reply needs. `InterestsAreCounted` and `DeliveriesAreThere` follow.
* **`ConcurrentQueueProofs`**.  `OwnersInv` is about who has a sub-queue.  A thread
  looks for a producer only when it has no key in any table, those included that
  others have added since it loaded `implicitProducerHash` (`KeysOK`); its keys in
  several tables name the same producer; a token under construction has no
  producer (`TokensOK`); an inactive producer is an explicit one that nobody owns
  (`OwnersOK`).  From it follow `SubQueuesAreNotShared` and `PutsAreSafe`.
  `HashTablesHaveRoom` needs `HashInv`.  `implicitProducerHashCount` is the number
  of threads that have a key or are on the way to one (`CountsOK`).  A thread
  compares its own, older count with the table; those counts are not distinct,
  since a thread without memory gives its count back.  What is inductive
  (`RoomOK`) is a statement about groups: whichever waiting threads are let in
  next to those already let in, the table keeps its quota, or one of the group has
  a count at least as large as all of them together and is kept out by its own
  test.  A table is as full when it is added as the one it replaces, and no
  smaller (`Doubled`).  `NewCapacity` is a set with one element, the capacity that
  the doubling loop of the code ends with.
  `RotationsAreSafe` says that a rotation does not divide by a `producerCount` of
  zero.  It rests on `RotationInv`: a producer is counted before it is in the
  list, and a token wants a producer only after it has seen one.
  `ListInv` describes the list without following it: `next` does not lead out of
  the set of the producers that are linked, every set that holds the tail and is
  closed under `next` holds all of them (`Path`), and each part of the list that
  is closed under `next` has an end.  So a walk from the tail meets all of them
  (`ProducersAreListed`).  `ScansInv`
  keeps for each dequeue what it has still to see on the rest of its walk, or of
  its ring if it has a token; a producer it has passed was empty then.  It gives
  `FailuresAreEmpty`, and `DequeuesAreSafe`: no dequeue follows a null pointer.
* **`SubQueueProofs`** has four parts.
  *Reservations*: `ReserveInv` says that `dequeueOptimisticCount` and
  `dequeueOvercommit` differ by what was claimed and what is reserved
  (`Balanced`).  That alone does not bound the claims, since a consumer looks at
  `tailIndex` after it has reserved.  So the invariant speaks of every value `x`
  that `tailIndex` may reach: what the consumers would then be sure to get,
  together with `headIndex`, is at most `x` (`NoneBeyond`).  A new reservation
  keeps it because it starts at or above the sum of all the others; that the
  `overcommit` it subtracts was loaded earlier only moves it up.
  `ReservationsAreBalanced` follows.
  *The ring of an explicit producer*: `RingInv` says that the ring is closed under
  `next`, and that the tail, the start and the chain of the call in progress are
  in it, the chain as long as the call needs.  `RingKeepsItsBlocks` is
  `BlocksOwnedOnce` for explicit producers, whether or not bulks may fail.
  *The block index of an implicit producer*: blocks are numbered by the elements
  they are for.  `Top` is the number of the last block with an entry, and `Home`
  the entry that belongs to each number, counted from the tail of the current
  header.  A block is live from its entry on until all its elements are marked
  empty and a consumer has cleared the entry.  `ImplicitInv` (module
  `ImplicitIndex`) says that the index has room for all the live blocks, that
  the entry of each has its key, its block and the right
  `elementsCompletelyDequeued` (`LiveOK`), and that no other entry has a block
  (`OnlyLive`).  These need each other: that the entry a consumer clears still
  holds its block follows from counting the elements marked empty in it, that
  only one consumer sees the count complete from the claims being
  disjoint (`ClaimsOK`), and both from the consumer having come to the right
  entry.  For the latter `FinderOK` relates an old header and an old position to
  the current ones: a consumer counts back from an entry whose block may have
  been taken back since, which still has its key, or has been given to a later
  call, in which case the key is the same.  The remaining conjuncts say who owns
  each block (`OwnersOK`), what the producer has in hand (`ProducerKnows`) and
  where the elements to be read are (`ElementsOK`).  Each action has its lemma; a
  larger header keeps every home (`HomeGrows`), and a failed call moves the tail
  back to the homes of before (`HomeMoves`).  `BlocksAreOwnedOnce`,
  `EmptiedBlocksAreBack` and `ElementsAreFound` follow, and with the bounds of
  what is asked for (`AskedInv`) the refinement `ImplicitIsFifo`.
  *The free list*: `PoolInv` says what the count of a block is worth in each place
  where the block can be: one for each thread that looks at it, one for the list,
  and the flag.  The list is an injective sequence of blocks that ends in the null
  pointer, and has no more elements than there are blocks.  `BlocksAreGivenOnce`
  and `BlocksAreNotForgotten` follow.

Where a fact about all the elements of a list or a chain is needed, the proof takes
the least element for which it fails (`WFMin`, over the natural numbers), which
does what an induction would.

Left to TLC:

* every liveness property (`Termination`, `ShutdownCompletes`,
  `EveryInterestServed`, `EverythingDequeued`, `CoveredIsTaken`,
  `EveryNameAnswered`, `AllIsWritten`, `AnsweredLostOrPushed`, `LockFree`,
  `CallsEnd`) and the refinement `ImplementsParking`, which includes fairness:
  fairness is out of the prover's reach;
* `ReadsItsElements` and the refinement `ImplementsFifo` for explicit producers,
  which the server does not use; for implicit ones both are proved.  The explicit
  index is a ring of its own kind, whose front may be ahead of the elements after a
  call that failed.

`tlapm CppDownloadProofs.tla` checks a proof module, and so on.

## Not modelled

* Of `c++/server/concurrentqueue.h`: construction, destruction, move and swap of
  whole queues, which are documented as not thread-safe; the listener for exiting
  threads, which is not compiled in; memory orders weaker than sequential
  consistency; the wrap-around of the 64-bit indices; probing inside the hash.
* Construction, move and swap of the blocking queue, and its semaphores for
  Windows and macOS.
* Statistics of the servers and of the Java client, which only feed the log.
* The arithmetic of file segments in `server.cpp:190-194`, and the format of the
  messages in `SerializableData.java`.
* The benchmark mode of the Java client, which does not compile as it stands.
* `BasicServer.java`, which keeps no state; command lines; keys and key
  generators; failures to write the local file, where `FileManager.run` tries the
  same write again for ever (`Client.java:148`).

## Plan

Done: the modules, runs and proofs above, starting with the download (the
longest chain of state), then the server with its shutdown, the queues, the Java
programs and the broker; then the lock-free queue inside the blocking queue,
layer by layer, and the bulk operations of the blocking queue.

Proved since then: the safety properties of the Java server, of the Java client
and of the broker server, those of both modes of the C++ client, and of the
lock-free queue all but what is listed above as left to TLC.

Worth proving next: the block index of the explicit producer, with
`ReadsItsElements` and then `ImplementsFifo`, on top of `ReserveInv` and `RingInv`.

Parts that could still be modelled: the segment arithmetic of both servers and the
message format of the broker server as operators with a reference definition;
the counters of the server with 32-bit overflow.
