# Verification of test-buffer

test-buffer tries out buffers between a thread that receives UDP datagrams and
a thread that processes them: a lock-free queue (`readerwriterqueue.h`, with
`atomicops.h`), a bounded buffer and two queues with mutex and condition
variable, each with a small boost::asio program around it. What can go wrong is
almost entirely in how two threads interleave, so the development models the
buffers at the granularity of their accesses to shared memory.

Source paths below are relative to the repository; `include/...` is
`src/include/...` in `PROJECT.json`.

## Inventory

| Component | State | Operations | Interaction | Hard behaviour | What makes it correct |
|---|---|---|---|---|---|
| ReaderWriterQueue (`include/readerwriterqueue.h` 47-640) | ring of blocks, each a circular buffer with `front`, `tail` and a private copy of the other side's index; `frontBlock`, `tailBlock`, `largestBlockSize` | constructor, `try_enqueue`, `enqueue`, `try_dequeue`, `pop`, `peek`, `size_approx`, destructor | one producer and one consumer thread, shared memory, no locks | every step interleaves; stale copies; blocks change while the other side looks; allocation fails | FIFO, nothing lost or repeated, no slot overwritten, `maxSize` elements fit, all calls return |
| LightweightSemaphore (`include/atomicops.h` 478-655) | `m_count`, kernel semaphore | `tryWait`, `wait`, `wait(timeout)`, `signal`, `availableApprox` | one signaller, one waiter | signal against time-out | no lost or invented permit, no token left behind |
| BlockingReaderWriterQueue (`include/readerwriterqueue.h` 642-809) | a queue and a semaphore | the queue's, `wait_dequeue`, `wait_dequeue_timed` | composes the two above | element and permit are two updates | a permit finds an element; one permit per element |
| bounded_buffer (`include/bounded_buffer.hh`) | `circular_buffer`, mutex, condition | `push_front`, `pop_back`, accessors | many threads | one notification for many waiters, overwriting, spurious wake-ups | no lost wake-up, readers see the oldest item left |
| SynchronisedQueue (`include/SynchronisedQueue.hh`) | `std::queue`, `m_size`, mutex, condition | `Enqueue` (lock commented out), `Dequeue`, `Size` | many threads | unlocked accesses, lost wake-up, lost update of `m_size` | the comments' promises; see Findings |
| queue (`include/queue.hh`) | `circular_buffer`, `m_unread` (never initialised), mutex, condition | `push`, `try_pop`, `wait_and_pop`, accessors | no program creates one | `m_unread` drifts from the size; notification after the unlock | pops in order, no lost wake-up; see Findings |
| buf-moody (`src/buf-moody.cxx`) | `data_buffer`, queue, `n_packet`, socket, io_service | `handle_data`, `receive_data`, `read_data`, `shut_down_socket`, `main` | two workers run the handlers, `main` polls `n_packet` | buffer re-use, stop at 35000, words of earlier datagrams | a datagram is copied before the next receive, one producer and one consumer, the run ends |
| buf-lockfree (`src/buf-lockfree.cxx`) | `spsc_queue`, counters, `done` | as above | as above, `main` sets `done` | `done` after `join_all` | as above |
| buf-sync (`src/buf-sync.cxx`) | SynchronisedQueue, socket | `client_reader`, `client_writer`, `handle_data`, `receive_data`, `main` | one worker is taken for good by `client_reader` | unlocked `Enqueue`, a reader that never returns | at most one handler enqueues at a time |
| Server and buf-server (`src/server.cxx`, `src/buf-server.cxx`) | socket, service, thread group, `n_count`, bounded_buffer | `initialize`, `listen`, `start_gathering`, `handle_data`, `decode_data`, `end` | main and one worker run the handlers | dangling reference to `nbytes`; the Server is destroyed while the worker may run | each receive handled once; no handler in a dead Server; the run ends |
| Decoder (`src/decoder.cxx`) | bounded_buffer, counters | `read_data`, `read_queue`, `start_gathering` | created, never started | null counter, recursion | - |
| fences, weak_atomic (`include/atomicops.h` 140-317) | - | `fence`, `load`, `operator=`, `fetch_add_*` | used by the two queues above | memory ordering | no data race, no reordering seen |
| buf-test, buf-main, makefile | - | demonstrations, build | - | - | - |

The hazards, each at its line, are in `PROJECT.json`.

## Modules

| Module | Models |
|---|---|
| `SpscFifo` | what the comments of the queue promise: a FIFO whose calls take effect at one instant between call and return; refusal and "empty" only when justified |
| `QueueBlocks` | the sizes of blocks and the arithmetic of indices |
| `ReaderWriterQueue` | the ring of blocks, step by step |
| `ReaderWriterQueueFifo` | the content of the abstract FIFO read off the blocks, and `ImplementsFifo` |
| `WeakAtomics` | relaxed loads and stores, release and acquire fences, data races |
| `RelaxedReaderWriterQueue` | the queue's calls on that memory |
| `LightweightSemaphore` | counter and kernel semaphore, step by step |
| `SpscBlockingFifo` | what the blocking queue promises: as `SpscFifo`, with elements that become available one by one |
| `BlockingReaderWriterQueue` | composition of the abstract FIFO with the detailed semaphore, and `ImplementsBlockingFifo` |
| `BoundedBuffer` | push_front and pop_back with mutex, wait set and notifications |
| `SynchronisedQueue` | Enqueue without its lock against Dequeue |
| `CircularQueue` | queue.hh: push, try_pop and wait_and_pop with `m_unread` |
| `IoService` | io_service, socket and receive buffer as the programs use them |
| `BufMoody`, `BufLockfree`, `BufSync`, `BufServer` | one program each: its handlers and its main thread |
| `UdpPrograms` | the programs together; the properties they share |
| `..._proofs` | theorems about ReaderWriterQueue (with its refinement of SpscFifo), RelaxedReaderWriterQueue, LightweightSemaphore, BlockingReaderWriterQueue, BoundedBuffer, SynchronisedQueue, CircularQueue, UdpPrograms |
| `MC...` | each specification with the constants of its `.cfg` files |

Who builds on whom: `ReaderWriterQueue` implements `SpscFifo`; at that
abstraction `BlockingReaderWriterQueue` uses it, together with
`LightweightSemaphore` step by step, and implements `SpscBlockingFifo`; at that
abstraction `BufMoody` uses the blocking queue. A definition whose comment
begins with "mutant" is a wrong variant of the one after it, kept to see that a
property notices the difference.

**ReaderWriterQueue.** `ppc` is the control of `inner_enqueue`, `cpc` that of
`try_dequeue`, `pop` and `peek`, which make the same search and differ in the
last steps. Accesses to a thread's own variables belong to the step before
them; each access to a variable the other thread writes is a step. `data` says
of each slot which element it holds or that it holds no object, so moving out,
destroying and constructing are visible. A thread's stale copies (`localTail`,
`localFront`) are variables. `HeapBlocks` bounds what `malloc` delivers, and
`EnqueueOutOfMemory` may happen at any allocation. `size_approx` may be called
by either thread; `Destroy` runs when both are outside their calls and walks
the ring. A move of an element out of its slot and the destructor of the rest
are one step, since no other thread reads a slot between `front` and release.
`CeilToPow2` is stated by what it computes.

**LightweightSemaphore.** `wpc` follows `tryWait` and
`waitWithPartialSpinning`; the spin loop is one step, as its iterations differ
only in what they see. The kernel semaphore is the POSIX wrapper's (the makefile's
library paths are those of a Mac, where `atomicops.h` compiles its MACH wrapper
instead; that one is not modelled);
`KernelWait`, `KernelTimedWait` and `TryKernel` retry EINTR by not moving.
`ArmTimer` is the computation of the deadline, scaled from 10^9 ns to
`NsecsIn1Sec` units.

**BlockingReaderWriterQueue.** The inner queue's calls are single steps. That
is sound because `ImplementsFifo`, which is proved, says that each call takes effect at one instant
for a consumer and a producer that do nothing else in between. Failure of the
inner enqueue is possible whenever the FIFO holds `MaxSize` elements, which is
when `SpscFifo` allows it. `aborted` is the failed assertion.

**BoundedBuffer.** The mutex is held between `Lock` and `Unlock`; waiting gives
it up and joins the wait set in one step, as boost's condition does; a wake-up
may be spurious. Items are numbered in the order in which they enter.

**SynchronisedQueue.** The `++` and `--` of `m_size` are a load and a store.
`raced` records that an access of Enqueue fell into the accesses of another call.
(Accesses that no lock orders but that lie apart are data races to C++, too; they
are taken to act one after the other.) After a race `front()` may deliver anything. Other consequences of a
corrupted `std::queue` are not modelled, so what the runs show of behaviour
after a race is a lower bound on what can happen.

**RelaxedReaderWriterQueue.** `memory` holds, for each atomic, the values the
other thread may still load, and for each slot the last write. A load by the
other thread picks any value that coherence and the fences so far do not
exclude; fences move the bounds. A step reaches from one such load to the next:
the stores in between change only the thread's own variables, and whether they
are seen early or late is decided by the other thread's loads. What
`make_block` fills in (`data`, `sizeMask`, `localTail`) is one plain variable of
the block. The destructor, `size_approx` (a sum of loads with nothing to
order) and `pop` (its accesses are those of `try_dequeue`) are left to
`ReaderWriterQueue`. A behaviour ends at a data race or a failed assertion.

**SpscBlockingFifo and its implementation.** `available` counts the elements a
dequeue call may take: the permits left, plus the one a call holds between the
semaphore's return and the inner dequeue. So a call answers "false" only at an
instant at which there was nothing to take. The refinement mapping is the
instance `Fifo` at the end of `BlockingReaderWriterQueue`.

**CircularQueue.** The lock covers a pop and a push up to the unlock, so each
is one step; the notification is another. `m_unread` begins with any value of
`Uninitialised`, counts modulo `SizeTypeValues`, and an index beyond the end
delivers `Invalid`: reading there is undefined (or stops at a BOOST_ASSERT),
and no property relies on what comes out.

**Programs.** A thread's `at` is the handler it is in, or the place in it;
`posted` is the service's queue. `async_receive_from` either completes at once,
when a datagram waits in the kernel, or leaves a pending operation that a free
worker completes later; a closed socket completes it with an error, which the
handlers, ignoring the error code, treat like a datagram. The contents of
`data_buffer` are the number of the last datagram, its length, and the
positions of the trailer word 4321 that buf-moody looks for, including those
that earlier, longer datagrams left. `IoService` is asio as the programs use
it, so its operations are external; the programs' own steps are those of their
functions. Where a handler returns without another shared access (after
`async_receive_from` in `handle_data`, after `stop()` in `Server::end`), the
return belongs to the step before it. buf-moody's `read_data` counts the trailers
of an element in one step: `n_packet` only grows, and the others only ask whether
it has reached the limit. The blocking queue, the `spsc_queue` and the SynchronisedQueue are
taken at their abstract behaviour; what concurrent Enqueues would do is in
`SynchronisedQueue`, and `OneProducerOneConsumer` shows that buf-sync does not
call them concurrently.

### Assumptions of the models

- One producer and one consumer thread, as the class requires; elements whose
  constructors and assignments do not throw or call back.
- `ReaderWriterQueue` and everything above it is sequentially consistent.
  `RelaxedReaderWriterQueue` drops that for the queue: it allows every outcome
  that C++11 allows for relaxed accesses and fences, except loads that deliver
  values of stores that have not been made yet (load buffering, "out of thin
  air"). The semaphore uses read-modify-writes with acquire and release order on
  a single variable.
- `wait(timeout)` is called with a non-negative timeout (a negative one is `wait`).
- buf-moody's `enqueue` finds memory; `n_packet`, a plain int that two threads
  use, is read and written in one step each; the keys that buf-sync's main waits
  for are pressed. The receive handlers ignore errors, so an error of the
  socket other than its being closed is a datagram of length 0.

## Runs

Every run exhausts its state space; the violation runs stop at the behaviour
that refutes the property.

| Run | Question | Bounds and why they suffice |
|---|---|---|
| `GrowingQueue` | Does the queue implement the FIFO contract, never overwrite, keep its assertions, fill and empty its blocks in ring order, and leave nothing behind when destroyed? | maxSize 1, blocks of 2, 4, 4 slots, 7 elements: the first block wraps, two blocks are added (one of larger, one of equal size), and the producer comes back to blocks the consumer has left |
| `RingOfBlocks` | Do `maxSize` elements fit, in order, in a ring reserved by the constructor? | maxSize 4 with blocks of 2 slots: five blocks, and a sixth by allocation; 7 elements go once round the ring |
| `PollingConsumer` | Is `size_approx` within bounds; is every call wait-free; does every call return and every element arrive? | blocks of 2 slots, up to three blocks, both threads calling `size_approx`, 3 elements |
| `RelaxedQueue` | Do the fences suffice on a weakly ordered memory? | maxSize 1, up to three blocks (2, 4, 4 slots), 10 elements: two blocks are added, the producer comes back to blocks the consumer left, with every old value of `front`, `tail`, `next`, `frontBlock`, `tailBlock` that a load may deliver |
| `LightweightSemaphore` | Do races of signal, wait and time-out keep permits and tokens right; do waits return? | 5 permits in signals of 1 and 2: several rounds of time-out against signal |
| `BlockingReaderWriterQueue` | Do permits and elements stay paired, and is the whole a FIFO with atomic calls? | 5 elements, all operations, enqueues that fail |
| `BoundedBuffer` | Lost wake-ups, overwriting, which item is read, return of every reader | 3 readers, 2 pushers, capacity 2, 4 items: twice overwritten, more waiters than notifications in the code's push path |
| `SynchronisedQueue` | What does the mutex of Dequeue still guarantee? | 2 enqueuers, 2 dequeuers, 2 items |
| `CircularQueue` | When do pops deliver in order, what do they do once `m_unread` is off, and is the late notification harmless? | 2 pushers, 3 poppers, capacity 2, 6 items, an initial `m_unread` of 0, 1 and the largest value, 3-bit arithmetic: overwriting, wrapping and more waiters than pushers |
| `UdpPrograms` | Is the receive buffer handed over in time, are there one producer and one consumer, what is counted, how does a run end? | two workers as in the programs, 4 datagrams of every length from empty to longer than the buffer of 2 words, a limit of 2, a queue of capacity 1, 2 writers of 2 items |
| `Deadline`, `LostWakeup` | see Findings | |

`CHECK_DEADLOCK FALSE` is given where the system may stop: the destructor has
run, a program has ended, or a blocking call waits for elements that no longer
come because the bound on elements is reached. `BoundedBuffer` needs no such exception: readers
can always read again.

### Fairness

- A thread inside a call goes on (weak fairness of its steps): the operating
  system does not suspend it for good.
- The consumer keeps polling (`read_data` in `src/buf-moody.cxx` 53-79);
  strong fairness of the dequeue call because it calls `peek` in between, which
  disables the dequeue call again and again.
- A mutex is handed to a waiting thread sooner or later (strong fairness of the
  lock steps of readers that have been woken).
- Nothing is assumed of wake-ups: a waiter moves only when it is notified, and
  spurious wake-ups carry no fairness. A time-out carries none either:
  weak fairness of the waiter as a whole moves a timed wait on by token or
  time-out.
- In `UdpPrograms` every thread is scheduled (weak fairness of each thread's
  program and service steps). Datagrams need not arrive: `RunEnds` speaks of
  runs that have received enough.

## Findings

- **A deadline on a full second (`include/atomicops.h` 528).** `timed_wait`
  normalises `tv_nsec > 10^9` and leaves `tv_nsec == 10^9`, which
  `sem_timedwait` rejects with EINVAL; the wrapper returns true for anything but
  ETIMEDOUT. `wait_dequeue_timed` then dequeues from an empty queue and
  `assert(success)` (`include/readerwriterqueue.h` 748) fails: run `Deadline`.
  With clock values that avoid this sum the property holds (run
  `BlockingReaderWriterQueue`), and the theorems about the semaphore and the
  blocking queue carry the hypothesis `NoBoundaryDeadline`.
- **SynchronisedQueue (`include/SynchronisedQueue.hh` 32).** Enqueue's lock is
  commented out while its comments still announce it. A notification between
  Dequeue's check and its wait is lost and the reader sleeps with data in the
  queue: run `LostWakeup`. The same lock would order `m_size++` (line 36) with
  Dequeue's `m_size--`; without it an update can be lost, and `Size()` stays wrong
  after both calls are over. `InOrderUnlessRaced` says nothing of that: it has
  `Size()` exact until the first overlap.

Observations that no run is devoted to:

- Block sizes: the comment in `include/readerwriterqueue.h` 77-79 promises
  several blocks of MAX_BLOCK_SIZE when more than MAX_BLOCK_SIZE elements are
  asked for; the code (93) does that only above twice that size, so the queue of
  buf-moody (1023, 512) is one block of 1024 slots. The class comment (72-73)
  says an added block has the size of the last one; the code (492) doubles it up
  to MAX_BLOCK_SIZE. The models follow the code.
- queue.hh: `m_unread` starts with garbage, and an overwritten item shifts it for
  ever; while it is off every pop returns a newer item than the one it removes, or
  reads past the end (`DriftedPopsMiss`). `InOrderUntilOverwritten` is what remains.
- buf-lockfree: `done` is set after the workers have ended, so the branch of
  `receive_data` that closes the socket is dead (`DoneAfterTheWorkers`).
- buf-sync: `main` never returns from `join_all` once a worker has begun
  `client_reader` (`ReaderKeepsMainInJoin`).
- buf-moody: a datagram shorter than one before it may have the old trailer
  counted again; `CountsEachDatagram` states the condition under which the
  count is right.

## Proofs

Checked by TLAPS for all values of the constants that satisfy the ASSUMEs.

**ReaderWriterQueue_proofs** (any maxSize, MAX_BLOCK_SIZE, number of blocks and
of elements). None of the safety properties is inductive: that the consumer
finds element `received + 1` in the slot at `front` depends on where every other
element is. `IInv` says where. There is a numbering `pos` of the linked blocks in
the order of the ring, from frontBlock on (`Ring`), blocks between the consumer's
and the producer's are full and those behind are empty (`Fill`), `base` gives
each block the serial number of its oldest element so that consecutive blocks
continue each other (`Chain`), and each slot holds the element that its distance
from `front` calls for or is raw memory (`Contents`). `Indices` says that the
stale copies err on the safe side: the producer's `localFront` makes a block look
fuller than it is, the consumer's `localTail` emptier. `Producer` and `Consumer`
say what a call has learnt at each step and what the other thread cannot undo.
Four lemmas (`TailMoves`, `FrontMoves` and the two refreshes of a stale copy) do
the index arithmetic, then there is one lemma per action.
From `IInv` follow `TypeOK`, `FifoOrder`, `ConstructsInRawSlots`,
`CodeAssertions`, `HoldsMaxSize`, `BetweenFrontAndTailFull` and
`DestructorLeavesNothing`. What they need on the way:

- sizes: `CeilToPow2Is` (a power of two that is at least its argument),
  `Sizing`, `InitialCapacity` (the blocks the constructor makes hold maxSize
  elements), `DoublingStaysBelow`;
- for `HoldsMaxSize`, that a producer which finds neither a slot nor a free
  block has seen the whole ring full;
- for the destructor and `BetweenFrontAndTailFull`, that following `next` from
  frontBlock visits every linked block once.

The last two walk along the ring, and powers of two are counted as subsets; the
inductions are over sets of natural numbers (`NatSets`), as the library's
induction theorems take an operator.

`SizeApproxBounds` is about the sum that `size_approx` has made of blocks read
at different times. `ConsumerWalk` and `ProducerWalk`, inductive under `IInv`, say
which blocks the walk has passed and what the other thread, which goes on
meanwhile, can have added to or taken from them.

`WaitFree` is the safety core of `CallsReturn`: it bounds, in every state of a
call, the steps the call has still to make (`StepsLeft`), and says that each of the
thread's own steps lowers that bound and that no step of the other thread
raises it. For `enqueue`, `try_dequeue`, `pop` and `peek` the bound follows from the
program counter. `size_approx` has a loop that follows `next` while the producer
may link blocks in; its bound counts the blocks ahead in the ring (`Ahead`) and
those that malloc can still deliver, and a link turns one of the latter into
one of the former (`AheadLinked`). That the blocks ahead become fewer with each turn
(`AheadShrinks`) is read off the numbering `pos` of `IInv`. With it,
`CallsAreWaitFree` leaves to fairness only that a thread in a call takes steps.

The refinement is proved in the same module. The content of the abstract queue is
concatenated from the blocks; `ContentIs` shows from `IInv` that it is the run of
serial numbers `received + 1, ..., sent`. With `Calls`, which relates a call's
program counter to that of the abstract call, each step of the code is a step of
`SpscFifo` or a stutter: `ImplementsPromise` proves `ImplementsFifo`.

**RelaxedReaderWriterQueue_proofs** (any maxSize, MAX_BLOCK_SIZE, number of
blocks and of elements). Here a thread's next load may deliver any message that
coherence leaves it, so an invariant about current values would say nothing about
what the thread is going to do. `IInv` speaks of every message that may still be
loaded: what it would tell, and which of the other thread's writes would be known
after the acquire fence behind it (`Upto`).

- `Ring`, `Block` and `Elements` are the shape of the queue in the writers' own,
  newest values: the blocks from the one after tailBlock on to tailBlock, the
  place `k` of frontBlock among them, and the serial number `start` of each
  block's first element.
- Within a block, each `tail` that the consumer may load comes with the slots
  before it, and each `front` that the producer may load with the slots it gives
  back (`TailsCoverSlots`, `FrontsCoverSlots`). So an access behind the fence is
  ordered after the other thread's.
- Between blocks, a tailBlock that the consumer may load and finds ahead of its
  own block promises that this block is `Closed`, with its last `tail` and its
  `next` known, and that the one behind it was `Entered`, with an element in it;
  `TailBlocks` and `FrontBlocks` say so of each message.
- `ProducerAt` and `ConsumerAt` keep what a call has learnt so far;
  `LocalTailOK` and `LocalFrontOK` what the copies in a block are still good for.

Loads and acquire fences only drop messages and add to what is known. `Narrows`
states that once, and one lemma per conjunct shows that nothing of the invariant
can be lost by it. A store appends a message that promises what the last release
fence covers; there are five kinds (`QueueFills`, `QueueTakes`, `QueueAdvances`,
`QueueMoves`, `QueueGrows`). The lemma of an action combines these. From `IInv`
follow `NoDataRace`, `InOrderDespiteStaleLoads`, `AssertionsDespiteStaleLoads`
and `TypeOK`.

**LightweightSemaphore_proofs** (hypothesis `NoBoundaryDeadline`). The safety
properties are not inductive: that no token is left behind depends on how many
wake-ups are owed at each point of the waiter's control. `SemaphoreAccounts`
says it: the counter is the number of permits left minus one while the waiter's
decrement stands (`Charged`), and one wake-up is owed, in the kernel or in the
signaller's hands, exactly when a signal has answered that decrement. With
`TypeOK` it is inductive; the lemmas `SignallerStep` and `WaiterStep` go through
the actions. From it follow `TypeOK`, `NoPhantomPermit`, `CountAtLeastMinusOne`
(the assertion in `signal`), `NoStaleKernelToken`, `CountExactWhenIdle` and
`NoLostSignal`.

**BlockingReaderWriterQueue_proofs** (same hypothesis). `IInv` adds to the
semaphore's invariant what ties it to the queue: the signals made are the
elements enqueued less the one whose signal is to come, the permits taken are
the elements dequeued plus the one a call holds, and each thread's place in its
call fits its place in the semaphore. The lemmas `ProducerKeeps` and
`WaitKeeps` go through the steps of the queue and of the semaphore inside it.
From the invariant follow
`PermitFindsElement`, `OnePermitPerElement`, `SizeApproxNeverTooLarge`,
`BlockedOnlyWhenEmpty` and, step by step through the mapping, that the
specification implements `SpscBlockingFifo` (`KeepsItsPromise`).

**BoundedBuffer_proofs.** Three layers: typing with mutual exclusion
(`ControlStep`); `NoLostWakeup`, where every step that could strand a sleeper
leaves a thread on its way to a `notify_one` (`WakeupStep`); and the content
(`ItemsStep`): the buffer is the window of newest items, and no push comes between
a reader's look at the oldest one and its unlock.

**SynchronisedQueue_proofs.** `Exclusion` holds whatever Enqueue does.
`InOrder` and `Exact` hold until the first race, because an enqueuer among its
accesses is alone but for a dequeuer that has just taken the mutex and will
record the race at its next access. One lemma per action.

**CircularQueue_proofs.** `Window` says that the container holds consecutive
items up to the one pushed last, `Ledger` that `m_unread` is, modulo the width,
its initial garbage plus the pushes less the pops. With
`InOrderUntilOverwritten`, with `ItemsWakeWaiters`, which counts wake-ups against
items, and with the typing they are inductive; `PushKeepsItems` and
`PopKeepsItems` do the modular arithmetic. `DriftedPopsMiss` follows: by `Ledger`
a count that is off is not the number of items, so the index of a pop is not the
back's, and by `Window` any other item is newer.

**UdpPrograms_proofs** (any number of workers, datagrams and lengths).
`HandsOverEachDatagram` is not inductive: what protects `data_buffer`, which has
no lock, is that there is one receive, and `OneReceive` says where it is: not
begun or ended (`Quiet`), waiting for a datagram, posted as a handler, or in
the hands of one thread, with one datagram due exactly from its arrival to
`Hand`; and a closed socket has none. Seven lemmas (`Moves`, `Hands`, `Posts`,
`HandlesData`, `Completes`, `Dispatches`, `Closes`) say what the service's
operations do to it; every handler step of every program is an instance of one
of them. Added per program: `Lockfree` (done is set when the workers have left),
`Sync` (client_reader is posted or runs), `Server` (the thread that ends the
service is alone and holds no receive, so the Server may be destroyed).

`OneProducerOneConsumer` is proved from `Roles`, inductive under that invariant,
with the hypothesis `TwoWorkers`: a program creates two threads. The consumer is posted
once (`OneConsumer`), and a step keeps a thread's role (`KeepsRole`) unless it
begins a handler. In buf-sync main posts client_reader before anything else, so
no other handler is begun before a worker is in it for good (`ReaderFirst`), and
one worker is left to fill the queue. With a third worker two client_writers
could enqueue at the same time, which is why the hypothesis is needed.

`CountsEachDatagram` is proved for any number of workers, from `CountsInv`:
`contents` is numbered as the queue is (`QueueOK`), the thread in "count" holds
the element that left the queue last (`Taken`), `data_buffer` keeps the trailers
that the newest datagram did not overwrite (`BufferOK`), hence each datagram has
its own trailer alone if none is shorter than the one before (`OneTrailer`).

Every safety property of the passing runs is proved, and so are the action
properties and the refinements. Only model-checked: all liveness, which the
prover does not treat; of `CallsReturn` of the queue the part that does not
depend on fairness is `WaitFree`, above.

## Not modelled

- The MACH and Windows semaphores, and the MSVC branch of `atomicops.h`: other
  platforms' variants of what is modelled.
- `ReentrantGuard`: elements are plain data, and none calls back.
- The accessors of the containers: they change nothing; `get_size` and `print`
  of bounded_buffer and queue race with push, and nothing states what they
  should return.
- Decoder: no program starts it, so neither its dereference of the event counter,
  NULL unless set, nor its recursion for each event is reached. `Server::start_gathering`, which nothing
  calls; the write through the dangling `nbytes`, which nothing reads.
- buf-test and buf-main (straight-line demonstrations), logging, socket
  addresses, the commented-out code.

## Plan

1. *Algorithms.* `ceilToPow2`'s bit smearing against `CeilToPow2`, and the masks
   against `Wrap` and `Span`, over all inputs of a small word.
2. *Decoder*, should a program start it: its thread over `BoundedBuffer`'s
   promises, with the missing event counter.
