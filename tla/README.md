# A TLA+ model of vamos-buffers

vamos-buffers moves events from monitored programs (sources) to a monitor
through shared memory.  This directory holds TLA+ modules that model the parts
of the library where threads and processes meet, the TLC configurations that
check them on small instances, and TLAPS proofs of the properties that matter
most.  Paths below are relative to the repository, which is `src/` here.

## 1. Inventory

| Part | State | Operations | Interacts with | What makes it correct |
|---|---|---|---|---|
| Ring buffer `src/core/spsc_ringbuf.c` | `head`, `tail` (atomic), `seen_head`, `seen_tail` (caches) | write_off, write_off_nowrap, acquire, acquire_nowrap, write_finish; read_off_nowrap, read_acquire, peek, consume, consume_upto | indexes an array owned by its client | FIFO; no slot is used by both sides; the caches never lie, and never hold a side back for ever |
| Parallel queue `src/core/par_queue.c` | a ring and its array | write_ptr/write_finish, push, pop, drop, top, peek, peek_at | arbiter and monitor buffer | as above; right index for peek_at |
| SHM buffer `src/shmbuf/buffer.c` | a ring in shared memory; `destroyed`, `flags`, `last_processed_id`, `dropped_ranges` | create, connect, push, read, drop, destroy, notify_dropped, register_events | source process and manager thread | nothing is read after it was given back; a reader that connects sees an initialised buffer |
| Auxiliary buffers `src/shmbuf/buffer-aux.c` | list of buffers by age, first and last event id of each; a spin lock in shared memory | get a buffer for a string, look a buffer up, test for dropped ranges | source, manager, arbiter | a string stays until its event is processed or dropped |
| Sub-buffers `src/shmbuf/buffer-sub.c` | numbers and count of sub-buffers | create, count, destroy, release | threads of the source, shamon | a counted number names an existing buffer; no file stays |
| C++ ring `include/vamos-buffers/cpp/ring_buffer.h` | `_head`, `_tail`; a cache `seen` in each accessor | write_off, acquire, write_finish; read_off, acquire, peek, consume; new accessors | its users | the same queue as the C ring |
| Control buffer, SHM files `src/shmbuf/buffer-control.c`, `shm.c` | table of events in shared memory | create under a temporary name and rename, open, unlink | source and reader | readers see complete files |
| Stream `src/core/stream.c`, `src/streams/` | SHM buffer, event records, substreams | read, consume, is_ready, notify | manager thread, arbiter | readiness ends exactly when the source has ended and all is read |
| Arbiter buffer `src/core/arbiter.c` | parallel queue, `dropped_num`, `drop_begin_id`, the hole event | fetch with dropping, drop, drop_older_than, pop, is_done | manager thread writes, arbiter reads | every event arrives once, as itself or in one hole, in order; is_done is right |
| shamon `src/core/shamon.c` | streams, arbiter buffers, manager threads, the turn | add_stream, manager thread, round robin over buffers, is_ready, destroy | all of the above | no stream starves; it stops when, and only when, all is seen |
| Monitor buffer `src/core/monitor.c` | parallel queue, `finished` | write, set_finished, fetch, consume | arbiter and monitor | neither side waits in vain; the monitor sees every event before the end |
| Table of events `src/core/source.c`, `stream.c` | records, kinds, a cache by kind | define_str, register, lookup | source and reader | the table says what the string says; lookups find their event |
| Queue `src/core/queue_spsc.c` | `head`, `tail`, a shared counter | write, consume, peek | an older client interface | FIFO over all slots |
| Containers `list.c`, `list-embedded.c`, `vector*.c`, `vector-macro.h` | links, memory | insert, remove, push, grow | everywhere | order and contents are kept |
| Support (`event.c`, strings, utilities, debug and local buffers, Python) | | | | |

Hard behaviour: two or three threads or processes on every buffer without a
mutual exclusion lock; caches of remote positions; dropping under pressure and
the summary of dropped events in holes; the end of a stream racing with all
that; reuse of memory on the word of another process.  `PROJECT.json` lists the
hazards with their lines.

```
 source process            manager thread                arbiter            monitor
 push, strings --- SHM ---> fetch, drop, hole --- arb ---> drop, is_done --> fetch
      ^  ring buffer         | dropped_ranges   ring        |   monitor ring
      +-- aux buffers <------+------ last_processed_id <----+
```

## 2. Modules

| Module | Models |
|---|---|
| `BoundedFifo` | what a queue promises: batches go in, elements come out in order |
| `SpscRingbuf` | the ring buffer with its client's array and the parallel queue's looks into it; `FifoSpec` says that it implements `BoundedFifo` |
| `SpscRingbufProofs` | proofs about the ring buffer |
| `CppRingBuffer`, `CppRingBufferProofs` | the C++ ring with accessors that are replaced; `ImplementsC` says that it implements `SpscRingbuf` |
| `StreamFetch`, `StreamFetchProofs` | source, manager thread and arbiter, joined by two queues |
| `DropOlderThan` | the search in `vms_arbiter_buffer_drop_older_than`, one iteration per step |
| `DropOlderThanProofs` | proofs about the search |
| `MonitorBuffer` | arbiter and monitor joined by a queue and a flag |
| `AuxBuffers`, `AuxBuffersProofs` | the source's reuse of auxiliary buffers, and the lock on `dropped_ranges` |
| `ShmLifecycle`, `ShmLifecycleProofs` | how source and reader find each other: files, flags, crashes, failed calls |
| `RoundRobin` | `default_process_events`: the order in which the monitor is given events, and the draining of nearly full buffers |
| `SubStreams` | sub-buffers made by threads of the source, the streams made for them, `shamon_is_ready`, `shamon_destroy` |
| `ShamonProofs` | proofs about `RoundRobin`, `SubStreams` and `SourceControl` |
| `QueueSpsc` | the queue with a shared counter; `QueueIsFifo` says that it implements `BoundedFifo` |
| `LinkedList`, `EmbeddedList` | the two lists, with their pointers |
| `SourceControl` | the table of events: parsing, kinds, lookup |
| `Vectors` | growing vectors, byte by byte |
| `StructuresProofs` | proofs about the queue, the lists, the vectors and `MonitorBuffer` |
| `MCBuffers` | `SpscRingbuf` and `StreamFetch` for TLC, with the fairness of their threads |
| `MCShamon` | `RoundRobin` and `SubStreams` |
| `MCShmbuf` | `ShmLifecycle` and `AuxBuffers` |
| `MCStructures` | `CppRingBuffer`, `DropOlderThan`, `MonitorBuffer` and the modules on queue, lists, table and vectors |

How they fit together: `SpscRingbuf` is proved to be a bounded queue, and
`StreamFetch` and `MonitorBuffer` use bounded queues.  `StreamFetch` abstracts
the search to the set of its possible results, which `DropOlderThan` justifies
(`ResultRight`).  `AuxBuffers` assumes of the manager and the arbiter what
`StreamFetch` shows (`RangesOnlyDropped`, `ProcessedNotLive`, and that reports go
back only from ids asked for ahead of time); see *Contracts* below.  `ShmLifecycle` is
about what comes before and after the others: from the creation of the files
until the source waits no longer, and how both sides leave.  `CppRingBuffer` is
shown to implement `SpscRingbuf`, and so a bounded queue.  `SubStreams` leaves
the order of service to `RoundRobin` and the dropping to `StreamFetch`: a
manager there puts an event or, if there is no space, counts it for a hole.
Its monitor gets its turn at every buffer again and again, which is what
`NoStarvation` of `RoundRobin` gives it.  An `MC` module checks
several independent modules in one run: the initial state or the first step chooses
the one to explore, and the others rest.

**Granularity and memory model.**  A step makes at most one access to state
that another thread writes.  In `SpscRingbuf` a load of the other side's offset
may return any position between the last one seen and the current one, which
covers the relaxed and acquire loads; what the copying of an element needs
beyond that, release and acquire of `head`, is assumed.  The load of `tail` is
relaxed, so in the C memory model the reader's copying is not ordered before
the writer's reuse; the code is for x86 (`immintrin.h`), where it is.  The other
modules assume x86 (total store order) and current loads, but for `QueueSpsc`, in
which a load of the counter may miss changes of the other side.

**Contracts.**  Where the code leaves an order of calls to its client, the model has
both: a constant says whether the client keeps to the order, the passing run and the
theorems are about a client that does, and a configuration of its own shows what happens
otherwise.
`AnyFirstCall` (`CppRingBuffer`): a new accessor begins with any call, and not only with
one that loads the position of the other side (`write_off(n)`, `peek(0)`).
`LateRegistration` (`SourceControl`): events are registered also after the first lookup.
`FilterFirst` (`StreamFetch`): events are filtered inside the fetch.  The arguments of
`drop_older_than` (`OlderIds`) are any ids; the history `asked` remembers those that were
beyond the buffer.  Three assumptions remain without a run:

* in `AuxBuffers` the arbiter reports an event when it has used its strings.
  `default_process_events` (`shamon.c:122-129`) drops and so reports an event before the
  monitor gets it, so a monitor that reads strings through shamon is outside the model;
* in `AuxBuffers` the memory of an auxiliary buffer is private to its source.  Its key is
  `/aux.N` with a number counted per SHM buffer (`buffer.c:178`, `buffer-aux.c:57-63`), so
  several sources on one machine, or a buffer and its sub-buffer, would share files;
* in `RoundRobin` there are at most ten streams (`FirstAlloc`): with the eleventh the vector
  of arbiter buffers is moved and loses its contents (finding 13).

**State and actions.**  Variables have the names of the fields of the structs;
actions those of the functions.  A function with several shared accesses is one
action per access, with the location in `mpc`, `wpc` or `apc`: `is_done_*`,
`handle_stream_end_*`, `was_dropped_*`, `notify_*`.  `wgrant` and `wfill` are
what `write_off` returned and how much of it the client has filled.  `taken` in
`StreamFetch` is a history of what the arbiter has consumed; `begin` in its
elements is the first event a hole stands for.  In `RoundRobin` the event that is
returned has a stream and an id, as `vms_stream_prepare_hole_event` sets no more;
`took` is a history of how many elements it stands for.  `prepended` in `LinkedList`
and `copied` in `Vectors` are histories, too.  Events are their ids, since the
source numbers them from 1 in order (asserted by `vms_stream_fetch*`).
The types of the variables are written down in `TypeOK` (`fetchTypeOK`, ...) of each
module, but for the containers.  They are proved, on their own or within the inductive
invariants (that of `AuxBuffers` has a form of its own there), and are not among the
properties of the runs.  Definitions called
*Mutant* are plausible faults; each makes one property fail and shows that the
property can.

## 3. Runs

| Run | Bounds | Result |
|---|---|---|
| `buffers` | ring: capacity 4, two data. Fetch: 9 events, SHM capacity 2, arbiter capacity 3 (the smallest the code allows), threshold 1, a report after every 2nd drop, 2 dropped ranges, events 2 and 6 filtered, `drop_older_than` asked for 2, 5 and 8 at any time, before, while and after these are in the buffer | all operations and all stale loads of a ring that wraps around and fills up: `CachesLag`, `PeekExact`, `PeekAtRight`, `LiveStable`, `FifoSpec`, and with fairness `SidesProgress` hold. Several holes, reused ranges, the end in every phase: `LogRight` (`Accounted` and `LogOrdered`), `DropIdsRight`, `SpaceForForward`, `ReportsTrue` (`RangesOnlyDropped` and `ProcessedNotLive`), `IsDoneRight`, `HoleIdRight`, `MonotonicUnlessAhead` and `EventuallyDone` hold |
| `shamon` | serving: 2 streams, the second added at any time, capacity 4 (half is 2, 0.8 of it is passed at 4), flags that change; streams: 2 threads, 2 sub-buffers, one failed creation, capacity 2, 3 events in one sub-buffer so that one is dropped | `NothingSkipped`, `FairTurns`, `NoStarvation`; `NotReadyMeansDone`, `NoFilesLeft`, `MonitorReturns` hold |
| `shmbuf` | files: 3 generations of sources under one key, 1 retry, the reader leaves once. Strings: 4 events, sizes 2 and 5, 5 dropped ranges as in the code | crashes in every phase, leftovers of two generations, a reader of an old generation, failed calls: `OpenedInitialised`, `ReadyMeansKinds`, `WaitEnds` hold. Auxiliary buffers that fit, are too small, are reused because processed and because dropped: `StringsIntact`, `PushReturns` hold; no slot of `dropped_ranges` is used twice, since an event begins at most one range |
| `structures` | C++ ring of capacity 4, two data, one new accessor of either side at every position of a ring in use; a search in up to 5 events with ids up to 6, every split, every id; a monitor buffer of 3 and 7 events; queue of 3; 3 list elements; 2 rings with 4 links; all strings of up to 6 characters over a letter that is an operand type, one that is not, ':' and ','; a cache of 3 kinds; vectors of 4 elements of 1 or 2 bytes that grow by 2 | `AssertsHold` (`HeadMoveValid` and `PeekRight`), `ImplementsC`; `ResultRight`, `SearchInside` (which bounds the number of iterations, so the search ends); `NobodyStuck` (`WriterUnblocked` and `MonitorEnds`); `QueueIsFifo`, `QueuePeekRight`; `ListRight`, `RingRight`; `TableRight` (`ParsesFormat` and `RecordsTile`), `LookupRight`; `VectorRight` hold |

Each of these runs checks one statement of a comment or an assertion of the repository,
which the code does not meet (section 4 has the statements):

| Run | Fails | Finding |
|---|---|---|
| `aux_reuse` (6 events, 2 ranges, so that slots are used again) | `StringsIntact` | 1 |
| `fetch_filter` (6 events) | `DropIdsRight` | 2 |
| `shm_control` (2 generations) | `ControlInitialised` | 3 |
| `fetch_ahead` (4 events, an id asked for ahead) | `ProcessedMonotonic` | 4 |
| `fetch_end_hole` (6 events) | `OlderAllDropped` | 5, 6 |
| `older_asserts` (up to 4 events) | `BisectAsserts` | 7 |
| `monitor_null` (capacity 2, 3 events) | `NullMeansNoEvent` | 8 |
| `substream_missing` (no failed creation) | `SubBufferFound` | 9 |

For functions that nothing in the library calls in the way that fails (but for the
eleventh stream of finding 13), there are configurations beside the runs.  Each is checked
with `tlc -config X.cfg M`, and each shows a statement of the repository that the code does
not meet:

| Configuration | Module | Fails | Finding |
|---|---|---|---|
| `LinkedListLinks.cfg`, `LinkedListAsserts.cfg` | `LinkedList` | `BackwardRight`, `FirstIffLast` | 10 |
| `QueueSpscAtmost.cfg` | `QueueSpsc` | `PeekAtmostCount` | 11 |
| `VectorsResize.cfg` | `Vectors` | `ResizeZeroed` | 12 |
| `VectorsAligned.cfg` | `Vectors` | `ContentsKept` | 13 |
| `SourceControlLate.cfg` | `SourceControl` | `LookupRight` | 14 |
| `CppRingBufferFirstCall.cfg` | `CppRingBuffer` | `HeadMoveValid` | 15 |
| `CppRingBufferRegions.cfg` | `CppRingBuffer` | `RegionInArray` | 16 |

The number of events is a bound of the model (`MaxEv`, `Events`), as are `MaxLen`,
`MaxEvents`, `MaxId`, `MaxGen`, `MaxQuits`, `MaxNew`, `MaxStreams`, `MaxSubs`, `MaxFails`,
`Numbers` and `VMax`; `NotifyEvery` is 10000 in the code and `RangesNum` is 5.

**Fairness** is stated in the `MC` modules, and for `StreamFetch` also in `fetchFairSpec`.
The manager, the arbiter, the monitor and both sides of a ring
are threads that poll in loops, so an action that stays possible is taken:
weak fairness of each thread.  The source is under no fairness: it may stop
pushing at any time, and `EventuallyDone` starts only when it has destroyed its
buffer.  In the ring a polling thread eventually loads the current value of
an atomic variable.  In `shamon` the monitor and the managers
are weakly fair.  Taking from a buffer is strongly fair in `SubStreams`, because
between two takes the monitor's loop does other things; that each buffer is
served again and again is `NoStarvation`, shown in `RoundRobin` under weak
fairness alone, provided that in the end all buffers stay active
(an inactive buffer makes `default_process_events` spin).  `MonitorReturns` starts
when the source has destroyed its buffers, and admits the failed assertion of
finding 9.  In `shmbuf` a source inside a push and a manager inside
a report keep running, a waiting source polls and a reader keeps
trying to connect, is started again if it died, and stays until its source has
destroyed the buffer (but for `MaxQuits` times); `WaitEnds` speaks of runs
without a crashed source, since the reader of a crashed source stays for ever,
and of a source whose files nobody has unlinked.

`CHECK_DEADLOCK FALSE` is set for the run `older_asserts` only, of a search that ends; the
other models state in an action (`Finished`, `Stopped`, `Returned`) when everybody may stop.

## 4. Findings

1. `drop_ranges_lock` (`src/shmbuf/buffer-aux.c:20`) loops while the
   compare-and-exchange succeeds: it excludes nobody.  When a slot of
   `dropped_ranges` is reused, the source may combine the begin of the old range
   with the end of the new one and overwrite strings of live events (`aux_reuse`).
   With the branches of `drop_ranges_lock` in `AuxBuffers` exchanged, that is,
   with a lock that excludes, the same instance satisfies `StringsIntact`.
   `StringsIntactWithLock` proves this for every instance, and
   `StringsIntactWhileUnread` shows what the lock is needed for: only that no used
   slot is begun again while the source reads it.
2. `vms_stream_fetch_dropping_filter` does not count events that it filters
   while dropping, and the assertion on the drop ids fails (`fetch_filter`).
   Filtering after the fetch, as the manager thread does, is right (`buffers`), and so is
   filtering in the fetch while nothing is being dropped (`FetchRightWhileApart`).
3. `get_shared_control_buffer` opens with `O_CREAT`.  If the source has unlinked
   the control buffer meanwhile, the reader creates an empty one, reads an
   uninitialised size, and maps it or unlinks the key (`shm_control`).  Nothing else
   leads to an uninitialised control buffer (`ControlInitialisedUnlessCreated`).

4. `vms_arbiter_buffer_drop_older_than` reports its argument, not what it dropped, as
   processed.  With an id beyond the buffer, as `tests/arbiter-buffer.c:67` has it, later
   events count as processed before they come, and the next `drop` fails the assertion
   "The IDs are not monotonic" (`buffer.c:373`, `fetch_ahead`).  `MonotonicUnlessAhead`
   and `ReportsTrue`: nothing else does this.
5. The hole at the end of a stream has an id one too low (`arbiter.c:470`), though
   its comment says that an "upper bound" is needed (`fetch_end_hole`).  For one dropped
   event that is the id of the event before.  `HoleIdRight`: all other holes are right.
6. "Drop all events with ID less or equal" (`arbiter.c:96`): of two elements with the
   same id, as finding 5 makes them, one may stay (the same run).
7. Two assertions in the search of drop_older_than (`arbiter.c:155`, `:163`) fail
   if the part has one event, where `bot = top = 0` from the start (`older_asserts`); the
   result is right nevertheless, and with two or more events they hold (`BisectAssertsHold`).
8. `fetch_arbiter_stream` is to "block until there is some and return it or return NULL if
   the stream ended" (`monitor.c:117`), but may return NULL with an unread event: one that
   was written between the look into the queue and the look at the flag (`monitor_null`).
   Only such events are left, so one more look finds all (`UnreadAlwaysNew`).
9. The count of sub-buffers may run ahead of one that another thread is still creating;
   then the assertion "Getting the shm buffer failed" (`stream.c:161`) fails
   (`substream_missing`).  A sub-buffer is also counted if its initialisation failed.  There is
   no other cause (`MissingAlwaysExplained`).
10. `vms_list_prepend` does not link the old first element back, though the list is
    "doubly-linked" (`list.h:6`, `LinkedListLinks.cfg`).  Removing an element that is cut off in this way
    sets `last` to NULL and fails the assertion at `list.c:142` (`LinkedListAsserts.cfg`); inserting
    before it loses the elements in front.  Without such a prepend the list is right
    (`ListRight`).  The library itself only appends and removes (`MoveToEnd` in `AuxBuffers`).
11. `vms_queue_spsc_peek_atmost_at`, which "Returns the number of elements in the queue"
    (`queue_spsc.h:68`), returns one less when it clips the index, 0 for a single element
    (`QueueSpscAtmost.cfg`).  The index and the offset are right (`QueuePeekRight`).
12. `vms_vector_resize` promises that "all elements on indices [0, size) are either written or
    0'ed" (`vector.h:82`), and clears as many bytes as there are new elements
    (`VectorsResize.cfg`).
13. A vector of `vector-aligned.c` with elements larger than a byte loses its contents
    when it grows: `memcpy` copies as many bytes as there are elements
    (`VectorsAligned.cfg`).
    shamon's arbiter buffers meet this with the eleventh stream, while their managers keep
    pointers to the old memory.  `VectorRight`: until then, and for the other vectors
    always, the contents are kept.
14. The cache of event records is filled at the first lookup and never again; an event that
    is registered later is looked for in places that were never written, and the assertion
    at `stream.c:209` may fail (`SourceControlLate.cfg`).
15. A new accessor of a C++ ring has 0 in its cache.  On a ring in use that is right
    only if its first call loads the other side's position, `write_off(n)` of a
    writer or `peek(0)` of a reader; any other first call trusts the 0, and "Invalid head
    move" fails (`CppRingBufferFirstCall.cfg`).
16. In an empty ring that is not at offset 0 the number of contiguous slots that
    `write_off` returns goes past the end of the array, and `wrap_n` is 0
    (`CppRingBufferRegions.cfg`).
    `get_write_off` of the C ring does the same (`tests/spsc-ringbuf-1.c` even expects it).
    All callers in the library write one element at a time, and the clients in the models
    go through a grant modulo the capacity.

Behaviour that no text of the repository excludes, seen in the models:

17. `shamon_is_ready` does not look at `dropped_num`: the monitor may stop with the
    last hole pending.  `NotReadyMeansDone`: nothing else is lost.
18. An inactive buffer makes `default_process_events` spin (`shamon.c:99`).
    `NoStarvation` assumes that all buffers are active in the end.
19. A reader that cannot connect unlinks the key, whoever owns it by then
    (`clean` in `ShmLifecycle`); `WaitEnds` therefore needs the files in place.

By reading, without a run:

20. `vms_stream_prepare_hole_event` sets neither the kind nor the number of events, so the
    summary returned by `default_process_events` has the kind and the data of the event
    returned before.
21. `vms_list_destroy` frees the element it goes on to read, and
    `vms_source_control_define_str` has arrays without room for the final 0 of a
    name of maximal length; `vms_stream_register_events` passes a `va_list` to a
    function with variable arguments.
22. The two points on auxiliary buffers under *Contracts*: an event is reported before the
    monitor has it, and `/aux.N` is not unique on a machine.

## 5. Proofs

`SpscRingbufProofs` proves, for every capacity and every set of data:

* `TypeCorrect`, `CachesAlwaysLag`: `TypeOK` and `CachesLag` are invariant;
* `LiveElementsStable`: no step changes a published element;
* `PeekAlwaysExact`, `PeekAtAlwaysRight`: peek hands out the oldest elements in
  order, and the indexed looks of the parallel queue find their element;
* `ImplementsFifo`: the ring buffer implements `BoundedFifo`.

The inductive invariant is `TypeOK /\ CachesLag /\ FilledInv`.  `CachesLag` alone
is not inductive: that the writer may trust a stale tail needs `seen_tail`,
`tail`, `head` to lie in this order on the ring, and the grant to be bounded
through `seen_tail`; that consuming is safe needs `seen_head` between `tail` and
`head`.  `FilledInv` gives the refinement its typed contents.  The lemmas on
the arithmetic of offsets (`CountingPost`, which is the postcondition asserted
in `get_written_num` and `get_free_num`, `AdvanceHead`, `AdvanceTail`, ...) are
proved once and cited.  The refinement maps the queue to the slots from `tail`
to `head`; `write_finish` is a push, `consume` and `consume_upto` are pops,
everything else stutters.  The only assumption is that the capacity is positive,
which `vms_spsc_ringbuf_init` asserts.

`CppRingBufferProofs` proves, for every capacity, that the C++ ring is typed
(`CppTypeCorrect`), that its counts are those of C (`CountsPost`), that its assertion
on the move of head holds (`HeadMoveAlwaysValid`), and that it implements the C
ring (`CppImplementsC`) and with it the bounded queue (`CppImplementsFifo`).  All but the
first two have the hypothesis `~AnyFirstCall`, that new accessors begin with a load:
without it they are false (finding 15).  The
refinement maps the cache of an accessor that has not been used yet to the value
its predecessor had, and the cache of a used one to itself.  The inductive
invariant is `TypeOK /\ FreshInv`: a fresh accessor has 0 in its cache, which makes it
load, and its first load is one the C ring could have made.  The rest comes
from the theorems about the C ring, through the refinement.

`DropOlderThanProofs` proves `SearchIsRight` and `SearchStaysInside` for buffers of every
length, every split and every id, and `BisectAssertsHold` for parts of two or more events
(finding 7).  The loop invariant says that the
event at `bot` is old enough unless `bot` is 0, that the one above `top` is not,
and that every iteration removes a candidate, which also bounds the iterations.

`AssertsAlwaysHold` states the assertions of the C++ ring, the one on peek included,
as the run `structures` does.

`StreamFetchProofs` proves, for any number of events, any capacities, thresholds,
filters and periods of reports (`StreamFetchAssumption`: the arbiter buffer has at
least three places and the threshold is below its capacity, both asserted by the
code):

* with either fetch, `FetchTypeCorrect`, `AlwaysSpaceForForward` and
  `IsDoneAlwaysRight`.  `BaseInv` says what each location of the manager and each
  passed test of `is_done` guarantees from then on: a destroyed stream stays
  destroyed, its SHM buffer once empty stays empty, and so on down to the arbiter
  buffer, so that six reads at six times add up to a state;
* for the fetch of the manager thread, `DropIdsAlwaysRight`, `LogAlwaysRight`,
  `HoleIdAlwaysRight`, `ReportsAlwaysTrue` and `MonotonicAlwaysUnlessAhead`, whatever ids
  `drop_older_than` is asked for.  `DropInv`
  relates the log of what was put into the arbiter buffer to the counters: the
  dropped events are the ids from `drop_begin_id` up to the event at hand, and
  `NextFree` is the first id no element stands for.  These carry the hypothesis
  `~FilterFirst`, because for `vms_stream_fetch_dropping_filter` they are false
  (finding 2); the manager thread, which is what the run `buffers` checks, does not
  use that function;
* `MonotonicWhileBehind`: if it is never asked for an id beyond the buffer (`asked = 0`), what
  is reported never goes back at all.  `ProcessedInv` is the reason: what was reported is
  behind all that waits (`ReportedBehind`), or was asked for ahead of time;
* `FetchRightWhileApart`, from which these follow: all five properties hold with
  either fetch as long as no event is filtered inside the fetch while others are
  being dropped (`FilteredApart`).  For the manager's fetch this is trivially so; for the
  other one it says that finding 2 has no other cause.

`AuxBuffersProofs` proves `StringsIntactWhileUnread`, `Spec /\ []SlotUnread =>
[]StringsIntact`.  `SlotUnread` says that the manager begins no used slot of
`dropped_ranges` again from when the source has read its end until it is done with
it.  Without it the statement is false (finding 1, `aux_reuse`), so it is a hypothesis
and not an assumption on constants.  It is discharged in two ways:

* `StringsIntactWithLock`: by `LockExcludes`, mutual exclusion of what lies between
  `drop_ranges_lock` and `drop_ranges_unlock`.  So a lock that works, which costs one
  negation in the code, is enough for any number of events and slots.  (In `Spec` a
  process enters when it finds the lock taken; with exclusion that is the one it
  took itself, one step before.)
* `StringsAlwaysIntact`: by having no more events than slots (`MaxEv <= RangesNum`), the
  case of the run `shmbuf`, with the lock as it is.

The invariant `auxInv` uses nothing about the lock.  Its core: a string that may still be read lies below the head of its buffer
and its event between the buffer's first and last (`StringKept`); every slot, and
the range at hand, holds no event that may still be read (`RangesInv`); and what the
source has read of a slot is still within what the slot says (`ScanInv`), because
slots only grow while the source reads them.  For `StringsAlwaysIntact`, the slots
are chosen in the order of the first events of their ranges, so the number of
slots in use is bounded by the first event of the last range (`SlotsInv`).

`ShmLifecycleProofs` proves `LifecycleTypeCorrect`, `AlwaysOpenedInitialised` and
`ReadyAlwaysMeansKinds`, for any number of sources, crashes, retries and failed
calls.  The invariant: a temporary name leads to the file of the source that is
working on it (`FilesKnown`), a final name to a complete file (`FilesComplete`), and
from the moment the buffer of the present source can be opened, the control
buffer under its name is that source's, empty or gone (`SameSource`), which excludes
a reader that has one file of an old source and one of the new.  `ControlInitialised`,
which fails in `shm_control`, is proved under the hypothesis that no reader's open
creates the control buffer (`NothingCreated`, a condition on steps): without `O_CREAT`
no control buffer is ever empty, so that is all finding 3 takes
(`ControlInitialisedUnlessCreated`).

`ShamonProofs` proves `RoundRobinTypeCorrect`, `AlwaysNothingSkipped`, `TurnsAlwaysFair`
for up to ten streams (`FirstAlloc`, finding 13) and any capacity, and `SubStreamsTypeCorrect`,
`MissingAlwaysExplained`, `NotReadyAlwaysMeansDone`, `NeverFilesLeft` for any number of
threads and sub-buffers.  `rrInv`: a buffer holds consecutive numbers from the next
one to be returned up to the next one to be written, and a stream that was
passed over will be reached before the served one is reached again (`Waits`).
`ssInv` counts: the sub-buffers that are counted and the threads that are busy are
at most the numbers taken, and the sub-buffers that exist are at most those
counted and being counted (`CountInv`).  Once the source is done, the count is
therefore at least the number of existing sub-buffers; the monitor has connected
to as many different ones, so it knows all of them and releases them.  What `shamon_is_ready` has seen of the streams
before `at` stays so (`ScanInv`).

About the table of events it proves `LookupAlwaysRight` under `~LateRegistration` (the cache
is filled once, from kinds that do not change afterwards; finding 14) and
`TableAlwaysRight`, for strings of any length over any letters, of which any may be
operand types (`OpTypes`): the others make `signature_get_size` abort.  `tableInv` has two parts.  What the parser has done
(`RecordsInv`): the records follow each other without a gap up to `LastEnd`, each ends at
a comma or at the end of the string, and there are as many of them as colons up to
there.  What it has found and not yet stored (`FoundAt`): a name, its colon and the end
of its signature, which in a string of the format are a part.  The counts that
`define_str` makes first are needed twice.  That they never refuse a string in the
format is `CountsAgree`: up to each place there is a colon for each comma, and one more
while a part is under way (`CountsUpto`).  That the pass never runs past the table, and
so never takes the branch for a surplus event, comes from comparing the colons up to
the last record with all of them (`FindEvent`).  `Colon` and `Comma` are
definitions because the prover's SMT translation rejects these two literals.

Induction over numbers is needed for the loops of the lookup and for the counting.  It
is got from the well-ordering of the naturals (lemmas `LeastNumber` and `Induct`), since
the induction theorems of the library cannot be instantiated here.

`StructuresProofs` proves

* `MonitorTypeCorrect`, `UnreadAlwaysNew`: from the monitor's look until its
  answer the buffer holds only events written since the look (`SinceLook`);
* `QueueTypeCorrect`, `QueueImplementsFifo`, `QueuePeekAlwaysRight`: `head` is as far from
  `tail` as the counter says once both sides have caught up with it (`HeadInv`); any
  load of the writer is at least, any load of the reader at most, the counter;
* `ListAlwaysRight`, as long as nothing was prepended to elements of the list, and
  `RingAlwaysRight`: the links are related to the history of the
  order place by place.  Needed besides: no element is twice in a list, and no
  element in two rings;
* `VectorAlwaysRight`: every element that was pushed fills its bytes in memory, except in
  the case of finding 13, and those that resizing added are 0 if they are one byte.

**Assumptions.**  Each module names what it assumes of its constants: capacities
that are positive, bounds that are natural numbers, a finite set of threads
(`SubStreamsAssumption`), elements that are not NULL (`ListAssumption`), heads that
are not elements (`EmbeddedAssumption`), kinds that are not 0, the mark of an event that
is not registered, and letters that are neither ':' nor ',' (`ControlAssumption`), at most
ten streams (`RoundRobinAssumption`), sizes that are positive
(`VectorAssumption`), a header that fits a page (`AuxBuffersAssumption`).  TLC
evaluates them in the runs.

**Model-checked only.**  Liveness (`SidesProgress`, `EventuallyDone`, `NobodyStuck`,
`PushReturns`, `WaitEnds`, `NoStarvation`, `MonitorReturns`): the prover has no fairness
and no ENABLED.  Every invariant and action property that a passing
run checks is stated by a theorem.

## 6. Plan

The modelling is complete in breadth, and every safety property of the passing runs is
proved.  What remains is liveness, which needs a prover with fairness, and following
the code as it changes: when `drop_ranges_lock` is mended, `aux_reuse` becomes a passing
run and `LockExcludes` a theorem; when `vms_stream_fetch_dropping_filter` is, the
hypothesis `~FilterFirst` goes; and so on for the other runs and configurations that show a failure: each becomes
a passing one, and the passing property that excludes its case (`MonotonicUnlessAhead`,
`ListRight`, `VectorRight`, ...) gives way to the statement of the repository.

## 7. Not modelled

* Printing, statistics, and accessors of single fields.
* The kinds of streams beyond `generic`: they parse arguments with regular
  expressions; their readiness is that of the generic stream or of `funs_is_ready`,
  which `ShmLifecycle` has as the wrong flag (mutant `detach_OwnFlag`).
* The variadic constructors of the table of events, and the sizes of signatures.
* Strings, allocation and sleeping (utilities).
* The debug buffer, which the library does not use; the local buffer, which is
  the same ring in private memory; the C++ vector, the Python binding, and the
  legacy queue, which is not built.
* The reader's lookup of an auxiliary buffer by index, which only caches mappings.
* Destroying a list (it reads freed memory), and swapping vectors (not called).
