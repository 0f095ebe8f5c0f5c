# QueueCache: a verification project

TLA+ modules for the QueueCache repository: a Windows storage filter driver
(`qcache`) that answers writes before they reach the disk, a control utility
(`qcachecmd`), a SCSI diagnostic filter (`scsichk`) and its log reader
(`scsilog`).  The project models the write-behind queue of `qcache` with its
threads, the read path over it and its byte arithmetic, the loading of the driver
and the attachment of devices, the removal of a device and the other PnP requests,
the log and the counters of `scsichk`, and the reader of that log; it checks them
with TLC on small instances, and proves with TLAPS every safety property and the
refinement for every value of the constants.

Contents: [inventory](#1-inventory) · [plan](#2-plan) ·
[modules](#3-modules-and-how-they-correspond-to-the-code) · [runs](#4-runs) ·
[findings](#5-findings) · [proofs](#6-proofs) · [limits](#7-what-is-not-modelled)

## 1. Inventory

### 1.1 The filter driver `qcache`

One device extension (`qcache.h`, `_DEVICE_EXTENSION`) for every filtered disk
holds all the shared state:

| state | written by | protected by |
|---|---|---|
| `WriteQueue`, a list of `WRITE_QUEUE_ITEM` | dispatch threads (tail), worker (unlink) | `WriteQueueLock` |
| `Statistics.WriteQueueItems`, `WriteQueueSize` | the same | `WriteQueueLock`, but **read** without it for admission |
| `Statistics.IsCached` | `IOCTL_QCACHE_ON/OFF`, shutdown, removal | nothing |
| `WriteQueueEvent`, auto-reset | `KeSetEvent` after an insertion and by cleanup; consumed by the worker | the kernel |
| `ShutdownThread` | `QCacheCleanupDevice` | nothing |
| `RemoveLock` | acquired for every item and every split read | the kernel |
| `PagingPathCountEvent`, `InitializationEvent`, … | PnP paths | used as mutexes |
| `QCacheLowMemCondition`, `QCacheHighMemCondition…`, one for the driver | admission, the kernel | the kernel |

Components, the operations of each and what makes it correct:

* **Admission and insertion** (`queue.cpp` 13-247, `write.cpp`, `ioctl.cpp`).
  `QCacheWrite`, `QCacheFlushBuffers`, `QCacheShutdown` and
  `QCacheDeviceControl` call `QCacheQueueIrp`.  It reads `IsCached`, compares the
  counters with the limits and calls `QCacheQueueLazyWriteIrp` (copy the data,
  insert, signal, complete with success: an *early* or *lazy* request) or keeps
  the IRP, marks it pending and inserts it (a *deferred* request).
  Correct if: every IRP is completed exactly once on each of the many return
  paths; an item holds the remove lock from its creation; the counters are exact;
  the overshoot of the unlocked admission test is bounded; the order of the list
  is the order in which effects become visible.
* **Worker** (`thread.cpp`, `queue.cpp` 250-363).  One thread for every device
  reads the head of the list under the lock and carries it out with the lock
  released, synchronously; then it unlinks, releases and frees the item.  With an
  empty list it tests `ShutdownThread`, or waits for the event.
  Correct if: no insertion is missed; items are carried out once, in order; an
  acknowledged write is always in the list or on the disk; a deferred request,
  flush or control is a barrier; the list drains.
* **Read path** (`read.cpp`, `partialirp.cpp`, `SCATTERED_IRP` in `qcache.h`).
  Under the lock, copies every overlapping lazy write into the caller's buffer and
  marks it in a bitmap.  Then the read is passed down whole, completed, or split
  into one lower read for every clear run; a reference-counted object completes
  it when the last part is back.
  Correct if: a read sees every write acknowledged before it, from whichever
  place, and what earlier reads saw; the split read is completed once, after its
  last part, and keeps the device.
* **Range arithmetic** (`read.cpp` 44-143, 208-237, `write.cpp` 25-40): the
  64-bit sum of offset and length, which may wrap; the bitmap with a bit for every
  512 bytes, its buffer, and the runs of clear bits.
  Correct if: exactly what lies on the device is admitted; the bitmap fits; every
  byte comes from the newest write that holds it, or else from below.
* **Removal** (`mainwdm.cpp` 493-507, 1170-1238).  Turns caching off, asks the
  worker to exit and joins it, flushes the lower device, passes the IRP down,
  closes and drains the remove lock, detaches and deletes.
  Correct if: the worker is gone and nothing is queued when the device is deleted, nor
  cached below if the final flush was carried out; the removal ends.
* **Attachment, initialisation, start** (`mainwdm.cpp` 428-464, 682-953,
  1124-1168, 622-678): creates the filter device, puts it on the stack, starts its
  worker, and queries the size of the disk, from the legacy attachment and from a
  start.  Correct if: a device is complete or gone wherever its attachment failed;
  the size is queried until it is known and never changes then, and
  `LastErrorCode` keeps the outcome of the last query.
* **PnP dispatch and usage notification** (`mainwdm.cpp` 956-1082, 1241-1374):
  counts paging paths and toggles `DO_POWER_PAGABLE` under an event that is used
  as a mutex across a synchronous lower request.
  Correct if: a device with a file on it is never pagable, whatever overlaps or
  fails; a device without one is pagable again and its count zero; every request
  ends; the device is deleted after the last has left.
* **Driver entry and unload** (`mainwdm.cpp` 48-426, 1536-1571): registry
  parameters, memory condition events, the list of disks to attach to.
  Correct if: every way out gives back what was taken; the limits are what the
  registry says, and the listed disks are tried to the last.
* **Small parts**: pool helpers (`wkmem.hpp`: zero-filling `new`), statistics
  (`qcstats.h`), IRP helpers.

How they interact: upper drivers call the dispatch routines on any number of
threads; these share the extension with the worker; the worker and the split
reads call the lower device, which completes on arbitrary threads; PnP removal
runs beside all of them.

### 1.2 The auxiliary programs

`qcachecmd` sends one control code and prints the answer.  `scsilog` prints the
file that `scsichk` writes.  `scsichk` is a filter of its own with an extension of
its own: `LogData`, a list of records that completion routines push under
`LogLock` and that the removal writes to a file; `QueueDepth`, changed by
interlocked operations and reset when the counters are switched
(`CountersEnabled`, `EnabledAlways`); `PagingPathCount` with its event; and a
remove lock that every request holds until its completion routine is done.
Correct if: no record is lost or freed under a reader; the depth does not stay
negative; notifications exclude each other; the device outlives its requests; and
the reader, which walks the file with the structure as its only guide, stays in
step with what was written.

### 1.3 What is hard

The behaviours that tests hardly reach are listed, each at its line, under
`hazards` in `PROJECT.json`.  They fall into these groups: decisions taken on
what was read outside the lock (`IsCached`, the limits, the empty list and
`ShutdownThread`); the window between a lower write and the unlinking of its
item, with readers and writers in it; one auto-reset event for any number of
insertions; failures in the middle of a multi-step operation that already
acquired the remove lock or already acknowledged the write; parts of a read
that complete in any order, also before the next is sent; removal against
everything; calls that fail one after the other while a driver is loaded; and
arithmetic at its limits, where a block is half covered or a sum wraps.

## 2. Plan

In order of importance; ✓ is done.

1. ✓ `WriteBehind`: the abstract store; `WriteQueue`: dispatch threads, worker,
   lower device, removal; `MCWriteQueue`.
2. ✓ `ReadPath`, which extends `WriteQueue` with readers; `MCReadPath`.
3. ✓ Proofs of the queue: types, no lost wakeup, the list as the rest of the log, and
   from it order, completion and barriers (`WriteQueueProofs`), durability and what
   a reader gets (`DurabilityProofs`), counters, admission, the remove lock, the
   removal and the simulation of `WriteBehind` (`PromiseProofs`); of the reads beside
   it (`ReadPathProofs`).
4. ✓ `PnpDispatch`: `QCachePnp` with usage notifications, starts, the legacy
   attachment's query of the size, and removal beside each other; `PnpProofs`.
5. ✓ `ScsiPaging`, which extends it with what `scsichk` does differently;
   `ScsiLog`: its completion routines, its counters and its removal.
6. ✓ `DriverLoad`: `DriverEntry`, `QCacheAttachDevice` and `QCacheUnload` with each
   of their failures; `DriverProofs`.
7. ✓ `ReadArith`: the range check, the overlay in bytes and the bitmap, over widths
   of 4 bits; `ReadArithProofs`.
8. ✓ `LogReader`: `scsilog` on the file that the removal of `ScsiLog` wrote.
9. ✓ Proofs of the other modules: the sizes, the count and the flag of `PnpDispatch`,
   bitmap and bytes of `ReadArith`, the list and the limits of `DriverLoad`, log,
   depth and reader of `ScsiLog` and `LogReader`.

Open: the hazards of `PROJECT.json` that no property covers, each with its reason
there.

## 3. Modules, and how they correspond to the code

### `WriteQueue`

A request is the IRP that carries it, and a queue item is the IRP it was made
from; data is *who wrote this sector last*, so that `disk[s]` is an IRP or
`None`.  Sectors stand for bytes: `Size`, `MaxQueueSize` and `ItemSize` are in
one unit.

| TLA+ | code |
|---|---|
| `pc[r]` | where the thread that dispatches r is, between `QCacheWrite` etc. and its return |
| `req[r]` | major function and control code (`kind`), offset and length (`range`) |
| `lazy` | items made by `QCacheQueueLazyWriteIrp`, that is `item->Irp == NULL` |
| `queue`, `wqItems`, `wqSize` | `WriteQueue` from `Flink` on, and its counters |
| `event`, `shutdownThread`, `isCached`, `lowMem`, `lastError` | the fields of the same name |
| `wpc`, `witem` | the worker thread and its item |
| `rpc`, `holders`, `removed` | the removing thread; the remove lock: tags, and closed |
| `disk`, `unflushed` | the lower device: its content, and the requests in its cache |
| `log`, `failed`, `flushed` | history, never read by a guard; `flushed` says whether the final flush was carried out |

A step is a region that no other thread can see half done: what runs under the
spin lock, or up to the next access of shared state.  The dispatch path is
*enter* (`EnterQueueIrp`, reads `IsCached`) → *limits* (`AdmitLazily`,
`Decline`) → *make the item* (`MakeItem`, `NoItem`, `NoBuffer`) → `Insert`
(under the lock) → `Signal` (event, completion).  The worker is `LookAtHead`
(under the lock) → `CheckShutdown`/`WakeUp`, or `PassMarker`/`SendDown`/
`BuildFails` → `LowerSucceeds`/`LowerFails` → `CompleteIrp` → `Unlink` (under
the lock) → `ReleaseItem`.  The removal is one action for each of its steps.
The shapes of some failures are worth knowing: `BuildFails` leaves the item at the
head and the loop retries it; `NoBuffer` returns with the lock held; `LowerFails`
carries an error on only for an item that still has its IRP; and `FinalFlush` may send
nothing, for want of memory for its IRP (`mainwdm.cpp` 588-593), or be failed below,
and the removal goes on either way.

Choices.  The two counters of the admission test are read in one step, but
`IsCached` in an earlier one.  The kernel's high-memory condition is the fault
`"memory"`: it may be unsignalled at any time.  Lower writes of lazy items go
down with `SL_WRITE_THROUGH`, so only deferred requests can be in the lower
device's cache (`unflushed`), and a lower flush or shutdown empties it.
The kind `"query"` is `IOCTL_QCACHE_GET_DEVICE_DATA`, `"pass"` the IOCTLs that ask for
no access and those of the SCSI class, which the lower driver answers: neither
touches the queue.  Successful but short lower transfers are left out.  `Faults` says which failures
the environment may produce: `"pool"` (allocations, MDL mapping), `"memory"`,
`"build"` (the IRPs that
the driver builds for the worker and for the final flush), `"lower"`.  Once the device is
deleted no dispatch step is modelled, since the code would use freed memory; that
the state is reached with threads still inside is what `busy_device` shows.
`Init` is the device that `QCacheAttachDevice` and initialisation leave behind:
size known, caching on, worker running; the early returns of a device of unknown size
(`write.cpp` 8-11, `ioctl.cpp` 10), which pass everything on, are therefore left out.

`Name_Slip` definitions (for example `TakeHead_Pops`) are deliberate mistakes
that the properties must notice; `PROJECT.json` pairs each with a property.

### `WriteBehind`

The promise without mechanism: one order of accepted requests, carried out one at
a time at its head; early ones may be answered with success once they are in the
order, others only with their own outcome.  `WriteQueue!ImplementsWriteBehind`
maps `queue` to `pending`, `lazy` to `early`, the log's items to `accepted`, and
the worker's position after the lower request to `outcome`.

### `ReadPath`

Extends `WriteQueue` with readers.  A reader has a thread (`overlay` → `passed`,
or completed, or `create` → `split` → `drop` → `pending`), its buffer by sector,
and its `SCATTERED_IRP`: `count` (ScatterCount), `bytes` (BytesCompleted), `fail`
(LastFailedStatus).  `Overlay` is the whole region under the spin lock.  Parts
are `flying` below, then `landed` when their completion routine has copied its
data but not yet called `Complete`, and complete in any order, also while the
thread still sends others.  The last `DropReference` completes the read and
releases the remove lock.  The bitmap is abstracted to the set of clear sectors,
the bounce through a lower buffer to the copy it ends in (the target is always
`DO_DIRECT_IO`, `mainwdm.cpp` 882, so `BuildIrp`'s other branch does not occur);
a lower read of one run is one step.  The fault `"scatter"` is an allocation of
this path, `"read"` a lower read that fails.  `known[x]` is history: the
acknowledged writes and the view of every sector when the read arrived.

### `ReadArith`

One read over a queue of writes, in bytes: what `ReadPath` takes for whole
sectors.  `buf` has, for every byte of the buffer, the write it was copied from, or
0 for the content below; `bits` is the bitmap, `runs` the lower reads.
`ReadArrives` is every early return of `QCacheRead`, in its order; `LookAtEntry`
one turn of the loop under the lock, with `BitsOf` rounding as `RtlSetBits` is
called; `ReadRun` one turn of the loop that sends the parts.  `Wrapped` is the
addition of two `LONGLONG`s of a width that `WordMax` gives.  The I/O manager sends
no negative offset.  Every allocation succeeds here, and the worker takes nothing
off the list meanwhile: these are `ReadPath`'s.

### `DriverLoad`

`at` is where `DriverEntry` or `QCacheAttachDevice` is; each step makes one call, or
a few of one kind, that may fail.  `key` and `lowMem` are the global pointers,
`openKeys`, `lowRefs` and `highRefs` what the kernel counts for them, `blocks` the
`WPoolMem` objects of `DriverEntry`, `filters` the devices with their place in the
stack, their worker and their limits.  The low-memory event and its descriptor may
fail without consequence; the key may be missing, then the defaults stand; a
failed allocation or a listed disk that cannot be attached ends in
`QCacheUnload` and an error (`Fail`).  A limit is a sequence of bytes, so that
a registry value shorter or longer than a `LONGLONG` is copied as it is
(`Stored`), or does not fit `reg_value` at all (`Fits`).  The list of disks is walked
by the bytes that are left, in a `USHORT` (`TryName`, `EndOfNames`).

Where the code goes on with undefined values, the model stops at `"wild"`: after an
attachment that returned success without a device to the legacy caller, and behind a
list whose last name has no null (`RunOver`, where the length wraps); both are
described in `docs/KNOWN_ISSUES.md` QC-07.  The PnP manager serialises `AddDevice`,
and the I/O manager unloads a driver only without devices; `RemoveDevice` is
`WriteQueue`'s removal in one step.  A driver that failed to load with disks already
attached keeps them, and is loaded again only when they are gone.

### `PnpDispatch`

A thread carries one `IRP_MJ_PNP` request through `QCachePnp`, or is the
attaching thread in `QCacheInitializeDevice`.  `pc` is where it is; `event[g]` and
`mutex[g]` are the event and the guarded mutex of the two gates, `"paging"`
(`PagingPathCountEvent`, `PagingPathCountMutex`) and `"init"`
(`InitializationEvent`, `InitializationMutex`).  `pagable` is `DO_POWER_PAGABLE` in
the flags of the filter device, `setPagable` the local variable of each
notification, and `pagingPathCount`, `size` and `isCached` are the statistics of
those names.  `lastError` is what the query of the size leaves in `LastErrorCode`; the
worker writes its own error there (`queue.cpp` 308, `BuildFails` of `WriteQueue`),
with the size known, and `ErrorMeansNoSize` does not speak of that.

`AcquireMutex` → `PassGate` → … → `OpenGate` is the gate.  A notification does
`ForwardNotification` inside it (sets the flag, goes down), `LowerAnswers`, and
`FinishNotification` (`TakeOver` or `TakeBack`).  A start goes down first, then
`AfterStart` tests `IsCached` and `Size` outside the gate, and `LookAtSize` and
`QueryAnswered` test and set them inside.  The removal is here only its lock and
the deletion: `WriteQueue` has the rest of it.  A notification for another use
than the three is forwarded, as are the other minor functions: `"other"`.

What the kernel sends (`MayBeSent`): it takes a file off the device only when one
that it put on is left, and it does not overlap starts and removals.  The lower
driver may fail any request.  A failed start still queries the size, as the code
does.

### `ScsiPaging`

The paging notifications of `scsichk`, in terms of `PnpDispatch`: the handler is
the same but for its gate (`ScsiWait`: no mutex, and a notification event, which
a wait does not reset) and its start.

### `ScsiLog`

A request is an IRP that is counted on its way down (`CountIn`), and counted out
and logged by the completion routine (`CountOut`, `Restore`, `TakeLogLock`,
`Link`, `Push`), on any thread.  A read or write is counted only while the
counters are enabled, and only an `IRP_MJ_SCSI` request is logged; on a processor
without counters of its own, or of a device without a name, it may pass uncounted, and
is not logged.  A record is
the request it was made from; its content is left out.  `Enable`, `Disable`,
`EnableAlways` and the steps that follow them switch the counters.  The removal
walks the list with a cursor (`ReadHead`, `WriteRecord`, `Unlink`,
`FreeRecord`), then closes and drains the lock.  `pushed` is history.
`MaxSwitches` bounds how often the counters are switched.  Who switches them does
so one after the other; the control path of the counters is not modelled
concurrently with itself.  Allocations succeed: the code only asserts that a
record was allocated.

### `LogReader`

Extends `ScsiLog` with `scsilog`, which is run when the device is gone.  `lengths`
are the `DataLength`s of the records in the file, chosen when it is mapped since
nobody looks at them before; `capacity` is the size of the view, which the system
may round up to a page of zeros; `at` is the position of the walk.  `ShowRecord`
prints the record at `at`, or a blank one behind the last, or is `"lost"` between
two.  The layout is two numbers: `DataOffset`, up to which the header is written,
and `RecordSize`, the size of the structure that the loop tests for, of which the
header is more than half (`scsichk.h` 3-23: the time, the status and the command
against a byte and the padding).  Of the properties of `ScsiLog` the composition keeps
all; `ReaderShowsLog` goes from the completion routine to the printed line, and
`EarlierRecordsWritten` to the file, for a log that still grows.

## 4. Runs

Safety runs use symmetry in the IRPs (and readers); runs with liveness
(`queue_live`, `reads`, `pnp`) do not.
`CHECK_DEADLOCK FALSE` everywhere: the system stops when every request was
answered and the worker waits for more, or the device is deleted, or the bound on
loads is reached, or the log was shown.

| run | instance | asks |
|---|---|---|
| `queue_order` | 3 IRPs, writes of `{0}` or `{0,1}` and flushes, limit of one item, 2 threads at once, memory and lower failures | types, exact counters, bounded overshoot, order on the disk, no lost write, reads-your-writes, barriers, durable flushes, the view never gets older |
| `queue_removal` | 3 IRPs of every kind, empty and out-of-range writes, pool, build and lower failures, removal | one completion each, no lost wakeup, few writes behind an OFF or shutdown, nothing left at deletion, `WriteBehind` is implemented |
| `queue_live` | 2 IRPs: writes, flushes, queue flushes, queries and IOCTLs passed on; build and pool failures and memory shortage, removal possible | work is retired, requests are answered, removal ends |
| `reads` | one reader of three sectors, two writers of the middle one, one of them inside at a time, allocation and read failures, removal | types, reference count, one completion after the last part, the device stays, reads are as fresh as what was known when they came, every read ends |
| `pnp` | 3 PnP requests of any kind, the attaching thread, two possible sizes, lower failures | flag and count, the size and its error, every request ends |
| `scsi_log` | 3 requests of both kinds, 2 switches of the counters, removal; records with 0 or 2 bytes of data, a view that is exact or rounded up | the list, no null record, the depth, the earlier records written, what the reader prints |
| `read_bytes` | 2 writes and a read, any offset in 0..7 and length in 0..6, blocks of 2 bytes, a device of 3 blocks, a 4-bit word | the range check, where every byte comes from, bitmap and runs |
| `driver_load` | 2 loads, 3 attachments in each, 2 disks, limits of 0 to 4 bytes in a word of 2, lists of 0 to 2 names with 0 to 2 nulls, every failure; a `USHORT` of 4 bits | no half device, nothing held, limits as asked, the list tried to its end |
| `worker_drains`, `busy_device`, `scsi_paging`, `partial_block` | as the runs above | the findings below |

Bounds.  `Irps` bounds the number of requests ever sent; `MaxDispatchers` the
threads at once inside the driver.  Three requests are the fewest with one being
carried out, one behind it and one racing to enter; two sectors give writes that
overlap in part; a limit of one item makes both sides of the admission test and
its race happen.  Three sectors with the middle one cached give the smallest
read with two clear runs, and two writers of it let the worker retire one while
the other enters.  Three
PnP requests are the fewest with a file in use, one being put on and one being
taken off; with the attaching thread, two sizes let two queries disagree.  Three
logged requests make a list with an inner record, and two switches let a reset
meet requests that are below, twice.  `MaxWrites` is two, the fewest that overlap
each other inside a read; blocks of two bytes can be half covered, and the
largest sums wrap in four bits as they do in 64.  `MaxLoads` is two, so that what
a load leaves behind is there in the next; `MaxFilters` is three, so that both
listed disks can be attached and another one by the PnP manager.  `LengthMax` is 15, so
that the longest list is clipped and a length wraps.

Fairness (`WriteQueue!Fairness`).  Weak fairness for every dispatch thread, the
worker, and a removal that began: the scheduler runs ready threads.  Weak
fairness for the lower device: it answers, which the code's unbounded waits rely
on.  Strong fairness for `SendDown`: the worker retries a failed build for ever,
and pool shortages are taken to end; without it `EventuallyRetired` is false (QC-04).
Nothing has to arrive, and no device has to be removed.  `ReadPath` asks the same
of a reader's thread and of the lower reads, `PnpDispatch` of every thread with
the answer it waits for.  A gate needs no strong fairness: who waits for its event
holds its mutex, so nobody else can take the event, and the requests that compete
for the mutex are finitely many and pass it once.

What the liveness properties except: once the worker has left for a removal, what
it left on the list is not carried out, and the removal may then wait for it for
ever; it also waits for ever for a remove lock that was leaked (`Leaked`): a request
whose mapping or payload allocation fails keeps the lock (`queue.cpp` 178-199), as
`docs/KNOWN_ISSUES.md` QC-05 says.  `RemovalEnds` names both.

Turning the cache off is no barrier: a write that passed the test of `IsCached` before
may be queued, and answered early, behind the OFF or the shutdown.  `LateWritesBounded`
says how many: fewer than the threads, as long as nobody turns the cache on again.
`DeletedMeansDrained` says of the cache below only what the final flush can give: if it
was carried out, nothing was written behind it.

## 5. Findings

* `worker_drains` — QC-03 of `docs/KNOWN_ISSUES.md` says the worker is asked "to drain and
  exit".  It looks at the list under the lock and tests `ShutdownThread` after
  releasing it; an item inserted in between is left behind even though it came
  before the exit, acknowledged or not.
* `busy_device` — `qcache.h` 100: "RemoveLock prevents removal of a device while
  it is busy".  A dispatch thread has no lock of its own: before its item takes
  it, and between the worker's release and its own `KeSetEvent`, the device can
  be deleted under it.
* `scsi_paging` — `scsichk.c` 114: the event "must synchronize paging path
  notifications".  It is a notification event that stays signalled, so nothing
  is synchronized: a device can end up with a paging file on it and
  `DO_POWER_PAGABLE` set.  `qcache` has a synchronization event there, and the
  theorem `DeviceInUseIsNotPagable`.
* `partial_block` — `read.cpp` 4 says that the queue is walked first "and only then if
  any ranges left to read" are they read from below.  Writes need not be aligned,
  and the bitmap has whole blocks: of a block that a queued write holds only in
  part the bit is not set (or, after rounding the start down, another's is), and
  the lower read overwrites the bytes that were just copied.  `WholeBlocksExact`
  says that this is all: blocks that no unaligned write reaches into are right.

Also met, without a run of their own:

* Described as defects by `docs/KNOWN_ISSUES.md` itself: the leaked lock above
  (QC-05), the byte count of a mixed read (QC-06), which the model keeps as `bytes`
  and `info`, a lazy write that fails below and is recorded nowhere (QC-02;
  `LowerFails` frees it), and the missing low-memory event (QC-05).
* The removal of `scsichk` walks the list without `LogLock`, and waits for the requests
  below only afterwards.  What they log during the walk or after it may not be written,
  its store to `LogData` may cut it off, and it may lead the walk into a freed record,
  where the model stops (`WriteRecord`).  `EarlierRecordsWritten` says that no more is
  lost: what was there before is written.  `ReaderShowsLog` speaks of logs that do not
  grow during the removal.  The removal also
  frees the counters before it waits (982), and a second device's removal overwrites
  the file of the first.
* `QCacheUnload`, "Free all the allocated resources, etc." (`mainwdm.cpp` 1542), does
  not release the two high-memory events: `highRefs` grows with every load.
* When `DriverEntry` fails at a listed disk, the disks before it stay attached with their
  workers running, over a low-memory event that `QCacheUnload` released.
* `scsilog` tests for a whole structure where only its header was written: it may skip
  a last record with less data than the padding behind `Data`, and prints records of
  zeros when the view was rounded up.

## 6. Proofs

Every safety property of every passing run is a theorem, for every value of the
constants that satisfies the named assumptions of the module: any set of IRPs, disk
size, set of ranges, limits and faults, any number of requests, loads, records and
names, any width of a word and any size of a block.  The assumptions say that a
constant is of its type (finite ranges, numbers are numbers, `None` and `Blank` are
not IRPs, `Unfilled` is not a content), and in `LogReader` the layout above.

| theorem | module | argument |
|---|---|---|
| `TypeCorrect` | `WriteQueueProofs` | inductive by itself |
| `WorkerNeverSleepsOnWork` | `WriteQueueProofs` | `NoLostWakeup` is inductive with the types: an insertion leaves its thread at the signal, and the worker reaches the wait only over an empty list and an unset `ShutdownThread` |
| `ListCorrect` | `WriteQueueProofs` | `ListInv`, see below |
| `WritesReachDiskInOrder` | `WriteQueueProofs` | `DiskInv`: the disk holds nothing from behind the worker's item |
| `ItemsHoldTheLock` | `WriteQueueProofs` | `ItemHoldsLock`, which no run checks: inductive with `ListInv`, and used for the removal |
| `IrpsCompleteOnce` | `WriteQueueProofs` | `CompletedOnce` names the owner of every IRP; inductive with `ListInv` |
| `DeferredRequestsAreBarriers` | `WriteQueueProofs` | from the owner: a completed deferred request is off the list or at its head |
| `WritesAreNotLost` | `DurabilityProofs` | `CommitInv`: what is done is on the disk unless replaced or failed |
| `FlushesAreDurable` | `DurabilityProofs` | `FlushInv`: after a flush is done, only later items enter the lower cache |
| `AcknowledgedWritesAreVisible` | `DurabilityProofs` | `AgeInv`, `ViewInv`, `RefusedInv`: what a reader gets, by its place in the log |
| `ReadersNeverGoBack` | `DurabilityProofs` | an action property, from the same; only `Unlink` of a failed write is excepted |
| `CountersAreExact` | `PromiseProofs` | `AccountInv`: the size is counted as the set of the units that are queued |
| `AdmissionIsBounded` | `PromiseProofs` | `MadeInv` and the exact counters: when a thread passes the test, what was admitted is on the list, which is shorter than the limit, or with a thread |
| `LateWritesAreBounded` | `PromiseProofs` | `OffInv` and `LateInv`: who turned the cache off left it off, so that from its insertion on the lazy writes behind it and those under way only get fewer, and they were other threads than its own |
| `OnlyLostItemsHoldTheLock` | `PromiseProofs` | `HolderInv`: every holder is under way, on the list, with the worker, or lost; `RemoveLockBalanced`, which no run checks |
| `DeletedDevicesAreDrained` | `PromiseProofs` | `DrainInv`: what each stage of the removal has secured |
| `QueueKeepsItsPromise` | `PromiseProofs` | step simulation of `WriteBehind`, see below |
| `ReadTypeCorrect`, `SplitReadsAreCounted`, `SplitReadsKeepTheDevice` | `ReadPathProofs` | `QueueInv` and `ReadInv`: the queue's invariants hold beside any reads, and the count of a split read is the cardinality of its parts |
| `ReadsAreFresh` | `ReadPathProofs` | `HeldInv`, `KnownOK`, `FillOK`, see below |
| `PnpTypeCorrect`, `DeviceInUseIsNotPagable` | `PnpProofs` | `GateInv`, `CountInv`, `FlagInv`, see below |
| `DeviceOutOfUseIsPagable` | `PnpProofs` | `UnusedInv`: the flag of the device without files, and of the notification that takes the last one off |
| `SizeIsQueriedOnce`, `ErrorsOnlyWithoutSize` | `PnpProofs` | `GateInv` and `QueryInv`: who is at the query is alone inside the gate, and the size is still unknown |
| `RangeCheckIsExact` | `ReadArithProofs` | `InRangeIsExact`: a sum that wraps is negative; then `RangeInv`, what was admitted and refused |
| `RunsCoverTheBitmap` | `ReadArithProofs` | `BlocksAddUp`: two parts of a length have no more blocks than it has; `RunsInv`: what was requested is what the search has passed |
| `ReadsReturnTheNewestBytes` | `ReadArithProofs` | `BytesInv`: where every byte comes from after some entries of the list, and after some runs |
| `DriverHoldsNothing` | `DriverProofs` | `HeldInv`: key, event and memory by the place of `DriverEntry`; one lemma for each way out |
| `DevicesAreWhole` | `DriverProofs` | `DeviceInv`: all devices but the last are complete or gone, and what the last one has by the step of its attachment |
| `LoadTypesHold`, `WholeListIsTried` (`ListIsTried`) | `DriverProofs` | `PlacesInv`; `TriedInv`: the length that is left is that of the names behind those that were tried |
| `RegistryIsHeeded` (`LimitsAsAsked`) | `DriverProofs` | `LimitsInv`: the bytes of every device's limits; `StoredNumber`: the low bytes of a number are its remainder |
| `DriverIsConfigured` | `DriverProofs` | `ConfiguredAsAsked`, the conjunction of `ListIsTried` and `LimitsAsAsked` |
| `LogTypesHold`, `LogKeepsEveryRecord` | `ScsiProofs` | `LockInv`, `PushedInv`, `ChainInv`: the record about to be pushed is linked to the present head |
| `DepthRecovers` | `ScsiProofs` | `DepthInv`: each thread inside its decrement accounts for one below zero |
| `ReaderShowsTheLog` | `ScsiProofs` | `WalkInv`: file and list are together the log; `ShownInv`: the walk is at the end of the last record that it printed |
| `EarlierRecordsAreWritten` | `ScsiProofs` | `RestInv`: from every pointer that the walk may still follow it comes to its end only through the earlier records that are left |

**The order of the list.**  None of the properties about order is inductive as it
stands: each says something of *the list* after `RemoveEntryList`, which takes out the
item the worker carries, wherever it may be.  The strengthening is `ListInv`: no request is
in the log twice (the thread of a logged request is past its insertion, so it
cannot insert again); the list is the log without its first `Retired` entries; the
worker's item, while it carries one, is the head, and after `Unlink` the last
entry that left.  From it `QueuedLemma` turns "is on the list" into a comparison
with `Retired`, and every later invariant is about positions in the log.

**What readers get.**  `Age` is the position in the log of the write that a sector's
content comes from.  `ViewInv` says that a reader is given the newest hit in the list,
or the disk where there is none.  A content is `Settled` when no reader of the
sector may miss it any more, and stays settled; from this both properties follow: of
what was acknowledged nothing is missed, and no step makes the view older.  A read
looks at the list once and at the disk later, in parts.  `KnownOK` says that what was
known when it arrived is settled, and `FillOK` that every sector of its buffer is
either `Recent`, at least as new as all that was known, or still awaited from below,
where by `HeldInv` the disk cannot have become older.

**The refinement.**  The initial state maps to the initial state of `WriteBehind`, and
each step of `Next` to one of its steps or to none: the insertion accepts, `Signal`
answers early, the lower answer or `PassMarker` carries out, `CompleteIrp` answers
with the outcome, `Unlink` retires, everything else stutters.  It rests on `PromiseInv`:
the list and the owners of its requests, when an item is marked as a lazy one
(`MadeInv`), that who signals has inserted (`SignalInv`), that only what was carried
out can have failed (`FailInv`), and that a deferred item is completed with its own
outcome (`StatusInv`).

**The gates.**  The flag property of `PnpDispatch` relates what the kernel did, a number
of requests, to a flag that one of them is about to change.  `GateInv` says that at
most one thread is inside each gate, and that the event is not signalled then.
`CountInv` says that the count is the number of notifications that put a file on and
were counted, less those that took one off, and that no more are being taken off than
were put on.  `FlagInv` says what the flag is for each count and each position of the
thread inside the gate: with a count above zero the device is pagable only while the
last file is being taken off, which the kernel then no longer uses.  The requests are
any finite set.

**Loading.**  `NoHalfDevice` and `UnloadedHoldsNothing` say what a failure leaves behind
and not what there was to undo.  `DeviceInv` and `HeldInv` add that, for every step, so
that each undoing is seen to undo exactly it.

**The log and its reader.**  `WalkInv` holds when nothing was logged since the removal
began: the file has the latest records in reverse, `LogData` is the head of the
others, and the others are still chained.  `ShownInv` needs of the layout that two
headers are no shorter than a structure: otherwise the loop could stop two records
before the end.

When others log during the removal, `RestInv` numbers the earlier records by their age
and keeps that the first `m` of them are still to be written.  A record can be lost from
the list, but only one that was pushed meanwhile: `LogData`, the record that the removal
holds and every later one lead to the newest of the `m`, which is the only earlier record
that the walk can meet without entering a freed one.

Induction without the library's induction theorems, which have an operator parameter
the provers cannot instantiate: a set of numbers that has with every number a smaller
one is empty (`NoLeastElement`, from `WFMin`, whose parameters are sets).  With the set
of the counterexamples this is an induction over any formula, also for the existence
of a function that is defined recursively (`EndsLemma`, `PowersLemma`, `LowsLemma`); and
maxima and minima come from `WFMin` directly.  Sums over the list and over a set of
names (`QueueAccounting`, `ListBytes`) are stated as the cardinality of a union of
intervals, one for each item, which the library's facts on finite sets add up.

The invariants of the queue, of the log and its reader, and of the limits were checked
with TLC on the instances of the runs before they were proved.

Only model-checked: `EventuallyRetired`, `EventuallyAnswered`, `RemovalEnds`,
`ReadsEnd` and `PnpRequestsEnd`, since TLAPS does not prove liveness under fairness;
and the four findings, which are counterexamples.

## 7. What is not modelled

`PROJECT.json` lists every component with its status.  Left out for good: device and
symbolic link names, statistics that only a query reads, the WMI and boiler-plate
code of `scsichk`, `qcachecmd` (one control code, without a state of its own), and
the name tables of `scsilog` (data).  Of the modelled parts: the symbolic link that
the worker creates once, wording of debug output, power IRPs (forwarded), the
dispatch table (constant), short lower transfers, the lifetime of the stack slot that
`IoBuildSynchronousFsdRequest` is given (QC-02), and whatever follows a use of
undefined or freed memory, which are below the level of the models.
