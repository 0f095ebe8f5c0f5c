----------------------------- MODULE WriteQueue -----------------------------
(***************************************************************************)
(* The write queue of one filtered device of the qcache driver: the        *)
(* dispatch threads that run QCacheQueueIrp (queue.cpp), the worker thread *)
(* that drains the list (thread.cpp, QCacheDispatchQueuedItem), the device *)
(* below it, and QCacheRemoveDevice (mainwdm.cpp).                         *)
(*                                                                         *)
(* A request is identified with the IRP that carries it, and a queue item  *)
(* with the IRP it was made for.  A sector holds the IRP that last wrote   *)
(* it.  A step is one region of code that no other thread can observe half *)
(* done: what runs under WriteQueueLock, or up to the next access of       *)
(* shared state.                                                           *)
(*                                                                         *)
(* A definition Name_Slip is Name with a plausible mistake in the code; it *)
(* is there only to see that a property notices the mistake.               *)
(***************************************************************************)
EXTENDS Integers, FiniteSets, SequencesExt

CONSTANTS
  Irps,            \* the requests that upper drivers may send
  Size,            \* Statistics.Size, in sectors
  Ranges,          \* the sector ranges that a write may name
  Kinds,           \* the kinds of request that arrive
  MaxQueueItems,   \* Statistics.MaxQueueItems
  MaxQueueSize,    \* Statistics.MaxQueueSize
  ItemSize,        \* sizeof(WRITE_QUEUE_ITEM), in the unit of a sector
  MaxDispatchers,  \* bound: threads at once inside the dispatch routines
  Faults,          \* the faults that the environment may produce
  None             \* the content of a sector that was never written

AllKinds   == {"write", "flush", "shutdown", "on", "off", "qflush", "query", "control",
               "pass"}
FaultKinds == {"pool", "memory", "build", "lower", "read", "scatter"}
Sectors    == 0 .. Size - 1

ASSUME IrpsAssumption   == IsFiniteSet(Irps) /\ None \notin Irps
ASSUME SizeAssumption   == Size \in Nat \ {0}
ASSUME RangesAssumption == \A g \in Ranges : g \subseteq Int /\ IsFiniteSet(g)
ASSUME KindsAssumption  == Kinds \subseteq AllKinds
ASSUME LimitsAssumption == /\ MaxQueueItems \in Int /\ MaxQueueSize \in Int
                           /\ ItemSize \in Nat \ {0}
                           /\ MaxDispatchers \in Nat \ {0}
ASSUME FaultsAssumption == Faults \subseteq FaultKinds

VARIABLES
  pc,              \* where the thread that dispatches each IRP is
  req,             \* kind and range of each IRP
  lazy,            \* IRPs whose item was made by QCacheQueueLazyWriteIrp
  status,          \* Irp->IoStatus.Status
  completions,     \* how often IoCompleteRequest ran for each IRP
  queue,           \* WriteQueue, the items from Flink on
  wqItems,         \* Statistics.WriteQueueItems
  wqSize,          \* Statistics.WriteQueueSize
  isCached,        \* Statistics.IsCached
  lowMem,          \* QCacheLowMemCondition, a notification event
  lastError,       \* whether Statistics.LastErrorCode was set
  event,           \* WriteQueueEvent, an auto-reset event
  wpc,             \* where the worker thread is
  witem,           \* the item it carries out
  shutdownThread,  \* ShutdownThread
  rpc,             \* how far the removal of the device is
  holders,         \* RemoveLock: the tags that hold it
  removed,         \* RemoveLock: further acquisitions are refused
  disk,            \* what the lower device returns for each sector
  unflushed,       \* deferred requests done since the lower device last flushed
  log,             \* history: every item ever queued, in order of insertion
  failed,          \* history: items whose lower request failed
  flushed          \* history: whether the final flush was carried out

irpVars    == <<pc, req, lazy, status, completions>>
listVars   == <<queue, wqItems, wqSize, log>>
flagVars   == <<isCached, lowMem, lastError>>
removeVars == <<rpc, shutdownThread, removed, flushed>>
diskVars   == <<disk, unflushed, failed>>
vars == <<irpVars, listVars, flagVars, wpc, witem, removeVars, diskVars, event,
          holders>>

\* What a dispatch thread, and what the worker, never changes
threadFrame == <<wpc, witem, removeVars, diskVars, lastError>>
workerFrame == <<pc, req, lazy, log, isCached, lowMem, removeVars>>

LazyKinds   == {"write", "flush"}     \* IRP_MJ_WRITE, IRP_MJ_FLUSH_BUFFERS
FlushKinds  == {"flush", "shutdown"}  \* make the lower device flush its cache
MarkerKinds_Flush == {"off", "qflush", "flush"}
MarkerKinds == {"off", "qflush"}      \* IOCTL_QCACHE_OFF, IOCTL_QCACHE_FLUSH

Requests == [kind : Kinds \cap {"write"}, range : Ranges]
              \cup [kind : Kinds \ {"write"}, range : {{}}]

Queued      == ToSet(queue)
Attached    == rpc # "deleted"
Dispatching == {r \in Irps : pc[r] \notin {"idle", "returned"}}

\* sizeof(*item) + item->Length; a deferred item keeps the Length 0 that the
\* zeroing allocator gave it
ItemBytes(r) == ItemSize + IF r \in lazy THEN Cardinality(req[r].range) ELSE 0

Init ==
  /\ pc = [r \in Irps |-> "idle"]
  /\ req = [r \in Irps |-> [kind |-> "control", range |-> {}]]
  /\ lazy = {}
  /\ status = [r \in Irps |-> "none"]
  /\ completions = [r \in Irps |-> 0]
  /\ queue = <<>> /\ wqItems = 0 /\ wqSize = 0 /\ log = <<>>
  /\ isCached = TRUE /\ lowMem = FALSE /\ lastError = FALSE
  /\ event = FALSE
  /\ wpc = "look" /\ witem = None
  /\ rpc = "idle" /\ shutdownThread = FALSE
  /\ holders = {} /\ removed = FALSE
  /\ disk = [s \in Sectors |-> None] /\ unflushed = {} /\ failed = {}
  /\ flushed = FALSE

-----------------------------------------------------------------------------
(* Dispatch threads                                                        *)

Goto(r, where) == pc' = [pc EXCEPT ![r] = where]

\* Irp->IoStatus.Status = st; IoCompleteRequest(Irp); return st
CompleteAndReturn(r, st) ==
  /\ status' = [status EXCEPT ![r] = st]
  /\ completions' = [completions EXCEPT ![r] = @ + 1]
  /\ Goto(r, "returned")

At(r, where) == Attached /\ pc[r] \in where

Arrive(r, q) ==
  /\ At(r, {"idle"})
  /\ Cardinality(Dispatching) < MaxDispatchers
  /\ req' = [req EXCEPT ![r] = q]

\* An empty write succeeds at once, one past the end fails; a query of the statistics
\* needs a buffer for them.  IOCTLs that ask for no access, and those of the SCSI
\* class, pass to the lower driver, which answers them.
AnswerAtOnce(r, q) ==
  /\ Arrive(r, q)
  /\ \/ q.kind = "write" /\ q.range = {} /\ CompleteAndReturn(r, "SUCCESS")
     \/ /\ q.kind = "write" /\ ~(q.range \subseteq Sectors)
        /\ CompleteAndReturn(r, "END_OF_MEDIA")
     \/ /\ q.kind = "query"
        /\ \E st \in {"SUCCESS", "BUFFER_TOO_SMALL"} : CompleteAndReturn(r, st)
     \/ /\ q.kind = "pass"
        /\ \E st \in {"SUCCESS", "IO_ERROR"} : CompleteAndReturn(r, st)
  /\ UNCHANGED <<lazy, listVars, isCached, lowMem, event, holders, threadFrame>>

\* IOCTL_QCACHE_ON
TurnOn(r, q) ==
  /\ Arrive(r, q)
  /\ q.kind = "on"
  /\ isCached' = TRUE
  /\ CompleteAndReturn(r, "SUCCESS")
  /\ UNCHANGED <<lazy, listVars, lowMem, event, holders, threadFrame>>

\* IOCTL_QCACHE_OFF and QCacheShutdown
TurnsOff_NotShutdown(kind) == kind = "off"
TurnsOff(kind)             == kind \in {"off", "shutdown"}

\* The other requests reach QCacheQueueIrp, which reads IsCached first; what turns it
\* off does so before the call.
EnterQueueIrp(r, q) ==
  /\ Arrive(r, q)
  /\ q.kind \notin {"on", "query", "pass"}
  /\ q.kind = "write" => q.range # {} /\ q.range \subseteq Sectors
  /\ isCached' = (isCached /\ ~TurnsOff(q.kind))
  /\ Goto(r, IF isCached /\ q.kind \in LazyKinds THEN "limits" ELSE "defer")
  /\ UNCHANGED <<lazy, status, completions, listVars, lowMem, event, holders,
                 threadFrame>>

\* The test of the limits, outside WriteQueueLock
BelowLimits_OffByOne == wqSize < MaxQueueSize /\ wqItems <= MaxQueueItems
BelowLimits          == wqSize < MaxQueueSize /\ wqItems < MaxQueueItems

AdmitLazily(r) ==
  /\ At(r, {"limits"})
  /\ BelowLimits
  /\ lowMem' = FALSE
  /\ Goto(r, "lazy")
  /\ UNCHANGED <<req, lazy, status, completions, listVars, isCached, event,
                 holders, threadFrame>>

\* The limits are reached, or a kernel high-memory event is not signalled.
Decline(r) ==
  /\ At(r, {"limits"})
  /\ ~BelowLimits \/ "memory" \in Faults
  /\ lowMem' = TRUE
  /\ Goto(r, "defer")
  /\ UNCHANGED <<req, lazy, status, completions, listVars, isCached, event,
                 holders, threadFrame>>

\* IoAcquireRemoveLock(item->RemoveLock, item)
AcquireLock(r) == ~removed /\ holders' = holders \cup {r}

\* There is no memory for the item, or the lock is refused.
NoItem(r) ==
  /\ At(r, {"lazy", "defer"})
  /\ \/ "pool" \in Faults /\ CompleteAndReturn(r, "INSUFFICIENT_RESOURCES")
     \/ removed /\ CompleteAndReturn(r, "DELETE_PENDING")
  /\ UNCHANGED <<req, lazy, listVars, isCached, lowMem, event, holders,
                 threadFrame>>

\* The lock is acquired, then the MDL cannot be mapped or the copy cannot be
\* allocated: the request fails and nothing releases the lock.
NoBuffer(r) ==
  /\ At(r, {"lazy"}) /\ req[r].kind = "write"
  /\ AcquireLock(r)
  /\ "pool" \in Faults /\ CompleteAndReturn(r, "INSUFFICIENT_RESOURCES")
  /\ UNCHANGED <<req, lazy, listVars, isCached, lowMem, event, threadFrame>>

MakeItem(r) ==
  /\ At(r, {"lazy", "defer"})
  /\ AcquireLock(r)
  /\ lazy' = IF pc[r] = "lazy" THEN lazy \cup {r} ELSE lazy
  /\ Goto(r, "insert")
  /\ UNCHANGED <<req, status, completions, listVars, isCached, lowMem, event,
                 threadFrame>>

\* Under WriteQueueLock: the list and the two counters
InsertList_Head(r) == queue' = <<r>> \o queue
InsertList(r)      == queue' = Append(queue, r)   \* InsertTailList

Insert(r) ==
  /\ At(r, {"insert"})
  /\ InsertList(r)
  /\ wqSize' = wqSize + ItemBytes(r) /\ wqItems' = wqItems + 1
  /\ log' = Append(log, r)
  /\ Goto(r, "signal")
  /\ UNCHANGED <<req, lazy, status, completions, isCached, lowMem, event,
                 holders, threadFrame>>

\* KeSetEvent; then a lazy request is completed, a deferred one stays with the
\* worker and the thread returns STATUS_PENDING
SetEvent_LazyOnly(r) == event' = (event \/ r \in lazy)
SetEvent(r)          == event' = TRUE

Signal(r) ==
  /\ At(r, {"signal"})
  /\ SetEvent(r)
  /\ IF r \in lazy THEN CompleteAndReturn(r, "SUCCESS")
     ELSE Goto(r, "returned") /\ UNCHANGED <<status, completions>>
  /\ UNCHANGED <<req, lazy, listVars, isCached, lowMem, holders, threadFrame>>

Dispatch(r) == \E q \in Requests :
  AnswerAtOnce(r, q) \/ TurnOn(r, q) \/ EnterQueueIrp(r, q)

Continue(r) == \/ AdmitLazily(r) \/ Decline(r) \/ NoItem(r) \/ NoBuffer(r)
               \/ MakeItem(r) \/ Insert(r) \/ Signal(r)

-----------------------------------------------------------------------------
(* The worker thread and the lower device                                  *)

WGoto(from, to) == wpc = from /\ wpc' = to

\* Under WriteQueueLock: request = WriteQueue.Flink
TakeHead_ListHead      == witem' = None /\ UNCHANGED queue
TakeHead_Pops          == witem' = Head(queue) /\ queue' = Tail(queue)
TakeHead_DeferredFirst == /\ UNCHANGED queue
                          /\ witem' = IF Queued \subseteq lazy THEN Head(queue)
                                      ELSE CHOOSE r \in Queued : r \notin lazy
TakeHead               == witem' = Head(queue) /\ UNCHANGED queue

LookAtHead ==
  /\ \/ queue = <<>> /\ WGoto("look", "empty") /\ UNCHANGED <<queue, witem>>
     \/ queue # <<>> /\ WGoto("look", "item") /\ TakeHead
  /\ UNCHANGED <<wqItems, wqSize, status, completions, lastError, diskVars,
                 event, holders, workerFrame>>

\* ShutdownThread is read after the lock is released
CheckShutdown_ResetEvent ==
  /\ WGoto("empty", IF shutdownThread THEN "exited" ELSE "wait")
  /\ event' = (event /\ shutdownThread)
  /\ UNCHANGED <<queue, wqItems, wqSize, status, completions, lastError, witem,
                 diskVars, holders, workerFrame>>
CheckShutdown ==
  /\ WGoto("empty", IF shutdownThread THEN "exited" ELSE "wait")
  /\ UNCHANGED <<queue, wqItems, wqSize, status, completions, lastError, witem,
                 diskVars, event, holders, workerFrame>>

WakeUp ==
  /\ WGoto("wait", "look")
  /\ event /\ event' = FALSE
  /\ UNCHANGED <<queue, wqItems, wqSize, status, completions, lastError, witem,
                 diskVars, holders, workerFrame>>

IsMarker == witem \notin lazy /\ req[witem].kind \in MarkerKinds

\* The status of a lower request reaches the original IRP, if the item has it.
SetStatus_Success(st) ==
  status' = IF witem \in lazy THEN status ELSE [status EXCEPT ![witem] = "SUCCESS"]
SetStatus(st) ==
  status' = IF witem \in lazy THEN status ELSE [status EXCEPT ![witem] = st]

\* The two private IOCTLs succeed without a lower request
PassMarker ==
  /\ WGoto("item", "complete")
  /\ IsMarker
  /\ SetStatus("SUCCESS")
  /\ UNCHANGED <<queue, wqItems, wqSize, completions, lastError, witem, diskVars,
                 event, holders, workerFrame>>

\* IoCallDriver with the original IRP, or with one built for a lazy item
SendDown ==
  /\ WGoto("item", "lower")
  /\ ~IsMarker
  /\ UNCHANGED <<queue, wqItems, wqSize, status, completions, lastError, witem,
                 diskVars, event, holders, workerFrame>>

\* IoBuildSynchronousFsdRequest fails: the item stays at the head
BuildFails ==
  /\ WGoto("item", "look")
  /\ witem \in lazy /\ "build" \in Faults
  /\ lastError' = TRUE
  /\ UNCHANGED <<queue, wqItems, wqSize, status, completions, witem, diskVars,
                 event, holders, workerFrame>>

\* The sectors of the lower device after it wrote part of an item
Written(r, part) == [s \in Sectors |-> IF s \in part THEN r ELSE disk[s]]

\* The lower device carries the request out.  Lazy writes go down with
\* SL_WRITE_THROUGH, so only a deferred one may stay in the device's cache.
LowerSucceeds ==
  /\ WGoto("lower", "complete")
  /\ disk' = Written(witem, req[witem].range)
  /\ unflushed' = IF req[witem].kind \in FlushKinds THEN {}
                  ELSE unflushed \cup ({witem} \ lazy)
  /\ SetStatus("SUCCESS")
  /\ UNCHANGED <<queue, wqItems, wqSize, completions, lastError, witem, failed,
                 event, holders, workerFrame>>

\* ... or fails it after any part of it.  Only an original IRP carries the
\* error on: the status of a lazy write is not looked at.
LowerFails ==
  /\ WGoto("lower", "complete")
  /\ "lower" \in Faults
  /\ \E part \in SUBSET req[witem].range : disk' = Written(witem, part)
  /\ failed' = failed \cup {witem}
  /\ SetStatus("IO_ERROR")
  /\ UNCHANGED <<queue, wqItems, wqSize, completions, lastError, witem, unflushed,
                 event, holders, workerFrame>>

\* IoCompleteRequest for an item that carries its IRP
CompleteIrp_Always ==
  /\ WGoto("complete", "unlink")
  /\ completions' = [completions EXCEPT ![witem] = @ + 1]
  /\ UNCHANGED <<queue, wqItems, wqSize, status, lastError, witem, diskVars,
                 event, holders, workerFrame>>
CompleteIrp ==
  /\ WGoto("complete", "unlink")
  /\ completions' = IF witem \in lazy THEN completions
                    ELSE [completions EXCEPT ![witem] = @ + 1]
  /\ UNCHANGED <<queue, wqItems, wqSize, status, lastError, witem, diskVars,
                 event, holders, workerFrame>>

\* Under WriteQueueLock: the counters and RemoveEntryList
RemoveEntry_Last == queue' = Front(queue)
RemoveEntry      == \E i \in DOMAIN queue :
  queue[i] = witem /\ queue' = RemoveAt(queue, i)

Unlink ==
  /\ WGoto("unlink", "release")
  /\ wqSize' = wqSize - ItemBytes(witem) /\ wqItems' = wqItems - 1
  /\ RemoveEntry
  /\ UNCHANGED <<status, completions, lastError, witem, diskVars, event, holders,
                 workerFrame>>

\* IoReleaseRemoveLock; delete Item
ReleaseLock == holders' = holders \ {witem}

ReleaseItem ==
  /\ WGoto("release", "look")
  /\ ReleaseLock
  /\ UNCHANGED <<queue, wqItems, wqSize, status, completions, lastError, witem,
                 diskVars, event, workerFrame>>

LowerDevice == LowerSucceeds \/ LowerFails

Worker == \/ LookAtHead \/ CheckShutdown \/ WakeUp
          \/ PassMarker \/ SendDown \/ BuildFails
          \/ CompleteIrp \/ Unlink \/ ReleaseItem

-----------------------------------------------------------------------------
(* QCacheRemoveDevice, QCacheCleanupDevice                                 *)

RGoto(from, to) ==
  /\ rpc = from /\ rpc' = to
  /\ UNCHANGED <<irpVars, listVars, lowMem, lastError, wpc, witem, disk, failed,
                 holders>>

BeginRemove ==
  /\ RGoto("idle", "cleanup")
  /\ isCached' = FALSE
  /\ UNCHANGED <<shutdownThread, removed, unflushed, flushed, event>>

RequestExit ==
  /\ RGoto("cleanup", "signal")
  /\ shutdownThread' = TRUE
  /\ UNCHANGED <<isCached, removed, unflushed, flushed, event>>

WakeWorker_NoEvent ==
  /\ RGoto("signal", "join")
  /\ UNCHANGED <<isCached, shutdownThread, removed, unflushed, flushed, event>>
WakeWorker ==
  /\ RGoto("signal", "join")
  /\ event' = TRUE
  /\ UNCHANGED <<isCached, shutdownThread, removed, unflushed, flushed>>

JoinWorker ==
  /\ RGoto("join", "flush")
  /\ wpc = "exited"
  /\ UNCHANGED <<isCached, shutdownThread, removed, unflushed, flushed, event>>

\* The final flush.  There may be no memory for its IRP, or the lower device fails
\* it: either is only printed, and the removal goes on.
FinalFlush ==
  /\ RGoto("flush", "forward")
  /\ \/ unflushed' = {} /\ flushed' = TRUE
     \/ {"build", "lower"} \cap Faults # {} /\ UNCHANGED <<unflushed, flushed>>
  /\ UNCHANGED <<isCached, shutdownThread, removed, event>>

\* The removal IRP goes down; IoReleaseRemoveLockAndWait closes the lock ...
CloseLock ==
  /\ RGoto("forward", "drain")
  /\ removed' = TRUE
  /\ UNCHANGED <<isCached, shutdownThread, unflushed, flushed, event>>

\* ... and waits for every holder; then the device is detached and deleted
LockDrained_NoWait == TRUE
LockDrained        == holders = {}

DeleteDevice ==
  /\ RGoto("drain", "deleted")
  /\ LockDrained
  /\ UNCHANGED <<isCached, shutdownThread, removed, unflushed, flushed, event>>

Remover == \/ BeginRemove \/ RequestExit \/ WakeWorker \/ JoinWorker
           \/ FinalFlush \/ CloseLock \/ DeleteDevice

-----------------------------------------------------------------------------
AttachedNext == \/ \E r \in Irps : Dispatch(r) \/ Continue(r)
                \/ Worker \/ LowerDevice

Next == AttachedNext \/ Remover

Spec == Init /\ [][Next]_vars

\* Every thread that can go on does, a removal that began does too, the lower
\* device answers, and pool shortages end, so that a build that is retried for
\* ever succeeds.  Nothing has to arrive and no device has to be removed.
Fairness == /\ \A r \in Irps : WF_vars(Continue(r))
            /\ WF_vars(Worker) /\ SF_vars(SendDown) /\ WF_vars(LowerDevice)
            /\ WF_vars(Remover /\ rpc # "idle")

FairSpec == Spec /\ Fairness

\* The device stays attached
AttachedSpec == Init /\ [][AttachedNext]_vars

-----------------------------------------------------------------------------
(* Properties                                                              *)

Pcs   == {"idle", "limits", "lazy", "defer", "insert", "signal", "returned"}
WPcs  == {"look", "empty", "wait", "item", "lower", "complete", "unlink",
          "release", "exited"}
RPcs  == {"idle", "cleanup", "signal", "join", "flush", "forward", "drain",
          "deleted"}
Statuses == {"none", "SUCCESS", "END_OF_MEDIA", "INSUFFICIENT_RESOURCES",
             "DELETE_PENDING", "IO_ERROR", "BUFFER_TOO_SMALL"}

\* The types of all but the remove lock, which requests of other kinds may hold too
QueueTypeOK ==
  /\ pc \in [Irps -> Pcs]
  /\ req \in [Irps -> Requests \cup {[kind |-> "control", range |-> {}]}]
  /\ lazy \subseteq Irps
  /\ status \in [Irps -> Statuses]
  /\ completions \in [Irps -> Nat]
  /\ queue \in Seq(Irps) /\ log \in Seq(Irps)
  /\ wqItems \in Int /\ wqSize \in Int
  /\ isCached \in BOOLEAN /\ lowMem \in BOOLEAN /\ lastError \in BOOLEAN
  /\ event \in BOOLEAN
  /\ wpc \in WPcs
  /\ witem \in Irps \cup {None}
  /\ wpc \in {"item", "lower", "complete", "unlink", "release"} => witem \in Irps
  /\ shutdownThread \in BOOLEAN /\ rpc \in RPcs
  /\ removed \in BOOLEAN
  /\ disk \in [Sectors -> Irps \cup {None}]
  /\ unflushed \subseteq Irps /\ failed \subseteq Irps /\ flushed \in BOOLEAN

\* The variables stay in their types.
TypeOK == QueueTypeOK /\ holders \subseteq Irps

\* WriteQueueItems and WriteQueueSize, which admission reads without the lock,
\* are at all times the length of the list and the memory of its items, which
\* is counted here unit by unit.
QueueMemory == UNION {{r} \X (1 .. ItemBytes(r)) : r \in Queued}

QueueAccounting == wqItems = Len(queue) /\ wqSize = Cardinality(QueueMemory)

\* The worker never sleeps on work: while it has seen the list empty, either
\* the list is empty, or WriteQueueEvent is set or a thread that inserted is
\* about to set it; nor does it sleep through the request to exit.
NoLostWakeup ==
  /\ wpc \in {"empty", "wait"} /\ queue # <<>> =>
       event \/ \E r \in Irps : pc[r] = "signal"
  /\ wpc = "wait" /\ shutdownThread => event \/ rpc = "signal"

\* The limits are tested outside the lock, so racing threads may pass them
\* together; the overshoot is bounded by the threads that can race.
Admitted == {r \in Irps : \/ pc[r] = "lazy"
                          \/ r \in lazy /\ (pc[r] = "insert" \/ r \in Queued)}

AdmissionBound ==
  Admitted # {} => Cardinality(Admitted) < MaxQueueItems + MaxDispatchers

\* Who has to complete an IRP: the sender or the thread that dispatches it,
\* until that thread completes it or leaves it on the list for the worker.
OwnedByThread(r) == /\ pc[r] # "returned"
                    /\ pc[r] = "signal" => r \in lazy
OwnedByWorker(r) == /\ r \in Queued \ lazy
                    /\ ~(wpc = "unlink" /\ witem = r)

\* Every IRP has exactly one owner until it is completed, and is completed
\* once, over the early, the deferred and every error path.
CompletedOnce == \A r \in Irps :
  completions[r] = IF OwnedByThread(r) \/ OwnedByWorker(r) THEN 0 ELSE 1

\* An item on its way into the list, on it, or in the worker's hands holds the
\* remove lock.  DeletedMeansDrained rests on it.
ItemHoldsLock ==
  {r \in Irps : pc[r] = "insert"} \cup Queued
    \cup (IF wpc = "release" THEN {witem} ELSE {}) \subseteq holders

\* The device is deleted only when the worker is gone, no item is queued or
\* about to be; and if the final flush was carried out, nothing is left in the cache
\* of the lower device: no write goes there after it.  mainwdm.cpp 1195-1235
DeletedMeansDrained == ~Attached =>
  /\ wpc = "exited" /\ queue = <<>>
  /\ \A r \in Irps : pc[r] # "insert"
  /\ flushed => unflushed = {}

\* The lower device never holds a write while a request that entered the list
\* before it is still pending: writes reach it in list order.
WrittenInOrder == \A s \in Sectors : \A i, j \in DOMAIN log :
  i < j /\ disk[s] = log[j] => log[i] \notin Queued

\* A write that left the list without a lower failure is on the lower device,
\* unless a later one replaced it: an acknowledged write is never dropped.
NoLostWrite == \A i \in DOMAIN log : \A s \in req[log[i]].range :
  log[i] \notin Queued \cup failed =>
    \E j \in DOMAIN log : j >= i /\ disk[s] = log[j]

\* When a deferred request is completed, everything queued before it has left
\* the list: deferred requests are barriers.
DeferredIsBarrier == \A i, j \in DOMAIN log :
  i < j /\ log[j] \notin lazy /\ completions[log[j]] > 0
    => log[i] \notin Queued

\* A deferred flush or shutdown that succeeds leaves no earlier write, lazy or
\* not, in the queue or in the lower device's cache.
FlushIsDurable == \A i, j \in DOMAIN log :
  /\ i < j /\ log[j] \notin lazy /\ req[log[j]].kind \in FlushKinds
  /\ completions[log[j]] > 0 /\ status[log[j]] = "SUCCESS"
  => log[i] \notin Queued \cup unflushed

\* The content of a sector as QCacheRead assembles it: the newest lazy write
\* on the list that covers the sector (a deferred item has Length 0 and covers
\* none), else what the lower device returns.
Hits(s) == {i \in DOMAIN queue : queue[i] \in lazy /\ s \in req[queue[i]].range}
View_OldestWins(s) == IF Hits(s) = {} THEN disk[s] ELSE queue[Min(Hits(s))]
View(s) == IF Hits(s) = {} THEN disk[s] ELSE queue[Max(Hits(s))]

\* How recent a content is: its place in the list order, 0 for None
Age(w) == Max({0} \cup {i \in DOMAIN log : log[i] = w})

\* Writes that were answered with success and that the lower device did not fail
FinishedWrites == {r \in Irps \ failed : /\ completions[r] > 0
                                         /\ status[r] = "SUCCESS"
                                         /\ req[r].kind = "write"}

\* Read your writes: what a reader would now get for a sector is at least as
\* new as every write of it that was acknowledged, early or not.
AcknowledgedVisible == \A r \in FinishedWrites : \A s \in req[r].range :
  Age(View(s)) >= Age(r)

\* Draining the queue never makes a reader go back to older content, but for
\* the moment a write that failed below is dropped.
ViewNeverOlder ==
  [][\A s \in Sectors : \/ Age(View(s))' >= Age(View(s))
                        \/ Unlink /\ witem \in failed]_vars

\* The requests that ran out of memory with the remove lock, and will never release it
\* (docs/KNOWN_ISSUES.md QC-05)
Leaked == {r \in holders : status[r] = "INSUFFICIENT_RESOURCES"}

\* When nothing is in flight, nothing holds the remove lock any more, but for the
\* requests that leaked it.
\* queue.cpp 61, 149-199, 360, every path between acquisition and release
RemoveLockBalanced ==
  Dispatching = {} /\ queue = <<>> /\ wpc # "release" => holders \subseteq Leaked

\* Turning the cache off is no barrier for the writes that were admitted before: they
\* may be queued, and answered, behind the OFF or the shutdown.  But as long as nobody
\* turns it on, they are fewer than the threads that can be under way.
\* ioctl.cpp 57-60, write.cpp 67-77, queue.cpp 20-23
Behind(r) == {w \in lazy : \E i, j \in DOMAIN log : i < j /\ log[i] = r /\ log[j] = w}

LateWritesBounded == \A r \in ToSet(log) :
  req[r].kind \in {"off", "shutdown"} /\ (\A x \in Irps : req[x].kind # "on")
    => Cardinality(Behind(r)) < MaxDispatchers

\* Claims of the repository's text that the code does not keep:
\* the worker leaves only when the list is drained (docs/KNOWN_ISSUES.md:39) ...
WorkerDrains == [][wpc # "exited" /\ wpc' = "exited" => queue = <<>>]_vars

\* ... the remove lock prevents the removal of a device while it is busy
\* (qcache.h:100).
BusyKeepsDevice == Dispatching # {} => Attached

\* Work on the list is carried out and every request is answered, unless the
\* worker has left for the removal of the device.
EventuallyRetired  == \A r \in Irps :
  r \in Queued ~> r \notin Queued \/ wpc = "exited"
EventuallyAnswered == \A r \in Irps :
  pc[r] # "idle" ~> completions[r] > 0 \/ wpc = "exited"

\* Removal gets past the worker, and ends unless it waits for an item that the
\* worker left on the list, or for a lock that was leaked (docs/KNOWN_ISSUES.md QC-05).
\* mainwdm.cpp 1195-1235
RemovalEnds ==
  rpc = "cleanup" ~> \/ rpc = "deleted"
                     \/ rpc = "drain" /\ (queue # <<>> \/ Leaked # {})

-----------------------------------------------------------------------------
(* What the queue promises                                                 *)

Promised == INSTANCE WriteBehind WITH
  Reqs    <- Irps,
  Ranges  <- Ranges \cup {{}},
  Errors  <- Statuses \ {"none", "SUCCESS"},
  range   <- [r \in Irps |-> req[r].range],
  early   <- lazy,
  accepted <- ToSet(log),
  pending <- queue,
  outcome <- IF wpc \notin {"complete", "unlink"} THEN "none"
             ELSE IF witem \in failed THEN "failed" ELSE "ok",
  answer  <- [r \in Irps |-> IF completions[r] = 0 THEN "none" ELSE status[r]]

\* The queue, its worker and the removal together implement WriteBehind.
ImplementsWriteBehind == Promised!Spec

=============================================================================
