---------------------------- MODULE PnpDispatch ----------------------------
(***************************************************************************)
(* QCachePnp (mainwdm.cpp) on one device: usage notifications for paging,  *)
(* hibernation and dump files, starts, other minor functions and removal,  *)
(* beside each other.  Notifications keep PagingPathCount and the flag     *)
(* DO_POWER_PAGABLE; starts, and the legacy attachment of the device,      *)
(* query its size.  Each of the two uses a synchronization event as a      *)
(* mutex that it can hold across a lower request (a gate).                 *)
(***************************************************************************)
EXTENDS Integers, FiniteSets

CONSTANTS
  Irps,      \* the IRP_MJ_PNP requests that are ever sent
  Attacher,  \* the thread in QCacheAttachLegacyDevice
  Lengths,   \* what the lower device may answer to the query of its size
  Inrush,    \* DO_POWER_INRUSH of the filter device
  None       \* no thread

ASSUME PnpIrpsAssumption    == IsFiniteSet(Irps) /\ None \notin Irps
ASSUME PnpAttacherAssumption == Attacher \notin Irps \cup {None}
ASSUME LengthsAssumption    == Lengths \subseteq Nat
ASSUME InrushAssumption     == Inrush \in BOOLEAN

VARIABLES
  pc,        \* where each thread is in QCachePnp, or in the attachment
  kind,      \* the minor function, with the direction of a notification
  status,    \* what the lower driver answered, Irp->IoStatus.Status
  mutex,     \* PagingPathCountMutex and InitializationMutex: their owner
  event,     \* PagingPathCountEvent and InitializationEvent: signalled
  pagingPathCount, pagable,
  setPagable,\* the local variable set_pagable of every notification
  size, isCached,
  lastError, \* what the query of the size left in LastErrorCode; the worker writes there
             \* too (queue.cpp 308, BuildFails in WriteQueue), which is left out here
  holders, removed, deleted   \* RemoveLock: tags, and closed; IoDeleteDevice

threadVars == <<pc, kind, status>>
gateVars   == <<mutex, event>>
pagingVars == <<pagingPathCount, pagable, setPagable>>
sizeVars   == <<size, lastError>>
removeVars == <<isCached, holders, removed, deleted>>
vars == <<threadVars, gateVars, pagingVars, sizeVars, removeVars>>

Threads       == Irps \cup {Attacher}
Gates         == {"paging", "init"}
Notifications == {"in", "out"}   \* InPath, or not
Kinds         == Notifications \cup {"start", "remove", "other"}

\* The event as a mutex that thread t uses
Gate(t) == IF kind[t] \in Notifications THEN "paging" ELSE "init"

\* The device as QCacheAttachDevice leaves it, perhaps with a cache that was
\* turned off since.  After QCacheAddDevice nobody is about to query its size.
Init ==
  /\ pc \in {[t \in Threads |-> IF t = Attacher THEN p ELSE "idle"]
             : p \in {"mutex", "done"}}
  /\ kind   = [t \in Threads |-> "none"]
  /\ status = [t \in Threads |-> "none"]
  /\ mutex  = [g \in Gates |-> None]
  /\ event  = [g \in Gates |-> TRUE]
  /\ pagingPathCount = 0 /\ pagable = TRUE
  /\ setPagable = [t \in Threads |-> FALSE]
  /\ size = 0 /\ lastError = "SUCCESS"
  /\ isCached \in BOOLEAN
  /\ holders = {} /\ removed = FALSE /\ deleted = FALSE

Goes(t, from, to) == pc[t] = from /\ pc' = [pc EXCEPT ![t] = to]

-----------------------------------------------------------------------------
(* What the kernel sends.  It takes a file off the device that it put      *)
(* there, once, and it does not overlap starts and removals.               *)

Completed(i) == pc[i] \in {"release", "done"}
Succeeded(i) == Completed(i) /\ status[i] = "SUCCESS"

\* Files put on the device, and those being taken off or taken off
Added    == {i \in Irps : kind[i] = "in" /\ Succeeded(i)}
Removing == {i \in Irps : kind[i] = "out" /\ (Completed(i) => Succeeded(i))}
InUse    == Cardinality(Added) > Cardinality(Removing)

ChangingState == {i \in Irps : kind[i] \in {"start", "remove"} /\ pc[i] # "done"}

MayBeSent(k) ==
  /\ k = "out" => InUse
  /\ k \in {"start", "remove"} => ChangingState = {} /\ ~removed

-----------------------------------------------------------------------------
\* QCachePnp up to the handler: acquire the remove lock, or fail, whatever the
\* minor function.
Refuse(i) ==
  /\ ~deleted /\ removed
  /\ Goes(i, "idle", "done")
  /\ status' = [status EXCEPT ![i] = "DELETE_PENDING"]
  /\ UNCHANGED <<kind, gateVars, pagingVars, sizeVars, removeVars>>

FirstStep(k) == CASE k \in Notifications -> "mutex"
                  [] k = "start"         -> "below"
                  [] k = "remove"        -> "close"
                  [] k = "other"         -> "release"  \* QCacheSendToNextDriver

Dispatch(i) ==
  /\ ~deleted /\ ~removed
  /\ \E k \in Kinds :
       /\ MayBeSent(k)
       /\ kind' = [kind EXCEPT ![i] = k]
       /\ Goes(i, "idle", FirstStep(k))
       /\ isCached' = (isCached /\ k # "remove")
  /\ holders' = holders \cup {i}
  /\ UNCHANGED <<status, gateVars, pagingVars, sizeVars, removed, deleted>>

\* KeAcquireGuardedMutex
AcquireMutex(t) ==
  /\ mutex[Gate(t)] = None
  /\ Goes(t, "mutex", "event")
  /\ mutex' = [mutex EXCEPT ![Gate(t)] = t]
  /\ UNCHANGED <<kind, status, event, pagingVars, sizeVars, removeVars>>

\* A notification event instead of a synchronization event stays signalled.
PassGate_StaysSignalled(t) ==
  /\ event[Gate(t)]
  /\ Goes(t, "event", "inside")
  /\ mutex' = [mutex EXCEPT ![Gate(t)] = None]
  /\ UNCHANGED <<kind, status, event, pagingVars, sizeVars, removeVars>>

\* KeWaitForSingleObject on the event, KeReleaseGuardedMutex
PassGate(t) ==
  /\ event[Gate(t)]
  /\ Goes(t, "event", "inside")
  /\ event' = [event EXCEPT ![Gate(t)] = FALSE]
  /\ mutex' = [mutex EXCEPT ![Gate(t)] = None]
  /\ UNCHANGED <<kind, status, pagingVars, sizeVars, removeVars>>

AfterGate(t) == IF t = Attacher THEN "done" ELSE "complete"

OpenGate_UnderMutex(t) ==
  /\ mutex[Gate(t)] = None
  /\ Goes(t, "open", AfterGate(t))
  /\ event' = [event EXCEPT ![Gate(t)] = TRUE]
  /\ UNCHANGED <<kind, status, mutex, pagingVars, sizeVars, removeVars>>

\* KeSetEvent, "so the next one can occur"
OpenGate(t) ==
  /\ Goes(t, "open", AfterGate(t))
  /\ event' = [event EXCEPT ![Gate(t)] = TRUE]
  /\ UNCHANGED <<kind, status, mutex, pagingVars, sizeVars, removeVars>>

-----------------------------------------------------------------------------
(* QCacheDeviceUsageNotification, once it holds the gate                   *)

LastPath_Off == pagingPathCount = 0

\* This one takes the last paging path off the device.
LastPath == pagingPathCount = 1

\* Taking off the last one makes the device pagable before it goes down.
ForwardNotification(i) ==
  /\ kind[i] \in Notifications
  /\ Goes(i, "inside", "below")
  /\ setPagable' = [setPagable EXCEPT ![i] = kind[i] = "out" /\ LastPath /\ ~Inrush]
  /\ pagable' = (pagable \/ setPagable'[i])
  /\ UNCHANGED <<kind, status, gateVars, pagingPathCount, sizeVars, removeVars>>

\* QCacheForwardIrpSynchronous, of a notification or of a start
LowerAnswers(i) ==
  /\ Goes(i, "below", "answered")
  /\ \E st \in {"SUCCESS", "IO_ERROR"} : status' = [status EXCEPT ![i] = st]
  /\ UNCHANGED <<kind, gateVars, pagingVars, sizeVars, removeVars>>

\* IoAdjustPagingPathCount
Adjusted(i) == IF kind[i] = "in" THEN pagingPathCount + 1 ELSE pagingPathCount - 1

TakeBack_KeepsFlag(i) ==
  /\ status[i] # "SUCCESS"
  /\ UNCHANGED <<pagable, pagingPathCount, setPagable>>

TakeBack_Counts(i) ==
  /\ status[i] # "SUCCESS"
  /\ pagable' = (pagable /\ ~setPagable[i])
  /\ setPagable' = [setPagable EXCEPT ![i] = FALSE]
  /\ pagingPathCount' = Adjusted(i)

\* The lower driver failed: reset what was set before.
TakeBack(i) ==
  /\ status[i] # "SUCCESS"
  /\ pagable' = (pagable /\ ~setPagable[i])
  /\ setPagable' = [setPagable EXCEPT ![i] = FALSE]
  /\ UNCHANGED pagingPathCount

\* The lower driver succeeded: count, and clear the flag with the first path.
TakeOver(i) ==
  /\ status[i] = "SUCCESS"
  /\ pagingPathCount' = Adjusted(i)
  /\ pagable' = (pagable /\ ~(kind[i] = "in" /\ pagingPathCount' = 1))
  /\ UNCHANGED setPagable

FinishNotification(i) ==
  /\ kind[i] \in Notifications
  /\ Goes(i, "answered", "open")
  /\ TakeOver(i) \/ TakeBack(i)
  /\ UNCHANGED <<kind, status, gateVars, sizeVars, removeVars>>

-----------------------------------------------------------------------------
(* QCacheStartDevice after its forward, and QCacheInitializeDevice         *)

\* Query the size if it is cached and not known yet, whatever the lower start said.
AfterStart(i) ==
  /\ kind[i] = "start"
  /\ Goes(i, "answered", IF isCached /\ size = 0 THEN "mutex" ELSE "complete")
  /\ UNCHANGED <<kind, status, gateVars, pagingVars, sizeVars, removeVars>>

\* Inside the gate the size is looked at again.
LookAtSize(t) ==
  /\ Gate(t) = "init"
  /\ \/ size = 0 /\ Goes(t, "inside", "query") /\ UNCHANGED lastError
     \/ size # 0 /\ Goes(t, "inside", "open") /\ lastError' = "SUCCESS"
  /\ UNCHANGED <<kind, status, gateVars, pagingVars, size, removeVars>>

\* IOCTL_DISK_GET_LENGTH_INFO is answered, or fails, or had no memory.
QueryAnswered(t) ==
  /\ Goes(t, "query", "open")
  /\ \/ size' \in Lengths /\ lastError' = "SUCCESS"
     \/ lastError' = "IO_ERROR" /\ UNCHANGED size
  /\ UNCHANGED <<kind, status, gateVars, pagingVars, removeVars>>

-----------------------------------------------------------------------------
(* Completion, and removal: what happens to the write queue in between is  *)
(* the subject of WriteQueue.                                              *)

Complete(i) ==
  /\ Goes(i, "complete", "release")
  /\ UNCHANGED <<kind, status, gateVars, pagingVars, sizeVars, removeVars>>

ReleaseLock(i) ==
  /\ Goes(i, "release", "done")
  /\ holders' = holders \ {i}
  /\ UNCHANGED <<kind, status, gateVars, pagingVars, sizeVars, isCached, removed, deleted>>

\* IoReleaseRemoveLockAndWait: release, close, and wait
CloseLock(i) ==
  /\ Goes(i, "close", "drain")
  /\ removed' = TRUE /\ holders' = holders \ {i}
  /\ UNCHANGED <<kind, status, gateVars, pagingVars, sizeVars, isCached, deleted>>

LockDrained == holders = {}

DeleteDevice(i) ==
  /\ LockDrained
  /\ Goes(i, "drain", "done")
  /\ deleted' = TRUE
  /\ UNCHANGED <<kind, status, gateVars, pagingVars, sizeVars, isCached, holders, removed>>

-----------------------------------------------------------------------------
\* Code that runs on a thread of the driver's caller.  The attaching thread
\* holds no remove lock: it is not followed past the deletion of the device.
ThreadStep(t) ==
  /\ ~deleted
  /\ \/ AcquireMutex(t) \/ PassGate(t) \/ OpenGate(t)
     \/ ForwardNotification(t) \/ FinishNotification(t)
     \/ AfterStart(t) \/ LookAtSize(t)
     \/ Complete(t) \/ ReleaseLock(t) \/ CloseLock(t) \/ DeleteDevice(t)

\* What the lower driver does
LowerStep(t) == LowerAnswers(t) \/ QueryAnswered(t)

Next == \/ \E i \in Irps    : Refuse(i) \/ Dispatch(i)
        \/ \E t \in Threads : ThreadStep(t) \/ LowerStep(t)

Spec == Init /\ [][Next]_vars

\* Threads run, and the lower driver answers when a thread waits for it.
FairSpec == Spec /\ \A t \in Threads : WF_vars(ThreadStep(t) \/ LowerStep(t))

-----------------------------------------------------------------------------
Places == {"idle", "mutex", "event", "inside", "below", "answered", "query",
           "open", "complete", "release", "close", "drain", "done"}

Typed ==
  /\ pc \in [Threads -> Places]
  /\ kind \in [Threads -> Kinds \cup {"none"}]
  /\ status \in [Threads -> {"none", "SUCCESS", "IO_ERROR", "DELETE_PENDING"}]
  /\ mutex \in [Gates -> Threads \cup {None}] /\ event \in [Gates -> BOOLEAN]
  /\ pagingPathCount \in Int /\ pagable \in BOOLEAN
  /\ setPagable \in [Threads -> BOOLEAN]
  /\ size \in Nat /\ lastError \in {"SUCCESS", "IO_ERROR"}
  /\ isCached \in BOOLEAN /\ holders \subseteq Irps
  /\ removed \in BOOLEAN /\ deleted \in BOOLEAN

\* Types; in particular the count of paging paths never goes below zero.
\* mainwdm.cpp 1317-1336, IoAdjustPagingPathCount in QCacheDeviceUsageNotification
TypeOK == Typed /\ pagingPathCount >= 0

\* Past the wait for the event and before its KeSetEvent
InsideGate(t) == \/ pc[t] \in {"inside", "query", "open"}
                 \/ pc[t] \in {"below", "answered"} /\ kind[t] \in Notifications

\* While a file that the kernel put on the device is in use, the device is not
\* pagable, whatever other notifications are under way or failed.
\* mainwdm.cpp 1279-1357, the flag around the forwarded IRP
InUseNotPagable == InUse => ~pagable

\* When every notification was answered and as many files were taken off as
\* were put on, the device is pagable again, and its count is zero.
\* mainwdm.cpp 1317-1358, the count and the flag after the forwarded IRP
UnusedIsPagable ==
  /\ \A i \in Irps : kind[i] \in Notifications => Completed(i)
  /\ Cardinality(Added) = Cardinality(Removing)
  /\ ~Inrush
  => pagable /\ pagingPathCount = 0

\* A size that is known is not queried into another one: the requests that were
\* checked against it stay valid.  mainwdm.cpp 622-680, QCacheInitializeDevice
SizeNeverChanges == [][size # 0 => size' = size]_size

\* The query of the size leaves its error in LastErrorCode only while the size is
\* unknown: a thread that waited for the gate does not overwrite the outcome of the one
\* before.  Errors of the worker, which it writes with the size known, are not meant.
\* mainwdm.cpp 622-661, QCacheInitializeDeviceUnsafe
ErrorMeansNoSize == lastError # "SUCCESS" => size = 0

\* Every PnP request ends: the event is set without the mutex under which the
\* next thread waits for it.  mainwdm.cpp 1264-1273, 1361-1366
PnpRequestsEnd == \A i \in Irps : pc[i] # "idle" ~> pc[i] = "done"
=============================================================================
