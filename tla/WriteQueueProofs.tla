-------------------------- MODULE WriteQueueProofs --------------------------
(* Theorems about WriteQueue, for every value of its constants.            *)
EXTENDS WriteQueue, SequenceTheorems, FiniteSetTheorems, TLAPS

-----------------------------------------------------------------------------
(* Sequences that stand for WriteQueue                                     *)

\* RemoveEntryList leaves the other items, in their order.
LEMMA RemoveAtLemma ==
  ASSUME NEW S, NEW q \in Seq(S), NEW i \in 1 .. Len(q)
  PROVE  /\ RemoveAt(q, i) \in Seq(S)
         /\ Len(RemoveAt(q, i)) = Len(q) - 1
         /\ \A j \in 1 .. Len(q) - 1 :
              RemoveAt(q, i)[j] = IF j < i THEN q[j] ELSE q[j + 1]
<1> DEFINE a == SubSeq(q, 1, i - 1)
           b == SubSeq(q, i + 1, Len(q))
<1>1. /\ a \in Seq(S) /\ Len(a) = i - 1
      /\ \A j \in 1 .. i - 1 : a[j] = q[j]
  BY SubSeqProperties, LenProperties
<1>2. /\ b \in Seq(S) /\ Len(b) = Len(q) - i
      /\ \A j \in 1 .. Len(q) - i : b[j] = q[i + j]
  BY SubSeqProperties, LenProperties
<1>3. RemoveAt(q, i) = a \o b
  BY DEF RemoveAt
<1> HIDE DEF a, b
<1>4. /\ a \o b \in Seq(S) /\ Len(a \o b) = Len(q) - 1
      /\ \A j \in 1 .. Len(q) - 1 :
           (a \o b)[j] = IF j <= i - 1 THEN a[j] ELSE b[j - (i - 1)]
  <2>1. /\ a \o b \in Seq(S) /\ Len(a \o b) = Len(a) + Len(b)
        /\ \A j \in 1 .. Len(a) + Len(b) :
             (a \o b)[j] = IF j <= Len(a) THEN a[j] ELSE b[j - Len(a)]
    BY <1>1, <1>2, ConcatProperties, Zenon
  <2>2. Len(a) + Len(b) = Len(q) - 1
    BY <1>1, <1>2, LenProperties
  <2> QED BY <1>1, <2>1, <2>2
<1>5. ASSUME NEW j \in 1 .. Len(q) - 1
      PROVE  (a \o b)[j] = IF j < i THEN q[j] ELSE q[j + 1]
  <2>1. CASE j < i
    BY <1>1, <1>4, <2>1, LenProperties
  <2>2. CASE ~(j < i)
    <3>1. j - (i - 1) \in 1 .. Len(q) - i /\ i + (j - (i - 1)) = j + 1
      BY <2>2, LenProperties
    <3> QED BY <1>2, <1>4, <2>2, <3>1, LenProperties
  <2> QED BY <2>1, <2>2
<1> QED BY <1>3, <1>4, <1>5

\* A list and the set of its items.
LEMMA ToSetLemma ==
  ASSUME NEW S, NEW q \in Seq(S)
  PROVE  /\ ToSet(q) \subseteq S
         /\ \A x : x \in ToSet(q) <=> \E i \in 1 .. Len(q) : q[i] = x
BY LenProperties DEF ToSet

LEMMA AppendLemma ==
  ASSUME NEW S, NEW q \in Seq(S), NEW x \in S
  PROVE  /\ Append(q, x) \in Seq(S)
         /\ Len(Append(q, x)) = Len(q) + 1
         /\ \A i \in 1 .. Len(q) : Append(q, x)[i] = q[i]
         /\ Append(q, x)[Len(q) + 1] = x
         /\ ToSet(Append(q, x)) = ToSet(q) \cup {x}
<1>1. /\ Append(q, x) \in Seq(S)
      /\ Len(Append(q, x)) = Len(q) + 1
      /\ \A i \in 1 .. Len(q) : Append(q, x)[i] = q[i]
      /\ Append(q, x)[Len(q) + 1] = x
  BY AppendProperties, LenProperties
<1>2. ToSet(Append(q, x)) = ToSet(q) \cup {x}
  <2>1. Len(q) \in Nat
    BY LenProperties
  <2>2. ASSUME NEW y
        PROVE  y \in ToSet(Append(q, x)) <=> y \in ToSet(q) \/ y = x
    <3>1. y \in ToSet(q) <=> \E i \in 1 .. Len(q) : q[i] = y
      BY ToSetLemma
    <3>2. y \in ToSet(Append(q, x)) <=>
            \E i \in 1 .. Len(q) + 1 : Append(q, x)[i] = y
      <4>1. y \in ToSet(Append(q, x)) <=>
              \E i \in 1 .. Len(Append(q, x)) : Append(q, x)[i] = y
        BY <1>1, ToSetLemma, Zenon
      <4> QED BY <1>1, <4>1, Zenon
    <3>3. 1 .. Len(q) + 1 = (1 .. Len(q)) \cup {Len(q) + 1}
      BY <2>1
    <3> QED BY <1>1, <3>1, <3>2, <3>3
  <2> QED BY <2>2
<1> QED BY <1>1, <1>2

-----------------------------------------------------------------------------
(* Types                                                                   *)

\* sizeof(*item) + item->Length is a number: the length of a request is the
\* size of a finite range.
LEMMA ItemBytesLemma ==
  ASSUME QueueTypeOK, NEW r \in Irps
  PROVE  ItemBytes(r) \in Int
<1>1. req[r].range = {} \/ req[r].range \in Ranges
  BY DEF QueueTypeOK, Requests
<1>2. IsFiniteSet(req[r].range)
  BY <1>1, RangesAssumption, FS_EmptySet
<1>3. Cardinality(req[r].range) \in Nat
  BY <1>2, FS_CardinalityType
<1> QED BY <1>3, LimitsAssumption DEF ItemBytes

LEMMA TypeInit == Init => QueueTypeOK
<1> SUFFICES ASSUME Init PROVE QueueTypeOK
  OBVIOUS
<1>1. queue \in Seq(Irps) /\ log \in Seq(Irps)
  BY EmptySeq DEF Init
<1>2. /\ pc \in [Irps -> Pcs] /\ status \in [Irps -> Statuses]
      /\ completions \in [Irps -> Nat]
      /\ disk \in [Sectors -> Irps \cup {None}]
  BY DEF Init, Pcs, Statuses
<1>3. req \in [Irps -> Requests \cup {[kind |-> "control", range |-> {}]}]
  BY DEF Init
<1>4. /\ lazy \subseteq Irps /\ wqItems \in Int /\ wqSize \in Int
      /\ unflushed \subseteq Irps /\ failed \subseteq Irps
  BY DEF Init
<1>5. /\ isCached \in BOOLEAN /\ lowMem \in BOOLEAN /\ lastError \in BOOLEAN
      /\ event \in BOOLEAN /\ shutdownThread \in BOOLEAN /\ removed \in BOOLEAN /\ flushed \in BOOLEAN
  BY Zenon DEF Init
<1>6. /\ wpc \in WPcs /\ witem \in Irps \cup {None} /\ rpc \in RPcs
      /\ wpc \in {"item", "lower", "complete", "unlink", "release"} => witem \in Irps
  BY DEF Init, WPcs, RPcs
<1> QED BY <1>1, <1>2, <1>3, <1>4, <1>5, <1>6 DEF QueueTypeOK

\* IoCompleteRequest by the thread that dispatches a request.
LEMMA CompleteAndReturnLemma ==
  ASSUME QueueTypeOK, NEW r \in Irps, NEW st \in Statuses, CompleteAndReturn(r, st)
  PROVE  /\ pc' \in [Irps -> Pcs]
         /\ status' \in [Irps -> Statuses]
         /\ completions' \in [Irps -> Nat]
BY DEF QueueTypeOK, CompleteAndReturn, Goto, Pcs

\* The steps of a thread that dispatches a request keep the types.
LEMMA TypeThread ==
  ASSUME QueueTypeOK, NEW r \in Irps, Dispatch(r) \/ Continue(r)
  PROVE  QueueTypeOK'
<1> USE DEF Goto, At, Arrive, threadFrame, listVars, removeVars, diskVars
<1>0. {"SUCCESS", "END_OF_MEDIA", "INSUFFICIENT_RESOURCES", "DELETE_PENDING", "IO_ERROR",
       "BUFFER_TOO_SMALL"} \subseteq Statuses
  BY DEF Statuses
<1>1. ASSUME NEW q \in Requests, AnswerAtOnce(r, q) PROVE QueueTypeOK'
  BY <1>0, <1>1, CompleteAndReturnLemma DEF QueueTypeOK, AnswerAtOnce
<1>2. ASSUME NEW q \in Requests, TurnOn(r, q) PROVE QueueTypeOK'
  BY <1>0, <1>2, CompleteAndReturnLemma DEF QueueTypeOK, TurnOn
<1>3. ASSUME NEW q \in Requests, EnterQueueIrp(r, q) PROVE QueueTypeOK'
  BY <1>3 DEF QueueTypeOK, Pcs, EnterQueueIrp
<1>4. CASE AdmitLazily(r)
  BY <1>4 DEF QueueTypeOK, Pcs, AdmitLazily
<1>5. CASE Decline(r)
  BY <1>5 DEF QueueTypeOK, Pcs, Decline
<1>6. CASE NoItem(r)
  BY <1>0, <1>6, CompleteAndReturnLemma DEF QueueTypeOK, NoItem
<1>7. CASE NoBuffer(r)
  BY <1>0, <1>7, CompleteAndReturnLemma DEF QueueTypeOK, NoBuffer, AcquireLock
<1>8. CASE MakeItem(r)
  BY <1>8 DEF QueueTypeOK, Pcs, MakeItem, AcquireLock
<1>9. CASE Insert(r)
  <2>1. queue' \in Seq(Irps) /\ log' \in Seq(Irps)
    BY <1>9, AppendLemma DEF QueueTypeOK, Insert, InsertList
  <2>2. wqItems' \in Int /\ wqSize' \in Int
    BY <1>9, ItemBytesLemma DEF QueueTypeOK, Pcs, Insert
  <2> QED BY <1>9, <2>1, <2>2 DEF QueueTypeOK, Pcs, Insert
<1>10. CASE Signal(r)
  <2>1. CASE r \in lazy
    BY <1>0, <1>10, <2>1, CompleteAndReturnLemma DEF QueueTypeOK, Signal, SetEvent
  <2>2. CASE r \notin lazy
    BY <1>10, <2>2 DEF QueueTypeOK, Pcs, Signal, SetEvent
  <2> QED BY <2>1, <2>2
<1> QED BY <1>1, <1>2, <1>3, <1>4, <1>5, <1>6, <1>7, <1>8, <1>9, <1>10
     DEF Dispatch, Continue

\* The steps of the worker and of the lower device keep the types.
LEMMA TypeWorker ==
  ASSUME QueueTypeOK, Worker \/ LowerDevice
  PROVE  QueueTypeOK'
<1> USE DEF WGoto, workerFrame, removeVars, diskVars, WPcs, Statuses
<1>1. CASE LookAtHead
  <2>1. queue # <<>> => Head(queue) \in Irps
    BY HeadTailProperties DEF QueueTypeOK
  <2> QED BY <1>1, <2>1 DEF QueueTypeOK, LookAtHead, TakeHead
<1>2. CASE CheckShutdown
  BY <1>2 DEF QueueTypeOK, CheckShutdown
<1>3. CASE WakeUp
  BY <1>3 DEF QueueTypeOK, WakeUp
<1>4. CASE PassMarker
  BY <1>4 DEF QueueTypeOK, PassMarker, SetStatus
<1>5. CASE SendDown
  BY <1>5 DEF QueueTypeOK, SendDown
<1>6. CASE BuildFails
  BY <1>6 DEF QueueTypeOK, BuildFails
<1>7. CASE LowerSucceeds
  BY <1>7 DEF QueueTypeOK, LowerSucceeds, SetStatus, Written
<1>8. CASE LowerFails
  BY <1>8 DEF QueueTypeOK, LowerFails, SetStatus, Written
<1>9. CASE CompleteIrp
  BY <1>9 DEF QueueTypeOK, CompleteIrp
<1>10. CASE Unlink
  <2>1. queue' \in Seq(Irps)
    <3>1. PICK i \in DOMAIN queue : queue' = RemoveAt(queue, i)
      BY <1>10 DEF Unlink, RemoveEntry
    <3>2. i \in 1 .. Len(queue)
      BY LenProperties DEF QueueTypeOK
    <3> QED BY <3>1, <3>2, RemoveAtLemma DEF QueueTypeOK
  <2>2. wqItems' \in Int /\ wqSize' \in Int
    BY <1>10, ItemBytesLemma DEF QueueTypeOK, Unlink
  <2> QED BY <1>10, <2>1, <2>2 DEF QueueTypeOK, Unlink
<1>11. CASE ReleaseItem
  BY <1>11 DEF QueueTypeOK, ReleaseItem, ReleaseLock
<1> QED BY <1>1, <1>2, <1>3, <1>4, <1>5, <1>6, <1>7, <1>8, <1>9, <1>10, <1>11
     DEF Worker, LowerDevice

\* The steps of the removal keep the types.
LEMMA TypeRemover ==
  ASSUME QueueTypeOK, Remover
  PROVE  QueueTypeOK'
<1> USE DEF QueueTypeOK, RGoto, irpVars, listVars, RPcs
<1>1. CASE BeginRemove
  BY <1>1 DEF BeginRemove
<1>2. CASE RequestExit
  BY <1>2 DEF RequestExit
<1>3. CASE WakeWorker
  BY <1>3 DEF WakeWorker
<1>4. CASE JoinWorker
  BY <1>4 DEF JoinWorker
<1>5. CASE FinalFlush
  BY <1>5 DEF FinalFlush
<1>6. CASE CloseLock
  BY <1>6 DEF CloseLock
<1>7. CASE DeleteDevice
  BY <1>7 DEF DeleteDevice
<1> QED BY <1>1, <1>2, <1>3, <1>4, <1>5, <1>6, <1>7 DEF Remover

LEMMA TypeStep == QueueTypeOK /\ [Next]_vars => QueueTypeOK'
<1> SUFFICES ASSUME QueueTypeOK, [Next]_vars PROVE QueueTypeOK'
  OBVIOUS
<1>1. CASE UNCHANGED vars
  BY <1>1 DEF QueueTypeOK, vars, irpVars, listVars, flagVars, removeVars, diskVars
<1> QED BY <1>1, TypeThread, TypeWorker, TypeRemover DEF Next, AttachedNext

LEMMA QueueTypeCorrect == Spec => []QueueTypeOK
BY TypeInit, TypeStep, PTL DEF Spec

\* Only IRPs come to hold the remove lock.
LEMMA HoldersStep ==
  QueueTypeOK /\ holders \subseteq Irps /\ [Next]_vars => (holders \subseteq Irps)'
<1> SUFFICES ASSUME QueueTypeOK, holders \subseteq Irps, [Next]_vars
             PROVE  holders' \subseteq Irps
  OBVIOUS
<1>1. ASSUME NEW r \in Irps, Dispatch(r) \/ Continue(r) PROVE holders' \subseteq Irps
  BY <1>1 DEF Dispatch, Continue, AnswerAtOnce, TurnOn, EnterQueueIrp, AdmitLazily,
       Decline, NoItem, NoBuffer, MakeItem, AcquireLock, Insert, Signal
<1>2. CASE Worker \/ LowerDevice
  BY <1>2 DEF Worker, LowerDevice, LookAtHead, CheckShutdown, WakeUp, PassMarker,
       SendDown, BuildFails, LowerSucceeds, LowerFails, CompleteIrp, Unlink,
       ReleaseItem, ReleaseLock
<1>3. CASE Remover \/ UNCHANGED vars
  BY <1>3 DEF vars, Remover, RGoto, BeginRemove, RequestExit, WakeWorker, JoinWorker,
       FinalFlush, CloseLock, DeleteDevice
<1> QED BY <1>1, <1>2, <1>3, Zenon DEF Next, AttachedNext

\* Every variable of the device extension, of the requests and of the worker
\* keeps its type, along every path of the code: among them, the worker has an
\* item whenever it acts on one.
THEOREM TypeCorrect == Spec => []TypeOK
<1>1. Init => holders \subseteq Irps
  BY DEF Init
<1> QED BY <1>1, HoldersStep, QueueTypeCorrect, PTL DEF Spec, TypeOK

-----------------------------------------------------------------------------
(* No lost wakeup                                                          *)

\* The steps of a dispatch thread: an insertion is followed by the signal of
\* the same thread.
LEMMA WakeupThread ==
  ASSUME QueueTypeOK, NoLostWakeup, NEW r \in Irps, Dispatch(r) \/ Continue(r)
  PROVE  NoLostWakeup'
<1> USE DEF QueueTypeOK, threadFrame, listVars, removeVars
<1>1. CASE Insert(r)
  BY <1>1 DEF NoLostWakeup, Insert, At, Goto
<1>2. CASE Signal(r)
  BY <1>2 DEF NoLostWakeup, Signal, SetEvent
<1>3. ASSUME pc[r] # "signal",
             \A t \in Irps \ {r} : pc'[t] = pc[t],
             UNCHANGED <<queue, event, threadFrame>>
      PROVE  NoLostWakeup'
  BY <1>3 DEF NoLostWakeup
<1>4. ASSUME NEW q \in Requests,
             AnswerAtOnce(r, q) \/ TurnOn(r, q) \/ EnterQueueIrp(r, q)
      PROVE  NoLostWakeup'
  <2>1. pc[r] = "idle" /\ UNCHANGED <<queue, event, threadFrame>>
    BY <1>4 DEF AnswerAtOnce, TurnOn, EnterQueueIrp, Arrive, At
  <2>2. \A t \in Irps \ {r} : pc'[t] = pc[t]
    BY <1>4 DEF AnswerAtOnce, TurnOn, EnterQueueIrp, CompleteAndReturn, Goto
  <2> QED BY <1>3, <2>1, <2>2
<1>5. CASE AdmitLazily(r) \/ Decline(r) \/ NoItem(r) \/ NoBuffer(r) \/ MakeItem(r)
  <2>1. pc[r] \in {"limits", "lazy", "defer"} /\ UNCHANGED <<queue, event, threadFrame>>
    BY <1>5 DEF AdmitLazily, Decline, NoItem, NoBuffer, MakeItem, At
  <2>2. \A t \in Irps \ {r} : pc'[t] = pc[t]
    BY <1>5 DEF AdmitLazily, Decline, NoItem, NoBuffer, MakeItem,
                CompleteAndReturn, Goto
  <2> QED BY <1>3, <2>1, <2>2
<1> QED BY <1>1, <1>2, <1>4, <1>5 DEF Dispatch, Continue

\* The steps of the worker: it finds the list empty under the lock, and waits
\* only if it did not read the request to exit.
LEMMA WakeupWorker ==
  ASSUME QueueTypeOK, NoLostWakeup, Worker \/ LowerDevice
  PROVE  NoLostWakeup'
<1> USE DEF WGoto, workerFrame, removeVars
<1>1. CASE LookAtHead
  BY <1>1 DEF LookAtHead, NoLostWakeup
<1>2. CASE CheckShutdown
  BY <1>2 DEF CheckShutdown, NoLostWakeup
<1>3. ASSUME wpc' \notin {"empty", "wait"}
      PROVE  NoLostWakeup'
  BY <1>3 DEF NoLostWakeup
<1>4. CASE \/ WakeUp \/ PassMarker \/ SendDown \/ BuildFails
           \/ CompleteIrp \/ Unlink \/ ReleaseItem \/ LowerDevice
  BY <1>3, <1>4 DEF WakeUp, PassMarker, SendDown, BuildFails, CompleteIrp,
       Unlink, ReleaseItem, LowerDevice, LowerSucceeds, LowerFails
<1> QED BY <1>1, <1>2, <1>4 DEF Worker

\* The steps of the removal: the request to exit is followed by the event.
LEMMA WakeupRemover ==
  ASSUME NoLostWakeup, Remover
  PROVE  NoLostWakeup'
<1> USE DEF RGoto, irpVars, listVars, NoLostWakeup
<1>1. CASE RequestExit
  BY <1>1 DEF RequestExit
<1>2. CASE WakeWorker
  BY <1>2 DEF WakeWorker
<1>3. CASE BeginRemove \/ JoinWorker \/ FinalFlush \/ CloseLock \/ DeleteDevice
  BY <1>3 DEF BeginRemove, JoinWorker, FinalFlush, CloseLock, DeleteDevice
<1> QED BY <1>1, <1>2, <1>3 DEF Remover

\* The event of QCacheQueueIrp and QCacheCleanupDevice is never lost: while
\* the worker sleeps, or is about to, there is no work for it and no request to
\* exit, or the event is set or certain to be.
THEOREM WorkerNeverSleepsOnWork == Spec => []NoLostWakeup
<1>1. Init => NoLostWakeup
  BY DEF Init, NoLostWakeup
<1>2. QueueTypeOK /\ NoLostWakeup /\ [Next]_vars => NoLostWakeup'
  <2> SUFFICES ASSUME QueueTypeOK, NoLostWakeup, [Next]_vars PROVE NoLostWakeup'
    OBVIOUS
  <2>1. CASE UNCHANGED vars
    BY <2>1 DEF NoLostWakeup, vars, irpVars, listVars, removeVars
  <2> QED BY <2>1, WakeupThread, WakeupWorker, WakeupRemover
          DEF Next, AttachedNext
<1> QED BY <1>1, <1>2, QueueTypeCorrect, PTL DEF Spec

-----------------------------------------------------------------------------
(* The order of the list, and what follows from it: every item is carried  *)
(* out once, in the order of insertion, holds the remove lock as long as   *)
(* it exists, and an IRP is completed once.                                *)
(*                                                                         *)
(* The argument: no request is inserted twice, and the list is at all      *)
(* times what is left of the log behind its first Retired entries.  The    *)
(* worker's item is the head of the list, or the last entry that left it.  *)

Carrying == {"item", "lower", "complete", "unlink"}

\* How many items have left the list
Retired == Len(log) - Len(queue)

ListInv ==
  /\ \A i, j \in 1 .. Len(log) : log[i] = log[j] => i = j
  /\ \A i \in 1 .. Len(log) : pc[log[i]] \in {"signal", "returned"}
  /\ Retired \in Nat
  /\ \A i \in 1 .. Len(queue) : queue[i] = log[Retired + i]
  /\ wpc \in Carrying => queue # <<>> /\ witem = queue[1]
  /\ wpc = "release" => Retired >= 1 /\ witem = log[Retired]

-----------------------------------------------------------------------------
(* The list                                                                *)

\* An entry of the log is on the list if and only if it has not left it.
LEMMA QueuedLemma ==
  ASSUME QueueTypeOK, ListInv, NEW i \in 1 .. Len(log)
  PROVE  log[i] \in Queued <=> i > Retired
<1>1. queue \in Seq(Irps) /\ Len(queue) \in Nat /\ Len(log) \in Nat
  BY LenProperties DEF QueueTypeOK
<1>2. log[i] \in Queued <=> \E k \in 1 .. Len(queue) : queue[k] = log[i]
  BY <1>1, ToSetLemma, Zenon DEF Queued
<1>3. ASSUME NEW k \in 1 .. Len(queue), queue[k] = log[i]
      PROVE  i > Retired
  <2>1. Retired + k \in 1 .. Len(log) /\ log[Retired + k] = log[i]
    BY <1>1, <1>3 DEF ListInv, Retired
  <2> QED BY <1>1, <2>1 DEF ListInv, Retired
<1>4. ASSUME i > Retired
      PROVE  \E k \in 1 .. Len(queue) : queue[k] = log[i]
  <2>1. i - Retired \in 1 .. Len(queue) /\ Retired + (i - Retired) = i
    BY <1>1, <1>4 DEF Retired
  <2> QED BY <2>1 DEF ListInv
<1> QED BY <1>2, <1>3, <1>4

\* What is on the list was inserted.
LEMMA QueuedInLog ==
  ASSUME QueueTypeOK, ListInv, NEW r \in Queued
  PROVE  \E i \in 1 .. Len(log) : log[i] = r
<1>1. queue \in Seq(Irps) /\ Len(queue) \in Nat /\ Len(log) \in Nat
  BY LenProperties DEF QueueTypeOK
<1>2. PICK k \in 1 .. Len(queue) : queue[k] = r
  BY <1>1, ToSetLemma, Zenon DEF Queued
<1>3. Retired + k \in 1 .. Len(log) /\ log[Retired + k] = r
  BY <1>1, <1>2 DEF ListInv, Retired
<1> QED BY <1>3

\* RemoveEntryList takes the head away, since the item is the head and is on
\* the list once.
LEMMA UnlinkLemma ==
  ASSUME QueueTypeOK, ListInv, Unlink
  PROVE  /\ queue' \in Seq(Irps)
         /\ Len(queue') = Len(queue) - 1
         /\ \A k \in 1 .. Len(queue) - 1 : queue'[k] = queue[k + 1]
         /\ Retired + 1 \in 1 .. Len(log)
         /\ witem = log[Retired + 1]
<1>1. queue \in Seq(Irps) /\ Len(queue) \in Nat /\ Len(log) \in Nat
      /\ DOMAIN queue = 1 .. Len(queue)
  BY LenProperties DEF QueueTypeOK
<1>2. PICK i \in DOMAIN queue : queue[i] = witem /\ queue' = RemoveAt(queue, i)
  BY DEF Unlink, RemoveEntry
<1>3. witem = queue[1] /\ 1 \in 1 .. Len(queue)
  BY <1>1, <1>2 DEF ListInv, Unlink, WGoto, Carrying
<1>4. /\ Retired + 1 \in 1 .. Len(log) /\ witem = log[Retired + 1]
      /\ Retired + i \in 1 .. Len(log) /\ witem = log[Retired + i]
  BY <1>1, <1>2, <1>3 DEF ListInv, Retired
<1>5. i = 1
  <2>1. Retired + i = Retired + 1
    BY <1>4, Zenon DEF ListInv
  <2>2. Retired \in Nat /\ i \in Int
    BY <1>1, <1>2 DEF ListInv
  <2> HIDE DEF Retired
  <2> QED BY <2>1, <2>2
<1>6. /\ RemoveAt(queue, 1) \in Seq(Irps)
      /\ Len(RemoveAt(queue, 1)) = Len(queue) - 1
      /\ \A k \in 1 .. Len(queue) - 1 : RemoveAt(queue, 1)[k] =
           IF k < 1 THEN queue[k] ELSE queue[k + 1]
  BY <1>1, <1>3, RemoveAtLemma, Zenon
<1>7. queue' = RemoveAt(queue, 1)
  BY <1>2, <1>5
<1>8. \A k \in 1 .. Len(queue) - 1 : queue'[k] = queue[k + 1]
  BY <1>1, <1>6, <1>7
<1> QED BY <1>4, <1>6, <1>7, <1>8

-----------------------------------------------------------------------------
(* What the steps leave alone                                              *)

\* A dispatch thread that does not insert changes nothing but its own request;
\* after the insertion, that is only the completion of a lazy request.
LEMMA ThreadLemma ==
  ASSUME QueueTypeOK, NEW r \in Irps, Dispatch(r) \/ Continue(r), ~Insert(r)
  PROVE  /\ UNCHANGED <<listVars, threadFrame>>
         /\ \A t \in Irps \ {r} :
              /\ pc'[t] = pc[t] /\ req'[t] = req[t] /\ status'[t] = status[t]
              /\ completions'[t] = completions[t] /\ (t \in lazy' <=> t \in lazy)
         /\ pc[r] # "returned"
         /\ pc[r] = "signal" =>
              /\ pc'[r] = "returned" /\ req' = req /\ lazy' = lazy
              /\ r \notin lazy => UNCHANGED <<status, completions>>
<1> USE DEF QueueTypeOK, Goto, CompleteAndReturn, At, Arrive, threadFrame, listVars,
        removeVars, diskVars
<1>1. ASSUME NEW q \in Requests, AnswerAtOnce(r, q) \/ TurnOn(r, q) \/ EnterQueueIrp(r, q)
      PROVE  /\ UNCHANGED <<listVars, threadFrame, lazy>>
             /\ \A t \in Irps \ {r} :
                  /\ pc'[t] = pc[t] /\ req'[t] = req[t] /\ status'[t] = status[t]
                  /\ completions'[t] = completions[t]
             /\ pc[r] = "idle"
  <2>1. CASE AnswerAtOnce(r, q)
    BY <2>1 DEF AnswerAtOnce
  <2>2. CASE TurnOn(r, q)
    BY <2>2 DEF TurnOn
  <2>3. CASE EnterQueueIrp(r, q)
    BY <2>3 DEF EnterQueueIrp
  <2> QED BY <1>1, <2>1, <2>2, <2>3
<1>2. CASE AdmitLazily(r) \/ Decline(r)
  BY <1>2 DEF AdmitLazily, Decline
<1>3. CASE NoItem(r)
  BY <1>3 DEF NoItem
<1>4. CASE NoBuffer(r)
  BY <1>4 DEF NoBuffer
<1>5. CASE MakeItem(r)
  BY <1>5 DEF MakeItem
<1>6. CASE Signal(r)
  <2>1. CASE r \in lazy
    BY <1>6, <2>1 DEF Signal
  <2>2. CASE r \notin lazy
    BY <1>6, <2>2 DEF Signal
  <2> QED BY <2>1, <2>2
<1> QED BY <1>1, <1>2, <1>3, <1>4, <1>5, <1>6, Zenon DEF Dispatch, Continue

\* The worker, but for Unlink, leaves the list alone, and so does the removal.
LEMMA WorkerLemma ==
  ASSUME Worker \/ LowerDevice, ~Unlink
  PROVE  UNCHANGED <<queue, wqItems, wqSize, workerFrame>>
BY DEF Worker, LowerDevice, LookAtHead, TakeHead, CheckShutdown, WakeUp,
       PassMarker, SendDown, BuildFails, LowerSucceeds, LowerFails, CompleteIrp,
       ReleaseItem

LEMMA RemoverLemma ==
  ASSUME Remover
  PROVE  UNCHANGED <<irpVars, listVars, wpc, witem, disk, failed, holders>>
BY DEF Remover, RGoto, BeginRemove, RequestExit, WakeWorker, JoinWorker,
       FinalFlush, CloseLock, DeleteDevice

-----------------------------------------------------------------------------
(* The list is what is left of the log                                     *)

LEMMA ListThread ==
  ASSUME QueueTypeOK, ListInv, NEW r \in Irps, Dispatch(r) \/ Continue(r)
  PROVE  ListInv'
<1>1. log \in Seq(Irps) /\ queue \in Seq(Irps) /\ Len(log) \in Nat /\ Len(queue) \in Nat
      /\ \A i \in 1 .. Len(log) : log[i] \in Irps
  BY ElementOfSeq, LenProperties DEF QueueTypeOK
<1>2. CASE Insert(r)
  <2>1. /\ pc[r] = "insert" /\ pc' = [pc EXCEPT ![r] = "signal"]
        /\ queue' = Append(queue, r) /\ log' = Append(log, r)
        /\ wpc' = wpc /\ witem' = witem
    BY <1>2 DEF Insert, InsertList, At, Goto, threadFrame
  <2>2. /\ Len(log') = Len(log) + 1 /\ log'[Len(log) + 1] = r
        /\ \A i \in 1 .. Len(log) : log'[i] = log[i]
    <3>1. /\ Len(Append(log, r)) = Len(log) + 1
          /\ Append(log, r)[Len(log) + 1] = r
          /\ \A i \in 1 .. Len(log) : Append(log, r)[i] = log[i]
      BY <1>1, AppendLemma
    <3> QED BY <2>1, <3>1, Zenon
  <2>3. /\ Len(queue') = Len(queue) + 1 /\ queue'[Len(queue) + 1] = r
        /\ \A i \in 1 .. Len(queue) : queue'[i] = queue[i]
    <3>1. /\ Len(Append(queue, r)) = Len(queue) + 1
          /\ Append(queue, r)[Len(queue) + 1] = r
          /\ \A i \in 1 .. Len(queue) : Append(queue, r)[i] = queue[i]
      BY <1>1, AppendLemma
    <3> QED BY <2>1, <3>1, Zenon
  <2>4. Retired' = Retired /\ Retired \in Nat /\ Retired <= Len(log)
    BY <1>1, <2>2, <2>3 DEF ListInv, Retired
  <2>5. \A i \in 1 .. Len(log) : log[i] # r
    BY <2>1 DEF ListInv
  <2>6. \A i, j \in 1 .. Len(log') : log'[i] = log'[j] => i = j
    <3> SUFFICES ASSUME NEW i \in 1 .. Len(log'), NEW j \in 1 .. Len(log'),
                        log'[i] = log'[j]
                 PROVE  i = j
      OBVIOUS
    <3>1. /\ i \in 1 .. Len(log) \/ i = Len(log) + 1
          /\ j \in 1 .. Len(log) \/ j = Len(log) + 1
      BY <1>1, <2>2
    <3>2. CASE i \in 1 .. Len(log) /\ j \in 1 .. Len(log)
      BY <2>2, <3>2 DEF ListInv
    <3>3. CASE i = Len(log) + 1 \/ j = Len(log) + 1
      BY <2>2, <2>5, <3>1, <3>3
    <3> QED BY <3>1, <3>2, <3>3
  <2>7. \A i \in 1 .. Len(log') : pc'[log'[i]] \in {"signal", "returned"}
    <3>1. pc'[r] = "signal" /\ \A t \in Irps \ {r} : pc'[t] = pc[t]
      BY <2>1 DEF QueueTypeOK
    <3>2. ASSUME NEW i \in 1 .. Len(log) PROVE pc'[log'[i]] \in {"signal", "returned"}
      BY <1>1, <2>2, <2>5, <3>1 DEF ListInv
    <3> QED BY <1>1, <2>2, <3>1, <3>2
  <2>8. \A i \in 1 .. Len(queue') : queue'[i] = log'[Retired' + i]
    <3>1. ASSUME NEW i \in 1 .. Len(queue) PROVE queue'[i] = log'[Retired + i]
      <4>1. Retired + i \in 1 .. Len(log) /\ queue[i] = log[Retired + i]
        BY <1>1 DEF ListInv, Retired
      <4> QED BY <2>2, <2>3, <4>1
    <3>2. queue'[Len(queue) + 1] = log'[Retired + (Len(queue) + 1)]
      BY <1>1, <2>2, <2>3 DEF Retired
    <3>3. ASSUME NEW i \in 1 .. Len(queue')
          PROVE  queue'[i] = log'[Retired + i]
      <4>1. i \in 1 .. Len(queue) \/ i = Len(queue) + 1
        BY <1>1, <2>3
      <4> QED BY <3>1, <3>2, <4>1, Zenon
    <3> QED BY <2>4, <3>3
  <2>9. wpc' \in Carrying => queue' # <<>> /\ witem' = queue'[1]
    <3>1. queue # <<>> => 1 \in 1 .. Len(queue)
      BY <1>1, EmptySeq
    <3>2. queue' # <<>>
      BY <1>1, <2>3, EmptySeq
    <3> QED BY <2>1, <2>3, <3>1, <3>2 DEF ListInv
  <2>10. wpc' = "release" => Retired' >= 1 /\ witem' = log'[Retired']
    <3>1. Retired >= 1 => log'[Retired] = log[Retired]
      BY <1>1, <2>2, <2>4
    <3> QED BY <2>1, <2>4, <3>1 DEF ListInv
  <2> QED BY <2>4, <2>6, <2>7, <2>8, <2>9, <2>10 DEF ListInv
<1>3. CASE ~Insert(r)
  <2>1. UNCHANGED <<queue, log, wpc, witem>>
    BY <1>3, ThreadLemma DEF listVars, threadFrame
  <2>2. \A i \in 1 .. Len(log) : pc'[log[i]] \in {"signal", "returned"}
    BY <1>1, <1>3, ThreadLemma DEF ListInv
  <2> QED BY <2>1, <2>2 DEF ListInv, Retired
<1> QED BY <1>2, <1>3

LEMMA ListWorker ==
  ASSUME QueueTypeOK, ListInv, Worker \/ LowerDevice
  PROVE  ListInv'
<1>1. Len(log) \in Nat /\ Len(queue) \in Nat /\ queue \in Seq(Irps)
  BY LenProperties DEF QueueTypeOK
<1>2. CASE Unlink
  <2>1. /\ Len(queue') = Len(queue) - 1
        /\ \A k \in 1 .. Len(queue) - 1 : queue'[k] = queue[k + 1]
        /\ Retired + 1 \in 1 .. Len(log) /\ witem = log[Retired + 1]
    BY <1>2, UnlinkLemma
  <2>2. UNCHANGED <<log, pc, witem>> /\ wpc' = "release"
    BY <1>2 DEF Unlink, WGoto, workerFrame
  <2>3. Retired' = Retired + 1
    BY <1>1, <2>1, <2>2 DEF Retired
  <2>4. \A i \in 1 .. Len(queue') : queue'[i] = log'[Retired' + i]
    <3>1. ASSUME NEW i \in 1 .. Len(queue) - 1 PROVE queue'[i] = log[Retired + 1 + i]
      <4>1. queue[i + 1] = log[Retired + (i + 1)]
        BY <1>1 DEF ListInv
      <4>2. Retired + (i + 1) = Retired + 1 + i
        BY <1>1 DEF Retired
      <4> QED BY <2>1, <4>1, <4>2
    <3> QED BY <2>1, <2>2, <2>3, <3>1
  <2>5. Retired' \in Nat /\ Retired' >= 1 /\ witem' = log'[Retired']
    BY <2>1, <2>2, <2>3 DEF ListInv
  <2> QED BY <2>2, <2>4, <2>5 DEF ListInv, Carrying
<1>3. CASE ~Unlink
  <2>1. UNCHANGED <<queue, log, pc>>
    BY <1>3, WorkerLemma DEF workerFrame
  <2>2. wpc' \in Carrying => queue # <<>> /\ witem' = queue[1]
    <3>1. CASE LookAtHead
      BY <1>1, <3>1, HeadTailProperties DEF LookAtHead, TakeHead, WGoto, Carrying
    <3>2. CASE \/ PassMarker \/ SendDown \/ LowerDevice \/ CompleteIrp
      BY <3>2 DEF ListInv, Carrying, WGoto, PassMarker, SendDown, LowerDevice,
                  LowerSucceeds, LowerFails, CompleteIrp
    <3>3. CASE CheckShutdown \/ WakeUp \/ BuildFails \/ ReleaseItem
      BY <3>3 DEF Carrying, WGoto, CheckShutdown, WakeUp, BuildFails, ReleaseItem
    <3> QED BY <1>3, <3>1, <3>2, <3>3 DEF Worker
  <2>3. wpc' # "release"
    BY <1>3 DEF Worker, LowerDevice, WGoto, LookAtHead, CheckShutdown, WakeUp,
                PassMarker, SendDown, BuildFails, LowerSucceeds, LowerFails,
                CompleteIrp, ReleaseItem
  <2> QED BY <2>1, <2>2, <2>3 DEF ListInv, Retired
<1> QED BY <1>2, <1>3

LEMMA ListInit == Init => ListInv
<1> SUFFICES ASSUME Init PROVE ListInv
  OBVIOUS
<1>1. log = <<>> /\ queue = <<>> /\ wpc = "look"
  BY DEF Init
<1>2. Len(log) = 0 /\ Len(queue) = 0
  BY <1>1, EmptySeq
<1> QED BY <1>1, <1>2 DEF ListInv, Retired, Carrying

LEMMA ListStep == QueueTypeOK /\ ListInv /\ [Next]_vars => ListInv'
<1> SUFFICES ASSUME QueueTypeOK, ListInv, [Next]_vars PROVE ListInv'
  OBVIOUS
<1>1. CASE UNCHANGED vars
  BY <1>1 DEF ListInv, Retired, vars, irpVars, listVars
<1>2. CASE Remover
  BY <1>2, RemoverLemma DEF ListInv, Retired, irpVars, listVars
<1> QED BY <1>1, <1>2, ListThread, ListWorker DEF Next, AttachedNext

\* No request is inserted twice, the list is the rest of the log, and the
\* worker carries its head: QCacheDispatchQueuedItem unlinks the item that it
\* carried out, however the list grew meanwhile.
THEOREM ListCorrect == Spec => []ListInv
BY ListInit, ListStep, QueueTypeCorrect, PTL DEF Spec

-----------------------------------------------------------------------------
(* Writes reach the disk in the order of the list                          *)

\* The lower device holds nothing from behind the item that the worker carries.
DiskInv == \A s \in Sectors : disk[s] # None =>
  \E j \in 1 .. Len(log) : j <= Retired + 1 /\ disk[s] = log[j]

\* The item that the worker carries is the first that has not left the list.
LEMMA CarriedLemma ==
  ASSUME QueueTypeOK, ListInv, wpc \in Carrying
  PROVE  Retired + 1 \in 1 .. Len(log) /\ witem = log[Retired + 1]
<1>1. Len(log) \in Nat /\ Len(queue) \in Nat /\ 1 \in 1 .. Len(queue)
  BY EmptySeq, LenProperties DEF QueueTypeOK, ListInv
<1> QED BY <1>1 DEF ListInv, Retired

\* An insertion appends one entry to the log and to the list.
LEMMA InsertLemma ==
  ASSUME QueueTypeOK, ListInv, NEW r \in Irps, Insert(r)
  PROVE  /\ Len(log') = Len(log) + 1 /\ log'[Len(log) + 1] = r
         /\ \A i \in 1 .. Len(log) : log'[i] = log[i]
         /\ Retired' = Retired
         /\ ToSet(queue') = Queued \cup {r}
<1>1. /\ log \in Seq(Irps) /\ queue \in Seq(Irps)
      /\ queue' = Append(queue, r) /\ log' = Append(log, r)
  BY DEF QueueTypeOK, Insert, InsertList
<1>2. /\ Len(Append(log, r)) = Len(log) + 1
      /\ Append(log, r)[Len(log) + 1] = r
      /\ \A i \in 1 .. Len(log) : Append(log, r)[i] = log[i]
  BY <1>1, AppendLemma
<1>3. /\ Len(Append(queue, r)) = Len(queue) + 1
      /\ ToSet(Append(queue, r)) = ToSet(queue) \cup {r}
  BY <1>1, AppendLemma
<1>4. Retired' = Retired
  BY <1>1, <1>2, <1>3, LenProperties DEF Retired
<1> QED BY <1>1, <1>2, <1>3, <1>4, Zenon DEF Queued

LEMMA DiskStep == QueueTypeOK /\ ListInv /\ DiskInv /\ [Next]_vars => DiskInv'
<1> SUFFICES ASSUME QueueTypeOK, ListInv, DiskInv, [Next]_vars PROVE DiskInv'
  OBVIOUS
<1>1. Len(log) \in Nat /\ Len(queue) \in Nat /\ Retired \in Nat
  BY LenProperties DEF QueueTypeOK, ListInv
<1>2. ASSUME UNCHANGED <<disk, log, queue>> PROVE DiskInv'
  BY <1>2 DEF DiskInv, Retired
<1>3. ASSUME NEW r \in Irps, Insert(r) PROVE DiskInv'
  <2>1. disk' = disk
    BY <1>3 DEF Insert, threadFrame, diskVars
  <2> QED BY <1>1, <1>3, <2>1, InsertLemma DEF DiskInv
<1>4. ASSUME NEW r \in Irps, Dispatch(r) \/ Continue(r), ~Insert(r) PROVE DiskInv'
  BY <1>2, <1>4, ThreadLemma DEF listVars, threadFrame, diskVars
<1>5. CASE LowerDevice
  <2>1. Retired + 1 \in 1 .. Len(log) /\ witem = log[Retired + 1]
    BY <1>5, CarriedLemma DEF LowerDevice, LowerSucceeds, LowerFails, WGoto, Carrying
  <2>2. UNCHANGED <<log, queue>>
    BY <1>5 DEF LowerDevice, LowerSucceeds, LowerFails, workerFrame
  <2>3. PICK part : disk' = Written(witem, part)
    <3>1. CASE LowerSucceeds
      BY <3>1 DEF LowerSucceeds
    <3>2. CASE LowerFails
      BY <3>2 DEF LowerFails
    <3> QED BY <1>5, <3>1, <3>2 DEF LowerDevice
  <2>4. \A s \in Sectors : disk'[s] = witem \/ disk'[s] = disk[s]
    BY <2>3 DEF Written
  <2> QED BY <1>1, <2>1, <2>2, <2>4 DEF DiskInv, Retired
<1>6. CASE Unlink
  <2>1. UNCHANGED <<disk, log>>
    BY <1>6 DEF Unlink, workerFrame, diskVars
  <2>2. Retired' = Retired + 1
    <3>1. Len(queue') = Len(queue) - 1
      BY <1>6, UnlinkLemma
    <3> QED BY <1>1, <2>1, <3>1 DEF Retired
  <2> QED BY <1>1, <2>1, <2>2 DEF DiskInv
<1>7. CASE Worker /\ ~Unlink
  BY <1>2, <1>7, WorkerLemma DEF Worker, workerFrame, diskVars, LookAtHead,
       CheckShutdown, WakeUp, PassMarker, SendDown, BuildFails, CompleteIrp,
       ReleaseItem
<1>8. CASE Remover \/ UNCHANGED vars
  BY <1>2, <1>8, RemoverLemma DEF vars, irpVars, listVars, diskVars
<1> QED BY <1>3, <1>4, <1>5, <1>6, <1>7, <1>8, Zenon DEF Next, AttachedNext

\* The worker sends one item at a time down, the head of a list that grows only
\* at its tail: the lower device never holds a write while an item that was
\* inserted before it is on the list, whether they were completed early or not.
THEOREM WritesReachDiskInOrder == Spec => []WrittenInOrder
<1>1. Init => DiskInv
  BY DEF Init, DiskInv
<1>2. QueueTypeOK /\ ListInv /\ DiskInv => WrittenInOrder
  <2> SUFFICES ASSUME QueueTypeOK, ListInv, DiskInv, NEW s \in Sectors,
                      NEW i \in DOMAIN log, NEW j \in DOMAIN log,
                      i < j, disk[s] = log[j]
               PROVE  log[i] \notin Queued
    BY DEF WrittenInOrder
  <2>1. i \in 1 .. Len(log) /\ j \in 1 .. Len(log) /\ Len(log) \in Nat /\ Len(queue) \in Nat
    BY LenProperties DEF QueueTypeOK
  <2>2. log[j] # None
    BY <2>1, IrpsAssumption, ElementOfSeq DEF QueueTypeOK
  <2>3. PICK k \in 1 .. Len(log) : k <= Retired + 1 /\ log[j] = log[k]
    BY <2>2 DEF DiskInv
  <2>4. k = j
    BY <2>1, <2>3 DEF ListInv
  <2>5. ~(i > Retired)
    BY <2>1, <2>3, <2>4 DEF Retired
  <2> QED BY <2>1, <2>5, QueuedLemma
<1> QED BY <1>1, <1>2, DiskStep, QueueTypeCorrect, ListCorrect, PTL DEF Spec

-----------------------------------------------------------------------------
(* Items hold the remove lock                                              *)

\* RemoveEntryList takes the worker's item, and no other, from the list.
LEMMA UnlinkQueued ==
  ASSUME QueueTypeOK, ListInv, Unlink
  PROVE  witem \in Queued /\ Queued' = Queued \ {witem}
<1>1. /\ queue \in Seq(Irps) /\ queue' \in Seq(Irps) /\ Len(queue) \in Nat
      /\ Len(log) \in Nat /\ Len(queue') = Len(queue) - 1
      /\ \A k \in 1 .. Len(queue) - 1 : queue'[k] = queue[k + 1]
  BY UnlinkLemma, LenProperties DEF QueueTypeOK
<1>2. witem = queue[1] /\ 1 \in 1 .. Len(queue)
  BY <1>1, EmptySeq DEF ListInv, Carrying, Unlink, WGoto
<1>3. \A j, k \in 1 .. Len(queue) : queue[j] = queue[k] => j = k
  <2> SUFFICES ASSUME NEW j \in 1 .. Len(queue), NEW k \in 1 .. Len(queue),
                      queue[j] = queue[k]
               PROVE  j = k
    OBVIOUS
  <2>1. /\ Retired + j \in 1 .. Len(log) /\ queue[j] = log[Retired + j]
        /\ Retired + k \in 1 .. Len(log) /\ queue[k] = log[Retired + k]
    BY <1>1 DEF ListInv, Retired
  <2>2. Retired + j = Retired + k
    BY <2>1, Zenon DEF ListInv
  <2> QED BY <1>1, <2>2 DEF ListInv
<1>4. /\ \A x : x \in Queued <=> \E k \in 1 .. Len(queue) : queue[k] = x
      /\ \A x : x \in Queued' <=> \E k \in 1 .. Len(queue') : queue'[k] = x
  BY <1>1, ToSetLemma, Zenon DEF Queued
<1>5. ASSUME NEW k \in 1 .. Len(queue') PROVE queue'[k] \in Queued \ {witem}
  <2>1. k + 1 \in 1 .. Len(queue) /\ k + 1 # 1 /\ queue'[k] = queue[k + 1]
    BY <1>1
  <2> QED BY <1>2, <1>3, <1>4, <2>1
<1>6. ASSUME NEW k \in 1 .. Len(queue), queue[k] # witem PROVE queue[k] \in Queued'
  <2>1. k - 1 \in 1 .. Len(queue') /\ (k - 1) + 1 = k
    BY <1>1, <1>2, <1>6
  <2>2. queue'[k - 1] = queue[k]
    BY <1>1, <2>1
  <2> QED BY <1>4, <2>1, <2>2
<1> QED BY <1>2, <1>4, <1>5, <1>6

LEMMA LockThread ==
  ASSUME QueueTypeOK, ListInv, ItemHoldsLock, NEW r \in Irps, Dispatch(r) \/ Continue(r)
  PROVE  ItemHoldsLock'
<1>1. CASE Insert(r)
  <2>1. Queued' = Queued \cup {r}
    BY <1>1, InsertLemma DEF Queued
  <2>2. UNCHANGED <<holders, wpc, witem>> /\ pc[r] = "insert"
        /\ pc' = [pc EXCEPT ![r] = "signal"]
    BY <1>1 DEF Insert, threadFrame, At, Goto
  <2> QED BY <2>1, <2>2 DEF QueueTypeOK, ItemHoldsLock
<1>2. CASE ~Insert(r)
  <2>1. UNCHANGED <<queue, wpc, witem>> /\ \A t \in Irps \ {r} : pc'[t] = pc[t]
    BY <1>2, ThreadLemma DEF listVars, threadFrame
  <2>2. CASE MakeItem(r)
    <3>1. holders' = holders \cup {r}
      BY <2>2 DEF MakeItem, AcquireLock
    <3> QED BY <2>1, <3>1 DEF ItemHoldsLock, Queued
  <2>3. CASE ~MakeItem(r)
    <3>1. holders \subseteq holders'
      BY <1>2, <2>3 DEF Dispatch, Continue, AnswerAtOnce, TurnOn, EnterQueueIrp,
           AdmitLazily, Decline, NoItem, NoBuffer, AcquireLock, Signal
    <3>2. pc'[r] # "insert"
      BY <1>2, <2>3 DEF QueueTypeOK, Dispatch, Continue, AnswerAtOnce, TurnOn,
           EnterQueueIrp, AdmitLazily, Decline, NoItem, NoBuffer, Signal,
           CompleteAndReturn, Goto
    <3> QED BY <2>1, <3>1, <3>2 DEF ItemHoldsLock, Queued
  <2> QED BY <2>2, <2>3
<1> QED BY <1>1, <1>2

LEMMA LockWorker ==
  ASSUME QueueTypeOK, ListInv, ItemHoldsLock, Worker \/ LowerDevice
  PROVE  ItemHoldsLock'
<1>1. CASE Unlink
  <2>1. UNCHANGED <<holders, pc, witem>>
    BY <1>1 DEF Unlink, workerFrame
  <2>2. witem \in Queued /\ Queued' = Queued \ {witem}
    BY <1>1, UnlinkQueued
  <2> QED BY <2>1, <2>2 DEF ItemHoldsLock
<1>2. CASE ReleaseItem
  <2>1. /\ holders' = holders \ {witem} /\ wpc = "release" /\ wpc' = "look"
        /\ UNCHANGED <<queue, pc, witem>>
    BY <1>2 DEF ReleaseItem, ReleaseLock, WGoto, workerFrame
  <2>2. Retired \in 1 .. Len(log) /\ witem = log[Retired]
    BY <2>1, LenProperties DEF ListInv, Retired, QueueTypeOK
  <2>3. witem \notin Queued /\ pc[witem] # "insert"
    BY <2>2, QueuedLemma DEF ListInv
  <2> QED BY <2>1, <2>3 DEF ItemHoldsLock, Queued
<1>3. CASE ~Unlink /\ ~ReleaseItem
  <2>1. UNCHANGED <<queue, pc>>
    BY <1>3, WorkerLemma DEF workerFrame
  <2>2. holders' = holders /\ wpc' # "release"
    BY <1>3 DEF Worker, LowerDevice, WGoto, LookAtHead, CheckShutdown, WakeUp,
         PassMarker, SendDown, BuildFails, LowerSucceeds, LowerFails, CompleteIrp
  <2> QED BY <2>1, <2>2 DEF ItemHoldsLock, Queued
<1> QED BY <1>1, <1>2, <1>3

\* From the moment it is made until the worker deletes it, an item holds the
\* remove lock, so that IoReleaseRemoveLockAndWait waits for it.
THEOREM ItemsHoldTheLock == Spec => []ItemHoldsLock
<1>1. Init => ItemHoldsLock
  <2> SUFFICES ASSUME Init PROVE ItemHoldsLock
    OBVIOUS
  <2>1. Queued = {}
    BY EmptySeq DEF Init, Queued, ToSet
  <2> QED BY <2>1 DEF Init, ItemHoldsLock
<1>2. QueueTypeOK /\ ListInv /\ ItemHoldsLock /\ [Next]_vars => ItemHoldsLock'
  <2> SUFFICES ASSUME QueueTypeOK, ListInv, ItemHoldsLock, [Next]_vars
               PROVE  ItemHoldsLock'
    OBVIOUS
  <2>1. CASE Remover \/ UNCHANGED vars
    BY <2>1, RemoverLemma DEF ItemHoldsLock, Queued, vars, irpVars, listVars
  <2> QED BY <2>1, LockThread, LockWorker DEF Next, AttachedNext
<1> QED BY <1>1, <1>2, QueueTypeCorrect, ListCorrect, PTL DEF Spec

-----------------------------------------------------------------------------
(* Completion                                                              *)

\* A completion by the dispatch thread: until then the request was the
\* thread's, and the worker has no item of it.
LEMMA OnceThread ==
  ASSUME QueueTypeOK, ListInv, CompletedOnce, NEW r \in Irps, Dispatch(r) \/ Continue(r)
  PROVE  CompletedOnce'
<1>1. CASE Insert(r)
  <2>1. Queued' = Queued \cup {r}
    BY <1>1, InsertLemma DEF Queued
  <2>2. /\ UNCHANGED <<completions, lazy, wpc, witem>> /\ pc[r] = "insert"
        /\ pc' = [pc EXCEPT ![r] = "signal"]
    BY <1>1 DEF Insert, threadFrame, At, Goto
  <2>3. ~(wpc = "unlink" /\ witem = r)
    BY <2>2, CarriedLemma DEF ListInv, Carrying
  <2> QED BY <2>1, <2>2, <2>3
          DEF QueueTypeOK, CompletedOnce, OwnedByThread, OwnedByWorker
<1>2. CASE ~Insert(r)
  <2>1. /\ UNCHANGED <<queue, log, wpc, witem>> /\ pc[r] # "returned"
        /\ \A t \in Irps \ {r} : /\ pc'[t] = pc[t] /\ completions'[t] = completions[t]
                                 /\ (t \in lazy' <=> t \in lazy)
    BY <1>2, ThreadLemma DEF listVars, threadFrame
  <2>2. \A t \in Irps \ {r} :
          /\ (OwnedByThread(t)' <=> OwnedByThread(t))
          /\ (OwnedByWorker(t)' <=> OwnedByWorker(t))
    BY <2>1 DEF OwnedByThread, OwnedByWorker, Queued
  <2>3. CASE Signal(r)
    <3>1. pc[r] = "signal" /\ pc'[r] = "returned" /\ lazy' = lazy
      BY <2>3 DEF QueueTypeOK, Signal, At, CompleteAndReturn, Goto
    <3>2. CASE r \in lazy
      <4>1. completions'[r] = completions[r] + 1
        BY <2>3, <3>2 DEF QueueTypeOK, Signal, CompleteAndReturn
      <4> QED BY <2>1, <2>2, <3>1, <3>2, <4>1
              DEF CompletedOnce, OwnedByThread, OwnedByWorker, Queued
    <3>3. CASE r \notin lazy
      <4>1. completions' = completions
        BY <2>3, <3>3 DEF Signal
      <4> QED BY <2>1, <2>2, <3>1, <3>3, <4>1
              DEF CompletedOnce, OwnedByThread, OwnedByWorker, Queued
    <3> QED BY <3>2, <3>3
  <2>4. CASE ~Signal(r)
    <3>1. pc[r] \in {"idle", "limits", "lazy", "defer"}
      BY <1>2, <2>4 DEF Dispatch, Continue, AnswerAtOnce, TurnOn, EnterQueueIrp,
           Arrive, AdmitLazily, Decline, NoItem, NoBuffer, MakeItem, At
    <3>2. r \notin Queued
      BY <3>1, QueuedInLog DEF ListInv
    <3>3. completions[r] = 0
      BY <3>1 DEF CompletedOnce, OwnedByThread
    <3>4. \/ pc'[r] = "returned" /\ completions'[r] = 1
          \/ pc'[r] \notin {"signal", "returned"} /\ completions'[r] = 0
      BY <1>2, <2>4, <3>1, <3>3 DEF QueueTypeOK, Dispatch, Continue, AnswerAtOnce,
           TurnOn, EnterQueueIrp, AdmitLazily, Decline, NoItem, NoBuffer,
           MakeItem, CompleteAndReturn, Goto
    <3> QED BY <2>1, <2>2, <3>2, <3>4
            DEF CompletedOnce, OwnedByThread, OwnedByWorker, Queued
  <2> QED BY <2>3, <2>4
<1> QED BY <1>1, <1>2

\* A completion by the worker: the item at the head of the list, once, before
\* it leaves the list.
LEMMA OnceWorker ==
  ASSUME QueueTypeOK, ListInv, CompletedOnce, Worker \/ LowerDevice
  PROVE  CompletedOnce'
<1>1. CASE Unlink
  <2>1. /\ UNCHANGED <<pc, lazy, completions, log>> /\ wpc = "unlink" /\ wpc' = "release"
    BY <1>1 DEF Unlink, WGoto, workerFrame
  <2>2. witem \in Queued /\ Queued' = Queued \ {witem}
    BY <1>1, UnlinkQueued
  <2> QED BY <2>1, <2>2 DEF CompletedOnce, OwnedByThread, OwnedByWorker
<1>2. CASE CompleteIrp
  <2>1. /\ UNCHANGED <<pc, lazy, queue, witem>> /\ wpc = "complete" /\ wpc' = "unlink"
        /\ completions' = IF witem \in lazy THEN completions
                          ELSE [completions EXCEPT ![witem] = @ + 1]
    BY <1>2 DEF CompleteIrp, WGoto, workerFrame
  <2>2. /\ witem \in Irps /\ witem \in Queued /\ pc[witem] \in {"signal", "returned"}
    <3>1. Retired + 1 \in 1 .. Len(log) /\ witem = log[Retired + 1] /\ Retired + 1 > Retired
      BY <2>1, CarriedLemma DEF ListInv, Carrying
    <3> QED BY <2>1, <3>1, QueuedLemma DEF ListInv, QueueTypeOK
  <2> QED BY <2>1, <2>2 DEF QueueTypeOK, CompletedOnce, OwnedByThread, OwnedByWorker, Queued
<1>3. CASE ~Unlink /\ ~CompleteIrp
  <2>1. UNCHANGED <<queue, pc, lazy>>
    BY <1>3, WorkerLemma DEF workerFrame
  <2>2. completions' = completions /\ wpc # "unlink" /\ wpc' # "unlink"
    BY <1>3 DEF Worker, LowerDevice, WGoto, LookAtHead, CheckShutdown, WakeUp,
         PassMarker, SendDown, BuildFails, LowerSucceeds, LowerFails, ReleaseItem
  <2> QED BY <2>1, <2>2 DEF CompletedOnce, OwnedByThread, OwnedByWorker, Queued
<1> QED BY <1>1, <1>2, <1>3

LEMMA OnceStep ==
  QueueTypeOK /\ ListInv /\ CompletedOnce /\ [Next]_vars => CompletedOnce'
<1> SUFFICES ASSUME QueueTypeOK, ListInv, CompletedOnce, [Next]_vars
             PROVE  CompletedOnce'
  OBVIOUS
<1>1. CASE Remover \/ UNCHANGED vars
  BY <1>1, RemoverLemma DEF CompletedOnce, OwnedByThread, OwnedByWorker, Queued,
                            vars, irpVars, listVars
<1> QED BY <1>1, OnceThread, OnceWorker DEF Next, AttachedNext

\* IoCompleteRequest runs exactly once for every IRP, on whichever of the
\* paths of QCacheQueueIrp, QCacheQueueLazyWriteIrp and
\* QCacheDispatchQueuedItem it is; until then one thread has to complete it.
THEOREM IrpsCompleteOnce == Spec => []CompletedOnce
<1>1. Init => CompletedOnce
  BY DEF Init, CompletedOnce, OwnedByThread
<1> QED BY <1>1, OnceStep, QueueTypeCorrect, ListCorrect, PTL DEF Spec

\* A request that QCacheQueueIrp left pending is completed by the worker, from
\* the head of the list: all that was inserted before it has been carried out.
THEOREM DeferredRequestsAreBarriers == Spec => []DeferredIsBarrier
<1>1. QueueTypeOK /\ ListInv /\ CompletedOnce => DeferredIsBarrier
  <2> SUFFICES ASSUME QueueTypeOK, ListInv, CompletedOnce,
                      NEW i \in DOMAIN log, NEW j \in DOMAIN log,
                      i < j, log[j] \notin lazy, completions[log[j]] > 0
               PROVE  log[i] \notin Queued
    BY DEF DeferredIsBarrier
  <2>1. /\ i \in 1 .. Len(log) /\ j \in 1 .. Len(log) /\ log[j] \in Irps
        /\ Len(log) \in Nat /\ Len(queue) \in Nat /\ Retired \in Nat
    BY LenProperties, ElementOfSeq DEF QueueTypeOK, ListInv
  <2>2. ~OwnedByWorker(log[j])
    BY <2>1 DEF CompletedOnce
  <2>3. j <= Retired + 1
    <3>1. CASE log[j] \notin Queued
      BY <2>1, <3>1, QueuedLemma
    <3>2. CASE wpc = "unlink" /\ witem = log[j]
      BY <2>1, <3>2, CarriedLemma DEF ListInv, Carrying
    <3> QED BY <2>2, <3>1, <3>2 DEF OwnedByWorker
  <2> QED BY <2>1, <2>3, QueuedLemma
<1> QED BY <1>1, QueueTypeCorrect, ListCorrect, IrpsCompleteOnce, PTL

=============================================================================
