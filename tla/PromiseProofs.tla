--------------------------- MODULE PromiseProofs ----------------------------
(* What the queue keeps to around the order of its items: the counters of  *)
(* the list and the limits that admission tests against them, who holds    *)
(* the remove lock, what is left when the device is deleted, and the       *)
(* promise of WriteBehind as a whole.                                      *)
EXTENDS DurabilityProofs

-----------------------------------------------------------------------------
(* The counters                                                            *)

\* The memory of one item
Units(r) == {r} \X (1 .. ItemBytes(r))

AccountInv == QueueAccounting /\ IsFiniteSet(QueueMemory)

LEMMA UnitsLemma ==
  ASSUME QueueTypeOK, NEW r \in Irps
  PROVE  IsFiniteSet(Units(r)) /\ Cardinality(Units(r)) = ItemBytes(r)
<1>1. ItemBytes(r) \in Int /\ ItemBytes(r) >= 1
  <2>1. req[r].range = {} \/ req[r].range \in Ranges
    BY DEF QueueTypeOK, Requests
  <2>2. Cardinality(req[r].range) \in Nat
    BY <2>1, RangesAssumption, FS_EmptySet, FS_CardinalityType
  <2> QED BY <2>2, LimitsAssumption DEF ItemBytes
<1>2. IsFiniteSet(1 .. ItemBytes(r)) /\ Cardinality(1 .. ItemBytes(r)) = ItemBytes(r)
  BY <1>1, FS_Interval
<1>3. IsFiniteSet({r}) /\ Cardinality({r}) = 1
  BY FS_Singleton
<1>4. /\ IsFiniteSet(Units(r))
      /\ Cardinality(Units(r)) = 1 * ItemBytes(r)
  BY <1>2, <1>3, FS_Product DEF Units
<1> QED BY <1>1, <1>4

\* The memory of the list with one item more
LEMMA MemoryLemma ==
  ASSUME QueueTypeOK, NEW Q \in SUBSET Irps, NEW r \in Irps \ Q,
         IsFiniteSet(UNION {Units(t) : t \in Q})
  PROVE  /\ IsFiniteSet(UNION {Units(t) : t \in Q \cup {r}})
         /\ Cardinality(UNION {Units(t) : t \in Q \cup {r}})
              = Cardinality(UNION {Units(t) : t \in Q}) + ItemBytes(r)
<1> DEFINE A == UNION {Units(t) : t \in Q}
           B == UNION {Units(t) : t \in Q \cup {r}}
<1>1. B = A \cup Units(r)
  OBVIOUS
<1>2. A \cap Units(r) = {}
  BY DEF Units
<1>3. IsFiniteSet(Units(r)) /\ Cardinality(Units(r)) = ItemBytes(r)
  BY UnitsLemma
<1>4. /\ IsFiniteSet(A \cup Units(r))
      /\ Cardinality(A \cup Units(r))
           = Cardinality(A) + Cardinality(Units(r)) - Cardinality(A \cap Units(r))
  BY <1>3, FS_Union
<1>5. Cardinality(A) \in Nat /\ Cardinality(Units(r)) \in Nat
  BY <1>3, FS_CardinalityType
<1>6. Cardinality(A \cap Units(r)) = 0
  BY <1>2, FS_EmptySet
<1> HIDE DEF A, B
<1>7. IsFiniteSet(B) /\ Cardinality(B) = Cardinality(A) + ItemBytes(r)
  BY <1>1, <1>3, <1>4, <1>5, <1>6
<1> QED BY <1>7 DEF A, B

\* A dispatch thread leaves the range and the making of an inserted item alone.
LEMMA LogFrame ==
  ASSUME QueueTypeOK, ListInv, NEW r \in Irps, Dispatch(r) \/ Continue(r),
         NEW i \in 1 .. Len(log)
  PROVE  req'[log[i]] = req[log[i]] /\ (log[i] \in lazy' <=> log[i] \in lazy)
<1>1. log[i] \in Irps /\ pc[log[i]] \in {"signal", "returned"}
  BY ElementOfSeq DEF QueueTypeOK, ListInv
<1>2. CASE Insert(r)
  BY <1>2 DEF Insert
<1>3. CASE ~Insert(r)
  BY <1>1, <1>3, ThreadLemma
<1> QED BY <1>2, <1>3

\* The items on the list keep their memory.
LEMMA SameMemory ==
  ASSUME QueueTypeOK, ListInv, [Next]_vars
  PROVE  \A t \in Queued : ItemBytes(t)' = ItemBytes(t)
<1>1. ASSUME NEW r \in Irps, Dispatch(r) \/ Continue(r)
      PROVE  \A t \in Queued : ItemBytes(t)' = ItemBytes(t)
  <2> SUFFICES ASSUME NEW t \in Queued PROVE ItemBytes(t)' = ItemBytes(t)
    OBVIOUS
  <2>1. PICK i \in 1 .. Len(log) : log[i] = t
    BY QueuedInLog
  <2>2. req'[t] = req[t] /\ (t \in lazy' <=> t \in lazy)
    BY <1>1, <2>1, LogFrame
  <2> QED BY <2>2 DEF ItemBytes
<1>2. CASE Worker \/ LowerDevice \/ Remover \/ UNCHANGED vars
  <2>1. CASE Unlink
    BY <2>1 DEF Unlink, workerFrame, ItemBytes
  <2>2. CASE ~Unlink
    BY <1>2, <2>2, WorkerLemma, RemoverLemma DEF workerFrame, vars, irpVars, ItemBytes
  <2> QED BY <2>1, <2>2
<1> QED BY <1>1, <1>2 DEF Next, AttachedNext

\* A step that is neither an insertion nor a removal leaves the list alone.
LEMMA ListUnchanged ==
  ASSUME QueueTypeOK, [Next]_vars, \A r \in Irps : ~Insert(r), ~Unlink
  PROVE  UNCHANGED <<queue, wqItems, wqSize, log>>
BY ThreadLemma, WorkerLemma, RemoverLemma
   DEF Next, AttachedNext, vars, listVars, workerFrame

LEMMA AccountStep == QueueTypeOK /\ ListInv /\ AccountInv /\ [Next]_vars => AccountInv'
<1> SUFFICES ASSUME QueueTypeOK, ListInv, AccountInv, [Next]_vars PROVE AccountInv'
  OBVIOUS
<1>1. QueueMemory = UNION {Units(t) : t \in Queued}
  BY DEF QueueMemory, Units
<1>3. Queued \subseteq Irps /\ queue \in Seq(Irps) /\ Len(queue) \in Nat
  <2>1. queue \in Seq(Irps) /\ Len(queue) \in Nat
    BY LenProperties DEF QueueTypeOK
  <2> QED BY <2>1, ToSetLemma, ElementOfSeq DEF Queued
<1>4. ASSUME NEW r \in Irps, Insert(r) PROVE AccountInv'
  <2>1. /\ pc[r] = "insert" /\ queue' = Append(queue, r)
        /\ wqSize' = wqSize + ItemBytes(r) /\ wqItems' = wqItems + 1
        /\ UNCHANGED <<req, lazy>>
    BY <1>4 DEF Insert, InsertList, At
  <2>2. Queued' = Queued \cup {r}
    BY <1>4, InsertLemma DEF Queued
  <2>3. r \notin Queued
    BY <2>1, QueuedInLog DEF ListInv
  <2>4. QueueMemory' = UNION {Units(t) : t \in Queued \cup {r}}
    BY <2>1, <2>2 DEF QueueMemory, Units, ItemBytes
  <2>5. Len(queue') = Len(queue) + 1
    BY <1>3, <2>1, AppendLemma
  <2> QED BY <1>1, <1>3, <2>1, <2>3, <2>4, <2>5, MemoryLemma DEF AccountInv, QueueAccounting
<1>5. CASE Unlink
  <2>1. /\ wqSize' = wqSize - ItemBytes(witem) /\ wqItems' = wqItems - 1
        /\ UNCHANGED <<req, lazy>>
    BY <1>5 DEF Unlink, workerFrame
  <2>2. /\ witem \in Queued /\ Queued' = Queued \ {witem}
        /\ Len(queue') = Len(queue) - 1
    BY <1>5, UnlinkQueued, UnlinkLemma
  <2>3. QueueMemory' = UNION {Units(t) : t \in Queued'}
    BY <2>1 DEF QueueMemory, Units, ItemBytes
  <2>4. IsFiniteSet(QueueMemory')
    BY <1>1, <2>2, <2>3, FS_Subset DEF AccountInv
  <2>5. Cardinality(QueueMemory) = Cardinality(QueueMemory') + ItemBytes(witem)
    <3>1. (Queued') \cup {witem} = Queued /\ witem \in Irps \ Queued'
          /\ Queued' \in SUBSET Irps
      BY <1>3, <2>2
    <3> QED BY <1>1, <2>3, <2>4, <3>1, MemoryLemma
  <2>6. Cardinality(QueueMemory') \in Nat /\ ItemBytes(witem) \in Int
    BY <1>3, <2>2, <2>4, FS_CardinalityType, ItemBytesLemma
  <2> QED BY <1>3, <2>1, <2>2, <2>4, <2>5, <2>6 DEF AccountInv, QueueAccounting
<1>6. CASE ~Unlink /\ \A r \in Irps : ~Insert(r)
  <2>1. UNCHANGED <<queue, wqItems, wqSize>>
    BY <1>6, ListUnchanged
  <2>2. \A t \in Queued : ItemBytes(t)' = ItemBytes(t)
    BY SameMemory
  <2>3. QueueMemory' = QueueMemory
    BY <2>1, <2>2 DEF QueueMemory, Queued
  <2> QED BY <2>1, <2>3 DEF AccountInv, QueueAccounting
<1> QED BY <1>4, <1>5, <1>6

LEMMA AccountInit == Init => AccountInv
<1> SUFFICES ASSUME Init PROVE AccountInv
  OBVIOUS
<1>1. Queued = {} /\ Len(queue) = 0
  BY EmptySeq DEF Init, Queued, ToSet
<1>2. QueueMemory = {}
  BY <1>1 DEF QueueMemory
<1> QED BY <1>1, <1>2, FS_EmptySet DEF Init, AccountInv, QueueAccounting

\* WriteQueueItems and WriteQueueSize tell the truth outside WriteQueueLock too:
\* the two places that change them change the list in the same critical section,
\* and an item keeps the size with which it was counted in.
\* queue.cpp 206-233 and 345-358, the two regions under WriteQueueLock
THEOREM CountersAreExact == Spec => []QueueAccounting
<1>1. AccountInv => QueueAccounting
  BY DEF AccountInv
<1> QED BY <1>1, AccountInit, AccountStep, QueueTypeCorrect, ListCorrect, PTL DEF Spec

-----------------------------------------------------------------------------
(* The limits                                                              *)

DispatchBound == Cardinality(Dispatching) <= MaxDispatchers

\* A list has no more items than places.
LEMMA QueuedCount ==
  ASSUME QueueTypeOK
  PROVE  IsFiniteSet(Queued) /\ Cardinality(Queued) <= Len(queue)
<1>1. queue \in Seq(Irps) /\ Len(queue) \in Nat
  BY LenProperties DEF QueueTypeOK
<1>2. \A x : x \in Queued <=> \E k \in 1 .. Len(queue) : queue[k] = x
  BY <1>1, ToSetLemma, Zenon DEF Queued
<1>3. [k \in 1 .. Len(queue) |-> queue[k]] \in Surjection(1 .. Len(queue), Queued)
  BY <1>2 DEF Surjection
<1>4. IsFiniteSet(1 .. Len(queue)) /\ Cardinality(1 .. Len(queue)) = Len(queue)
  BY <1>1, FS_Interval
<1> QED BY <1>3, <1>4, FS_Surjection

LEMMA DispatchersAreFinite ==
  /\ IsFiniteSet(Dispatching) /\ Cardinality(Dispatching) \in Nat
  /\ IsFiniteSet(Dispatching') /\ Cardinality(Dispatching') \in Nat
BY IrpsAssumption, FS_Subset, FS_CardinalityType DEF Dispatching

LEMMA BoundStep == QueueTypeOK /\ DispatchBound /\ [Next]_vars => DispatchBound'
<1> SUFFICES ASSUME QueueTypeOK, DispatchBound, [Next]_vars PROVE DispatchBound'
  OBVIOUS
<1> USE DEF QueueTypeOK
<1>1. ASSUME Dispatching' \subseteq Dispatching PROVE DispatchBound'
  <2>1. Cardinality(Dispatching') <= Cardinality(Dispatching)
    BY <1>1, DispatchersAreFinite, FS_Subset
  <2> QED BY <2>1, DispatchersAreFinite, LimitsAssumption DEF DispatchBound
<1>2. ASSUME NEW r \in Irps, NEW q \in Requests, EnterQueueIrp(r, q) PROVE DispatchBound'
  <2>1. Dispatching' = Dispatching \cup {r}
    BY <1>2 DEF EnterQueueIrp, Arrive, At, Goto, Dispatching
  <2>2. Cardinality(Dispatching) < MaxDispatchers
    BY <1>2 DEF EnterQueueIrp, Arrive
  <2>3. Cardinality(Dispatching \cup {r}) <= Cardinality(Dispatching) + 1
    <3>1. Cardinality(Dispatching \cup {r}) =
            IF r \in Dispatching THEN Cardinality(Dispatching) ELSE Cardinality(Dispatching) + 1
      BY DispatchersAreFinite, FS_AddElement
    <3> HIDE DEF Dispatching
    <3> QED BY <3>1, DispatchersAreFinite
  <2> QED BY <2>1, <2>2, <2>3, DispatchersAreFinite, LimitsAssumption DEF DispatchBound
<1>3. ASSUME NEW r \in Irps, NEW q \in Requests, AnswerAtOnce(r, q) \/ TurnOn(r, q)
      PROVE  DispatchBound'
  BY <1>1, <1>3 DEF AnswerAtOnce, TurnOn, CompleteAndReturn, Goto, Dispatching
<1>4. ASSUME NEW r \in Irps, Continue(r) PROVE DispatchBound'
  <2>1. pc[r] \notin {"idle", "returned"} /\ \A t \in Irps \ {r} : pc'[t] = pc[t]
    BY <1>4 DEF Continue, AdmitLazily, Decline, NoItem, NoBuffer, MakeItem, Insert, Signal,
         At, CompleteAndReturn, Goto
  <2> QED BY <1>1, <2>1 DEF Dispatching
<1>5. CASE Worker \/ LowerDevice \/ Remover \/ UNCHANGED vars
  <2>1. pc' = pc
    <3>1. CASE Unlink
      BY <3>1 DEF Unlink, workerFrame
    <3>2. CASE ~Unlink
      BY <1>5, <3>2, WorkerLemma, RemoverLemma DEF workerFrame, vars, irpVars
    <3> QED BY <3>1, <3>2
  <2> QED BY <1>1, <2>1 DEF Dispatching
<1> QED BY <1>2, <1>3, <1>4, <1>5 DEF Next, AttachedNext, Dispatch

\* An item is marked as a lazy one when it is made, and not before.
MadeInv == \A r \in lazy : pc[r] \in {"insert", "signal", "returned"}

\* A dispatch thread that does not insert or signal goes towards the insertion, and
\* makes an item on the way, or returns.
LEMMA ThreadMoves ==
  ASSUME QueueTypeOK, NEW r \in Irps, Dispatch(r) \/ Continue(r), ~Insert(r), ~Signal(r)
  PROVE  /\ pc[r] \in {"idle", "limits", "lazy", "defer"}
         /\ MakeItem(r) => /\ pc[r] \in {"lazy", "defer"} /\ pc'[r] = "insert"
                           /\ lazy' = IF pc[r] = "lazy" THEN lazy \cup {r} ELSE lazy
                           /\ holders' = holders \cup {r} /\ ~removed
         /\ ~MakeItem(r) => /\ pc'[r] \in {"limits", "lazy", "defer", "returned"}
                            /\ lazy' = lazy
                            /\ pc'[r] = "lazy" => AdmitLazily(r)
         /\ NoBuffer(r) => /\ pc'[r] = "returned" /\ holders' = holders \cup {r}
                           /\ status'[r] = "INSUFFICIENT_RESOURCES"
         /\ ~MakeItem(r) /\ ~NoBuffer(r) => holders' = holders
<1> USE DEF QueueTypeOK, CompleteAndReturn, Goto, At, Arrive
<1>1. ASSUME NEW q \in Requests, AnswerAtOnce(r, q) \/ TurnOn(r, q) \/ EnterQueueIrp(r, q)
      PROVE  /\ pc[r] = "idle" /\ pc'[r] \in {"limits", "defer", "returned"}
             /\ lazy' = lazy /\ holders' = holders
  <2>1. CASE AnswerAtOnce(r, q)
    BY <2>1 DEF AnswerAtOnce
  <2>2. CASE TurnOn(r, q)
    BY <2>2 DEF TurnOn
  <2>3. CASE EnterQueueIrp(r, q)
    BY <2>3 DEF EnterQueueIrp
  <2> QED BY <1>1, <2>1, <2>2, <2>3
<1>2. CASE Dispatch(r)
  <2>1. ~MakeItem(r) /\ ~NoBuffer(r)
    BY <1>1, <1>2 DEF Dispatch, MakeItem, NoBuffer
  <2> QED BY <1>1, <1>2, <2>1 DEF Dispatch
<1>3. CASE AdmitLazily(r) \/ Decline(r)
  BY <1>3 DEF AdmitLazily, Decline, MakeItem, NoBuffer
<1>4. CASE NoItem(r)
  BY <1>4 DEF NoItem, MakeItem, NoBuffer, AcquireLock
<1>5. CASE NoBuffer(r)
  BY <1>5 DEF NoBuffer, MakeItem, AcquireLock
<1>6. CASE MakeItem(r)
  BY <1>6 DEF MakeItem, NoBuffer, AcquireLock
<1> QED BY <1>2, <1>3, <1>4, <1>5, <1>6 DEF Continue

LEMMA MadeStep == QueueTypeOK /\ MadeInv /\ [Next]_vars => MadeInv'
<1> SUFFICES ASSUME QueueTypeOK, MadeInv, [Next]_vars PROVE MadeInv'
  OBVIOUS
<1>1. ASSUME NEW r \in Irps, Insert(r) PROVE MadeInv'
  BY <1>1 DEF QueueTypeOK, MadeInv, Insert, At, Goto
<1>2. ASSUME NEW r \in Irps, Dispatch(r) \/ Continue(r), ~Insert(r) PROVE MadeInv'
  <2>1. /\ \A t \in Irps \ {r} : pc'[t] = pc[t] /\ (t \in lazy' <=> t \in lazy)
        /\ pc[r] = "signal" => pc'[r] = "returned" /\ lazy' = lazy
    BY <1>2, ThreadLemma
  <2>2. CASE Signal(r)
    BY <2>1, <2>2 DEF QueueTypeOK, MadeInv, Signal, At
  <2>3. CASE ~Signal(r)
    BY <1>2, <2>1, <2>3, ThreadMoves, TypeStep DEF QueueTypeOK, MadeInv
  <2> QED BY <2>2, <2>3
<1>3. CASE Unlink
  BY <1>3 DEF Unlink, workerFrame, MadeInv
<1>4. CASE (Worker \/ LowerDevice \/ Remover \/ UNCHANGED vars) /\ ~Unlink
  BY <1>4, WorkerLemma, RemoverLemma DEF workerFrame, vars, irpVars, MadeInv
<1> QED BY <1>1, <1>2, <1>3, <1>4 DEF Next, AttachedNext

LEMMA MadeCorrect == Spec => [](MadeInv /\ DispatchBound)
<1>1. Init => MadeInv /\ DispatchBound
  <2> SUFFICES ASSUME Init PROVE MadeInv /\ DispatchBound
    OBVIOUS
  <2>1. Dispatching = {}
    BY DEF Init, Dispatching
  <2> QED BY <2>1, FS_EmptySet, LimitsAssumption DEF Init, MadeInv, DispatchBound
<1> QED BY <1>1, MadeStep, BoundStep, QueueTypeCorrect, PTL DEF Spec

\* Only the test of the limits makes a request an admitted one.
LEMMA AdmittedLemma ==
  ASSUME QueueTypeOK, ListInv, MadeInv, [Next]_vars, \A r \in Irps : ~AdmitLazily(r)
  PROVE  Admitted' \subseteq Admitted
<1> USE DEF QueueTypeOK, Admitted
<1>1. ASSUME NEW r \in Irps, Insert(r) PROVE Admitted' \subseteq Admitted
  <2>1. Queued' = Queued \cup {r}
    BY <1>1, InsertLemma DEF Queued
  <2> QED BY <1>1, <2>1 DEF Insert, At, Goto
<1>2. ASSUME NEW r \in Irps, Dispatch(r) \/ Continue(r), ~Insert(r)
      PROVE  Admitted' \subseteq Admitted
  <2>1. /\ Queued' = Queued
        /\ \A t \in Irps \ {r} : pc'[t] = pc[t] /\ (t \in lazy' <=> t \in lazy)
        /\ pc[r] = "signal" => pc'[r] = "returned" /\ lazy' = lazy
    BY <1>2, ThreadLemma DEF listVars, Queued
  <2>2. CASE Signal(r)
    BY <2>1, <2>2 DEF Signal, At
  <2>3. CASE MakeItem(r) /\ ~Signal(r)
    BY <1>2, <2>1, <2>3, ThreadMoves DEF MadeInv
  <2>4. CASE ~MakeItem(r) /\ ~Signal(r)
    BY <1>2, <2>1, <2>4, ThreadMoves DEF MadeInv
  <2> QED BY <2>2, <2>3, <2>4
<1>3. CASE Unlink
  <2>1. Queued' \subseteq Queued
    BY <1>3, UnlinkQueued
  <2> QED BY <1>3, <2>1 DEF Unlink, workerFrame
<1>4. CASE (Worker \/ LowerDevice \/ Remover \/ UNCHANGED vars) /\ ~Unlink
  <2>1. UNCHANGED <<pc, lazy, queue>>
    BY <1>4, WorkerLemma, RemoverLemma DEF workerFrame, vars, irpVars, listVars
  <2> QED BY <2>1 DEF Queued
<1> QED BY <1>1, <1>2, <1>3, <1>4 DEF Next, AttachedNext

LEMMA AdmissionStep ==
  QueueTypeOK /\ ListInv /\ MadeInv /\ QueueAccounting /\ DispatchBound /\ DispatchBound'
    /\ AdmissionBound /\ [Next]_vars => AdmissionBound'
<1> SUFFICES ASSUME QueueTypeOK, ListInv, MadeInv, QueueAccounting, DispatchBound',
                    AdmissionBound, [Next]_vars, Admitted' # {}
             PROVE  Cardinality(Admitted') < MaxQueueItems + MaxDispatchers
  BY DEF AdmissionBound
<1>1. CASE \A r \in Irps : ~AdmitLazily(r)
  <2>1. Admitted' \subseteq Admitted
    BY <1>1, AdmittedLemma
  <2>2. IsFiniteSet(Admitted) /\ Cardinality(Admitted) \in Nat
    BY IrpsAssumption, FS_Subset, FS_CardinalityType DEF Admitted
  <2>3. Cardinality(Admitted') <= Cardinality(Admitted) /\ Cardinality(Admitted') \in Nat
    BY <2>1, <2>2, FS_Subset, FS_CardinalityType
  <2> QED BY <2>1, <2>2, <2>3, LimitsAssumption DEF AdmissionBound
<1>2. ASSUME NEW r \in Irps, AdmitLazily(r)
      PROVE  Cardinality(Admitted') < MaxQueueItems + MaxDispatchers
  <2>1. Len(queue) < MaxQueueItems /\ queue' = queue
    BY <1>2 DEF AdmitLazily, BelowLimits, QueueAccounting, listVars
  <2>2. Admitted' \subseteq Queued \cup Dispatching'
    BY <2>1 DEF Admitted, Dispatching, Queued
  <2>3. /\ IsFiniteSet(Queued \cup Dispatching')
        /\ Cardinality(Queued \cup Dispatching')
             <= Cardinality(Queued) + Cardinality(Dispatching')
    <3>1. /\ IsFiniteSet(Queued \cup Dispatching')
          /\ Cardinality(Queued \cup Dispatching') = Cardinality(Queued)
               + Cardinality(Dispatching') - Cardinality(Queued \cap Dispatching')
      BY QueuedCount, DispatchersAreFinite, FS_Union
    <3>2. Cardinality(Queued \cap Dispatching') \in Nat /\ Cardinality(Queued) \in Nat
      BY QueuedCount, FS_Intersection, FS_CardinalityType
    <3> QED BY <3>1, <3>2, DispatchersAreFinite
  <2>4. /\ Cardinality(Admitted') <= Cardinality(Queued \cup Dispatching')
        /\ Cardinality(Admitted') \in Nat /\ Cardinality(Queued) \in Nat
        /\ Cardinality(Queued \cup Dispatching') \in Nat
    BY <2>2, <2>3, QueuedCount, FS_Subset, FS_CardinalityType
  <2>5. Len(queue) \in Nat
    BY LenProperties DEF QueueTypeOK
  <2> QED BY <2>1, <2>3, <2>4, <2>5, QueuedCount, DispatchersAreFinite, LimitsAssumption
          DEF DispatchBound
<1> QED BY <1>1, <1>2

\* The limit on the number of items is tested before WriteQueueLock is taken and may
\* be passed, by less than the threads that can be between the test and the
\* insertion at once: the memory that lazy writes take stays bounded.
\* queue.cpp 24-44, QCacheQueueIrp, against the insertion 206-233
THEOREM AdmissionIsBounded == Spec => []AdmissionBound
<1>1. Init => AdmissionBound
  <2>1. Init => Admitted = {}
    BY DEF Init, Admitted
  <2> QED BY <2>1 DEF AdmissionBound
<1> QED BY <1>1, AdmissionStep, MadeCorrect, QueueTypeCorrect, ListCorrect, CountersAreExact, PTL
        DEF Spec

-----------------------------------------------------------------------------
(* Turning the cache off                                                   *)

\* The requests that saw the cache on and are not yet on the list
Underway == {w \in Irps : pc[w] \in {"limits", "lazy"} \/ (pc[w] = "insert" /\ w \in lazy)}

NeverOn == \A x \in Irps : req[x].kind # "on"
Off(r)  == req[r].kind \in {"off", "shutdown"}

\* As long as nobody turned the cache on, a request that turned it off left it off ...
OffInv ==
  /\ \A r \in Irps : pc[r] = "idle" => req[r].kind = "control"
  /\ NeverOn => \A r \in Irps : Off(r) => ~isCached

\* The writes behind place k of the log
After(k) == {w \in lazy : \E j \in 1 .. Len(log) : j > k /\ log[j] = w}

\* ... and from its insertion on, the writes behind it and those that may still come
\* are together fewer than the threads.
LateInv == NeverOn => \A k \in 1 .. Len(log) :
  Off(log[k]) => Cardinality(Underway \cup After(k)) < MaxDispatchers

LEMMA OffStep ==
  QueueTypeOK /\ OffInv /\ [Next]_vars => OffInv' /\ (NeverOn' => NeverOn)
<1> SUFFICES ASSUME QueueTypeOK, OffInv, [Next]_vars PROVE OffInv' /\ (NeverOn' => NeverOn)
  OBVIOUS
<1> USE DEF QueueTypeOK, OffInv, NeverOn, Off
<1>1. ASSUME NEW r \in Irps, NEW q \in Requests, pc[r] = "idle", pc'[r] # "idle",
             pc' = [pc EXCEPT ![r] = pc'[r]], req' = [req EXCEPT ![r] = q],
             q.kind = "on" \/ isCached' = (isCached /\ q.kind \notin {"off", "shutdown"})
      PROVE  OffInv' /\ (NeverOn' => NeverOn)
  <2>1. req[r].kind = "control" /\ req'[r] = q /\ \A t \in Irps \ {r} : req'[t] = req[t]
    BY <1>1
  <2>2. NeverOn' => NeverOn /\ q.kind # "on"
    BY <2>1
  <2>3. ASSUME NeverOn', NEW t \in Irps, Off(t)' PROVE ~isCached'
    <3>1. isCached' = (isCached /\ q.kind \notin {"off", "shutdown"})
      BY <1>1, <2>2, <2>3
    <3>2. CASE t = r
      BY <2>1, <2>3, <3>1, <3>2
    <3>3. CASE t # r
      BY <2>1, <2>2, <2>3, <3>1, <3>3
    <3> QED BY <3>2, <3>3
  <2>4. \A t \in Irps : pc'[t] = "idle" => req'[t].kind = "control"
    BY <1>1, <2>1
  <2> QED BY <2>2, <2>3, <2>4
<1>2. ASSUME req' = req, \A t \in Irps : pc'[t] = "idle" => pc[t] = "idle",
             isCached' => isCached
      PROVE  OffInv' /\ (NeverOn' => NeverOn)
  BY <1>2
<1>3. ASSUME NEW r \in Irps, NEW q \in Requests,
             AnswerAtOnce(r, q) \/ TurnOn(r, q) \/ EnterQueueIrp(r, q)
      PROVE  OffInv' /\ (NeverOn' => NeverOn)
  <2>1. /\ pc[r] = "idle" /\ pc'[r] # "idle" /\ pc' = [pc EXCEPT ![r] = pc'[r]]
        /\ req' = [req EXCEPT ![r] = q]
    BY <1>3 DEF AnswerAtOnce, TurnOn, EnterQueueIrp, Arrive, At, CompleteAndReturn, Goto
  <2>2. q.kind = "on" \/ isCached' = (isCached /\ q.kind \notin {"off", "shutdown"})
    BY <1>3, Zenon DEF AnswerAtOnce, TurnOn, EnterQueueIrp, TurnsOff
  <2> QED BY <1>1, <2>1, <2>2
<1>4. ASSUME NEW r \in Irps, Continue(r) PROVE OffInv' /\ (NeverOn' => NeverOn)
  <2>1. /\ req' = req /\ isCached' = isCached
        /\ \A t \in Irps : pc'[t] = "idle" => pc[t] = "idle"
    BY <1>4 DEF Continue, AdmitLazily, Decline, NoItem, NoBuffer, MakeItem, Insert, Signal,
         At, CompleteAndReturn, Goto
  <2> QED BY <1>2, <2>1
<1>5. CASE Worker \/ LowerDevice \/ Remover \/ UNCHANGED vars
  <2>1. req' = req /\ pc' = pc
    <3>1. CASE Unlink
      BY <3>1 DEF Unlink, workerFrame
    <3>2. CASE ~Unlink
      BY <1>5, <3>2, WorkerLemma, RemoverLemma DEF workerFrame, vars, irpVars
    <3> QED BY <3>1, <3>2
  <2>2. isCached' => isCached
    <3>1. CASE Unlink
      BY <3>1 DEF Unlink, workerFrame
    <3>2. CASE Remover
      BY <3>2 DEF Remover, BeginRemove, RequestExit, WakeWorker, JoinWorker, FinalFlush,
           CloseLock, DeleteDevice
    <3>3. CASE ~Unlink /\ ~Remover
      BY <1>5, <3>3, WorkerLemma DEF workerFrame, vars, flagVars
    <3> QED BY <3>1, <3>2, <3>3
  <2> QED BY <1>2, <2>1, <2>2
<1> QED BY <1>3, <1>4, <1>5 DEF Next, AttachedNext, Dispatch

\* No step of a request that saw the cache off brings a lazy write under way.
LEMMA UnderwayStep ==
  ASSUME QueueTypeOK, MadeInv, ~isCached, [Next]_vars
  PROVE  Underway' \subseteq Underway
<1> USE DEF QueueTypeOK, Underway
<1>1. ASSUME NEW r \in Irps, Insert(r) PROVE Underway' \subseteq Underway
  BY <1>1 DEF Insert, At, Goto
<1>2. ASSUME NEW r \in Irps, Dispatch(r) \/ Continue(r), ~Insert(r)
      PROVE  Underway' \subseteq Underway
  <2>1. \A t \in Irps \ {r} : pc'[t] = pc[t] /\ (t \in lazy' <=> t \in lazy)
    BY <1>2, ThreadLemma
  <2>2. CASE Signal(r)
    BY <2>1, <2>2, <1>2, ThreadLemma DEF Signal, At
  <2>3. CASE MakeItem(r) /\ ~Signal(r)
    BY <1>2, <2>1, <2>3, ThreadMoves DEF MadeInv
  <2>4. CASE ~MakeItem(r) /\ ~Signal(r)
    <3>1. pc'[r] # "limits"
      BY <1>2, <2>4 DEF Dispatch, Continue, AnswerAtOnce, TurnOn, EnterQueueIrp, AdmitLazily,
           Decline, NoItem, NoBuffer, At, Arrive, CompleteAndReturn, Goto
    <3>2. pc'[r] = "lazy" => pc[r] = "limits"
      BY <1>2, <2>4, ThreadMoves DEF AdmitLazily, At
    <3> QED BY <1>2, <2>1, <2>4, <3>1, <3>2, ThreadMoves
  <2> QED BY <2>2, <2>3, <2>4
<1>3. CASE Unlink
  BY <1>3 DEF Unlink, workerFrame
<1>4. CASE (Worker \/ LowerDevice \/ Remover \/ UNCHANGED vars) /\ ~Unlink
  BY <1>4, WorkerLemma, RemoverLemma DEF workerFrame, vars, irpVars
<1> QED BY <1>1, <1>2, <1>3, <1>4 DEF Next, AttachedNext

\* The log only grows, by insertions, and keeps what it says of its entries.
LEMMA LogGrows ==
  ASSUME QueueTypeOK, ListInv, [Next]_vars
  PROVE  /\ Len(log) \in Nat
         /\ \A i \in 1 .. Len(log) : /\ log[i] \in Irps /\ log'[i] = log[i]
                                     /\ req'[log[i]] = req[log[i]]
                                     /\ log[i] \in lazy' <=> log[i] \in lazy
         /\ \/ Len(log') = Len(log)
            \/ \E r \in Irps : Insert(r) /\ Len(log') = Len(log) + 1 /\ log'[Len(log) + 1] = r
<1>1. Len(log) \in Nat /\ \A i \in 1 .. Len(log) : log[i] \in Irps
  BY ElementOfSeq, LenProperties DEF QueueTypeOK
<1>2. ASSUME NEW r \in Irps, Insert(r)
      PROVE  Len(log') = Len(log) + 1 /\ log'[Len(log) + 1] = r
  BY <1>2, InsertLemma
<1>3. ASSUME NEW r \in Irps, Dispatch(r) \/ Continue(r), ~Insert(r) PROVE log' = log
  BY <1>3, ThreadLemma DEF listVars
<1>4. ASSUME NEW r \in Irps, Dispatch(r) \/ Continue(r)
      PROVE  \A i \in 1 .. Len(log) : /\ log'[i] = log[i] /\ req'[log[i]] = req[log[i]]
                                      /\ log[i] \in lazy' <=> log[i] \in lazy
  BY <1>4, ThreadFrame
<1>5. CASE Worker \/ LowerDevice \/ Remover \/ UNCHANGED vars
  <2>1. log' = log /\ req' = req /\ lazy' = lazy
    BY <1>5, DoneLemma, RemoverFrame DEF irpVars, listVars
  <2> QED BY <1>1, <2>1
<1> QED BY <1>1, <1>2, <1>3, <1>4, <1>5 DEF Next, AttachedNext

LEMMA LateStep ==
  QueueTypeOK /\ ListInv /\ MadeInv /\ DispatchBound' /\ OffInv /\ LateInv /\ [Next]_vars
    => LateInv'
<1> SUFFICES ASSUME QueueTypeOK, ListInv, MadeInv, DispatchBound', OffInv, LateInv, [Next]_vars,
                    NeverOn', NEW k \in 1 .. Len(log'), Off(log[k])'
             PROVE  Cardinality(Underway' \cup After(k)') < MaxDispatchers
  BY DEF LateInv
<1>1. NeverOn /\ Len(log) \in Nat /\ Len(log') \in Nat
  BY OffStep, LogGrows
<1>2. CASE k <= Len(log)
  <2>1. k \in 1 .. Len(log) /\ log[k] \in Irps /\ log'[k] = log[k] /\ req'[log[k]] = req[log[k]]
    BY <1>1, <1>2, LogGrows
  <2>2. Cardinality(Underway \cup After(k)) < MaxDispatchers /\ ~isCached
    BY <1>1, <2>1 DEF LateInv, OffInv, Off
  <2>3. Underway' \subseteq Underway
    BY <2>2, UnderwayStep
  <2>4. After(k)' \subseteq Underway \cup After(k)
    <3> SUFFICES ASSUME NEW w \in lazy', NEW j \in 1 .. Len(log'), j > k, log'[j] = w
                 PROVE  w \in Underway \cup After(k)
      BY DEF After
    <3>1. CASE j <= Len(log)
      <4>1. j \in 1 .. Len(log) /\ w = log[j] /\ w \in lazy
        BY <1>1, <3>1, LogGrows
      <4> QED BY <4>1 DEF After
    <3>2. CASE j > Len(log)
      <4>1. PICK r \in Irps : Insert(r) /\ Len(log') = Len(log) + 1 /\ log'[Len(log) + 1] = r
        BY <1>1, <3>2, LogGrows
      <4>2. w = r
        BY <1>1, <3>2, <4>1
      <4> QED BY <4>1, <4>2 DEF Insert, At, Underway
    <3> QED BY <1>1, <3>1, <3>2
  <2>5. IsFiniteSet(Underway \cup After(k))
    <3>1. Underway \cup After(k) \subseteq Irps
      BY DEF Underway, After, QueueTypeOK
    <3> QED BY <3>1, IrpsAssumption, FS_Subset
  <2>6. Underway' \cup After(k)' \subseteq Underway \cup After(k)
    BY <2>3, <2>4
  <2>7. /\ Cardinality(Underway' \cup After(k)') <= Cardinality(Underway \cup After(k))
        /\ Cardinality(Underway' \cup After(k)') \in Nat
        /\ Cardinality(Underway \cup After(k)) \in Nat
    BY <2>5, <2>6, FS_Subset, FS_CardinalityType
  <2> QED BY <2>2, <2>7, LimitsAssumption
<1>3. CASE k > Len(log)
  <2>1. PICK r \in Irps : Insert(r) /\ Len(log') = Len(log) + 1 /\ log'[Len(log) + 1] = r
    BY <1>1, <1>3, LogGrows
  <2>2. After(k)' = {}
    BY <1>1, <1>3, <2>1 DEF After
  <2>3. Underway' \subseteq Dispatching' \ {r} /\ r \in Dispatching'
    BY <2>1 DEF Underway, Dispatching, Insert, Goto, At, QueueTypeOK
  <2>4. Cardinality(Dispatching' \ {r}) = Cardinality(Dispatching') - 1
        /\ IsFiniteSet(Dispatching' \ {r})
    BY <2>3, DispatchersAreFinite, FS_RemoveElement
  <2>5. Cardinality(Underway') <= Cardinality(Dispatching' \ {r}) /\ Cardinality(Underway') \in Nat
    BY <2>3, <2>4, FS_Subset, FS_CardinalityType
  <2>6. Cardinality(Underway') < MaxDispatchers
    <3>1. Cardinality(Dispatching') <= MaxDispatchers
      BY DEF DispatchBound
    <3> QED BY <2>4, <2>5, <3>1, DispatchersAreFinite, LimitsAssumption
  <2>7. Underway' \cup After(k)' = Underway'
    BY <2>2
  <2> QED BY <2>6, <2>7
<1> QED BY <1>1, <1>2, <1>3

LEMMA LateLemma == QueueTypeOK /\ ListInv /\ LateInv => LateWritesBounded
<1> SUFFICES ASSUME QueueTypeOK, ListInv, LateInv, NEW r \in ToSet(log),
                    req[r].kind \in {"off", "shutdown"}, NeverOn
             PROVE  Cardinality(Behind(r)) < MaxDispatchers
  BY DEF LateWritesBounded, NeverOn
<1>1. Len(log) \in Nat /\ \A i, j \in 1 .. Len(log) : log[i] = log[j] => i = j
  BY LenProperties DEF QueueTypeOK, ListInv
<1>2. DOMAIN log = 1 .. Len(log)
  BY LenProperties DEF QueueTypeOK
<1>3. PICK k \in 1 .. Len(log) : log[k] = r
  BY ToSetLemma DEF QueueTypeOK
<1>4. Cardinality(Underway \cup After(k)) < MaxDispatchers
  BY <1>3 DEF LateInv, Off
<1>5. Behind(r) \subseteq Underway \cup After(k)
  BY <1>1, <1>2, <1>3 DEF Behind, After
<1>6. IsFiniteSet(Underway \cup After(k))
  <2>1. Underway \cup After(k) \subseteq Irps
    BY DEF Underway, After, QueueTypeOK
  <2> QED BY <2>1, IrpsAssumption, FS_Subset
<1>7. /\ Cardinality(Behind(r)) <= Cardinality(Underway \cup After(k))
      /\ Cardinality(Behind(r)) \in Nat /\ Cardinality(Underway \cup After(k)) \in Nat
  BY <1>5, <1>6, FS_Subset, FS_CardinalityType
<1> QED BY <1>4, <1>7, LimitsAssumption

\* Turning the cache off is no barrier: writes that passed the test of IsCached before
\* are queued, and answered, behind the OFF or the shutdown.  As long as nobody turns
\* the cache on they are fewer than the dispatch threads, because OFF itself is one,
\* and no thread that comes later makes a lazy item.
\* ioctl.cpp 57-60, write.cpp 67-77, against the test in queue.cpp 20-23
THEOREM LateWritesAreBounded == Spec => []LateWritesBounded
<1>1. Init => OffInv /\ LateInv
  <2> SUFFICES ASSUME Init PROVE OffInv /\ LateInv
    OBVIOUS
  <2>1. Len(log) = 0
    BY DEF Init
  <2> QED BY <2>1 DEF Init, OffInv, LateInv, Off
<1>2. Spec => []OffInv
  BY <1>1, OffStep, QueueTypeCorrect, PTL DEF Spec
<1>3. Spec => []LateInv
  BY <1>1, <1>2, LateStep, MadeCorrect, QueueTypeCorrect, ListCorrect, PTL DEF Spec
<1> QED BY <1>3, LateLemma, QueueTypeCorrect, ListCorrect, PTL

-----------------------------------------------------------------------------
(* Who holds the remove lock, and the end of the device                    *)

\* Every holder is an item on its way to the list, on it or in the worker's hands,
\* or was lost by NoBuffer.
HolderInv == \A r \in holders :
  \/ pc[r] = "insert"
  \/ r \in Queued
  \/ wpc = "release" /\ witem = r
  \/ pc[r] = "returned" /\ status[r] = "INSUFFICIENT_RESOURCES"

LEMMA HolderThread ==
  ASSUME TypeOK, ListInv, HolderInv, NEW r \in Irps, Dispatch(r) \/ Continue(r)
  PROVE  HolderInv'
<1> USE DEF TypeOK, QueueTypeOK
<1>1. CASE Insert(r)
  <2>1. Queued' = Queued \cup {r}
    BY <1>1, InsertLemma DEF Queued
  <2> QED BY <1>1, <2>1 DEF HolderInv, Insert, At, Goto, threadFrame
<1>2. CASE ~Insert(r)
  <2>1. /\ Queued' = Queued /\ UNCHANGED <<wpc, witem>> /\ pc[r] # "returned"
        /\ \A t \in Irps \ {r} : pc'[t] = pc[t] /\ status'[t] = status[t]
    BY <1>2, ThreadLemma DEF listVars, threadFrame, Queued
  <2>2. CASE Signal(r)
    BY <2>1, <2>2 DEF HolderInv, Signal, At
  <2>3. CASE ~Signal(r)
    <3>1. pc[r] \in {"idle", "limits", "lazy", "defer"}
      BY <1>2, <2>3, ThreadMoves
    <3>2. r \notin holders
      <4>1. r \notin Queued
        BY <3>1, QueuedInLog DEF ListInv
      <4>2. ~(wpc = "release" /\ witem = r)
        <5>1. wpc = "release" => Retired \in 1 .. Len(log) /\ witem = log[Retired]
          BY LenProperties DEF ListInv, Retired
        <5> QED BY <3>1, <5>1 DEF ListInv
      <4> QED BY <3>1, <4>1, <4>2 DEF HolderInv
    <3>3. CASE MakeItem(r)
      BY <1>2, <2>1, <2>3, <3>2, <3>3, ThreadMoves DEF HolderInv
    <3>4. CASE NoBuffer(r)
      <4>1. /\ pc'[r] = "returned" /\ status'[r] = "INSUFFICIENT_RESOURCES"
            /\ holders' = holders \cup {r}
        BY <1>2, <2>3, <3>4, ThreadMoves
      <4> QED BY <2>1, <4>1 DEF HolderInv
    <3>5. CASE ~MakeItem(r) /\ ~NoBuffer(r)
      BY <1>2, <2>1, <2>3, <3>2, <3>5, ThreadMoves DEF HolderInv
    <3> QED BY <3>3, <3>4, <3>5
  <2> QED BY <2>2, <2>3
<1> QED BY <1>1, <1>2

LEMMA HolderWorker ==
  ASSUME TypeOK, ListInv, HolderInv, Worker \/ LowerDevice
  PROVE  HolderInv'
<1> USE DEF TypeOK, QueueTypeOK
<1>1. CASE Unlink
  <2>1. Queued' = Queued \ {witem}
    BY <1>1, UnlinkQueued
  <2> QED BY <1>1, <2>1 DEF HolderInv, Unlink, WGoto, workerFrame
<1>2. CASE ReleaseItem
  <2>1. Queued' = Queued
    BY <1>2 DEF ReleaseItem, Queued
  <2> QED BY <1>2, <2>1 DEF HolderInv, ReleaseItem, ReleaseLock, WGoto, workerFrame
<1>3. CASE ~Unlink /\ ~ReleaseItem
  <2>1. UNCHANGED <<queue, pc>>
    BY <1>3, WorkerLemma DEF workerFrame
  <2>2. holders' = holders /\ wpc # "release"
    BY <1>3 DEF Worker, LowerDevice, WGoto, LookAtHead, CheckShutdown, WakeUp,
         PassMarker, SendDown, BuildFails, LowerSucceeds, LowerFails, CompleteIrp
  <2>3. \A t \in Irps : status'[t] = status[t] \/ t \in Queued
    <3>1. CASE PassMarker \/ LowerDevice
      <4>1. Retired + 1 \in 1 .. Len(log) /\ witem = log[Retired + 1] /\ Retired + 1 > Retired
        BY <3>1, CarriedLemma DEF PassMarker, LowerDevice, LowerSucceeds, LowerFails, WGoto,
             Carrying, ListInv
      <4>2. witem \in Queued
        BY <4>1, QueuedLemma
      <4> QED BY <3>1, <4>2 DEF PassMarker, LowerDevice, LowerSucceeds, LowerFails, SetStatus
    <3>2. CASE ~(PassMarker \/ LowerDevice)
      BY <1>3, <3>2 DEF Worker, LookAtHead, CheckShutdown, WakeUp, SendDown, BuildFails,
           CompleteIrp
    <3> QED BY <3>1, <3>2
  <2> QED BY <2>1, <2>2, <2>3 DEF HolderInv, Queued
<1> QED BY <1>1, <1>2, <1>3

\* When no request is under way and the list is empty, the remove lock is free but
\* for the acquisitions that NoBuffer lost: these alone can hold a removal up for
\* ever.  queue.cpp 61, 149-199, 360 (docs/KNOWN_ISSUES.md QC-05)
THEOREM OnlyLostItemsHoldTheLock == Spec => []RemoveLockBalanced
<1>1. Init => HolderInv
  BY DEF Init, HolderInv
<1>2. TypeOK /\ ListInv /\ HolderInv /\ [Next]_vars => HolderInv'
  <2> SUFFICES ASSUME TypeOK, ListInv, HolderInv, [Next]_vars PROVE HolderInv'
    OBVIOUS
  <2>1. CASE Remover \/ UNCHANGED vars
    BY <2>1, RemoverLemma DEF HolderInv, Queued, vars, irpVars, listVars
  <2> QED BY <2>1, HolderThread, HolderWorker DEF Next, AttachedNext
<1>3. TypeOK /\ HolderInv => RemoveLockBalanced
  <2> SUFFICES ASSUME TypeOK, HolderInv, Dispatching = {}, queue = <<>>, wpc # "release",
                      NEW r \in holders
               PROVE  status[r] = "INSUFFICIENT_RESOURCES"
    BY DEF RemoveLockBalanced, Leaked
  <2>1. r \in Irps /\ r \notin Queued
    BY EmptySeq DEF TypeOK, Queued, ToSet
  <2>2. pc[r] # "insert"
    BY <2>1 DEF Dispatching
  <2> QED BY <2>1, <2>2 DEF HolderInv
<1> QED BY <1>1, <1>2, <1>3, TypeCorrect, ListCorrect, PTL DEF Spec

\* What each stage of QCacheRemoveDevice has already secured
DrainInv ==
  /\ rpc \in {"flush", "forward", "drain", "deleted"} => wpc = "exited"
  /\ rpc \in {"drain", "deleted"} => removed
  /\ flushed => rpc \in {"forward", "drain", "deleted"} /\ unflushed = {}
  /\ ~Attached => queue = <<>> /\ \A r \in Irps : pc[r] # "insert"

LEMMA DrainThread ==
  ASSUME QueueTypeOK, DrainInv, NEW r \in Irps, Dispatch(r) \/ Continue(r)
  PROVE  DrainInv'
<1>1. Attached
  BY DEF Dispatch, Continue, AnswerAtOnce, TurnOn, EnterQueueIrp, Arrive, AdmitLazily,
         Decline, NoItem, NoBuffer, MakeItem, Insert, Signal, At
<1>2. UNCHANGED <<wpc, removeVars, diskVars>>
  <2>1. CASE Insert(r)
    BY <2>1 DEF Insert, threadFrame
  <2> QED BY <2>1, ThreadLemma DEF threadFrame
<1> QED BY <1>1, <1>2 DEF DrainInv, Attached, removeVars, diskVars

LEMMA DrainWorker ==
  ASSUME DrainInv, Worker \/ LowerDevice
  PROVE  DrainInv'
<1>1. wpc # "exited" /\ UNCHANGED removeVars
  BY DEF Worker, LowerDevice, WGoto, LookAtHead, CheckShutdown, WakeUp, PassMarker, SendDown,
         BuildFails, LowerSucceeds, LowerFails, CompleteIrp, Unlink, ReleaseItem, workerFrame
<1> QED BY <1>1 DEF DrainInv, Attached, removeVars

LEMMA DrainRemover ==
  ASSUME QueueTypeOK, ItemHoldsLock, DrainInv, Remover
  PROVE  DrainInv'
<1>0. UNCHANGED <<pc, queue, wpc>>
  BY RemoverLemma DEF irpVars, listVars
<1>1. CASE BeginRemove \/ RequestExit \/ WakeWorker
  BY <1>0, <1>1 DEF BeginRemove, RequestExit, WakeWorker, RGoto, DrainInv, Attached
<1>2. CASE JoinWorker
  BY <1>0, <1>2 DEF JoinWorker, RGoto, DrainInv, Attached
<1>3. CASE FinalFlush
  BY <1>0, <1>3 DEF FinalFlush, RGoto, DrainInv, Attached
<1>4. CASE CloseLock
  BY <1>0, <1>4 DEF CloseLock, RGoto, DrainInv, Attached
<1>5. CASE DeleteDevice
  <2>1. Queued = {} /\ \A r \in Irps : pc[r] # "insert"
    BY <1>5 DEF DeleteDevice, LockDrained, ItemHoldsLock
  <2>2. queue = <<>>
    <3>1. queue \in Seq(Irps) /\ Len(queue) \in Nat
      BY LenProperties DEF QueueTypeOK
    <3>2. ~(1 \in 1 .. Len(queue))
      BY <2>1, <3>1, ToSetLemma DEF Queued
    <3> QED BY <3>1, <3>2, EmptySeq
  <2> QED BY <1>0, <1>5, <2>1, <2>2 DEF DeleteDevice, RGoto, DrainInv, Attached
<1> QED BY <1>1, <1>2, <1>3, <1>4, <1>5 DEF Remover

\* The device is deleted when the worker has ended and nothing is on the list or about
\* to be: whatever arrives during the removal, a queued item delays it and is not left
\* behind.  A final flush that was carried out is the last word: nothing reaches the
\* cache of the lower device after it.  One that fails, or that there is no memory for,
\* does not stop the removal.
\* mainwdm.cpp 493-507, 586-593, 1195-1235, QCacheCleanupDevice and QCacheRemoveDevice
THEOREM DeletedDevicesAreDrained == Spec => []DeletedMeansDrained
<1>1. Init => DrainInv
  BY DEF Init, DrainInv, Attached
<1>2. QueueTypeOK /\ ItemHoldsLock /\ DrainInv /\ [Next]_vars => DrainInv'
  <2> SUFFICES ASSUME QueueTypeOK, ItemHoldsLock, DrainInv, [Next]_vars PROVE DrainInv'
    OBVIOUS
  <2>1. CASE UNCHANGED vars
    BY <2>1 DEF vars, irpVars, listVars, removeVars, diskVars, DrainInv, Attached
  <2> QED BY <2>1, DrainThread, DrainWorker, DrainRemover DEF Next, AttachedNext
<1>3. DrainInv => DeletedMeansDrained
  BY DEF DrainInv, DeletedMeansDrained, Attached
<1> QED BY <1>1, <1>2, <1>3, QueueTypeCorrect, ItemsHoldTheLock, PTL DEF Spec

-----------------------------------------------------------------------------
(* The queue, its worker and the removal of the device implement           *)
(* WriteBehind: every step is a step of it under the mapping of WriteQueue *)
(* or changes nothing that it knows of.                                    *)

\* The mapping, by name
RangeOf  == [r \in Irps |-> req[r].range]
Accepted == ToSet(log)
Outcome  == IF wpc \notin {"complete", "unlink"} THEN "none"
            ELSE IF witem \in failed THEN "failed" ELSE "ok"
Answer   == [r \in Irps |-> IF completions[r] = 0 THEN "none" ELSE status[r]]
Errors   == Statuses \ {"none", "SUCCESS"}

\* Who signals has inserted.
SignalInv == \A r \in Irps : pc[r] = "signal" => r \in Accepted

\* Only what the worker carried out may have failed.
FailInv == \A r \in failed : \E i \in 1 .. Len(log) : i <= Done /\ log[i] = r

\* The outcome of a deferred item is in its IRP.
StatusInv == wpc \in {"complete", "unlink"} /\ witem \notin lazy =>
  status[witem] = IF witem \in failed THEN "IO_ERROR" ELSE "SUCCESS"

PromiseInv == /\ QueueTypeOK /\ ListInv /\ CompletedOnce /\ MadeInv
              /\ SignalInv /\ FailInv /\ StatusInv

-----------------------------------------------------------------------------
(* The invariant                                                           *)

LEMMA AcceptedLemma ==
  ASSUME QueueTypeOK
  PROVE  /\ Len(log) \in Nat
         /\ \A r : r \in Accepted <=> \E i \in 1 .. Len(log) : log[i] = r
<1>1. log \in Seq(Irps)
  BY DEF QueueTypeOK
<1>2. Len(log) \in Nat
  BY <1>1, LenProperties
<1>3. \A r : r \in Accepted <=> \E i \in 1 .. Len(log) : log[i] = r
  BY <1>1, ToSetLemma, Zenon DEF Accepted
<1> QED BY <1>2, <1>3

LEMMA SignalStep == QueueTypeOK /\ SignalInv /\ [Next]_vars => SignalInv'
<1> SUFFICES ASSUME QueueTypeOK, SignalInv, [Next]_vars PROVE SignalInv'
  OBVIOUS
<1>1. ASSUME NEW r \in Irps, Insert(r) PROVE SignalInv'
  <2>1. log' = Append(log, r) /\ pc' = [pc EXCEPT ![r] = "signal"]
    BY <1>1 DEF Insert, Goto
  <2>2. Accepted' = Accepted \cup {r}
    <3>1. ToSet(Append(log, r)) = ToSet(log) \cup {r}
      BY AppendLemma DEF QueueTypeOK
    <3> QED BY <2>1, <3>1 DEF Accepted
  <2> QED BY <2>1, <2>2 DEF SignalInv, QueueTypeOK
<1>2. ASSUME NEW r \in Irps, Dispatch(r) \/ Continue(r), ~Insert(r) PROVE SignalInv'
  <2>1. log' = log /\ \A t \in Irps \ {r} : pc'[t] = pc[t]
    BY <1>2, ThreadLemma DEF listVars
  <2>2. pc'[r] # "signal"
    BY <1>2 DEF QueueTypeOK, Dispatch, Continue, AnswerAtOnce, TurnOn, EnterQueueIrp,
         AdmitLazily, Decline, NoItem, NoBuffer, MakeItem, Signal,
         CompleteAndReturn, Goto
  <2> QED BY <2>1, <2>2 DEF SignalInv, Accepted
<1>3. CASE Worker \/ LowerDevice
  <2>1. UNCHANGED <<log, pc>>
    BY <1>3, WorkerLemma DEF Unlink, workerFrame
  <2> QED BY <2>1 DEF SignalInv, Accepted
<1>4. CASE Remover \/ UNCHANGED vars
  BY <1>4, RemoverFrame DEF SignalInv, Accepted, irpVars, listVars
<1> QED BY <1>1, <1>2, <1>3, <1>4, Zenon DEF Next, AttachedNext

LEMMA FailStep == QueueTypeOK /\ ListInv /\ FailInv /\ [Next]_vars => FailInv'
<1> SUFFICES ASSUME QueueTypeOK, ListInv, FailInv, [Next]_vars PROVE FailInv'
  OBVIOUS
<1>1. /\ Len(log) \in Nat /\ Len(queue) \in Nat /\ Retired \in Nat
  BY LenProperties DEF QueueTypeOK, ListInv
<1>2. Done \in Nat
  BY <1>1 DEF Done
<1>3. ASSUME NEW r \in Irps, Dispatch(r) \/ Continue(r) PROVE FailInv'
  <2>1. /\ failed' = failed /\ Done' = Done /\ Len(log') \in Nat
        /\ Len(log') >= Len(log) /\ \A i \in 1 .. Len(log) : log'[i] = log[i]
    BY <1>3, ThreadFrame DEF diskVars
  <2> QED BY <1>1, <2>1 DEF FailInv
<1>4. CASE LowerDevice \/ PassMarker
  <2>1. log' = log /\ Done = Retired /\ Done' = Retired + 1
    BY <1>4, DoneLemma DEF Worker
  <2>2. Retired + 1 \in 1 .. Len(log) /\ witem = log[Retired + 1]
    BY <1>4, CarriedLemma DEF LowerDevice, LowerSucceeds, LowerFails,
                              PassMarker, WGoto, Carrying
  <2>3. failed' \subseteq failed \cup {witem}
    BY <1>4 DEF LowerDevice, LowerSucceeds, LowerFails, PassMarker, diskVars
  <2> QED BY <1>1, <1>2, <2>1, <2>2, <2>3 DEF FailInv
<1>5. CASE Worker /\ ~(LowerDevice \/ PassMarker)
  <2>1. UNCHANGED <<log, failed>> /\ Done' = Done
    BY <1>5, DoneLemma DEF diskVars
  <2> QED BY <2>1 DEF FailInv
<1>6. CASE Remover \/ UNCHANGED vars
  BY <1>6, RemoverFrame DEF FailInv, listVars
<1> QED BY <1>3, <1>4, <1>5, <1>6, Zenon DEF Next, AttachedNext

LEMMA StatusStep ==
  QueueTypeOK /\ ListInv /\ FailInv /\ StatusInv /\ [Next]_vars => StatusInv'
<1> SUFFICES ASSUME QueueTypeOK, ListInv, FailInv, StatusInv, [Next]_vars
             PROVE  StatusInv'
  OBVIOUS
<1>1. ASSUME NEW r \in Irps, Dispatch(r) \/ Continue(r) PROVE StatusInv'
  <2> SUFFICES ASSUME wpc \in {"complete", "unlink"}
               PROVE  StatusInv'
    BY <1>1, ThreadLemma DEF Insert, threadFrame, StatusInv
  <2>1. /\ Retired + 1 \in 1 .. Len(log) /\ witem = log[Retired + 1]
    BY CarriedLemma DEF Carrying
  <2>2. /\ witem \in lazy' <=> witem \in lazy
        /\ witem \notin lazy => status'[witem] = status[witem]
        /\ failed' = failed
    BY <1>1, <2>1, ThreadFrame DEF diskVars
  <2>3. witem' = witem /\ wpc' = wpc
    BY <1>1, ThreadLemma DEF Insert, threadFrame
  <2> QED BY <2>2, <2>3 DEF StatusInv
<1>2. CASE LowerDevice \/ PassMarker
  <2>1. UNCHANGED <<witem, lazy>> /\ witem \in Irps
    BY <1>2 DEF LowerDevice, LowerSucceeds, LowerFails, PassMarker, WGoto,
                workerFrame, QueueTypeOK
  <2>2. witem \notin failed
    <3>1. /\ Len(log) \in Nat /\ Len(queue) \in Nat /\ Retired \in Nat
      BY LenProperties DEF QueueTypeOK, ListInv
    <3>2. Retired + 1 \in 1 .. Len(log) /\ witem = log[Retired + 1] /\ Done = Retired
      BY <1>2, CarriedLemma, DoneLemma DEF LowerDevice, LowerSucceeds, LowerFails,
               PassMarker, WGoto, Carrying, Worker
    <3>3. ASSUME witem \in failed PROVE FALSE
      <4>1. PICK i \in 1 .. Len(log) : i <= Done /\ log[i] = witem
        BY <3>3 DEF FailInv
      <4>2. i = Retired + 1
        BY <3>2, <4>1 DEF ListInv
      <4> QED BY <3>1, <3>2, <4>1, <4>2
    <3> QED BY <3>3
  <2>3. CASE LowerFails
    BY <2>1, <2>3 DEF LowerFails, SetStatus, StatusInv, QueueTypeOK
  <2>4. CASE LowerSucceeds \/ PassMarker
    BY <2>1, <2>2, <2>4 DEF LowerSucceeds, PassMarker, SetStatus, StatusInv,
                            QueueTypeOK, diskVars
  <2> QED BY <1>2, <2>3, <2>4 DEF LowerDevice
<1>3. CASE Worker /\ ~(LowerDevice \/ PassMarker)
  <2>1. UNCHANGED <<lazy, status, failed>>
    BY <1>3, DoneLemma DEF diskVars
  <2>2. wpc' \in {"complete", "unlink"} => wpc \in {"complete", "unlink"} /\ witem' = witem
    BY <1>3 DEF Worker, WGoto, LookAtHead, CheckShutdown, WakeUp, SendDown,
         BuildFails, CompleteIrp, Unlink, ReleaseItem
  <2> QED BY <2>1, <2>2 DEF StatusInv
<1>4. CASE Remover \/ UNCHANGED vars
  BY <1>4, RemoverFrame DEF StatusInv, irpVars
<1> QED BY <1>1, <1>2, <1>3, <1>4, Zenon DEF Next, AttachedNext

\* What the refinement rests on: beside the list and the owners of its requests, when
\* an item is marked as a lazy one, that who signals has inserted, that only what the
\* worker carried out can have failed, and that a deferred item is completed with its
\* own outcome.  queue.cpp 53-125, 205-363
THEOREM PromiseInvariant == Spec => []PromiseInv
<1>1. Init => MadeInv /\ SignalInv /\ FailInv /\ StatusInv
  BY DEF Init, MadeInv, SignalInv, FailInv, StatusInv
<1> QED BY <1>1, MadeStep, SignalStep, FailStep, StatusStep, QueueTypeCorrect,
           ListCorrect, IrpsCompleteOnce, PTL DEF Spec, PromiseInv

-----------------------------------------------------------------------------
(* The steps                                                               *)

mappedVars == <<RangeOf, lazy, Accepted, queue, Outcome, disk, Answer>>

LEMMA StutterLemma == UNCHANGED mappedVars => UNCHANGED Promised!vars
BY DEF mappedVars, Promised!vars, RangeOf, Accepted, Outcome, Answer

\* A request that has no place in the order was not answered yet.
LEMMA FreshLemma ==
  ASSUME PromiseInv, NEW r \in Irps,
         pc[r] \in {"idle", "limits", "lazy", "defer", "insert"}
  PROVE  /\ completions[r] = 0 /\ Answer[r] = "none" /\ r \notin Accepted
         /\ pc[r] # "insert" => r \notin lazy
<1>1. completions[r] = 0
  BY DEF PromiseInv, CompletedOnce, OwnedByThread
<1>2. r \notin Accepted
  BY AcceptedLemma DEF PromiseInv, ListInv
<1> QED BY <1>1, <1>2 DEF PromiseInv, MadeInv, Answer

\* The first completion of a request answers it.
LEMMA AnswerLemma ==
  ASSUME PromiseInv, NEW r \in Irps, completions[r] = 0, NEW st,
         CompleteAndReturn(r, st)
  PROVE  Answer' = [Answer EXCEPT ![r] = st]
<1>1. completions \in [Irps -> Nat] /\ status \in [Irps -> Statuses]
  BY DEF PromiseInv, QueueTypeOK
<1>2. /\ completions' = [completions EXCEPT ![r] = 1]
      /\ status' = [status EXCEPT ![r] = st]
  BY <1>1 DEF CompleteAndReturn
<1>3. \A t \in Irps : Answer'[t] = IF t = r THEN st ELSE Answer[t]
  BY <1>1, <1>2 DEF Answer
<1> QED BY <1>3 DEF Answer

\* The dispatch threads up to the insertion
LEMMA SubmitStep ==
  ASSUME PromiseInv, NEW r \in Irps, NEW q \in Requests,
         AnswerAtOnce(r, q) \/ TurnOn(r, q) \/ EnterQueueIrp(r, q)
  PROVE  Promised!Submit(r, q.range)
<1>1. pc[r] = "idle" /\ req' = [req EXCEPT ![r] = q]
  BY DEF AnswerAtOnce, TurnOn, EnterQueueIrp, Arrive, At
<1>2. UNCHANGED <<lazy, log, queue, wpc, witem, disk, failed>>
  BY DEF AnswerAtOnce, TurnOn, EnterQueueIrp, threadFrame, listVars, diskVars
<1>3. completions[r] = 0 /\ Answer[r] = "none" /\ r \notin Accepted /\ r \notin lazy
  BY <1>1, FreshLemma
<1>4. RangeOf' = [RangeOf EXCEPT ![r] = q.range]
  BY <1>1 DEF RangeOf, PromiseInv, QueueTypeOK
<1>5. \/ Answer' = Answer
      \/ q.range = {} /\ Answer' = [Answer EXCEPT ![r] = "SUCCESS"]
      \/ \E a \in Errors : Answer' = [Answer EXCEPT ![r] = a]
  <2>1. ASSUME NEW st, CompleteAndReturn(r, st)
        PROVE  Answer' = [Answer EXCEPT ![r] = st]
    BY <1>3, <2>1, AnswerLemma
  <2>2. CASE EnterQueueIrp(r, q)
    BY <2>2 DEF EnterQueueIrp, Answer
  <2>3. CASE TurnOn(r, q)
    <3>1. q.range = {}
      BY <2>3 DEF TurnOn, Requests
    <3> QED BY <2>1, <2>3, <3>1 DEF TurnOn
  <2>4. CASE AnswerAtOnce(r, q)
    <3>1. {"END_OF_MEDIA", "BUFFER_TOO_SMALL", "IO_ERROR"} \subseteq Errors
      BY DEF Errors, Statuses
    <3>2. q.kind # "write" => q.range = {}
      BY DEF Requests
    <3>3. \/ q.range = {} /\ CompleteAndReturn(r, "SUCCESS")
          \/ \E a \in Errors : CompleteAndReturn(r, a)
      BY <2>4, <3>1, <3>2 DEF AnswerAtOnce
    <3> QED BY <2>1, <3>3
  <2> QED BY <2>2, <2>3, <2>4
<1>6. Accepted' = Accepted /\ Outcome' = Outcome
  BY <1>2 DEF Accepted, Outcome
<1> QED BY <1>2, <1>3, <1>4, <1>5, <1>6
        DEF Promised!Submit, Promised!Fresh, RangeOf, Accepted, Outcome, Answer, Errors

\* The paths of QCacheQueueIrp up to the insertion: a failure to make the item
\* refuses the request, making a lazy one promises the early answer.
LEMMA ContinueStep ==
  ASSUME PromiseInv, NEW r \in Irps, Continue(r), ~Insert(r), ~Signal(r)
  PROVE  Promised!Refuse(r) \/ Promised!Promise(r) \/ UNCHANGED mappedVars
<1>1. UNCHANGED <<req, log, queue, wpc, witem, disk, failed>>
  BY DEF Continue, AdmitLazily, Decline, NoItem, NoBuffer, MakeItem,
         listVars, threadFrame, diskVars
<1>2. UNCHANGED <<RangeOf, Accepted, queue, Outcome, disk>>
  BY <1>1 DEF RangeOf, Accepted, Outcome
<1>3. pc[r] \in {"limits", "lazy", "defer"}
  BY DEF Continue, AdmitLazily, Decline, NoItem, NoBuffer, MakeItem, At
<1>4. completions[r] = 0 /\ Answer[r] = "none" /\ r \notin Accepted /\ r \notin lazy
  BY <1>3, FreshLemma
<1>5. CASE AdmitLazily(r) \/ Decline(r)
  <2>1. UNCHANGED <<lazy, status, completions>>
    BY <1>5 DEF AdmitLazily, Decline
  <2>2. Answer' = Answer
    BY <2>1 DEF Answer
  <2> QED BY <1>2, <2>1, <2>2 DEF mappedVars
<1>6. CASE NoItem(r) \/ NoBuffer(r)
  <2>1. PICK a \in Errors : CompleteAndReturn(r, a)
    <3>1. "INSUFFICIENT_RESOURCES" \in Errors /\ "DELETE_PENDING" \in Errors
      BY DEF Errors, Statuses
    <3> QED BY <1>6, <3>1 DEF NoItem, NoBuffer
  <2>2. Answer' = [Answer EXCEPT ![r] = a]
    BY <1>4, <2>1, AnswerLemma
  <2>3. lazy' = lazy
    BY <1>6 DEF NoItem, NoBuffer
  <2>4. Promised!Refuse(r)
    BY <1>2, <1>4, <2>2, <2>3
       DEF Promised!Refuse, Promised!Fresh, RangeOf, Accepted, Outcome, Answer, Errors
  <2> QED BY <2>4
<1>7. CASE MakeItem(r)
  <2>1. UNCHANGED <<status, completions>>
        /\ lazy' = IF pc[r] = "lazy" THEN lazy \cup {r} ELSE lazy
    BY <1>7 DEF MakeItem
  <2>2. Answer' = Answer
    BY <2>1 DEF Answer
  <2>3. CASE pc[r] = "lazy"
    <3>1. Promised!Promise(r)
      BY <1>2, <1>4, <2>1, <2>2, <2>3
         DEF Promised!Promise, Promised!Fresh, RangeOf, Accepted, Outcome, Answer
    <3> QED BY <3>1
  <2>4. CASE pc[r] # "lazy"
    BY <1>2, <2>1, <2>2, <2>4 DEF mappedVars
  <2> QED BY <2>3, <2>4
<1> QED BY <1>5, <1>6, <1>7 DEF Continue

\* InsertTailList gives the request its place in the order.
LEMMA AcceptStep ==
  ASSUME PromiseInv, NEW r \in Irps, Insert(r)
  PROVE  Promised!Accept(r)
<1>1. /\ UNCHANGED <<req, lazy, status, completions, wpc, witem, disk, failed>>
      /\ queue' = Append(queue, r) /\ log' = Append(log, r) /\ pc[r] = "insert"
  BY DEF Insert, InsertList, At, threadFrame, diskVars
<1>2. Answer[r] = "none" /\ r \notin Accepted
  BY <1>1, FreshLemma
<1>3. Accepted' = Accepted \cup {r}
  <2>1. ToSet(Append(log, r)) = ToSet(log) \cup {r}
    BY AppendLemma DEF PromiseInv, QueueTypeOK
  <2> QED BY <1>1, <2>1 DEF Accepted
<1>4. UNCHANGED <<RangeOf, lazy, Outcome, disk, Answer>>
  BY <1>1 DEF RangeOf, Outcome, Answer
<1> QED BY <1>1, <1>2, <1>3, <1>4
        DEF Promised!Accept, RangeOf, Accepted, Outcome, Answer

\* After the insertion the thread acknowledges a lazy request, and leaves a
\* deferred one alone.
LEMMA SignalActs ==
  ASSUME PromiseInv, NEW r \in Irps, Signal(r)
  PROVE  Promised!Acknowledge(r) \/ UNCHANGED mappedVars
<1>1. UNCHANGED <<req, lazy, log, queue, wpc, witem, disk, failed>> /\ pc[r] = "signal"
  BY DEF Signal, At, listVars, threadFrame, diskVars
<1>2. UNCHANGED <<RangeOf, lazy, Accepted, queue, Outcome, disk>>
  BY <1>1 DEF RangeOf, Accepted, Outcome
<1>3. CASE r \in lazy
  <2>1. completions[r] = 0 /\ Answer[r] = "none" /\ r \in Accepted
    BY <1>1, <1>3 DEF PromiseInv, SignalInv, CompletedOnce, OwnedByThread, Answer
  <2>2. CompleteAndReturn(r, "SUCCESS")
    BY <1>3 DEF Signal
  <2>3. Answer' = [Answer EXCEPT ![r] = "SUCCESS"]
    BY <2>1, <2>2, AnswerLemma
  <2> QED BY <1>2, <1>3, <2>1, <2>3
          DEF Promised!Acknowledge, RangeOf, Accepted, Outcome, Answer
<1>4. CASE r \notin lazy
  <2>1. Answer' = Answer
    BY <1>4 DEF Signal, Answer
  <2> QED BY <1>2, <2>1 DEF mappedVars
<1> QED BY <1>3, <1>4

\* The item that the worker carries is the oldest, and has its place.
LEMMA OldestLemma ==
  ASSUME PromiseInv, wpc \in Carrying
  PROVE  /\ queue # <<>> /\ Head(queue) = witem /\ witem \in Irps
         /\ witem \in Queued /\ pc[witem] \in {"signal", "returned"}
<1>1. QueueTypeOK /\ ListInv
  BY DEF PromiseInv
<1>2. /\ queue # <<>> /\ witem = queue[1] /\ queue \in Seq(Irps)
      /\ Len(log) \in Nat /\ Len(queue) \in Nat
  BY <1>1, LenProperties DEF QueueTypeOK, ListInv
<1>3. Retired + 1 \in 1 .. Len(log) /\ witem = log[Retired + 1] /\ Retired \in Nat
  BY <1>1, CarriedLemma DEF ListInv
<1>4. witem \in Queued
  BY <1>1, <1>3, QueuedLemma
<1>5. witem \in Irps
  BY <1>1, <1>3, ElementOfSeq DEF QueueTypeOK
<1> QED BY <1>1, <1>2, <1>3, <1>4, <1>5 DEF ListInv

\* The worker carries the oldest request out, below or by passing a marker.
LEMMA CarryOutStep ==
  ASSUME PromiseInv, LowerDevice \/ PassMarker
  PROVE  Promised!CarryOut
<1>1. /\ wpc \in {"item", "lower"} /\ wpc' = "complete"
      /\ UNCHANGED <<req, lazy, log, queue, completions, witem>>
      /\ \E st : SetStatus(st)
  BY DEF LowerDevice, LowerSucceeds, LowerFails, PassMarker, WGoto, workerFrame
<1>2. /\ queue # <<>> /\ Head(queue) = witem /\ witem \in Irps
      /\ witem \in Queued /\ pc[witem] \in {"signal", "returned"}
  BY <1>1, OldestLemma DEF Carrying
<1>3. Outcome = "none" /\ Outcome' = IF witem \in failed' THEN "failed" ELSE "ok"
  BY <1>1 DEF Outcome
<1>4. UNCHANGED <<RangeOf, lazy, Accepted, queue>>
  BY <1>1 DEF RangeOf, Accepted
<1>5. Answer' = Answer
  <2>1. witem \in lazy \/ completions[witem] = 0
    BY <1>1, <1>2 DEF PromiseInv, CompletedOnce, OwnedByWorker
  <2>2. \A t \in Irps : t # witem \/ t \in lazy => status'[t] = status[t]
    BY <1>1 DEF SetStatus, PromiseInv, QueueTypeOK
  <2> QED BY <1>1, <2>1, <2>2 DEF Answer
<1>6. RangeOf[witem] = req[witem].range
  BY <1>2 DEF RangeOf
<1>7. \E part \in SUBSET RangeOf[witem] :
        /\ disk' = Written(witem, part)
        /\ Outcome' = "failed" \/ (Outcome' = "ok" /\ part = RangeOf[witem])
  <2>1. CASE LowerSucceeds
    <3>1. disk' = Written(witem, RangeOf[witem])
      BY <1>6, <2>1 DEF LowerSucceeds
    <3> QED BY <1>3, <3>1
  <2>2. CASE LowerFails
    <3>1. PICK part \in SUBSET RangeOf[witem] : disk' = Written(witem, part)
      BY <1>6, <2>2 DEF LowerFails
    <3>2. witem \in failed'
      BY <2>2 DEF LowerFails
    <3> QED BY <1>3, <3>1, <3>2
  <2>3. CASE PassMarker
    <3>1. req[witem].kind # "write"
      BY <2>3 DEF PassMarker, IsMarker, MarkerKinds
    <3>2. req[witem].range = {}
      <4>1. req[witem] \in Requests \cup {[kind |-> "control", range |-> {}]}
        BY <1>2 DEF PromiseInv, QueueTypeOK
      <4> QED BY <3>1, <4>1 DEF Requests
    <3>3. disk' = disk /\ disk \in [Sectors -> Irps \cup {None}]
      BY <2>3 DEF PassMarker, diskVars, PromiseInv, QueueTypeOK
    <3>4. disk' = Written(witem, {})
      BY <3>3 DEF Written
    <3> QED BY <1>3, <1>6, <3>2, <3>4
  <2> QED BY <2>1, <2>2, <2>3 DEF LowerDevice
<1> QED BY <1>2, <1>3, <1>4, <1>5, <1>7
        DEF Promised!CarryOut, RangeOf, Accepted, Outcome, Answer, Written

\* IoCompleteRequest reports the outcome of a deferred item.
LEMMA ReportStep ==
  ASSUME PromiseInv, CompleteIrp
  PROVE  Promised!Report \/ UNCHANGED mappedVars
<1>1. /\ wpc = "complete" /\ wpc' = "unlink"
      /\ UNCHANGED <<req, lazy, log, queue, status, witem, disk, failed>>
      /\ completions' = IF witem \in lazy THEN completions
                        ELSE [completions EXCEPT ![witem] = @ + 1]
  BY DEF CompleteIrp, WGoto, workerFrame, diskVars
<1>2. /\ Head(queue) = witem /\ witem \in Irps
      /\ witem \in Queued /\ pc[witem] \in {"signal", "returned"}
  BY <1>1, OldestLemma DEF Carrying
<1>3. UNCHANGED <<RangeOf, lazy, Accepted, queue, Outcome, disk>>
  BY <1>1 DEF RangeOf, Accepted, Outcome
<1>4. CASE witem \in lazy
  <2>1. Answer' = Answer
    BY <1>1, <1>4 DEF Answer
  <2> QED BY <1>3, <2>1 DEF mappedVars
<1>5. CASE witem \notin lazy
  <2>1. completions[witem] = 0 /\ Answer[witem] = "none"
    BY <1>1, <1>2, <1>5 DEF PromiseInv, CompletedOnce, OwnedByWorker, Answer
  <2>2. completions \in [Irps -> Nat]
    BY DEF PromiseInv, QueueTypeOK
  <2>3. Answer' = [Answer EXCEPT ![witem] = status[witem]]
    <3>1. completions' = [completions EXCEPT ![witem] = 1]
      BY <1>1, <1>5, <2>1, <2>2
    <3>2. \A t \in Irps : Answer'[t] = IF t = witem THEN status[witem] ELSE Answer[t]
      BY <1>1, <2>2, <3>1 DEF Answer
    <3> QED BY <3>2 DEF Answer
  <2>4. /\ Outcome # "none"
        /\ status[witem] \in IF Outcome = "ok" THEN {"SUCCESS"} ELSE Errors
    BY <1>1, <1>5 DEF PromiseInv, StatusInv, Outcome, Errors, Statuses
  <2> QED BY <1>2, <1>3, <1>5, <2>1, <2>3, <2>4
          DEF Promised!Report, RangeOf, Accepted, Outcome, Answer, Errors
<1> QED BY <1>4, <1>5

\* RemoveEntryList retires the oldest request.
LEMMA RetireStep ==
  ASSUME PromiseInv, Unlink
  PROVE  Promised!Retire
<1>1. /\ wpc = "unlink" /\ wpc' = "release"
      /\ UNCHANGED <<req, lazy, log, status, completions, witem, disk, failed>>
  BY DEF Unlink, WGoto, workerFrame, diskVars
<1>2. /\ queue # <<>> /\ Head(queue) = witem /\ witem \in Irps
      /\ witem \in Queued /\ pc[witem] \in {"signal", "returned"}
  BY <1>1, OldestLemma DEF Carrying
<1>3. UNCHANGED <<RangeOf, lazy, Accepted, disk, Answer>>
  BY <1>1 DEF RangeOf, Accepted, Answer
<1>4. Outcome # "none" /\ Outcome' = "none"
  BY <1>1 DEF Outcome
<1>5. queue' = Tail(queue)
  <2>1. queue \in Seq(Irps) /\ QueueTypeOK /\ ListInv
    BY DEF PromiseInv, QueueTypeOK
  <2>2. /\ queue' \in Seq(Irps) /\ Len(queue') = Len(queue) - 1
        /\ \A k \in 1 .. Len(queue) - 1 : queue'[k] = queue[k + 1]
    BY <2>1, UnlinkLemma
  <2>3. /\ Tail(queue) \in Seq(Irps) /\ Len(Tail(queue)) = Len(queue) - 1
        /\ \A k \in 1 .. Len(Tail(queue)) : Tail(queue)[k] = queue[k + 1]
    BY <1>2, <2>1, HeadTailProperties
  <2> QED BY <2>2, <2>3, SeqEqual
<1>6. witem \in lazy \/ Answer[witem] # "none"
  <2>1. CASE witem \notin lazy
    <3>1. completions[witem] = 1
      BY <1>1, <1>2, <2>1 DEF PromiseInv, CompletedOnce, OwnedByThread, OwnedByWorker
    <3>2. status[witem] \in {"IO_ERROR", "SUCCESS"}
      BY <1>1, <2>1 DEF PromiseInv, StatusInv
    <3> QED BY <1>2, <3>1, <3>2 DEF Answer
  <2> QED BY <2>1
<1> QED BY <1>2, <1>3, <1>4, <1>5, <1>6
        DEF Promised!Retire, RangeOf, Accepted, Outcome, Answer

-----------------------------------------------------------------------------
(* The refinement                                                          *)

LEMMA PromiseStep ==
  ASSUME PromiseInv, [Next]_vars
  PROVE  Promised!Next \/ UNCHANGED mappedVars
<1>1. ASSUME NEW r \in Irps, Dispatch(r) PROVE Promised!Next
  <2>1. PICK q \in Requests :
          AnswerAtOnce(r, q) \/ TurnOn(r, q) \/ EnterQueueIrp(r, q)
    BY <1>1 DEF Dispatch
  <2>2. q.range \in Ranges \cup {{}}
    BY DEF Requests
  <2>3. Promised!Submit(r, q.range)
    BY <2>1, SubmitStep
  <2> QED BY <2>2, <2>3 DEF Promised!Next
<1>2. ASSUME NEW r \in Irps, Continue(r) PROVE Promised!Next \/ UNCHANGED mappedVars
  <2>1. CASE Insert(r)
    BY <2>1, AcceptStep DEF Promised!Next
  <2>2. CASE Signal(r)
    BY <2>2, SignalActs DEF Promised!Next
  <2>3. CASE ~Insert(r) /\ ~Signal(r)
    BY <1>2, <2>3, ContinueStep DEF Promised!Next
  <2> QED BY <2>1, <2>2, <2>3
<1>3. CASE LowerDevice \/ PassMarker
  BY <1>3, CarryOutStep DEF Promised!Next
<1>4. CASE CompleteIrp
  BY <1>4, ReportStep DEF Promised!Next
<1>5. CASE Unlink
  BY <1>5, RetireStep DEF Promised!Next
<1>6. CASE LookAtHead \/ CheckShutdown \/ WakeUp \/ SendDown \/ BuildFails \/ ReleaseItem
  <2>1. /\ UNCHANGED <<req, lazy, log, queue, status, completions, disk, failed>>
        /\ wpc \notin {"complete", "unlink"} /\ wpc' \notin {"complete", "unlink"}
    BY <1>6 DEF LookAtHead, TakeHead, CheckShutdown, WakeUp, SendDown, BuildFails,
                ReleaseItem, WGoto, workerFrame, diskVars
  <2> QED BY <2>1 DEF mappedVars, RangeOf, Accepted, Outcome, Answer
<1>7. CASE Remover \/ UNCHANGED vars
  <2>1. UNCHANGED <<irpVars, listVars, wpc, witem, disk, failed>>
    BY <1>7, RemoverFrame
  <2> QED BY <2>1 DEF irpVars, listVars, mappedVars, RangeOf, Accepted, Outcome, Answer
<1> QED BY <1>1, <1>2, <1>3, <1>4, <1>5, <1>6, <1>7, Zenon
        DEF Next, AttachedNext, Worker

\* QCacheQueueIrp, the worker and the removal together keep the promise of the
\* write-behind queue: one order of acceptance, in which requests are carried
\* out and retired, early answers only to requests that have their place in it,
\* every other answer with the outcome of the request itself.
THEOREM QueueKeepsItsPromise == Spec => ImplementsWriteBehind
<1>1. Init => Promised!Init
  <2> SUFFICES ASSUME Init PROVE Promised!Init
    OBVIOUS
  <2>1. ToSet(log) = {}
    BY EmptySeq DEF Init, ToSet
  <2> QED BY <2>1 DEF Init, Promised!Init
<1>2. PromiseInv /\ [Next]_vars => [Promised!Next]_(Promised!vars)
  BY PromiseStep, StutterLemma
<1> QED BY <1>1, <1>2, PromiseInvariant, PTL
        DEF Spec, ImplementsWriteBehind, Promised!Spec

=============================================================================
