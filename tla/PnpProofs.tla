----------------------------- MODULE PnpProofs -----------------------------
(***************************************************************************)
(* Proofs about PnpDispatch: the events work as mutexes, the size that was *)
(* queried stays, and a device with a paging file on it is never pagable.  *)
(***************************************************************************)
EXTENDS PnpDispatch, FiniteSetTheorems, TLAPS

-----------------------------------------------------------------------------
(* Types                                                                   *)

LEMMA TypedInit == Init => Typed
<1> SUFFICES ASSUME Init PROVE Typed
  OBVIOUS
<1>1. pc \in [Threads -> Places]
  <2>1. PICK p \in {"mutex", "done"} :
          pc = [t \in Threads |-> IF t = Attacher THEN p ELSE "idle"]
    BY DEF Init
  <2> QED BY <2>1 DEF Places
<1>2. /\ isCached \in BOOLEAN /\ pagable \in BOOLEAN /\ removed \in BOOLEAN
      /\ deleted \in BOOLEAN /\ setPagable \in [Threads -> BOOLEAN]
      /\ event \in [Gates -> BOOLEAN]
  BY Zenon DEF Init
<1> QED BY <1>1, <1>2 DEF Init, Typed

LEMMA TypedStep == Typed /\ [Next]_vars => Typed'
<1> SUFFICES ASSUME Typed, [Next]_vars PROVE Typed'
  OBVIOUS
<1> USE PnpAttacherAssumption, LengthsAssumption, InrushAssumption
    DEF Typed, Goes, Threads, Gates, Notifications
<1>1. CASE UNCHANGED vars
  BY <1>1 DEF vars, threadVars, gateVars, pagingVars, sizeVars, removeVars
<1>2. CASE \E i \in Irps : Refuse(i)
  BY <1>2 DEF Refuse, Places, gateVars, pagingVars, sizeVars, removeVars
<1>3. CASE \E i \in Irps : Dispatch(i)
  <2>1. PICK i \in Irps : Dispatch(i)
    BY <1>3
  <2>2. \A k \in Kinds : FirstStep(k) \in Places
    BY DEF Kinds, FirstStep, Places
  <2> QED BY <2>1, <2>2 DEF Dispatch, gateVars, pagingVars, sizeVars
<1>4. ASSUME NEW t \in Threads, AcquireMutex(t) PROVE Typed'
  BY <1>4 DEF AcquireMutex, Gate, Places, pagingVars, sizeVars, removeVars
<1>5. ASSUME NEW t \in Threads, PassGate(t) PROVE Typed'
  BY <1>5 DEF PassGate, Gate, Places, pagingVars, sizeVars, removeVars
<1>6. ASSUME NEW t \in Threads, OpenGate(t) PROVE Typed'
  BY <1>6 DEF OpenGate, AfterGate, Gate, Places, pagingVars, sizeVars, removeVars
<1>7. ASSUME NEW t \in Threads, ForwardNotification(t) PROVE Typed'
  <2>1. (kind[t] = "out" /\ LastPath /\ ~Inrush) \in BOOLEAN
    OBVIOUS
  <2>2. setPagable' \in [Threads -> BOOLEAN]
    BY <1>7, <2>1, Zenon DEF ForwardNotification
  <2>3. pagable' \in BOOLEAN
    BY <1>7, Zenon DEF ForwardNotification
  <2> QED BY <1>7, <2>2, <2>3 DEF ForwardNotification, Places, gateVars, sizeVars, removeVars
<1>8. ASSUME NEW t \in Threads, LowerAnswers(t) PROVE Typed'
  BY <1>8 DEF LowerAnswers, Places, gateVars, pagingVars, sizeVars, removeVars
<1>9. ASSUME NEW t \in Threads, FinishNotification(t) PROVE Typed'
  <2>1. pagingPathCount' \in Int
    BY <1>9 DEF FinishNotification, TakeOver, TakeBack, Adjusted
  <2>2. pagable' \in BOOLEAN /\ setPagable' \in [Threads -> BOOLEAN]
    BY <1>9, Zenon DEF FinishNotification, TakeOver, TakeBack
  <2> QED BY <1>9, <2>1, <2>2 DEF FinishNotification, Places, gateVars, sizeVars, removeVars
<1>10. ASSUME NEW t \in Threads, AfterStart(t) PROVE Typed'
  BY <1>10 DEF AfterStart, Places, gateVars, pagingVars, sizeVars, removeVars
<1>11. ASSUME NEW t \in Threads, LookAtSize(t) PROVE Typed'
  BY <1>11 DEF LookAtSize, Places, gateVars, pagingVars, removeVars
<1>12. ASSUME NEW t \in Threads, QueryAnswered(t) PROVE Typed'
  BY <1>12 DEF QueryAnswered, Places, gateVars, pagingVars, removeVars
<1>13. ASSUME NEW t \in Threads, Complete(t) \/ ReleaseLock(t) PROVE Typed'
  BY <1>13 DEF Complete, ReleaseLock, Places, gateVars, pagingVars, sizeVars, removeVars
<1>14. ASSUME NEW t \in Threads, CloseLock(t) \/ DeleteDevice(t) PROVE Typed'
  BY <1>14 DEF CloseLock, DeleteDevice, Places, gateVars, pagingVars, sizeVars
<1> QED BY <1>1, <1>2, <1>3, <1>4, <1>5, <1>6, <1>7, <1>8, <1>9, <1>10, <1>11, <1>12,
           <1>13, <1>14 DEF Next, ThreadStep, LowerStep

-----------------------------------------------------------------------------
(* The gates.  What a thread does follows from its minor function; at most *)
(* one thread is inside each gate, and none while the event is signalled.  *)

KindInv == \A t \in Threads :
  /\ pc[t] = "idle" => kind[t] = "none"
  /\ pc[t] \in {"query", "close", "drain"} => kind[t] \notin Notifications
  /\ t = Attacher => kind[t] = "none"

GateInv == \A t \in Threads : InsideGate(t) =>
  /\ ~event[Gate(t)]
  /\ \A u \in Threads : InsideGate(u) /\ Gate(u) = Gate(t) => u = t

LEMMA KindStep == Typed /\ KindInv /\ [Next]_vars => KindInv'
<1> SUFFICES ASSUME Typed, KindInv, [Next]_vars PROVE KindInv'
  OBVIOUS
<1> USE PnpAttacherAssumption DEF Typed, KindInv, Goes, Threads, Notifications
<1>1. CASE UNCHANGED vars
  BY <1>1 DEF vars, threadVars
<1>2. ASSUME NEW i \in Irps, Refuse(i) PROVE KindInv'
  BY <1>2 DEF Refuse
<1>3. ASSUME NEW i \in Irps, Dispatch(i) PROVE KindInv'
  BY <1>3 DEF Dispatch, FirstStep, Kinds
<1>4. ASSUME NEW t \in Threads, AcquireMutex(t) \/ PassGate(t) \/ OpenGate(t) PROVE KindInv'
  BY <1>4 DEF AcquireMutex, PassGate, OpenGate, AfterGate
<1>5. ASSUME NEW t \in Threads,
             ForwardNotification(t) \/ FinishNotification(t) \/ LowerAnswers(t)
      PROVE  KindInv'
  BY <1>5 DEF ForwardNotification, FinishNotification, LowerAnswers
<1>6. ASSUME NEW t \in Threads, AfterStart(t) \/ LookAtSize(t) \/ QueryAnswered(t)
      PROVE  KindInv'
  BY <1>6 DEF AfterStart, LookAtSize, QueryAnswered, Gate
<1>7. ASSUME NEW t \in Threads,
             Complete(t) \/ ReleaseLock(t) \/ CloseLock(t) \/ DeleteDevice(t)
      PROVE  KindInv'
  BY <1>7 DEF Complete, ReleaseLock, CloseLock, DeleteDevice
<1> QED BY <1>1, <1>2, <1>3, <1>4, <1>5, <1>6, <1>7 DEF Next, ThreadStep, LowerStep

LEMMA GateStep == Typed /\ KindInv /\ GateInv /\ [Next]_vars => GateInv'
<1> SUFFICES ASSUME Typed, KindInv, GateInv, [Next]_vars PROVE GateInv'
  OBVIOUS
<1> USE DEF Typed, KindInv, GateInv, InsideGate, Goes, Gate, Gates, Notifications
<1>1. CASE UNCHANGED vars
  BY <1>1 DEF vars, threadVars, gateVars
<1>2. ASSUME NEW i \in Irps, Refuse(i) PROVE GateInv'
  BY <1>2 DEF Refuse, gateVars, Threads
<1>3. ASSUME NEW i \in Irps, Dispatch(i) PROVE GateInv'
  BY <1>3 DEF Dispatch, FirstStep, Kinds, gateVars, Threads
<1>4. ASSUME NEW t \in Threads, AcquireMutex(t) PROVE GateInv'
  BY <1>4 DEF AcquireMutex
<1>5. ASSUME NEW t \in Threads, PassGate(t) PROVE GateInv'
  BY <1>5 DEF PassGate
<1>6. ASSUME NEW t \in Threads, OpenGate(t) PROVE GateInv'
  BY <1>6 DEF OpenGate, AfterGate
<1>7. ASSUME NEW t \in Threads,
             ForwardNotification(t) \/ FinishNotification(t) \/ LowerAnswers(t)
      PROVE  GateInv'
  BY <1>7 DEF ForwardNotification, FinishNotification, LowerAnswers, gateVars
<1>8. ASSUME NEW t \in Threads, AfterStart(t) \/ LookAtSize(t) \/ QueryAnswered(t)
      PROVE  GateInv'
  BY <1>8 DEF AfterStart, LookAtSize, QueryAnswered, gateVars
<1>9. ASSUME NEW t \in Threads,
             Complete(t) \/ ReleaseLock(t) \/ CloseLock(t) \/ DeleteDevice(t)
      PROVE  GateInv'
  BY <1>9 DEF Complete, ReleaseLock, CloseLock, DeleteDevice, gateVars
<1> QED BY <1>1, <1>2, <1>3, <1>4, <1>5, <1>6, <1>7, <1>8, <1>9 DEF Next, ThreadStep, LowerStep

PnpInv == Typed /\ KindInv /\ GateInv

LEMMA PnpInvariant == Spec => []PnpInv
<1>1. Init => KindInv /\ GateInv
  BY PnpAttacherAssumption DEF Init, KindInv, GateInv, InsideGate, Threads, Notifications
<1> QED BY <1>1, TypedInit, TypedStep, KindStep, GateStep, PTL DEF Spec, PnpInv

-----------------------------------------------------------------------------
(* The size                                                                *)

\* Whoever queries the size found it unknown inside the gate.
QueryInv == (\A t \in Threads : pc[t] = "query" => size = 0) /\ ErrorMeansNoSize

LEMMA QueryStep == PnpInv /\ QueryInv /\ [Next]_vars => QueryInv' /\ (size # 0 => size' = size)
<1> SUFFICES ASSUME PnpInv, QueryInv, [Next]_vars
             PROVE  QueryInv' /\ (size # 0 => size' = size)
  OBVIOUS
<1> USE DEF PnpInv, Typed, QueryInv, ErrorMeansNoSize, Goes
<1> DEFINE Kept == QueryInv' /\ (size # 0 => size' = size)
<1>1. CASE UNCHANGED vars
  BY <1>1 DEF vars, threadVars, sizeVars
<1>2. ASSUME NEW i \in Irps, Refuse(i) \/ Dispatch(i) PROVE Kept
  BY <1>2 DEF Refuse, Dispatch, FirstStep, Kinds, Notifications, sizeVars, Threads
<1>3. ASSUME NEW t \in Threads, AcquireMutex(t) \/ PassGate(t) \/ OpenGate(t) PROVE Kept
  BY <1>3 DEF AcquireMutex, PassGate, OpenGate, AfterGate, sizeVars
<1>4. ASSUME NEW t \in Threads,
             ForwardNotification(t) \/ FinishNotification(t) \/ LowerAnswers(t)
      PROVE  Kept
  BY <1>4 DEF ForwardNotification, FinishNotification, LowerAnswers, sizeVars
<1>5. ASSUME NEW t \in Threads, AfterStart(t) \/ LookAtSize(t) PROVE Kept
  BY <1>5 DEF AfterStart, LookAtSize, sizeVars
<1>6. ASSUME NEW t \in Threads, QueryAnswered(t) PROVE Kept
  <2>1. \A u \in Threads : pc[u] = "query" => u = t
    BY <1>6 DEF QueryAnswered, KindInv, GateInv, InsideGate, Gate
  <2> QED BY <1>6, <2>1 DEF QueryAnswered
<1>7. ASSUME NEW t \in Threads,
             Complete(t) \/ ReleaseLock(t) \/ CloseLock(t) \/ DeleteDevice(t)
      PROVE  Kept
  BY <1>7 DEF Complete, ReleaseLock, CloseLock, DeleteDevice, sizeVars
<1> QED BY <1>1, <1>2, <1>3, <1>4, <1>5, <1>6, <1>7 DEF Next, ThreadStep, LowerStep

LEMMA QueryInit == Init => QueryInv
BY PnpAttacherAssumption DEF Init, QueryInv, ErrorMeansNoSize, Threads

\* However starts and the attachment of a device overlap, a size that is known is
\* never queried into another one.  mainwdm.cpp 622-680, QCacheInitializeDevice
THEOREM SizeIsQueriedOnce == Spec => SizeNeverChanges
<1>1. PnpInv /\ QueryInv /\ [Next]_vars => [size # 0 => size' = size]_size
  BY QueryStep
<1> QED BY <1>1, PnpInvariant, QueryInit, QueryStep, PTL DEF Spec, SizeNeverChanges

\* An error of the query is reported only while the size is unknown.
\* mainwdm.cpp 622-661, QCacheInitializeDeviceUnsafe
THEOREM ErrorsOnlyWithoutSize == Spec => []ErrorMeansNoSize
<1>1. QueryInv => ErrorMeansNoSize
  BY DEF QueryInv
<1> QED BY <1>1, PnpInvariant, QueryInit, QueryStep, PTL DEF Spec

-----------------------------------------------------------------------------
(* The count of paging paths and the flag                                  *)

\* The notifications that were counted
CountedIn  == {i \in Irps : /\ kind[i] = "in" /\ status[i] = "SUCCESS"
                           /\ pc[i] \in {"open", "complete", "release", "done"}}
CountedOut == {i \in Irps : /\ kind[i] = "out" /\ status[i] = "SUCCESS"
                           /\ pc[i] \in {"open", "complete", "release", "done"}}

CountInv == /\ pagingPathCount = Cardinality(CountedIn) - Cardinality(CountedOut)
            /\ Cardinality(Removing) <= Cardinality(Added)

\* Notification i has the gate and is below, or just back.
Forwarded(i) == kind[i] = "out" /\ pc[i] \in {"below", "answered"}

\* The flag is ahead of the count only while the last path is taken off.
FlagInv == pagable => \/ pagingPathCount = 0
                      \/ /\ pagingPathCount = 1
                         /\ \E i \in Irps : Forwarded(i) /\ setPagable[i]

\* The counted sets are finite, between what the kernel sees completed and sent.
LEMMA CountedSets ==
  /\ IsFiniteSet(Added) /\ IsFiniteSet(Removing)
  /\ IsFiniteSet(CountedIn) /\ IsFiniteSet(CountedOut)
  /\ Cardinality(Added) \in Nat /\ Cardinality(Removing) \in Nat
  /\ Cardinality(CountedIn) \in Nat /\ Cardinality(CountedOut) \in Nat
  /\ Cardinality(Added) <= Cardinality(CountedIn)
  /\ Cardinality(CountedOut) <= Cardinality(Removing)
<1>1. /\ Added \subseteq Irps /\ Removing \subseteq Irps
      /\ CountedIn \subseteq Irps /\ CountedOut \subseteq Irps
  BY DEF Added, Removing, CountedIn, CountedOut
<1>2. /\ IsFiniteSet(Added) /\ IsFiniteSet(Removing)
      /\ IsFiniteSet(CountedIn) /\ IsFiniteSet(CountedOut)
  BY <1>1, PnpIrpsAssumption, FS_Subset
<1>3. Added \subseteq CountedIn
  BY DEF Added, CountedIn, Succeeded, Completed
<1>4. CountedOut \subseteq Removing
  BY DEF CountedOut, Removing, Succeeded, Completed
<1> QED BY <1>2, <1>3, <1>4, FS_Subset, FS_CardinalityType

\* While a notification takes a file off, it is not among the counted ones.
LEMMA ForwardedIsCountedLater ==
  ASSUME NEW i \in Irps, Forwarded(i)
  PROVE  Cardinality(CountedOut) + 1 <= Cardinality(Removing)
<1>1. i \in Removing /\ i \notin CountedOut /\ CountedOut \cup {i} \subseteq Removing
  BY DEF Forwarded, CountedOut, Removing, Succeeded, Completed
<1>2. Cardinality(CountedOut \cup {i}) = Cardinality(CountedOut) + 1
  BY <1>1, CountedSets, FS_AddElement
<1> QED BY <1>1, <1>2, CountedSets, FS_Subset

LEMMA CountStep == PnpInv /\ CountInv /\ [Next]_vars => CountInv'
<1> SUFFICES ASSUME PnpInv, CountInv, [Next]_vars PROVE CountInv'
  OBVIOUS
<1> USE PnpAttacherAssumption DEF PnpInv, Typed, KindInv, Goes, Threads, Notifications
<1> DEFINE SameSets == Added' = Added /\ Removing' = Removing
           SameCount == /\ CountedIn' = CountedIn /\ CountedOut' = CountedOut
                        /\ pagingPathCount' = pagingPathCount
<1>0. ASSUME SameSets, SameCount PROVE CountInv'
  BY <1>0 DEF CountInv
<1>1. CASE UNCHANGED vars
  <2>1. SameSets /\ SameCount
    BY <1>1 DEF vars, threadVars, pagingVars, Added, Removing, CountedIn, CountedOut,
                Succeeded, Completed
  <2> QED BY <2>1, <1>0
<1>2. ASSUME NEW i \in Irps, Refuse(i) PROVE CountInv'
  <2>1. SameSets /\ SameCount
    BY <1>2 DEF Refuse, pagingVars, Added, Removing, CountedIn, CountedOut, Succeeded, Completed
  <2> QED BY <2>1, <1>0
<1>3. ASSUME NEW i \in Irps, Dispatch(i) PROVE CountInv'
  <2>1. PICK k \in Kinds : /\ MayBeSent(k) /\ kind' = [kind EXCEPT ![i] = k]
                           /\ Goes(i, "idle", FirstStep(k))
    BY <1>3 DEF Dispatch
  <2>2. status' = status /\ pagingPathCount' = pagingPathCount
    BY <1>3 DEF Dispatch, pagingVars
  <2>3. /\ k \in Notifications => pc'[i] = "mutex"
        /\ kind[i] = "none"
    BY <2>1 DEF FirstStep
  <2>4. SameCount
    BY <2>1, <2>2, <2>3 DEF CountedIn, CountedOut
  <2>5. Added' = Added
    BY <2>1, <2>2, <2>3 DEF Added, Succeeded, Completed
  <2>6. CASE k = "out"
    <3>1. Removing' = Removing \cup {i}
      BY <2>1, <2>2, <2>3, <2>6 DEF Removing, Succeeded, Completed
    <3>2. Cardinality(Removing') <= Cardinality(Removing) + 1
      <4>1. Cardinality(Removing \cup {i}) = IF i \in Removing THEN Cardinality(Removing)
                                                              ELSE Cardinality(Removing) + 1
        BY CountedSets, FS_AddElement
      <4> QED BY <3>1, <4>1, CountedSets
    <3>3. Cardinality(Removing) < Cardinality(Added)
      BY <2>1, <2>6, CountedSets DEF MayBeSent, InUse
    <3>4. Cardinality(Removing') \in Nat
      BY <3>1, CountedSets, FS_AddElement, FS_CardinalityType
    <3> QED BY <2>4, <2>5, <3>2, <3>3, <3>4, CountedSets DEF CountInv
  <2>7. CASE k # "out"
    <3>1. Removing' = Removing
      BY <2>1, <2>2, <2>3, <2>7 DEF Removing, Succeeded, Completed
    <3> QED BY <2>4, <2>5, <3>1, <1>0
  <2> QED BY <2>6, <2>7
<1>4. ASSUME NEW t \in Threads, AcquireMutex(t) \/ PassGate(t) PROVE CountInv'
  <2>1. SameSets /\ SameCount
    BY <1>4 DEF AcquireMutex, PassGate, pagingVars, Added, Removing, CountedIn, CountedOut,
                Succeeded, Completed
  <2> QED BY <2>1, <1>0
<1>5. ASSUME NEW t \in Threads, OpenGate(t) PROVE CountInv'
  <2>1. SameSets /\ SameCount
    BY <1>5 DEF OpenGate, AfterGate, pagingVars, Added, Removing, CountedIn, CountedOut,
                Succeeded, Completed
  <2> QED BY <2>1, <1>0
<1>6. ASSUME NEW t \in Threads, ForwardNotification(t) \/ LowerAnswers(t) PROVE CountInv'
  <2>1. SameSets /\ SameCount
    BY <1>6 DEF ForwardNotification, LowerAnswers, pagingVars, Added, Removing, CountedIn,
                CountedOut, Succeeded, Completed
  <2> QED BY <2>1, <1>0
<1>7. ASSUME NEW i \in Threads, FinishNotification(i) PROVE CountInv'
  <2>1. SameSets
    BY <1>7 DEF FinishNotification, Added, Removing, Succeeded, Completed
  <2>2. i \in Irps
    BY <1>7 DEF FinishNotification
  <2>3. CASE status[i] # "SUCCESS"
    <3>1. SameCount
      BY <1>7, <2>3 DEF FinishNotification, TakeOver, TakeBack, CountedIn, CountedOut
    <3> QED BY <2>1, <3>1, <1>0
  <2>4. CASE status[i] = "SUCCESS" /\ kind[i] = "in"
    <3>1. /\ CountedIn' = CountedIn \cup {i} /\ CountedOut' = CountedOut
          /\ i \notin CountedIn
      BY <1>7, <2>2, <2>4 DEF FinishNotification, CountedIn, CountedOut
    <3>2. pagingPathCount' = pagingPathCount + 1
      BY <1>7, <2>4 DEF FinishNotification, TakeOver, TakeBack, Adjusted
    <3>3. Cardinality(CountedIn') = Cardinality(CountedIn) + 1
      BY <3>1, CountedSets, FS_AddElement
    <3> QED BY <2>1, <3>1, <3>2, <3>3, CountedSets DEF CountInv
  <2>5. CASE status[i] = "SUCCESS" /\ kind[i] = "out"
    <3>1. /\ CountedOut' = CountedOut \cup {i} /\ CountedIn' = CountedIn
          /\ i \notin CountedOut
      BY <1>7, <2>2, <2>5 DEF FinishNotification, CountedIn, CountedOut
    <3>2. pagingPathCount' = pagingPathCount - 1
      BY <1>7, <2>5 DEF FinishNotification, TakeOver, TakeBack, Adjusted
    <3>3. Cardinality(CountedOut') = Cardinality(CountedOut) + 1
      BY <3>1, CountedSets, FS_AddElement
    <3> QED BY <2>1, <3>1, <3>2, <3>3, CountedSets DEF CountInv
  <2> QED BY <1>7, <2>3, <2>4, <2>5 DEF FinishNotification
<1>8. ASSUME NEW t \in Threads, AfterStart(t) \/ LookAtSize(t) \/ QueryAnswered(t)
      PROVE  CountInv'
  <2>1. SameSets /\ SameCount
    BY <1>8 DEF AfterStart, LookAtSize, QueryAnswered, Gate, pagingVars, Added, Removing,
                CountedIn, CountedOut, Succeeded, Completed
  <2> QED BY <2>1, <1>0
<1>9. ASSUME NEW i \in Threads, Complete(i) PROVE CountInv'
  <2>1. SameCount
    BY <1>9 DEF Complete, pagingVars, CountedIn, CountedOut
  <2>2. Added \subseteq Added' /\ Removing' \subseteq Removing
    BY <1>9 DEF Complete, Added, Removing, Succeeded, Completed
  <2>3. IsFiniteSet(Added') /\ Added' \subseteq Irps
    BY PnpIrpsAssumption, FS_Subset DEF Added
  <2>4. /\ Cardinality(Added) <= Cardinality(Added') /\ Cardinality(Added') \in Nat
        /\ Cardinality(Removing') <= Cardinality(Removing)
        /\ Cardinality(Removing') \in Nat
    BY <2>2, <2>3, CountedSets, FS_Subset, FS_CardinalityType
  <2> QED BY <2>1, <2>4, CountedSets DEF CountInv
<1>10. ASSUME NEW t \in Threads, ReleaseLock(t) \/ CloseLock(t) \/ DeleteDevice(t)
       PROVE  CountInv'
  <2>1. SameSets /\ SameCount
    BY <1>10 DEF ReleaseLock, CloseLock, DeleteDevice, pagingVars, Added, Removing, CountedIn,
                 CountedOut, Succeeded, Completed
  <2> QED BY <2>1, <1>0
<1> QED BY <1>1, <1>2, <1>3, <1>4, <1>5, <1>6, <1>7, <1>8, <1>9, <1>10
        DEF Next, ThreadStep, LowerStep

LEMMA FlagStep ==
  PnpInv /\ CountInv /\ FlagInv /\ [Next]_vars => FlagInv' /\ (pagingPathCount >= 0)
<1> SUFFICES ASSUME PnpInv, CountInv, FlagInv, [Next]_vars
             PROVE  FlagInv' /\ pagingPathCount >= 0
  OBVIOUS
<1>0. pagingPathCount >= 0
  BY CountedSets DEF CountInv
<1> USE PnpAttacherAssumption DEF PnpInv, Typed, KindInv, FlagInv, Forwarded, Goes, Threads,
                                  Notifications
<1>1. CASE UNCHANGED vars
  BY <1>0, <1>1 DEF vars, threadVars, pagingVars
<1>2. ASSUME NEW i \in Irps, Refuse(i) \/ Dispatch(i) PROVE FlagInv'
  BY <1>2 DEF Refuse, Dispatch, pagingVars
<1>3. ASSUME NEW t \in Threads, AcquireMutex(t) \/ PassGate(t) \/ OpenGate(t) PROVE FlagInv'
  BY <1>3 DEF AcquireMutex, PassGate, OpenGate, pagingVars
<1>4. ASSUME NEW i \in Threads, ForwardNotification(i) PROVE FlagInv'
  <2>1. \A j \in Irps : Forwarded(j) => j = i
    BY <1>4 DEF ForwardNotification, GateInv, InsideGate, Gate
  <2>2. pagable => pagingPathCount = 0
    BY <1>4, <2>1 DEF ForwardNotification
  <2>3. /\ i \in Irps /\ kind'[i] = kind[i] /\ pc'[i] = "below"
        /\ pagingPathCount' = pagingPathCount
        /\ pagable' = (pagable \/ setPagable'[i])
    BY <1>4 DEF ForwardNotification
  <2>4. setPagable'[i] => kind[i] = "out" /\ pagingPathCount = 1
    BY <1>4, InrushAssumption DEF ForwardNotification, LastPath
  <2> QED BY <2>2, <2>3, <2>4
<1>5. ASSUME NEW t \in Threads, LowerAnswers(t) PROVE FlagInv'
  BY <1>5 DEF LowerAnswers, pagingVars
<1>6. ASSUME NEW i \in Threads, FinishNotification(i) PROVE FlagInv'
  <2>1. \A j \in Irps : Forwarded(j) => j = i
    BY <1>6 DEF FinishNotification, GateInv, InsideGate, Gate
  <2>2. i \in Irps
    BY <1>6 DEF FinishNotification
  <2>3. CASE TakeBack(i)
    <3>1. pagable' => pagable /\ ~setPagable[i]
      BY <2>3 DEF TakeBack
    <3> QED BY <2>1, <2>3, <3>1 DEF TakeBack
  <2>4. CASE TakeOver(i) /\ kind[i] = "in"
    <3>1. pagable => pagingPathCount = 0
      BY <2>1, <2>4
    <3>2. pagable' => pagable /\ pagingPathCount' # 1 /\ pagingPathCount' = pagingPathCount + 1
      BY <2>4 DEF TakeOver, Adjusted
    <3> QED BY <3>1, <3>2
  <2>5. CASE TakeOver(i) /\ kind[i] = "out"
    <3>1. Forwarded(i)
      BY <1>6, <2>5 DEF FinishNotification
    <3>2. pagingPathCount >= 1
      BY <2>2, <3>1, ForwardedIsCountedLater, CountedSets DEF CountInv
    <3>3. /\ pagable' => pagable
          /\ pagingPathCount' = pagingPathCount - 1
      BY <2>5 DEF TakeOver, Adjusted
    <3>4. pagable => pagingPathCount = 1
      BY <3>2
    <3> QED BY <3>3, <3>4
  <2> QED BY <1>6, <2>3, <2>4, <2>5 DEF FinishNotification
<1>7. ASSUME NEW t \in Threads, AfterStart(t) \/ LookAtSize(t) \/ QueryAnswered(t)
      PROVE  FlagInv'
  BY <1>7 DEF AfterStart, LookAtSize, QueryAnswered, Gate, pagingVars
<1>8. ASSUME NEW t \in Threads,
             Complete(t) \/ ReleaseLock(t) \/ CloseLock(t) \/ DeleteDevice(t)
      PROVE  FlagInv'
  BY <1>8 DEF Complete, ReleaseLock, CloseLock, DeleteDevice, pagingVars
<1> QED BY <1>0, <1>1, <1>2, <1>3, <1>4, <1>5, <1>6, <1>7, <1>8 DEF Next, ThreadStep, LowerStep

LEMMA CountInit == Init => CountInv /\ FlagInv
<1> SUFFICES ASSUME Init PROVE CountInv /\ FlagInv
  OBVIOUS
<1>1. Added = {} /\ Removing = {} /\ CountedIn = {} /\ CountedOut = {}
  BY DEF Init, Added, Removing, CountedIn, CountedOut, Threads
<1> QED BY <1>1, FS_EmptySet DEF Init, CountInv, FlagInv

LEMMA CountInvariant == Spec => [](PnpInv /\ CountInv /\ FlagInv)
BY PnpInvariant, CountInit, CountStep, FlagStep, PTL DEF Spec

\* The types; in particular the count of paging paths never goes below zero, as long
\* as files are only taken off that were put on.  mainwdm.cpp 1317-1336
THEOREM PnpTypeCorrect == Spec => []TypeOK
<1>1. PnpInv /\ CountInv => TypeOK
  BY CountedSets DEF PnpInv, CountInv, TypeOK, Typed
<1> QED BY <1>1, CountInvariant, PTL

\* While a paging, hibernation or dump file is in use on the device, the device is
\* never pagable, whatever notifications overlap, fail or are refused.
\* mainwdm.cpp 1241-1374, QCacheDeviceUsageNotification
THEOREM DeviceInUseIsNotPagable == Spec => []InUseNotPagable
<1>1. ASSUME PnpInv, CountInv, FlagInv, InUse PROVE ~pagable
  <2>1. pagingPathCount # 0
    BY <1>1, CountedSets DEF CountInv, InUse
  <2>2. ASSUME NEW i \in Irps, Forwarded(i) PROVE pagingPathCount # 1
    BY <1>1, <2>2, ForwardedIsCountedLater, CountedSets DEF CountInv, InUse
  <2> QED BY <1>1, <2>1, <2>2 DEF FlagInv
<1>2. PnpInv /\ CountInv /\ FlagInv => InUseNotPagable
  BY <1>1 DEF InUseNotPagable
<1> QED BY <1>2, CountInvariant, PTL

-----------------------------------------------------------------------------
(* The flag comes back                                                     *)

\* Without paging paths the device is pagable; and a notification that is below
\* has prepared the flag if, and only if, it takes the last path off.
UnusedInv == ~Inrush =>
  /\ pagingPathCount = 0 => pagable
  /\ \A i \in Irps : kind[i] \in Notifications /\ pc[i] \in {"below", "answered"} =>
       /\ setPagable[i] <=> kind[i] = "out" /\ pagingPathCount = 1
       /\ setPagable[i] => pagable

LEMMA UnusedStep ==
  PnpInv /\ CountInv /\ UnusedInv /\ [Next]_vars => UnusedInv'
<1> SUFFICES ASSUME PnpInv, CountInv, UnusedInv, [Next]_vars, ~Inrush PROVE UnusedInv'
  BY DEF UnusedInv
<1>0. pagingPathCount >= 0
  BY CountedSets DEF CountInv
<1> USE PnpAttacherAssumption DEF PnpInv, Typed, KindInv, UnusedInv, Goes, Threads,
                                  Notifications
<1>1. CASE UNCHANGED vars
  BY <1>1 DEF vars, threadVars, pagingVars
<1>2. ASSUME NEW i \in Irps, Refuse(i) PROVE UnusedInv'
  BY <1>2 DEF Refuse, pagingVars
<1>3. ASSUME NEW i \in Irps, Dispatch(i) PROVE UnusedInv'
  <2>1. PICK k \in Kinds : /\ kind' = [kind EXCEPT ![i] = k]
                           /\ Goes(i, "idle", FirstStep(k))
    BY <1>3 DEF Dispatch
  <2>2. k \in Notifications => pc'[i] = "mutex"
    BY <2>1 DEF FirstStep
  <2> QED BY <1>3, <2>1, <2>2 DEF Dispatch, pagingVars
<1>4. ASSUME NEW t \in Threads, AcquireMutex(t) \/ PassGate(t) PROVE UnusedInv'
  BY <1>4 DEF AcquireMutex, PassGate, pagingVars
<1>5. ASSUME NEW t \in Threads, OpenGate(t) PROVE UnusedInv'
  BY <1>5 DEF OpenGate, AfterGate, pagingVars
<1>6. ASSUME NEW i \in Threads, ForwardNotification(i) PROVE UnusedInv'
  <2>1. \A j \in Irps : kind[j] \in Notifications /\ pc[j] \in {"below", "answered"} => j = i
    BY <1>6 DEF ForwardNotification, GateInv, InsideGate, Gate
  <2>2. /\ i \in Irps /\ kind' = kind /\ pc'[i] = "below"
        /\ \A j \in Irps \ {i} : pc'[j] = pc[j]
        /\ pagingPathCount' = pagingPathCount
        /\ pagable' = (pagable \/ setPagable'[i])
        /\ setPagable'[i] <=> kind[i] = "out" /\ pagingPathCount = 1
    BY <1>6 DEF ForwardNotification, LastPath
  <2> QED BY <2>1, <2>2
<1>7. ASSUME NEW t \in Threads, LowerAnswers(t) PROVE UnusedInv'
  BY <1>7 DEF LowerAnswers, pagingVars
<1>8. ASSUME NEW i \in Threads, FinishNotification(i) PROVE UnusedInv'
  <2>1. \A j \in Irps : kind[j] \in Notifications /\ pc[j] \in {"below", "answered"} => j = i
    BY <1>8 DEF FinishNotification, GateInv, InsideGate, Gate
  <2>2. /\ i \in Irps /\ kind' = kind /\ pc[i] = "answered" /\ pc'[i] = "open"
        /\ kind[i] \in Notifications
        /\ \A j \in Irps \ {i} : pc'[j] = pc[j]
    BY <1>8 DEF FinishNotification
  <2>3. pagingPathCount' = 0 => pagable'
    <3>1. CASE TakeBack(i)
      <4>1. pagingPathCount = 0 => pagable /\ ~setPagable[i]
        BY <2>2
      <4>2. pagingPathCount' = pagingPathCount /\ pagable' = (pagable /\ ~setPagable[i])
        BY <3>1 DEF TakeBack
      <4> QED BY <4>1, <4>2, Zenon
    <3>2. CASE TakeOver(i) /\ kind[i] = "in"
      BY <1>0, <3>2 DEF TakeOver, Adjusted
    <3>3. CASE TakeOver(i) /\ kind[i] = "out"
      BY <2>2, <3>3 DEF TakeOver, Adjusted
    <3> QED BY <1>8, <2>2, <3>1, <3>2, <3>3 DEF FinishNotification
  <2> QED BY <2>1, <2>2, <2>3
<1>9. ASSUME NEW t \in Threads, AfterStart(t) \/ LookAtSize(t) \/ QueryAnswered(t)
      PROVE  UnusedInv'
  BY <1>9 DEF AfterStart, LookAtSize, QueryAnswered, Gate, pagingVars
<1>10. ASSUME NEW t \in Threads,
              Complete(t) \/ ReleaseLock(t) \/ CloseLock(t) \/ DeleteDevice(t)
       PROVE  UnusedInv'
  BY <1>10 DEF Complete, ReleaseLock, CloseLock, DeleteDevice, pagingVars
<1> QED BY <1>1, <1>2, <1>3, <1>4, <1>5, <1>6, <1>7, <1>8, <1>9, <1>10
        DEF Next, ThreadStep, LowerStep

\* Once as many files were taken off as were put on and every notification was
\* answered, the device is pagable again and its count is zero: a failed or an
\* overlapping notification leaves neither the flag nor the count behind.
\* mainwdm.cpp 1279-1358, QCacheDeviceUsageNotification
THEOREM DeviceOutOfUseIsPagable == Spec => []UnusedIsPagable
<1>1. Init => UnusedInv
  BY DEF Init, UnusedInv, Threads, Notifications
<1>2. PnpInv /\ CountInv /\ UnusedInv => UnusedIsPagable
  <2> SUFFICES ASSUME PnpInv, CountInv, UnusedInv, ~Inrush,
                      \A i \in Irps : kind[i] \in Notifications => Completed(i),
                      Cardinality(Added) = Cardinality(Removing)
               PROVE  pagable /\ pagingPathCount = 0
    BY DEF UnusedIsPagable
  <2>1. CountedIn = Added
    BY DEF CountedIn, Added, Succeeded, Completed, Notifications
  <2>2. CountedOut = Removing
    BY DEF CountedOut, Removing, Succeeded, Completed, Notifications
  <2>3. pagingPathCount = 0
    BY <2>1, <2>2, CountedSets DEF CountInv
  <2> QED BY <2>3 DEF UnusedInv
<1> QED BY <1>1, <1>2, UnusedStep, CountInvariant, PTL DEF Spec

=============================================================================
