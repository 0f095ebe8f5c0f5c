----------------------------- MODULE ScsiProofs -----------------------------
(* Theorems about ScsiLog and LogReader, for any number of requests: the   *)
(* log loses no record, the depth of the queue recovers from every reset,  *)
(* and the reader shows what was logged.                                   *)
EXTENDS LogReader, SequenceTheorems, FiniteSetTheorems, WellFoundedInduction, TLAPS

IoPcs == {"idle", "entered", "count", "below", "restore", "lock", "link", "push",
          "release", "done"}

\* The removal has a record in its hands while it writes, unlinks and frees one.
TypeInv ==
  /\ LogTypeOK
  /\ pushed \in Seq(Irps) /\ written \in Seq(Irps)
  /\ rpc \in {"write", "unlink", "free"} => cursor \in Irps

\* Whoever links a record holds LogLock.
LockInv == \A i \in Irps : pc[i] \in {"link", "push"} => logLock = i

PushedInv == \A k \in 1 .. Len(pushed) : pc[pushed[k]] \in {"release", "done"}

\* Until the removal takes records away, the list is what was pushed, and a record
\* that is about to become its head is linked to the present one.
ChainInv == rpc = "none" =>
  /\ LogIsComplete
  /\ \A i \in Irps : pc[i] = "push" => next[i] = logData

\* The threads between the two halves of a decrement
Restoring == {i \in Irps : pc[i] = "restore"}

\* Each of them accounts for at most one below zero.
DepthInv == IsFiniteSet(Restoring) /\ queueDepth + Cardinality(Restoring) >= 0

-----------------------------------------------------------------------------
(* What steps there are                                                    *)

IoStep(i) == \/ Refuse(i) \/ Enter(i) \/ LookAtCounters(i) \/ CountIn(i)
             \/ CountOut(i) \/ Restore(i)
             \/ TakeLogLock(i) \/ Link(i) \/ Push(i) \/ ReleaseLock(i)

SwitchStep == Enable \/ EnableAlways \/ Disable \/ ClearEnabled \/ ResetDepth

RemoveStep == \/ OpenFile \/ ReadHead \/ WriteRecord \/ Unlink \/ FreeRecord
              \/ CloseLock \/ DeleteDevice

LEMMA StepsLemma ==
  ASSUME [Next]_vars
  PROVE  (\E i \in Irps : IoStep(i)) \/ SwitchStep \/ RemoveStep \/ UNCHANGED vars
BY DEF Next, IoStep, SwitchStep, RemoveStep

\* A sequence that an element was appended to
LEMMA AppendLemma ==
  ASSUME NEW S, NEW s \in Seq(S), NEW e \in S
  PROVE  /\ Append(s, e) \in Seq(S) /\ Len(Append(s, e)) = Len(s) + 1
         /\ Append(s, e)[Len(s) + 1] = e
         /\ \A k \in 1 .. Len(s) : Append(s, e)[k] = s[k]
         /\ ToSet(Append(s, e)) = ToSet(s) \cup {e}
<1>1. /\ Append(s, e) \in Seq(S) /\ Len(Append(s, e)) = Len(s) + 1
      /\ Append(s, e)[Len(s) + 1] = e
      /\ \A k \in 1 .. Len(s) : Append(s, e)[k] = s[k]
  BY AppendProperties
<1>2. /\ DOMAIN s = 1 .. Len(s) /\ DOMAIN Append(s, e) = 1 .. Len(s) + 1 /\ Len(s) \in Nat
  BY <1>1, LenProperties
<1>3. \A x : (\E k \in DOMAIN Append(s, e) : Append(s, e)[k] = x)
               <=> (\E k \in DOMAIN s : s[k] = x) \/ x = e
  <2> SUFFICES ASSUME NEW x
               PROVE  (\E k \in DOMAIN Append(s, e) : Append(s, e)[k] = x)
                        <=> (\E k \in DOMAIN s : s[k] = x) \/ x = e
    OBVIOUS
  <2>1. ASSUME NEW k \in 1 .. Len(s) + 1 PROVE k \in 1 .. Len(s) \/ k = Len(s) + 1
    BY <1>2
  <2>2. Len(s) + 1 \in 1 .. Len(s) + 1 /\ \A k \in 1 .. Len(s) : k \in 1 .. Len(s) + 1
    BY <1>2
  <2> QED BY <1>1, <1>2, <2>1, <2>2
<1> QED BY <1>1, <1>3 DEF ToSet

-----------------------------------------------------------------------------
(* Types                                                                   *)

LEMMA TypeInit == Init => TypeInv
<1> SUFFICES ASSUME Init PROVE TypeInv
  OBVIOUS
<1>1. ToSet(<<>>) = {}
  BY EmptySeq DEF ToSet
<1>2. pushed \in Seq(Irps) /\ written \in Seq(Irps)
  BY EmptySeq DEF Init
<1>3. /\ pc \in [Irps -> IoPcs] /\ kind \in [Irps -> {"scsi", "disk"}]
      /\ next \in [Irps -> Irps \cup {Null}]
  BY DEF Init, IoPcs
<1>4. /\ queueDepth \in Int /\ countersEnabled \in Int
      /\ switching = "none" /\ switches \in 0 .. MaxSwitches
      /\ logData = Null /\ logLock = Null /\ cursor = Null /\ rpc = "none"
  BY ScsiLogAssumption DEF Init
<1>5. enabledAlways \in BOOLEAN /\ fileOpen \in BOOLEAN /\ removed \in BOOLEAN
  BY Zenon DEF Init
<1>6. ToSet(written) \cup ToSet(pushed) \cup freed \cup holders \subseteq Irps
  BY <1>1 DEF Init
<1> QED BY <1>2, <1>3, <1>4, <1>5, <1>6 DEF TypeInv, LogTypeOK, IoPcs

LEMMA TypeStep == TypeInv /\ [Next]_vars => TypeInv'
<1> SUFFICES ASSUME TypeInv, [Next]_vars PROVE TypeInv'
  OBVIOUS
<1> USE DEF TypeInv, LogTypeOK
<1>1. ASSUME NEW i \in Irps, IoStep(i) PROVE TypeInv'
  <2> USE DEF Goes, AfterCount, logVars, counterVars, switchVars, walkVars
  <2>1. CASE Refuse(i) \/ Enter(i) \/ LookAtCounters(i)
    BY <2>1 DEF Refuse, Enter, LookAtCounters
  <2>2. CASE CountIn(i) \/ CountOut(i) \/ Restore(i)
    BY <2>2 DEF CountIn, CountOut, Restore
  <2>3. CASE TakeLogLock(i) \/ Link(i) \/ ReleaseLock(i)
    BY <2>3 DEF TakeLogLock, Link, ReleaseLock
  <2>4. CASE Push(i)
    <3>1. /\ pushed' = Append(pushed, i) /\ Append(pushed, i) \in Seq(Irps)
          /\ ToSet(Append(pushed, i)) = ToSet(pushed) \cup {i}
      BY <2>4, AppendLemma DEF Push
    <3> QED BY <2>4, <3>1 DEF Push
  <2> QED BY <1>1, <2>1, <2>2, <2>3, <2>4 DEF IoStep
<1>2. CASE SwitchStep
  <2> USE DEF ioVars, logVars, walkVars
  <2>1. MaySwitch => switches' \in 0 .. MaxSwitches
    BY ScsiLogAssumption DEF MaySwitch
  <2>2. CASE Enable
    BY <2>1, <2>2 DEF Enable
  <2>3. CASE EnableAlways
    BY <2>1, <2>3 DEF EnableAlways
  <2>4. CASE Disable
    BY <2>1, <2>4 DEF Disable
  <2>5. CASE ClearEnabled \/ ResetDepth
    BY <2>5 DEF ClearEnabled, ResetDepth
  <2> QED BY <1>2, <2>2, <2>3, <2>4, <2>5 DEF SwitchStep
<1>3. CASE RemoveStep
  <2> USE DEF RemoverGoes, ioVars, counterVars, switchVars, logVars
  <2>1. CASE OpenFile \/ ReadHead
    BY <2>1 DEF OpenFile, ReadHead, AtEnd
  <2>2. CASE WriteRecord
    <3>1. CASE written' = Append(written, cursor) /\ UNCHANGED fileOpen
      <4>1. /\ Append(written, cursor) \in Seq(Irps)
            /\ ToSet(Append(written, cursor)) = ToSet(written) \cup {cursor}
        BY <2>2, AppendLemma DEF WriteRecord, RecordToWrite
      <4> QED BY <2>2, <3>1, <4>1 DEF WriteRecord, RecordToWrite
    <3>2. CASE fileOpen' = FALSE /\ UNCHANGED written
      BY <2>2, <3>2 DEF WriteRecord, RecordToWrite
    <3> QED BY <2>2, <3>1, <3>2 DEF WriteRecord, RecordToWrite
  <2>3. CASE Unlink \/ FreeRecord
    BY <2>3 DEF Unlink, FreeRecord
  <2>4. CASE CloseLock \/ DeleteDevice
    BY <2>4 DEF CloseLock, DeleteDevice
  <2> QED BY <1>3, <2>1, <2>2, <2>3, <2>4 DEF RemoveStep
<1>4. CASE UNCHANGED vars
  BY <1>4 DEF vars, ioVars, counterVars, switchVars, logVars, walkVars
<1> QED BY <1>1, <1>2, <1>3, <1>4, StepsLemma

\* Every variable of the device extension keeps its type; in particular
\* ScsiChkRemoveDevice never writes, follows or frees a null pointer.
\* scsichk.c 937-955
THEOREM LogTypesHold == Spec => []LogTypeOK
BY TypeInit, TypeStep, PTL DEF Spec, TypeInv

-----------------------------------------------------------------------------
(* The log                                                                 *)

LEMMA LogInit == Init => LockInv /\ PushedInv /\ ChainInv
<1> SUFFICES ASSUME Init PROVE LockInv /\ PushedInv /\ ChainInv
  OBVIOUS
<1>1. pushed = <<>> /\ Len(pushed) = 0 /\ logData = Null /\ \A i \in Irps : pc[i] = "idle"
  BY EmptySeq DEF Init
<1> QED BY <1>1 DEF LockInv, PushedInv, ChainInv, LogIsComplete

\* What a step of a request leaves alone
LEMMA IoFrame ==
  ASSUME TypeInv, NEW i \in Irps, IoStep(i)
  PROVE  /\ rpc' = rpc
         /\ \A j \in Irps \ {i} : pc'[j] = pc[j]
         /\ ~TakeLogLock(i) /\ ~Push(i) => logLock' = logLock
         /\ ~Link(i) => next' = next
         /\ ~Push(i) => UNCHANGED <<logData, pushed>>
         /\ pc'[i] \in {"link", "push"} => TakeLogLock(i) \/ Link(i)
         /\ pc[i] \notin {"release", "done"} \/ pc'[i] = "done"
         /\ pc'[i] = "push" => Link(i)
BY DEF TypeInv, LogTypeOK, IoStep, Goes, AfterCount, logVars, counterVars, switchVars,
       walkVars, Refuse, Enter, LookAtCounters, CountIn, CountOut, Restore, TakeLogLock,
       Link, Push, ReleaseLock

\* The counters and the removal leave the threads and LogLock alone.
LEMMA OtherFrame ==
  ASSUME SwitchStep \/ RemoveStep \/ UNCHANGED vars
  PROVE  /\ UNCHANGED <<pc, logLock, pushed, next>>
         /\ rpc' = "none" => rpc = "none" /\ logData' = logData
BY DEF vars, SwitchStep, RemoveStep, Enable, EnableAlways, Disable, ClearEnabled,
       ResetDepth, OpenFile, ReadHead, WriteRecord, Unlink, FreeRecord, CloseLock,
       DeleteDevice, RemoverGoes, ioVars, logVars, walkVars

\* LogLock admits one thread at a time to the list.
LEMMA LockStep == TypeInv /\ LockInv /\ [Next]_vars => LockInv'
<1> SUFFICES ASSUME TypeInv, LockInv, [Next]_vars PROVE LockInv'
  OBVIOUS
<1>1. ASSUME NEW i \in Irps, IoStep(i) PROVE LockInv'
  <2>1. CASE TakeLogLock(i)
    <3>1. logLock = Null /\ logLock' = i
      BY <2>1 DEF TakeLogLock
    <3>2. \A j \in Irps : pc[j] \notin {"link", "push"}
      BY <3>1, ScsiLogAssumption DEF LockInv
    <3> QED BY <1>1, <3>1, <3>2, IoFrame DEF LockInv
  <2>2. CASE Push(i)
    <3>1. logLock = i /\ pc'[i] = "release"
      BY <2>2 DEF Push, Goes, LockInv, TypeInv, LogTypeOK
    <3> QED BY <1>1, <3>1, IoFrame DEF LockInv
  <2>3. CASE Link(i)
    BY <1>1, <2>3, IoFrame DEF LockInv, Link, Goes
  <2>4. CASE ~TakeLogLock(i) /\ ~Push(i) /\ ~Link(i)
    BY <1>1, <2>4, IoFrame DEF LockInv
  <2> QED BY <2>1, <2>2, <2>3, <2>4
<1>2. CASE SwitchStep \/ RemoveStep \/ UNCHANGED vars
  BY <1>2, OtherFrame DEF LockInv
<1> QED BY <1>1, <1>2, StepsLemma

\* A record is pushed once.
LEMMA PushedStep == TypeInv /\ PushedInv /\ [Next]_vars => PushedInv'
<1> SUFFICES ASSUME TypeInv, PushedInv, [Next]_vars PROVE PushedInv'
  OBVIOUS
<1>1. Len(pushed) \in Nat /\ \A k \in 1 .. Len(pushed) : pushed[k] \in Irps
  BY ElementOfSeq, LenProperties DEF TypeInv
<1>2. ASSUME NEW i \in Irps, IoStep(i) PROVE PushedInv'
  <2>1. \A k \in 1 .. Len(pushed) : pc'[pushed[k]] \in {"release", "done"}
    BY <1>1, <1>2, IoFrame DEF PushedInv
  <2>2. CASE Push(i)
    <3>1. /\ Len(pushed') = Len(pushed) + 1 /\ pushed'[Len(pushed) + 1] = i
          /\ \A k \in 1 .. Len(pushed) : pushed'[k] = pushed[k]
      BY <2>2, AppendLemma DEF Push, TypeInv
    <3>2. pc'[i] = "release"
      BY <2>2 DEF Push, Goes, TypeInv, LogTypeOK
    <3>3. ASSUME NEW k \in 1 .. Len(pushed') PROVE k \in 1 .. Len(pushed) \/ k = Len(pushed) + 1
      BY <1>1, <3>1
    <3> QED BY <2>1, <3>1, <3>2, <3>3 DEF PushedInv
  <2>3. CASE ~Push(i)
    BY <1>2, <2>1, <2>3, IoFrame DEF PushedInv
  <2> QED BY <2>2, <2>3
<1>3. CASE SwitchStep \/ RemoveStep \/ UNCHANGED vars
  BY <1>3, OtherFrame DEF PushedInv
<1> QED BY <1>2, <1>3, StepsLemma

LEMMA ChainStep ==
  TypeInv /\ LockInv /\ PushedInv /\ ChainInv /\ [Next]_vars => ChainInv'
<1> SUFFICES ASSUME TypeInv, LockInv, PushedInv, ChainInv, [Next]_vars, rpc' = "none"
             PROVE  /\ LogIsComplete'
                    /\ \A i \in Irps : pc'[i] = "push" => next'[i] = logData'
  BY DEF ChainInv
<1>1. Len(pushed) \in Nat /\ \A k \in 1 .. Len(pushed) : pushed[k] \in Irps
  BY ElementOfSeq, LenProperties DEF TypeInv
<1>2. ASSUME NEW i \in Irps, IoStep(i)
      PROVE  /\ LogIsComplete'
             /\ \A j \in Irps : pc'[j] = "push" => next'[j] = logData'
  <2>0. rpc = "none"
    BY <1>2, IoFrame
  <2>1. CASE Push(i)
    <3>1. /\ pc[i] = "push" /\ logData' = i /\ next' = next
          /\ pushed' = Append(pushed, i) /\ pc'[i] = "release"
      BY <2>1 DEF Push, Goes, TypeInv, LogTypeOK
    <3>2. /\ Len(pushed') = Len(pushed) + 1 /\ pushed'[Len(pushed) + 1] = i
          /\ \A k \in 1 .. Len(pushed) : pushed'[k] = pushed[k]
      BY <3>1, AppendLemma DEF TypeInv
    <3>3. pushed' # <<>> /\ Last(pushed') = i
      BY <1>1, <3>2, EmptySeq DEF Last
    <3>4. next[i] = IF Len(pushed) + 1 = 1 THEN Null ELSE pushed[Len(pushed)]
      <4>1. next[i] = IF pushed = <<>> THEN Null ELSE Last(pushed)
        BY <2>0, <3>1 DEF ChainInv, LogIsComplete
      <4>2. pushed = <<>> <=> Len(pushed) = 0
        BY EmptySeq DEF TypeInv
      <4> QED BY <1>1, <4>1, <4>2 DEF Last
    <3>5. \A k \in 1 .. Len(pushed) :
            next[pushed[k]] = IF k = 1 THEN Null ELSE pushed[k - 1]
      BY <2>0 DEF ChainInv, LogIsComplete
    <3>6. ASSUME NEW k \in 1 .. Len(pushed')
          PROVE  next[pushed'[k]] = IF k = 1 THEN Null ELSE pushed'[k - 1]
      <4>1. k \in 1 .. Len(pushed) \/ k = Len(pushed) + 1
        BY <1>1, <3>2
      <4>2. k # 1 => k - 1 \in 1 .. Len(pushed)
        BY <1>1, <3>2
      <4>3. k # 1 => pushed'[k - 1] = pushed[k - 1]
        BY <3>2, <4>2
      <4>4. CASE k \in 1 .. Len(pushed)
        BY <3>2, <3>5, <4>3, <4>4
      <4>5. CASE k = Len(pushed) + 1
        <5>1. k - 1 = Len(pushed) /\ pushed'[k] = i
          BY <1>1, <3>2, <4>5
        <5> QED BY <3>4, <4>3, <4>5, <5>1
      <4> QED BY <4>1, <4>4, <4>5
    <3>7. LogIsComplete'
      BY <3>1, <3>3, <3>6 DEF LogIsComplete
    <3>8. \A j \in Irps : pc'[j] # "push"
      BY <1>2, <3>1, IoFrame DEF LockInv
    <3> QED BY <3>7, <3>8
  <2>2. CASE Link(i)
    <3>1. /\ pc[i] = "link" /\ next' = [next EXCEPT ![i] = logData]
          /\ UNCHANGED <<logData, pushed>>
      BY <2>2 DEF Link, Goes
    <3>2. \A k \in 1 .. Len(pushed) : pushed[k] # i
      BY <3>1 DEF PushedInv
    <3>3. \A j \in Irps : next'[j] = IF j = i THEN logData ELSE next[j]
      BY <3>1 DEF TypeInv, LogTypeOK
    <3>4. LogIsComplete'
      BY <1>1, <2>0, <3>1, <3>2, <3>3 DEF ChainInv, LogIsComplete
    <3>5. \A j \in Irps \ {i} : pc'[j] # "push"
      <4>1. logLock = i
        BY <3>1 DEF LockInv
      <4> QED BY <1>2, <4>1, IoFrame DEF LockInv
    <3> QED BY <3>1, <3>3, <3>4, <3>5
  <2>3. CASE ~Push(i) /\ ~Link(i)
    <3>1. UNCHANGED <<logData, pushed, next, rpc>> /\ pc'[i] # "push"
      BY <1>2, <2>3, IoFrame
    <3> QED BY <1>2, <2>0, <3>1, IoFrame DEF ChainInv, LogIsComplete
  <2> QED BY <2>1, <2>2, <2>3
<1>3. CASE SwitchStep \/ RemoveStep \/ UNCHANGED vars
  BY <1>3, OtherFrame DEF ChainInv, LogIsComplete
<1> QED BY <1>2, <1>3, StepsLemma

\* The list that hangs on LogData holds every record that ScsiChkIoCompletion logged,
\* once and the latest first, however many processors log at the same time: LogLock
\* is held from the reading of the head to its replacement.  scsichk.c 1671-1690
THEOREM LogKeepsEveryRecord == Spec => []LogIsComplete
<1>1. ChainInv => LogIsComplete
  BY DEF ChainInv, LogIsComplete
<1> QED BY <1>1, LogInit, TypeInit, TypeStep, LockStep, PushedStep, ChainStep, PTL DEF Spec

-----------------------------------------------------------------------------
(* The depth of the queue                                                  *)

LEMMA DepthStep == TypeInv /\ DepthInv /\ [Next]_vars => DepthInv'
<1> SUFFICES ASSUME TypeInv, DepthInv, [Next]_vars PROVE DepthInv'
  OBVIOUS
<1>1. /\ queueDepth \in Int /\ IsFiniteSet(Restoring) /\ Cardinality(Restoring) \in Nat
      /\ queueDepth + Cardinality(Restoring) >= 0
  BY FS_CardinalityType DEF TypeInv, LogTypeOK, DepthInv
<1>2. ASSUME NEW i \in Irps, CountOut(i) PROVE DepthInv'
  <2>1. /\ pc[i] = "below" /\ queueDepth' = queueDepth - 1
        /\ \E to \in IF queueDepth <= 0 THEN {"restore"} ELSE AfterCount(i) :
             pc' = [pc EXCEPT ![i] = to]
    BY <1>2 DEF CountOut, Goes
  <2>2. CASE queueDepth <= 0
    <3>1. Restoring' = Restoring \cup {i} /\ i \notin Restoring
      BY <2>1, <2>2 DEF Restoring, TypeInv, LogTypeOK
    <3>2. /\ IsFiniteSet(Restoring \cup {i})
          /\ Cardinality(Restoring \cup {i}) = Cardinality(Restoring) + 1
      BY <1>1, <3>1, FS_AddElement
    <3>3. queueDepth' + Cardinality(Restoring') >= 0
      BY <1>1, <2>1, <3>1, <3>2
    <3> QED BY <3>1, <3>2, <3>3 DEF DepthInv
  <2>3. CASE queueDepth > 0
    <3>1. Restoring' = Restoring
      <4>1. ~(queueDepth <= 0)
        BY <1>1, <2>3
      <4>2. PICK to \in AfterCount(i) : pc' = [pc EXCEPT ![i] = to]
        BY <2>1, <4>1, Zenon
      <4>3. to # "restore"
        BY DEF AfterCount
      <4> QED BY <2>1, <4>2, <4>3 DEF Restoring, TypeInv, LogTypeOK
    <3>2. queueDepth' + Cardinality(Restoring') >= 0
      BY <1>1, <2>1, <2>3, <3>1
    <3> QED BY <1>1, <3>1, <3>2 DEF DepthInv
  <2> QED BY <1>1, <2>2, <2>3
<1>3. ASSUME NEW i \in Irps, Restore(i) PROVE DepthInv'
  <2>1. Restoring' = Restoring \ {i} /\ i \in Restoring /\ queueDepth' = queueDepth + 1
    BY <1>3 DEF Restore, Goes, AfterCount, Restoring, TypeInv, LogTypeOK
  <2>2. /\ IsFiniteSet(Restoring \ {i})
        /\ Cardinality(Restoring \ {i}) = Cardinality(Restoring) - 1
    BY <1>1, <2>1, FS_RemoveElement
  <2>3. queueDepth' + Cardinality(Restoring') >= 0
    BY <1>1, <2>1, <2>2
  <2> QED BY <2>1, <2>2, <2>3 DEF DepthInv
<1>4. ASSUME NEW i \in Irps, IoStep(i), ~CountOut(i), ~Restore(i) PROVE DepthInv'
  <2>1. Restoring' = Restoring
    BY <1>4 DEF IoStep, Goes, Restoring, TypeInv, LogTypeOK, Refuse, Enter,
         LookAtCounters, CountIn, TakeLogLock, Link, Push, ReleaseLock
  <2>2. queueDepth' \in {queueDepth, queueDepth + 1}
    BY <1>4 DEF IoStep, counterVars, Refuse, Enter,
         LookAtCounters, CountIn, TakeLogLock, Link, Push, ReleaseLock
  <2>3. queueDepth' + Cardinality(Restoring') >= 0
    BY <1>1, <2>1, <2>2
  <2> QED BY <1>1, <2>1, <2>3 DEF DepthInv
<1>5. CASE SwitchStep \/ RemoveStep \/ UNCHANGED vars
  <2>1. Restoring' = Restoring
    BY <1>5, OtherFrame DEF Restoring
  <2>2. queueDepth' \in {queueDepth, 0}
    BY <1>5 DEF vars, SwitchStep, RemoveStep, Enable, EnableAlways, Disable,
         ClearEnabled, ResetDepth, OpenFile, ReadHead, WriteRecord, Unlink, FreeRecord,
         CloseLock, DeleteDevice, counterVars
  <2>3. queueDepth' + Cardinality(Restoring') >= 0
    BY <1>1, <2>1, <2>2
  <2> QED BY <1>1, <2>1, <2>3 DEF DepthInv
<1> QED BY <1>2, <1>3, <1>4, <1>5, StepsLemma

\* Whatever resets of QueueDepth, by a WMI client or by the first performance query,
\* come between the increments and the two-step decrements of the completions, each
\* thread in the middle of its decrement accounts for at most one below zero: the
\* depth is not left negative.  scsichk.c 1505-1509, 1793-1810, 2697-2721
THEOREM DepthRecovers == Spec => []DepthNotNegative
<1>1. Init => DepthInv
  <2> SUFFICES ASSUME Init PROVE DepthInv
    OBVIOUS
  <2>1. Restoring = {} /\ queueDepth = 0
    BY DEF Init, Restoring
  <2> QED BY <2>1, FS_EmptySet DEF DepthInv
<1>2. TypeInv /\ DepthInv => DepthNotNegative
  <2> SUFFICES ASSUME TypeInv, DepthInv, \A i \in Irps : pc[i] # "restore"
               PROVE  queueDepth >= 0
    BY DEF DepthNotNegative
  <2>1. Restoring = {}
    BY DEF Restoring
  <2>2. Cardinality(Restoring) = 0
    BY <2>1, FS_EmptySet
  <2> QED BY <2>2 DEF DepthInv, TypeInv, LogTypeOK
<1> QED BY <1>1, <1>2, TypeInit, TypeStep, DepthStep, PTL DEF Spec

-----------------------------------------------------------------------------
(* Where the records of the file end                                       *)

\* Induction over the numbers: a set of them that has with every number a smaller one
\* is empty.
LEMMA NoLeastElement ==
  ASSUME NEW S \in SUBSET Nat, \A m \in S : \E k \in S : k < m
  PROVE  S = {}
<1> SUFFICES ASSUME S # {} PROVE FALSE
  OBVIOUS
<1> DEFINE NatLess == {p \in Nat \X Nat : p[1] < p[2]}
<1>0. IsWellFoundedOn(NatLess, Nat)
  BY NatLessThanWellFounded DEF OpToRel
<1>1. PICK m \in S : \A k \in S : ~(<<k, m>> \in NatLess)
  BY <1>0, WFMin
<1>2. PICK k \in S : k < m
  OBVIOUS
<1> QED BY <1>1, <1>2

\* EndsOf is the function that its equations describe.
LEMMA EndsLemma ==
  ASSUME NEW data \in Seq(DataLengths)
  PROVE  /\ DOMAIN EndsOf(data) = 0 .. Len(data)
         /\ EndsOf(data)[0] = 0
         /\ \A k \in 1 .. Len(data) :
              EndsOf(data)[k] = EndsOf(data)[k - 1] + WrittenBytes(data[k])
<1> DEFINE Sums(f, n) ==
      f = [k \in 0 .. n |-> IF k = 0 THEN 0 ELSE f[k - 1] + WrittenBytes(data[k])]
    S == {n \in Nat : ~\E f : Sums(f, n)}
<1>1. ASSUME NEW m \in S PROVE \E k \in S : k < m
  <2>1. m # 0
    <3> DEFINE f == [k \in 0 .. 0 |-> 0]
    <3>1. Sums(f, 0)
      OBVIOUS
    <3> QED BY <3>1
  <2>2. m - 1 \in Nat /\ m - 1 < m
    BY <2>1
  <2>3. ASSUME m - 1 \notin S PROVE FALSE
    <3>1. PICK f : Sums(f, m - 1)
      BY <2>2, <2>3
    <3> DEFINE g == [k \in 0 .. m |-> IF k = m THEN f[m - 1] + WrittenBytes(data[m])
                                               ELSE f[k]]
    <3>2. \A k \in 0 .. m - 1 :
            f[k] = IF k = 0 THEN 0 ELSE f[k - 1] + WrittenBytes(data[k])
      BY <3>1
    <3> HIDE DEF Sums
    <3>3. ASSUME NEW k \in 0 .. m
          PROVE  g[k] = IF k = 0 THEN 0 ELSE g[k - 1] + WrittenBytes(data[k])
      BY <2>1, <3>2
    <3>4. g = [k \in 0 .. m |-> IF k = 0 THEN 0 ELSE g[k - 1] + WrittenBytes(data[k])]
      <4> HIDE DEF g
      <4>1. g = [k \in 0 .. m |-> g[k]]
        BY DEF g
      <4> QED BY <3>3, <4>1
    <3>5. Sums(g, m)
      BY <3>4 DEF Sums
    <3> HIDE DEF g
    <3> QED BY <3>5
  <2> QED BY <2>2, <2>3
<1>2. S = {}
  <2> HIDE DEF S
  <2> QED BY <1>1, NoLeastElement DEF S
<1>3. PICK f : Sums(f, Len(data))
  BY <1>2
<1>4. EndsOf(data) = CHOOSE h : Sums(h, Len(data))
  BY DEF EndsOf
<1>5. Sums(EndsOf(data), Len(data))
  <2> HIDE DEF Sums
  <2> QED BY <1>3, <1>4
<1> DEFINE e == EndsOf(data)
<1>6. e = [k \in 0 .. Len(data) |-> IF k = 0 THEN 0 ELSE e[k - 1] + WrittenBytes(data[k])]
  BY <1>5
<1> HIDE DEF e
<1>7. /\ DOMAIN e = 0 .. Len(data) /\ e[0] = 0
      /\ \A k \in 1 .. Len(data) : e[k] = e[k - 1] + WrittenBytes(data[k])
  BY <1>6, LenProperties
<1> QED BY <1>7 DEF e

\* Every record is at least as long as its header.
LEMMA EndsGrow ==
  ASSUME NEW data \in Seq(DataLengths)
  PROVE  /\ \A k \in 0 .. Len(data) : EndsOf(data)[k] \in Nat
         /\ \A k \in 0 .. Len(data) : \A j \in 0 .. k - 1 :
              EndsOf(data)[j] + DataOffset <= EndsOf(data)[k]
<1> DEFINE e == EndsOf(data)
           n == Len(data)
           S == {k \in 0 .. n : e[k] \notin Nat}
           T == {k \in 0 .. n : ~ \A j \in 0 .. k - 1 : e[j] + DataOffset <= e[k]}
<1>1. n \in Nat /\ DataOffset \in Nat
  BY LenProperties, LayoutAssumption
<1>2. /\ e[0] = 0
      /\ \A k \in 1 .. n : e[k] = e[k - 1] + (DataOffset + data[k]) /\ data[k] \in Nat
  BY EndsLemma, ElementOfSeq, LayoutAssumption DEF WrittenBytes
<1> HIDE DEF e, n
<1>3. S = {}
  <2>1. ASSUME NEW m \in S PROVE m - 1 \in S /\ m - 1 < m
    <3>1. m # 0
      BY <1>2
    <3>2. m - 1 \in 0 .. n /\ m - 1 < m /\ m \in 1 .. n
      BY <1>1, <3>1
    <3>3. e[m - 1] \in Nat => e[m] \in Nat
      BY <1>1, <1>2, <3>2
    <3> QED BY <3>2, <3>3
  <2>2. S \in SUBSET Nat
    BY <1>1
  <2> HIDE DEF S
  <2> QED BY <2>1, <2>2, NoLeastElement
<1>4. T = {}
  <2>1. ASSUME NEW m \in T PROVE m - 1 \in T /\ m - 1 < m
    <3>1. m # 0
      BY <1>1
    <3>2. m - 1 \in 0 .. n /\ m - 1 < m /\ m \in 1 .. n
      BY <1>1, <3>1
    <3>3. \A k \in 0 .. n : e[k] \in Nat
      BY <1>3
    <3>4. e[m] \in Nat /\ e[m - 1] + DataOffset <= e[m]
      <4>1. e[m] = e[m - 1] + (DataOffset + data[m]) /\ data[m] \in Nat /\ e[m - 1] \in Nat
        BY <1>2, <3>2, <3>3
      <4> QED BY <1>1, <4>1
    <3>5. ASSUME m - 1 \notin T PROVE m \notin T
      <4>1. \A j \in 0 .. (m - 1) - 1 : e[j] + DataOffset <= e[m - 1]
        BY <3>2, <3>5
      <4>2. ASSUME NEW j \in 0 .. m - 1 PROVE e[j] + DataOffset <= e[m]
        <5>1. CASE j = m - 1
          BY <3>4, <5>1
        <5>2. CASE j # m - 1
          <6>1. j \in 0 .. (m - 1) - 1 /\ j \in 0 .. n
            BY <1>1, <3>2, <5>2
          <6>2. e[j] + DataOffset <= e[m - 1] /\ e[j] \in Nat /\ e[m - 1] \in Nat
            BY <3>2, <3>3, <4>1, <6>1
          <6> QED BY <1>1, <3>4, <6>2
        <5> QED BY <5>1, <5>2
      <4> QED BY <4>2
    <3> QED BY <3>2, <3>5
  <2>2. T \in SUBSET Nat
    BY <1>1
  <2> HIDE DEF T
  <2> QED BY <2>1, <2>2, NoLeastElement
<1>5. /\ \A k \in 0 .. n : e[k] \in Nat
      /\ \A k \in 0 .. n : \A j \in 0 .. k - 1 : e[j] + DataOffset <= e[k]
  BY <1>3, <1>4
<1> QED BY <1>5 DEF e, n

-----------------------------------------------------------------------------
(* The removal writes what was logged                                      *)

allVars == <<vars, readerVars, before>>

\* How many records the list has, when each one so far went to the file
OnList == Len(pushed) - Len(written) + (IF rpc = "unlink" THEN 1 ELSE 0)

\* The file holds the latest records, and the list the others, if nothing was logged
\* since the removal began.
WalkInv ==
  /\ before \in Seq(Irps)
  /\ rpc = "none" => written = <<>>
  /\ rpc # "none" => Len(before) <= Len(pushed)
  /\ rpc # "none" /\ fileOpen /\ before = pushed =>
       /\ \A k \in 1 .. Len(pushed) : next[pushed[k]] = IF k = 1 THEN Null ELSE pushed[k - 1]
       /\ Len(written) <= Len(pushed) /\ OnList \in 0 .. Len(pushed)
       /\ \A k \in 1 .. Len(written) : written[k] = pushed[Len(pushed) + 1 - k]
       /\ logData = IF OnList = 0 THEN Null ELSE pushed[OnList]
       /\ rpc \in {"write", "unlink"} => cursor = logData
       /\ rpc \in {"counters", "drain", "gone"} => OnList = 0

\* A step of a request keeps what the removal and the reader see, except that it logs.
LEMMA IoWalkFrame ==
  ASSUME NEW i \in Irps, IoStep(i)
  PROVE  UNCHANGED <<rpc, cursor, fileOpen, written, freed>>
BY DEF IoStep, Refuse, Enter, LookAtCounters, CountIn, CountOut, Restore, TakeLogLock,
       Link, Push, ReleaseLock, walkVars

LEMMA WalkStep ==
  TypeInv /\ PushedInv /\ ChainInv /\ WalkInv /\ [ReaderNext]_allVars => WalkInv'
<1> SUFFICES ASSUME TypeInv, PushedInv, ChainInv, WalkInv, [ReaderNext]_allVars
             PROVE  WalkInv'
  OBVIOUS
<1>1. /\ Len(pushed) \in Nat /\ \A k \in 1 .. Len(pushed) : pushed[k] \in Irps
      /\ Len(written) \in Nat /\ Len(before) \in Nat
  BY ElementOfSeq, LenProperties DEF TypeInv, WalkInv
<1>2. ASSUME NEW i \in Irps, IoStep(i), UNCHANGED before PROVE WalkInv'
  <2>1. UNCHANGED <<rpc, cursor, fileOpen, written>>
    BY <1>2, IoWalkFrame
  <2>2. CASE Push(i)
    <3>1. Len(pushed') = Len(pushed) + 1
      BY <2>2, AppendLemma DEF Push, TypeInv
    <3>2. rpc # "none" => before' # pushed' /\ Len(before') <= Len(pushed')
      BY <1>1, <1>2, <3>1 DEF WalkInv
    <3> QED BY <1>2, <2>1, <3>2 DEF WalkInv
  <2>3. CASE ~Push(i)
    <3>1. UNCHANGED <<logData, pushed>>
      BY <1>2, <2>3, IoFrame
    <3>2. \A k \in 1 .. Len(pushed) : next'[pushed[k]] = next[pushed[k]]
      <4>1. CASE Link(i)
        <5>1. \A k \in 1 .. Len(pushed) : pushed[k] # i
          BY <4>1 DEF PushedInv, Link, Goes
        <5> QED BY <1>1, <4>1, <5>1 DEF Link, TypeInv, LogTypeOK
      <4>2. CASE ~Link(i)
        BY <1>2, <4>2, IoFrame
      <4> QED BY <4>1, <4>2
    <3>3. OnList' = OnList
      BY <2>1, <3>1 DEF OnList
    <3> QED BY <1>2, <2>1, <3>1, <3>2, <3>3 DEF WalkInv
  <2> QED BY <2>2, <2>3
<1>3. ASSUME RemoveStep, before' = IF rpc = "none" /\ rpc' # "none" THEN pushed ELSE before
      PROVE  WalkInv'
  <2>1. pushed' = pushed /\ next' = next
    BY <1>3, OtherFrame
  <2>2. before' \in Seq(Irps) /\ rpc' # "none"
    BY <1>3 DEF RemoveStep, OpenFile, ReadHead, WriteRecord, Unlink, FreeRecord,
         CloseLock, DeleteDevice, RemoverGoes, TypeInv, WalkInv
  <2>3. Len(before') <= Len(pushed')
    <3>1. CASE rpc = "none"
      <4>1. before' = pushed /\ pushed' = pushed
        BY <1>3, <2>1, <2>2, <3>1
      <4> QED BY <1>1, <4>1
    <3>2. CASE rpc # "none"
      <4>1. before' = before /\ pushed' = pushed
        BY <1>3, <2>1, <3>2
      <4> QED BY <3>2, <4>1 DEF WalkInv
    <3> QED BY <3>1, <3>2
  <2> SUFFICES ASSUME fileOpen', before' = pushed
               PROVE  /\ \A k \in 1 .. Len(pushed) :
                           next[pushed[k]] = IF k = 1 THEN Null ELSE pushed[k - 1]
                      /\ Len(written') <= Len(pushed) /\ OnList' \in 0 .. Len(pushed)
                      /\ \A k \in 1 .. Len(written') :
                           written'[k] = pushed[Len(pushed) + 1 - k]
                      /\ logData' = IF OnList' = 0 THEN Null ELSE pushed[OnList']
                      /\ rpc' \in {"write", "unlink"} => cursor' = logData'
                      /\ rpc' \in {"counters", "drain", "gone"} => OnList' = 0
    BY <2>1, <2>2, <2>3 DEF WalkInv
  <2>4. CASE OpenFile
    <3>1. rpc = "none" /\ rpc' = "head" /\ written' = <<>> /\ logData' = logData
      BY <2>4 DEF OpenFile, RemoverGoes, WalkInv, logVars
    <3>2. Len(written') = 0 /\ OnList' = Len(pushed)
      BY <1>1, <2>1, <3>1, EmptySeq DEF OnList
    <3>3. pushed = <<>> <=> Len(pushed) = 0
      BY EmptySeq DEF TypeInv
    <3>4. LogIsComplete
      BY <3>1 DEF ChainInv
    <3> QED BY <1>1, <3>1, <3>2, <3>3, <3>4 DEF LogIsComplete, Last
  <2>5. CASE ~OpenFile
    <3>1. rpc # "none" /\ before = pushed /\ fileOpen
      <4>1. rpc # "none" /\ (fileOpen' => fileOpen)
        BY <1>3, <2>5 DEF RemoveStep, ReadHead, WriteRecord, Unlink, FreeRecord,
             CloseLock, DeleteDevice, RemoverGoes
      <4> QED BY <1>3, <4>1
    <3>2. /\ \A k \in 1 .. Len(pushed) :
               next[pushed[k]] = IF k = 1 THEN Null ELSE pushed[k - 1]
          /\ Len(written) <= Len(pushed) /\ OnList \in 0 .. Len(pushed)
          /\ \A k \in 1 .. Len(written) : written[k] = pushed[Len(pushed) + 1 - k]
          /\ logData = IF OnList = 0 THEN Null ELSE pushed[OnList]
          /\ rpc \in {"write", "unlink"} => cursor = logData
          /\ rpc \in {"counters", "drain", "gone"} => OnList = 0
      BY <3>1 DEF WalkInv
    <3>3. OnList = 0 <=> logData = Null
      BY <1>1, <3>2, ScsiLogAssumption
    <3>4. CASE ReadHead
      <4>1. /\ UNCHANGED <<written, logData>> /\ rpc = "head" /\ cursor' = logData
            /\ rpc' = IF logData = Null THEN "counters" ELSE "write"
        BY <3>4 DEF ReadHead, RemoverGoes, AtEnd, logVars
      <4>2. OnList' = OnList
        BY <2>1, <4>1 DEF OnList
      <4> QED BY <3>2, <3>3, <4>1, <4>2
    <3>5. CASE WriteRecord
      <4>1. /\ rpc = "write" /\ rpc' = "unlink" /\ cursor' = cursor /\ logData' = logData
            /\ written' = Append(written, cursor)
        BY <3>5 DEF WriteRecord, RecordToWrite, RemoverGoes, logVars
      <4>2. /\ Len(written') = Len(written) + 1 /\ written'[Len(written) + 1] = cursor
            /\ \A k \in 1 .. Len(written) : written'[k] = written[k]
        BY <4>1, AppendLemma DEF TypeInv
      <4>3. cursor \in Irps /\ cursor = logData
        BY <3>2, <4>1 DEF TypeInv
      <4>4. OnList # 0 /\ cursor = pushed[OnList] /\ OnList = Len(pushed) - Len(written)
        BY <1>1, <3>2, <3>3, <4>1, <4>3, ScsiLogAssumption DEF OnList
      <4>5. OnList' = OnList /\ Len(written') <= Len(pushed)
        BY <1>1, <2>1, <3>2, <4>1, <4>2, <4>4 DEF OnList
      <4>6. ASSUME NEW k \in 1 .. Len(written')
            PROVE  written'[k] = pushed[Len(pushed) + 1 - k]
        <5>1. CASE k = Len(written) + 1
          <6>1. Len(pushed) + 1 - k = OnList
            BY <1>1, <4>4, <5>1
          <6> QED BY <4>2, <4>4, <5>1, <6>1
        <5>2. CASE k # Len(written) + 1
          <6>1. k \in 1 .. Len(written)
            BY <1>1, <4>2, <5>2
          <6> QED BY <3>2, <4>2, <6>1
        <5> QED BY <5>1, <5>2
      <4> QED BY <3>2, <4>1, <4>3, <4>5, <4>6
    <3>6. CASE Unlink
      <4>1. /\ rpc = "unlink" /\ rpc' = "free" /\ logData' = next[cursor]
            /\ written' = written /\ cursor \in Irps /\ cursor = logData
        BY <3>2, <3>6 DEF Unlink, RemoverGoes, TypeInv
      <4>2. OnList \in 1 .. Len(pushed) /\ cursor = pushed[OnList]
        BY <1>1, <3>2, <3>3, <4>1, ScsiLogAssumption
      <4>3. OnList' = OnList - 1
        BY <1>1, <2>1, <4>1 DEF OnList
      <4>4. logData' = IF OnList = 1 THEN Null ELSE pushed[OnList - 1]
        BY <3>2, <4>1, <4>2
      <4> HIDE DEF OnList
      <4> QED BY <1>1, <3>2, <4>1, <4>2, <4>3, <4>4
    <3>7. CASE FreeRecord \/ CloseLock \/ DeleteDevice
      <4>1. /\ UNCHANGED <<written, logData, cursor>> /\ rpc # "unlink"
            /\ rpc' \notin {"write", "unlink"}
            /\ rpc' \in {"counters", "drain", "gone"} => rpc \in {"counters", "drain", "gone"}
        BY <3>7 DEF FreeRecord, CloseLock, DeleteDevice, RemoverGoes, logVars
      <4>2. OnList' = OnList
        BY <2>1, <4>1 DEF OnList
      <4> QED BY <3>2, <4>1, <4>2
    <3> QED BY <1>3, <2>5, <3>4, <3>5, <3>6, <3>7 DEF RemoveStep
  <2> QED BY <2>4, <2>5
<1>4. CASE SwitchStep /\ UNCHANGED before
  <2>1. UNCHANGED <<pushed, next, logData, written, rpc, cursor, fileOpen>>
    BY <1>4 DEF SwitchStep, Enable, EnableAlways, Disable, ClearEnabled, ResetDepth,
         logVars, walkVars
  <2> QED BY <1>4, <2>1 DEF WalkInv, OnList
<1>5. CASE UNCHANGED <<vars, before>>
  <2>1. UNCHANGED <<pushed, next, logData, written, rpc, cursor, fileOpen, before>>
    BY <1>5 DEF vars, logVars, walkVars
  <2> QED BY <2>1 DEF WalkInv, OnList
<1>6. CASE Next /\ before' = IF rpc = "none" /\ rpc' # "none" THEN pushed ELSE before
  <2>1. ASSUME SwitchStep \/ \E i \in Irps : IoStep(i) PROVE rpc' = rpc
    <3>1. CASE SwitchStep
      BY <3>1 DEF SwitchStep, Enable, EnableAlways, Disable, ClearEnabled, ResetDepth,
         walkVars
    <3> QED BY <2>1, <3>1, IoWalkFrame
  <2> QED BY <1>2, <1>3, <1>4, <1>6, <2>1 DEF Next, IoStep, SwitchStep, RemoveStep
<1> QED BY <1>5, <1>6 DEF ReaderNext, allVars

-----------------------------------------------------------------------------
(* The removal beside requests that still log                              *)

Logged == ToSet(pushed)
EarlyOnes == {before[k] : k \in 1 .. Len(before)}

OnceInv == \A j, k \in 1 .. Len(pushed) : pushed[j] = pushed[k] => j = k

EarlyInv ==
  /\ \A j, k \in 1 .. Len(before) : before[j] = before[k] => j = k
  /\ \A k \in 1 .. Len(before) : before[k] \in Logged

\* From where the walk comes to an end, or to an earlier record that it has freed, only
\* through the first m of the earlier records
Leading(m) ==
  {p \in Logged \cup {Null} : /\ p = Null => m = 0
                             /\ \A k \in 1 .. Len(before) : before[k] = p => k >= m}

\* The first m of the earlier records are still to be written: the others are, and are
\* freed.  Every pointer that the walk may still follow leads to them: LogData, the
\* record in the removal's hands, and those that were or are being pushed meanwhile.
Rest(m) ==
  /\ \A k \in 1 .. Len(before) : k > m =>
       /\ before[k] \in freed \/ (rpc = "free" /\ before[k] = cursor)
       /\ fileOpen => before[k] \in ToSet(written)
  /\ \A k \in 1 .. Len(before) : next[before[k]] = IF k = 1 THEN Null ELSE before[k - 1]
  /\ logData \in Leading(m)
  /\ \A i \in Irps \ EarlyOnes :
       pc[i] = "push" \/ i \in Logged => next[i] \in Leading(m)
  /\ rpc \in {"write", "unlink"} => cursor # Null /\ cursor \in Leading(m)
  /\ rpc = "unlink" =>
       /\ \A k \in 1 .. Len(before) : before[k] = cursor => k = m
       /\ fileOpen => cursor \in ToSet(written)
  /\ rpc \in {"counters", "drain", "gone"} => m = 0

RestInv == rpc # "none" => \E m \in 0 .. Len(before) : Rest(m)

\* What is said of the records by their places, said of the records
LEMMA LoggedLemma ==
  ASSUME TypeInv, PushedInv
  PROVE  /\ Len(pushed) \in Nat /\ DOMAIN pushed = 1 .. Len(pushed) /\ Logged \subseteq Irps
         /\ \A k \in 1 .. Len(pushed) : pushed[k] \in Logged
         /\ \A p \in Logged : pc[p] \in {"release", "done"}
         /\ \A p \in Logged : \E k \in 1 .. Len(pushed) : pushed[k] = p
<1>1. Len(pushed) \in Nat /\ DOMAIN pushed = 1 .. Len(pushed)
  BY LenProperties DEF TypeInv
<1>2. \A k \in 1 .. Len(pushed) : pushed[k] \in Irps
  BY ElementOfSeq DEF TypeInv
<1> QED BY <1>1, <1>2 DEF Logged, ToSet, PushedInv

LEMMA OnceStep == TypeInv /\ PushedInv /\ OnceInv /\ [Next]_vars => OnceInv'
<1> SUFFICES ASSUME TypeInv, PushedInv, OnceInv, [Next]_vars PROVE OnceInv'
  OBVIOUS
<1>1. ASSUME NEW i \in Irps, Push(i) PROVE OnceInv'
  <2>1. /\ Len(pushed') = Len(pushed) + 1 /\ pushed'[Len(pushed) + 1] = i
        /\ \A k \in 1 .. Len(pushed) : pushed'[k] = pushed[k]
    BY <1>1, AppendLemma DEF Push, TypeInv
  <2>2. \A k \in 1 .. Len(pushed) : pushed[k] # i
    BY <1>1 DEF Push, Goes, PushedInv
  <2>3. Len(pushed) \in Nat
    BY LoggedLemma
  <2>4. ASSUME NEW k \in 1 .. Len(pushed') PROVE k \in 1 .. Len(pushed) \/ k = Len(pushed) + 1
    BY <2>1, <2>3
  <2> QED BY <2>1, <2>2, <2>4 DEF OnceInv
<1>2. CASE UNCHANGED pushed
  BY <1>2 DEF OnceInv
<1> QED BY <1>1, <1>2, StepsLemma, IoFrame, OtherFrame

LEMMA EarlyStep ==
  TypeInv /\ PushedInv /\ OnceInv /\ EarlyInv /\ [ReaderNext]_allVars => EarlyInv'
<1> SUFFICES ASSUME TypeInv, PushedInv, OnceInv, EarlyInv, [ReaderNext]_allVars
             PROVE  EarlyInv'
  OBVIOUS
<1>1. [Next]_vars /\ (before' = before \/ (rpc = "none" /\ rpc' # "none" /\ before' = pushed))
  BY DEF ReaderNext, allVars
<1>2. Logged \subseteq Logged'
  <2>1. ASSUME NEW i \in Irps, Push(i) PROVE Logged \subseteq Logged'
    BY <2>1, AppendLemma DEF Push, TypeInv, Logged
  <2>2. CASE UNCHANGED pushed
    BY <2>2 DEF Logged
  <2> QED BY <1>1, <2>1, <2>2, StepsLemma, IoFrame, OtherFrame
<1>3. CASE before' = before
  BY <1>2, <1>3 DEF EarlyInv
<1>4. CASE before' = pushed
  BY <1>2, <1>4, LoggedLemma DEF EarlyInv, OnceInv
<1> QED BY <1>1, <1>3, <1>4

\* While a request logs, the same records are to be written, and what it links leads
\* to them as LogData does.
LEMMA RestIo ==
  ASSUME TypeInv, PushedInv, EarlyInv, NEW m \in 0 .. Len(before), Rest(m),
         NEW i \in Irps, IoStep(i), UNCHANGED before
  PROVE  Rest(m)'
<1>1. UNCHANGED <<rpc, cursor, fileOpen, written, freed>>
  BY IoWalkFrame
<1>2. EarlyOnes' = EarlyOnes
  BY DEF EarlyOnes
<1>3. \A p \in EarlyOnes : pc[p] \in {"release", "done"}
  BY LoggedLemma DEF EarlyOnes, EarlyInv
<1>4. ASSUME NEW p, p \in Leading(m), Logged \subseteq Logged' PROVE p \in Leading(m)'
  BY <1>4 DEF Leading
<1>5. CASE Link(i)
  <2>1. /\ pc[i] = "link" /\ next' = [next EXCEPT ![i] = logData]
        /\ UNCHANGED <<logData, pushed>>
    BY <1>5 DEF Link, Goes
  <2>2. \A j \in Irps : next'[j] = IF j = i THEN logData ELSE next[j]
    BY <2>1 DEF TypeInv, LogTypeOK
  <2>3. Logged' = Logged
    BY <2>1 DEF Logged
  <2>4. \A k \in 1 .. Len(before) : before[k] # i /\ before[k] \in Irps
    BY <1>3, <2>1, LoggedLemma DEF EarlyOnes, EarlyInv
  <2>5. \A j \in Irps \ {i} : pc'[j] = pc[j]
    BY IoFrame
  <2>6. ASSUME NEW j \in Irps, j \notin EarlyOnes, pc'[j] = "push" \/ j \in Logged
        PROVE  next'[j] \in Leading(m)'
    <3>1. next'[j] \in Leading(m)
      BY <2>2, <2>5, <2>6 DEF Rest
    <3> QED BY <1>4, <2>3, <3>1
  <2>7. logData' \in Leading(m)' /\ (rpc \in {"write", "unlink"} => cursor \in Leading(m)')
    BY <1>4, <2>1, <2>3 DEF Rest
  <2>8. \A k \in 1 .. Len(before) : next'[before[k]] = next[before[k]]
    BY <2>2, <2>4
  <2> QED BY <1>1, <1>2, <2>3, <2>6, <2>7, <2>8 DEF Rest
<1>6. CASE Push(i)
  <2>1. /\ pc[i] = "push" /\ logData' = i /\ next' = next /\ pc'[i] = "release"
        /\ pushed' = Append(pushed, i)
    BY <1>6 DEF Push, Goes, TypeInv, LogTypeOK
  <2>2. Logged' = Logged \cup {i}
    BY <2>1, AppendLemma DEF Logged, TypeInv
  <2>3. i \notin EarlyOnes
    BY <1>3, <2>1
  <2>4. logData' \in Leading(m)'
    BY <2>1, <2>2, <2>3, ScsiLogAssumption DEF Leading, EarlyOnes
  <2>5. ASSUME NEW j \in Irps, j \notin EarlyOnes, pc'[j] = "push" \/ j \in Logged'
        PROVE  next'[j] \in Leading(m)'
    <3>1. pc[j] = "push" \/ j \in Logged
      BY <2>1, <2>2, <2>5, IoFrame
    <3>2. next[j] \in Leading(m)
      BY <2>5, <3>1 DEF Rest
    <3> QED BY <1>4, <2>1, <2>2, <3>2
  <2>6. rpc \in {"write", "unlink"} => cursor \in Leading(m)'
    BY <1>4, <2>2 DEF Rest
  <2> QED BY <1>1, <1>2, <2>1, <2>4, <2>5, <2>6 DEF Rest
<1>7. CASE ~Link(i) /\ ~Push(i)
  <2>1. /\ UNCHANGED <<logData, pushed, next>>
        /\ \A j \in Irps : pc'[j] = "push" => pc[j] = "push"
    BY <1>7, IoFrame
  <2>2. Logged' = Logged
    BY <2>1 DEF Logged
  <2>3. ASSUME NEW j \in Irps, j \notin EarlyOnes, pc'[j] = "push" \/ j \in Logged
        PROVE  next[j] \in Leading(m)'
    BY <1>4, <2>1, <2>2, <2>3 DEF Rest
  <2>4. logData \in Leading(m)' /\ (rpc \in {"write", "unlink"} => cursor \in Leading(m)')
    BY <1>4, <2>2 DEF Rest
  <2> QED BY <1>1, <1>2, <2>1, <2>2, <2>3, <2>4 DEF Rest
<1> QED BY <1>5, <1>6, <1>7

\* When the removal begins, every record is to be written.
LEMMA RestBegins ==
  ASSUME TypeInv, PushedInv, ChainInv, OnceInv, OpenFile, before' = pushed
  PROVE  RestInv'
<1> SUFFICES ASSUME NEW n, n = Len(pushed) PROVE RestInv'
  OBVIOUS
<1>1. /\ rpc = "none" /\ rpc' = "head" /\ UNCHANGED <<pc, logData, next, pushed>>
  BY DEF OpenFile, RemoverGoes, ioVars, logVars
<1>2. n \in Nat /\ LogIsComplete /\ \A i \in Irps : pc[i] = "push" => next[i] = logData
  BY <1>1, LoggedLemma DEF ChainInv
<1>3. Logged' = Logged /\ EarlyOnes' = Logged
  BY <1>1, LoggedLemma DEF Logged, EarlyOnes
<1>4. pushed = <<>> <=> n = 0
  BY EmptySeq DEF TypeInv
<1>5. logData = IF n = 0 THEN Null ELSE pushed[n]
  BY <1>1, <1>2, <1>4 DEF LogIsComplete, Last
<1>6. n # 0 => n \in 1 .. n /\ pushed[n] \in Logged /\ pushed[n] # Null
  BY <1>2, LoggedLemma, ScsiLogAssumption
<1>7. logData \in Leading(n)'
  <2>1. ASSUME NEW k \in 1 .. n, pushed[k] = logData PROVE k = n
    BY <1>2, <1>5, <1>6, <2>1 DEF OnceInv
  <2> QED BY <1>1, <1>2, <1>3, <1>5, <1>6, <2>1 DEF Leading
<1>8. ASSUME NEW i \in Irps, i \notin EarlyOnes', pc'[i] = "push" \/ i \in Logged'
      PROVE  next[i] \in Leading(n)'
  BY <1>1, <1>2, <1>3, <1>7, <1>8
<1>9. n \in 0 .. Len(before') /\ \A k \in 1 .. Len(before') : ~(k > n)
  BY <1>2
<1>10. \A k \in 1 .. n : next[pushed[k]] = IF k = 1 THEN Null ELSE pushed[k - 1]
  BY <1>1, <1>2 DEF LogIsComplete
<1>11. Rest(n)'
  BY <1>1, <1>7, <1>8, <1>9, <1>10 DEF Rest
<1> QED BY <1>9, <1>11 DEF RestInv

\* A record that is written and was there before is the first one still to be written,
\* and the one after it is the next; all others lead to it without ending.
LEMMA RestRemove ==
  ASSUME TypeInv, PushedInv, EarlyInv, before \in Seq(Irps), RestInv, rpc # "none",
         RemoveStep, UNCHANGED before
  PROVE  RestInv'
<1>1. PICK m \in 0 .. Len(before) : Rest(m)
  BY DEF RestInv
<1>2. UNCHANGED <<pc, pushed, next>> /\ Len(before) \in Nat
  BY OtherFrame, LenProperties
<1>3. Logged' = Logged /\ EarlyOnes' = EarlyOnes /\ \A l : Leading(l)' = Leading(l)
  BY <1>2 DEF Logged, EarlyOnes, Leading
<1>4. CASE ReadHead
  <2>1. /\ UNCHANGED <<fileOpen, written, freed, logData>> /\ rpc = "head" /\ cursor' = logData
        /\ rpc' = IF logData = Null THEN "counters" ELSE "write"
    BY <1>4 DEF ReadHead, RemoverGoes, AtEnd, logVars
  <2>2. logData \in Leading(m)
    BY <1>1 DEF Rest
  <2>3. logData = Null => m = 0
    BY <2>2 DEF Leading
  <2>4. Rest(m)'
    BY <1>1, <1>2, <1>3, <2>1, <2>2, <2>3 DEF Rest
  <2> QED BY <2>4 DEF RestInv
<1>5. CASE WriteRecord
  <2>1. /\ rpc = "write" /\ rpc' = "unlink" /\ UNCHANGED <<cursor, freed, logData>>
        /\ cursor \notin freed /\ cursor \in Irps
        /\ fileOpen' => fileOpen /\ written' = Append(written, cursor)
    BY <1>5 DEF WriteRecord, RecordToWrite, RemoverGoes, logVars, TypeInv
  <2>2. fileOpen' => fileOpen /\ ToSet(written') = ToSet(written) \cup {cursor}
    <3>1. ToSet(Append(written, cursor)) = ToSet(written) \cup {cursor}
      BY <2>1, AppendLemma DEF TypeInv
    <3> QED BY <2>1, <3>1
  <2>3. ASSUME NEW k \in 1 .. Len(before), before[k] = cursor PROVE k = m
    <3>1. k >= m /\ ~(k > m)
      BY <1>1, <2>1, <2>3 DEF Rest, Leading
    <3> QED BY <1>2, <3>1
  <2>4. ASSUME NEW k \in 1 .. Len(before), k > m
        PROVE  before[k] \in freed /\ (fileOpen' => before[k] \in ToSet(written'))
    BY <1>1, <2>1, <2>2, <2>4 DEF Rest
  <2>5. Rest(m)'
    BY <1>1, <1>2, <1>3, <2>1, <2>2, <2>3, <2>4 DEF Rest
  <2> QED BY <2>5 DEF RestInv
<1>6. CASE Unlink
  <2>1. /\ rpc = "unlink" /\ rpc' = "free" /\ logData' = next[cursor] /\ cursor \in Irps
        /\ UNCHANGED <<cursor, fileOpen, written, freed>>
    BY <1>6 DEF Unlink, RemoverGoes, TypeInv
  <2>2. /\ cursor \in Leading(m) /\ cursor \in Logged
        /\ \A k \in 1 .. Len(before) : before[k] = cursor => k = m
        /\ fileOpen => cursor \in ToSet(written)
    BY <1>1, <2>1, ScsiLogAssumption DEF Rest, Leading
  <2>3. \A k \in 1 .. Len(before) : k > m =>
          before[k] \in freed /\ (fileOpen => before[k] \in ToSet(written))
    BY <1>1, <2>1 DEF Rest
  <2>4. CASE cursor \notin EarlyOnes
    <3>1. next[cursor] \in Leading(m)
      BY <1>1, <2>1, <2>2, <2>4 DEF Rest
    <3>2. Rest(m)'
      BY <1>1, <1>2, <1>3, <2>1, <2>3, <3>1 DEF Rest
    <3> QED BY <3>2 DEF RestInv
  <2>5. CASE cursor \in EarlyOnes
    <3>1. m \in 1 .. Len(before) /\ before[m] = cursor /\ m - 1 \in 0 .. Len(before)
      BY <1>2, <2>2, <2>5 DEF EarlyOnes
    <3>2. ASSUME NEW p, p \in Leading(m) PROVE p \in Leading(m - 1)
      <4>1. p # Null /\ p \in Logged
        BY <3>1, <3>2 DEF Leading
      <4>2. \A k \in 1 .. Len(before) : k >= m => k >= m - 1
        BY <3>1
      <4> QED BY <3>2, <4>1, <4>2 DEF Leading
    <3>3. next[cursor] \in Leading(m - 1)
      <4>1. next[cursor] = IF m = 1 THEN Null ELSE before[m - 1]
        BY <1>1, <3>1 DEF Rest
      <4>2. CASE m = 1
        <5>1. \A k \in 1 .. Len(before) : k >= m - 1
          BY <4>2
        <5> QED BY <4>1, <4>2, <5>1 DEF Leading
      <4>3. CASE m # 1
        <5>1. m - 1 \in 1 .. Len(before) /\ m - 1 >= m - 1
          BY <3>1, <4>3
        <5>2. before[m - 1] \in Logged /\ before[m - 1] # Null
          BY <5>1, LoggedLemma, ScsiLogAssumption DEF EarlyInv
        <5>3. \A k \in 1 .. Len(before) : before[k] = before[m - 1] => k = m - 1
          BY <5>1 DEF EarlyInv
        <5> QED BY <4>1, <4>3, <5>1, <5>2, <5>3 DEF Leading
      <4> QED BY <4>2, <4>3
    <3>4. ASSUME NEW k \in 1 .. Len(before), k > m - 1
          PROVE  /\ before[k] \in freed \/ before[k] = cursor
                 /\ fileOpen => before[k] \in ToSet(written)
      <4>1. k = m \/ k > m
        BY <3>1, <3>4
      <4> QED BY <2>2, <2>3, <3>1, <4>1
    <3>5. ASSUME NEW i \in Irps, i \notin EarlyOnes, pc[i] = "push" \/ i \in Logged
          PROVE  next[i] \in Leading(m - 1)
      BY <1>1, <3>2, <3>5 DEF Rest
    <3>6. Rest(m - 1)'
      BY <1>1, <1>2, <1>3, <2>1, <3>3, <3>4, <3>5 DEF Rest
    <3> QED BY <3>1, <3>6 DEF RestInv
  <2> QED BY <2>4, <2>5
<1>7. CASE FreeRecord
  <2>1. /\ rpc = "free" /\ rpc' = "head" /\ freed' = freed \cup {cursor}
        /\ UNCHANGED <<cursor, fileOpen, written, logData>>
    BY <1>7 DEF FreeRecord, RemoverGoes, logVars
  <2>2. Rest(m)'
    BY <1>1, <1>2, <1>3, <2>1 DEF Rest
  <2> QED BY <2>2 DEF RestInv
<1>8. CASE CloseLock \/ DeleteDevice
  <2>1. /\ rpc \in {"counters", "drain"} /\ rpc' \in {"drain", "gone"}
        /\ UNCHANGED <<cursor, fileOpen, written, freed, logData>>
    BY <1>8 DEF CloseLock, DeleteDevice, RemoverGoes, logVars
  <2>2. Rest(m)'
    BY <1>1, <1>2, <1>3, <2>1 DEF Rest
  <2> QED BY <2>2 DEF RestInv
<1>9. ~OpenFile
  BY DEF OpenFile, RemoverGoes
<1> QED BY <1>4, <1>5, <1>6, <1>7, <1>8, <1>9 DEF RemoveStep

LEMMA RestStep ==
  TypeInv /\ PushedInv /\ ChainInv /\ WalkInv /\ OnceInv /\ EarlyInv /\ RestInv
    /\ [ReaderNext]_allVars => RestInv'
<1> SUFFICES ASSUME TypeInv, PushedInv, ChainInv, WalkInv, OnceInv, EarlyInv, RestInv,
                    [ReaderNext]_allVars
             PROVE  RestInv'
  OBVIOUS
<1>1. before \in Seq(Irps)
  BY DEF WalkInv
<1>2. ASSUME NEW i \in Irps, IoStep(i), UNCHANGED before PROVE RestInv'
  <2>1. rpc' = rpc
    BY <1>2, IoFrame
  <2> QED BY <1>2, <2>1, RestIo DEF RestInv
<1>3. ASSUME SwitchStep \/ UNCHANGED vars, UNCHANGED before PROVE RestInv'
  <2>1. UNCHANGED <<pc, pushed, next, logData, written, rpc, cursor, fileOpen, freed>>
    BY <1>3 DEF vars, SwitchStep, Enable, EnableAlways, Disable, ClearEnabled, ResetDepth,
         ioVars, logVars, walkVars
  <2> QED BY <1>3, <2>1 DEF RestInv, Rest, Leading, EarlyOnes, Logged
<1>4. ASSUME RemoveStep, before' = IF rpc = "none" /\ rpc' # "none" THEN pushed ELSE before
      PROVE  RestInv'
  <2>1. CASE rpc = "none"
    <3>1. OpenFile /\ rpc' # "none"
      BY <1>4, <2>1 DEF RemoveStep, OpenFile, ReadHead, WriteRecord, Unlink, FreeRecord,
           CloseLock, DeleteDevice, RemoverGoes
    <3> QED BY <1>4, <2>1, <3>1, RestBegins
  <2>2. CASE rpc # "none"
    BY <1>1, <1>4, <2>2, RestRemove
  <2> QED BY <2>1, <2>2
<1>5. CASE Next /\ before' = IF rpc = "none" /\ rpc' # "none" THEN pushed ELSE before
  <2>1. ASSUME SwitchStep \/ \E i \in Irps : IoStep(i) PROVE rpc' = rpc
    <3>1. CASE SwitchStep
      BY <3>1 DEF SwitchStep, Enable, EnableAlways, Disable, ClearEnabled, ResetDepth,
         walkVars
    <3> QED BY <2>1, <3>1, IoWalkFrame
  <2> QED BY <1>2, <1>3, <1>4, <1>5, <2>1 DEF Next, IoStep, SwitchStep, RemoveStep
<1> QED BY <1>3, <1>5 DEF ReaderNext, allVars

\* Completion routines push while the removal walks the list without LogLock, and its
\* assignment to LogData may undo a push or cut off what was pushed.  But whatever it
\* still can read leads to the records that were there before, the latest first, and it
\* writes the record in its hands, not the head of that moment: a walk that ends has
\* written each of them.  scsichk.c 937-955, 1680-1681
THEOREM EarlierRecordsAreWritten == ReaderSpec => []EarlierRecordsWritten
<1>1. ReaderInit => Init /\ WalkInv /\ OnceInv /\ EarlyInv /\ RestInv
  BY EmptySeq DEF ReaderInit, Init, WalkInv, OnceInv, EarlyInv, RestInv
<1>2. [ReaderNext]_allVars => [Next]_vars
  BY DEF ReaderNext, allVars
<1>3. ReaderSpec => ReaderInit /\ [][ReaderNext]_allVars
  BY DEF ReaderSpec, allVars
<1>4. WalkInv /\ RestInv => EarlierRecordsWritten
  <2> SUFFICES ASSUME WalkInv, RestInv, rpc = "gone", fileOpen
               PROVE  ToSet(before) \subseteq ToSet(written)
    BY DEF EarlierRecordsWritten
  <2>1. Rest(0)
    BY DEF RestInv, Rest
  <2>2. DOMAIN before = 1 .. Len(before) /\ Len(before) \in Nat
    BY LenProperties DEF WalkInv
  <2>3. \A k \in 1 .. Len(before) : k > 0
    BY <2>2
  <2>4. \A k \in DOMAIN before : before[k] \in ToSet(written)
    BY <2>1, <2>2, <2>3 DEF Rest
  <2>5. \A p \in ToSet(before) : \E k \in DOMAIN before : before[k] = p
    BY DEF ToSet
  <2> QED BY <2>4, <2>5
<1> QED BY <1>1, <1>2, <1>3, <1>4, TypeInit, LogInit, TypeStep, LockStep, PushedStep,
           ChainStep, WalkStep, OnceStep, EarlyStep, RestStep, PTL

-----------------------------------------------------------------------------
(* The reader                                                              *)

\* The walk of ShowFileInfo is at the end of the last record that it printed, or in
\* the zeros behind the last one of the file.
ShownInv ==
  /\ reading = "no" => at = 0 /\ shown = <<>>
  /\ reading # "no" =>
       /\ reading \in {"loop", "done"} /\ rpc = "gone"
       /\ lengths \in Seq(DataLengths) /\ Len(lengths) = Len(written) /\ written # <<>>
       /\ capacity \in Nat /\ EndOf(Len(written)) <= capacity
       /\ at \in Nat /\ shown \in Seq(Irps \cup {Blank})
       /\ \A k \in 1 .. Len(shown) :
            shown[k] = IF k <= Len(written) THEN written[k] ELSE Blank
       /\ Len(shown) < Len(written) => at = EndOf(Len(shown))
       /\ Len(shown) >= Len(written) => at >= EndOf(Len(written))
       /\ reading = "done" => capacity < at + RecordSize

\* A view is no smaller than the file.
LEMMA RoundedUpLemma ==
  ASSUME NEW n \in Nat, NEW page \in Nat \ {0}
  PROVE  RoundedUp(n, page) \in Nat /\ n <= RoundedUp(n, page)
<1> DEFINE q == (n + page - 1) \div page
<1>1. n + page - 1 \in Nat
  OBVIOUS
<1>2. q \in Nat /\ n + page - 1 < page * q + page
  BY <1>1
<1> HIDE DEF q
<1>3. page * q \in Nat /\ q * page = page * q
  BY <1>2
<1> QED BY <1>2, <1>3 DEF RoundedUp, q

LEMMA ShownStep == TypeInv /\ ShownInv /\ [ReaderNext]_allVars => ShownInv'
<1> SUFFICES ASSUME TypeInv, ShownInv, [ReaderNext]_allVars PROVE ShownInv'
  OBVIOUS
<1> DEFINE n == Len(written)
<1>1. n \in Nat /\ \A k \in 1 .. n : written[k] \in Irps
  BY ElementOfSeq, LenProperties DEF TypeInv
<1>2. DOMAIN written = 1 .. n
  BY LenProperties DEF TypeInv
<1> HIDE DEF n
<1>3. CASE Next /\ UNCHANGED readerVars
  <2>1. UNCHANGED <<reading, lengths, capacity, at, shown>>
    BY <1>3 DEF readerVars
  <2>2. rpc = "gone" => rpc' = "gone" /\ written' = written
    <3> SUFFICES ASSUME rpc = "gone" PROVE rpc' = "gone" /\ written' = written
      OBVIOUS
    <3>1. ASSUME NEW i \in Irps, IoStep(i) PROVE UNCHANGED <<rpc, written>>
      BY <3>1, IoWalkFrame
    <3>2. CASE SwitchStep
      BY <3>2 DEF SwitchStep, Enable, EnableAlways, Disable, ClearEnabled, ResetDepth,
         walkVars
    <3>3. ~RemoveStep
      BY DEF RemoveStep, OpenFile, ReadHead, WriteRecord, Unlink, FreeRecord, CloseLock,
         DeleteDevice, RemoverGoes
    <3> QED BY <1>3, <3>1, <3>2, <3>3 DEF Next, IoStep, SwitchStep, RemoveStep
  <2>3. CASE reading = "no"
    BY <2>1, <2>3 DEF ShownInv
  <2>4. CASE reading # "no"
    <3>1. rpc' = "gone" /\ written' = written
      BY <2>2, <2>4 DEF ShownInv
    <3> QED BY <2>1, <2>4, <3>1 DEF ShownInv, EndOf
  <2> QED BY <2>3, <2>4
<1>4. CASE MapFile /\ UNCHANGED vars
  <2>1. /\ rpc = "gone" /\ reading = "no" /\ written # <<>> /\ reading' = "loop"
        /\ UNCHANGED <<at, shown, written, rpc>>
    BY <1>4 DEF MapFile, vars, walkVars
  <2>2. PICK data \in [1 .. n -> DataLengths], page \in Pages :
          lengths' = data /\ capacity' = RoundedUp(EndsOf(data)[n], page)
    BY <1>4 DEF MapFile, n
  <2>3. data \in Seq(DataLengths) /\ Len(data) = n
    BY <1>1, <2>2
  <2>4. EndsOf(data)[n] \in Nat /\ EndsOf(data)[0] = 0
    BY <1>1, <2>3, EndsGrow, EndsLemma
  <2>5. capacity' \in Nat /\ EndsOf(data)[n] <= capacity'
    BY <2>2, <2>4, RoundedUpLemma, LayoutAssumption
  <2>6. at = 0 /\ shown = <<>> /\ Len(shown) = 0 /\ shown \in Seq(Irps \cup {Blank})
    BY <2>1, EmptySeq DEF ShownInv
  <2>7. n # 0
    BY <2>1, EmptySeq DEF n, TypeInv
  <2> QED BY <1>1, <2>1, <2>2, <2>3, <2>4, <2>5, <2>6, <2>7 DEF ShownInv, EndOf, n
<1>5. CASE (ShowRecord \/ EndLoop) /\ UNCHANGED vars
  <2>1. reading = "loop" /\ UNCHANGED <<lengths, capacity, written, rpc>>
    BY <1>5 DEF ShowRecord, EndLoop, vars, walkVars
  <2>2. /\ lengths \in Seq(DataLengths) /\ Len(lengths) = n /\ at \in Nat
        /\ capacity \in Nat /\ shown \in Seq(Irps \cup {Blank}) /\ Len(shown) \in Nat
        /\ \A k \in 1 .. Len(shown) : shown[k] = IF k <= n THEN written[k] ELSE Blank
        /\ Len(shown) < n => at = EndOf(Len(shown))
        /\ Len(shown) >= n => at >= EndOf(n)
    BY <2>1, LenProperties DEF ShownInv, n
  <2>3. DataOffset \in Nat /\ RecordSize \in Nat /\ DataOffset > 0
    BY LayoutAssumption
  <2>4. /\ \A k \in 0 .. n : EndOf(k) \in Nat
        /\ \A k \in 0 .. n : \A j \in 0 .. k - 1 : EndOf(j) + DataOffset <= EndOf(k)
        /\ \A k \in 1 .. n : /\ EndOf(k) = EndOf(k - 1) + (DataOffset + lengths[k])
                             /\ lengths[k] \in Nat
    <3>1. \A k \in 1 .. n : lengths[k] \in Nat
      BY <2>2, ElementOfSeq, LayoutAssumption
    <3> QED BY <2>2, <3>1, EndsGrow, EndsLemma DEF EndOf, WrittenBytes
  <2>5. \A k \in 0 .. n : EndOf(k)' = EndOf(k)
    BY <2>1 DEF EndOf
  <2> HIDE DEF EndOf
  <2>6. ASSUME NEW r \in Irps \cup {Blank}, shown' = Append(shown, r)
        PROVE  /\ shown' \in Seq(Irps \cup {Blank}) /\ Len(shown') = Len(shown) + 1
               /\ r = (IF Len(shown) < n THEN written[Len(shown) + 1] ELSE Blank) =>
                    \A k \in 1 .. Len(shown') :
                      shown'[k] = IF k <= n THEN written[k] ELSE Blank
    <3>1. /\ shown' \in Seq(Irps \cup {Blank}) /\ Len(shown') = Len(shown) + 1
          /\ shown'[Len(shown) + 1] = r
          /\ \A k \in 1 .. Len(shown) : shown'[k] = shown[k]
      BY <2>2, <2>6, AppendLemma
    <3>2. ASSUME NEW k \in 1 .. Len(shown'), k # Len(shown) + 1 PROVE k \in 1 .. Len(shown)
      BY <2>2, <3>1, <3>2
    <3> QED BY <1>1, <2>2, <3>1, <3>2
  <2>7. ASSUME NEW k \in 1 .. n, at = EndOf(k - 1), shown' = Append(shown, written[k]),
               Advance(lengths[k]), reading' = reading
        PROVE  ShownInv'
    <3>1. k - 1 = Len(shown)
      <4>1. Len(shown) < n
        <5>1. EndOf(k - 1) + DataOffset <= EndOf(n)
          BY <1>1, <2>4
        <5>2. EndOf(k - 1) \in Nat /\ EndOf(n) \in Nat
          BY <1>1, <2>4
        <5> QED BY <1>1, <2>2, <2>3, <2>7, <5>1, <5>2
      <4>2. EndOf(k - 1) = EndOf(Len(shown))
        BY <2>2, <2>7, <4>1
      <4>3. ASSUME NEW i \in 0 .. n, NEW j \in 0 .. n, i < j PROVE EndOf(i) # EndOf(j)
        <5>1. EndOf(i) + DataOffset <= EndOf(j) /\ EndOf(i) \in Nat /\ EndOf(j) \in Nat
          BY <2>4, <4>3
        <5> QED BY <2>3, <5>1
      <4>4. k - 1 \in 0 .. n /\ Len(shown) \in 0 .. n
        BY <1>1, <2>2, <4>1
      <4>5. k - 1 < Len(shown) \/ Len(shown) < k - 1 \/ k - 1 = Len(shown)
        BY <2>2, <4>4
      <4> QED BY <4>2, <4>3, <4>4, <4>5
    <3>2. /\ shown' \in Seq(Irps \cup {Blank}) /\ Len(shown') = k
          /\ \A j \in 1 .. Len(shown') : shown'[j] = IF j <= n THEN written[j] ELSE Blank
      <4>1. written[k] \in Irps /\ Len(shown) + 1 = k /\ Len(shown) < n
        BY <1>1, <2>2, <3>1
      <4> QED BY <2>6, <2>7, <4>1
    <3>3. at' = EndOf(k) /\ at' \in Nat
      <4>1. EndOf(k) = EndOf(k - 1) + (DataOffset + lengths[k]) /\ lengths[k] \in Nat
        BY <2>4
      <4> QED BY <2>2, <2>3, <2>7, <4>1 DEF Advance
    <3>4. k < n \/ k = n
      BY <1>1
    <3> QED BY <1>1, <2>1, <2>2, <2>5, <2>7, <3>2, <3>3, <3>4 DEF ShownInv, n
  <2>8. ASSUME at >= EndOf(n), shown' = Append(shown, Blank), Advance(0), reading' = reading
        PROVE  ShownInv'
    <3>1. Len(shown) >= n
      <4> SUFFICES ASSUME Len(shown) < n PROVE FALSE
        BY <1>1, <2>2
      <4>1. Len(shown) \in 0 .. n - 1 /\ n \in 0 .. n
        BY <1>1, <2>2
      <4>2. EndOf(Len(shown)) + DataOffset <= EndOf(n) /\ EndOf(n) \in Nat
        BY <2>4, <4>1
      <4> QED BY <2>2, <2>3, <2>8, <4>2
    <3>2. /\ shown' \in Seq(Irps \cup {Blank}) /\ Len(shown') = Len(shown) + 1
          /\ \A j \in 1 .. Len(shown') : shown'[j] = IF j <= n THEN written[j] ELSE Blank
      BY <1>1, <2>2, <2>6, <2>8, <3>1
    <3>3. at' \in Nat /\ at' >= EndOf(n)
      <4>1. EndOf(n) \in Nat
        BY <1>1, <2>4
      <4> QED BY <2>2, <2>3, <2>8, <4>1 DEF Advance
    <3>4. ~(Len(shown') < n)
      BY <1>1, <2>2, <3>1, <3>2
    <3>5. n \in 0 .. n
      BY <1>1
    <3> QED BY <1>1, <2>1, <2>2, <2>5, <2>8, <3>2, <3>3, <3>4, <3>5 DEF ShownInv, n
  <2>9. ASSUME at < EndOf(n), \A k \in 1 .. n : at # EndOf(k - 1) PROVE FALSE
    <3>1. Len(shown) < n
      <4>1. EndOf(n) \in Nat
        BY <1>1, <2>4
      <4> QED BY <1>1, <2>2, <2>9, <4>1
    <3>2. Len(shown) + 1 \in 1 .. n /\ (Len(shown) + 1) - 1 = Len(shown)
      BY <1>1, <2>2, <3>1
    <3> QED BY <2>2, <2>9, <3>1, <3>2
  <2>10. CASE ShowRecord
    <3>1. \/ \E k \in 1 .. n :
               /\ at = EndOf(k - 1)
               /\ shown' = Append(shown, written[k]) /\ Advance(lengths[k])
               /\ reading' = reading
          \/ /\ at >= EndOf(n)
             /\ shown' = Append(shown, Blank) /\ Advance(0)
             /\ reading' = reading
          \/ at < EndOf(n) /\ \A k \in 1 .. n : at # EndOf(k - 1)
      BY <1>2, <2>10 DEF ShowRecord, n
    <3> QED BY <2>7, <2>8, <2>9, <3>1
  <2>11. CASE EndLoop
    <3>1. reading' = "done" /\ UNCHANGED <<at, shown>> /\ ~InView
      BY <2>11 DEF EndLoop
    <3>2. capacity < at + RecordSize
      BY <2>2, <2>3, <3>1 DEF InView
    <3> QED BY <2>1, <2>2, <3>1, <3>2 DEF ShownInv, EndOf
  <2> QED BY <1>5, <2>10, <2>11
<1>6. CASE UNCHANGED allVars
  BY <1>6 DEF allVars, vars, walkVars, readerVars, ShownInv, EndOf
<1> QED BY <1>3, <1>4, <1>5, <1>6 DEF ReaderNext, allVars

\* Short of the last record there is no room in the view for a structure only if that
\* record has less data than the structure has behind its header.
LEMMA ReaderLemma == TypeInv /\ WalkInv /\ ShownInv => ReaderShowsLog
<1> SUFFICES ASSUME TypeInv, WalkInv, ShownInv PROVE ReaderShowsLog
  OBVIOUS
<1> DEFINE n == Len(written)
<1>1. n \in Nat /\ Len(pushed) \in Nat
  BY LenProperties DEF TypeInv
<1>2. reading # "lost"
  BY DEF ShownInv
<1>3. ASSUME rpc = "gone", fileOpen, before = pushed PROVE written = Reverse(pushed)
  <2>1. n = Len(pushed) /\ \A k \in 1 .. n : written[k] = pushed[Len(pushed) + 1 - k]
    BY <1>1, <1>3 DEF WalkInv, OnList
  <2>2. \A k \in 1 .. n : Len(pushed) + 1 - k = Len(pushed) - k + 1
    BY <1>1
  <2>3. written = [k \in 1 .. n |-> written[k]]
    BY LenProperties DEF TypeInv
  <2> HIDE DEF n
  <2>4. Reverse(pushed) = [k \in 1 .. n |-> pushed[Len(pushed) - k + 1]]
    BY <2>1 DEF Reverse
  <2>5. \A k \in 1 .. n : written[k] = pushed[Len(pushed) - k + 1]
    BY <2>1, <2>2
  <2> QED BY <2>3, <2>4, <2>5
<1>4. ASSUME reading = "done"
      PROVE  \E m \in {n, n - 1} :
               /\ m <= Len(shown)
               /\ \A k \in DOMAIN shown : shown[k] = IF k <= m THEN written[k] ELSE Blank
               /\ m # n => m = Len(shown) /\ Last(lengths) < RecordSize - DataOffset
  <2>1. /\ lengths \in Seq(DataLengths) /\ Len(lengths) = n /\ n # 0
        /\ capacity \in Nat /\ EndOf(n) <= capacity
        /\ shown \in Seq(Irps \cup {Blank}) /\ Len(shown) \in Nat
        /\ \A k \in 1 .. Len(shown) : shown[k] = IF k <= n THEN written[k] ELSE Blank
        /\ Len(shown) < n => at = EndOf(Len(shown))
        /\ capacity < at + RecordSize
    BY <1>4, LenProperties, EmptySeq DEF ShownInv, TypeInv
  <2>2. DOMAIN shown = 1 .. Len(shown)
    BY <2>1, LenProperties
  <2> HIDE DEF n
  <2>3. CASE n <= Len(shown)
    BY <2>1, <2>2, <2>3
  <2>4. CASE Len(shown) < n
    <3> DEFINE j == Len(shown)
    <3>1. /\ \A k \in 0 .. n : EndOf(k) \in Nat
          /\ \A k \in 0 .. n : \A i \in 0 .. k - 1 : EndOf(i) + DataOffset <= EndOf(k)
          /\ \A k \in 1 .. n : /\ EndOf(k) = EndOf(k - 1) + (DataOffset + lengths[k])
                               /\ lengths[k] \in Nat
      <4>1. \A k \in 1 .. n : lengths[k] \in Nat
        BY <2>1, ElementOfSeq, LayoutAssumption
      <4> QED BY <2>1, <4>1, EndsGrow, EndsLemma DEF EndOf, WrittenBytes
    <3>2. /\ DataOffset \in Nat /\ RecordSize \in Nat /\ RecordSize <= 2 * DataOffset
          /\ DataOffset < RecordSize
      BY LayoutAssumption
    <3>3. j \in 0 .. n - 1 /\ n \in 1 .. n /\ n \in 0 .. n /\ n - 1 \in 0 .. n
      BY <1>1, <2>1, <2>4
    <3>4. /\ EndOf(j) \in Nat /\ EndOf(n - 1) \in Nat /\ EndOf(n) \in Nat
          /\ EndOf(n) < EndOf(j) + RecordSize
      <4>1. EndOf(j) \in Nat /\ EndOf(n - 1) \in Nat /\ EndOf(n) \in Nat
        BY <3>1, <3>3
      <4> QED BY <2>1, <2>4, <3>2, <4>1
    <3>5. j = n - 1
      <4> SUFFICES ASSUME j # n - 1 PROVE FALSE
        OBVIOUS
      <4>1. j \in 0 .. (n - 1) - 1 /\ n - 1 \in 0 .. n - 1
        BY <1>1, <3>3
      <4>2. EndOf(j) + DataOffset <= EndOf(n - 1) /\ EndOf(n - 1) + DataOffset <= EndOf(n)
        BY <3>1, <3>3, <4>1
      <4> QED BY <3>2, <3>4, <4>2
    <3>6. lengths[n] < RecordSize - DataOffset
      <4>1. EndOf(n) = EndOf(n - 1) + (DataOffset + lengths[n]) /\ lengths[n] \in Nat
        BY <3>1, <3>3
      <4> QED BY <3>2, <3>4, <3>5, <4>1
    <3>7. Last(lengths) = lengths[n]
      BY <2>1 DEF Last
    <3>8. \A k \in 1 .. Len(shown) : k <= n - 1 /\ k <= n
      BY <1>1, <2>1, <3>5
    <3> QED BY <1>1, <2>1, <2>2, <3>5, <3>6, <3>7, <3>8
  <2> QED BY <1>1, <2>1, <2>3, <2>4
<1> QED BY <1>2, <1>3, <1>4 DEF ReaderShowsLog

\* From the completion routine to the printed line: the removal of a device writes the
\* records that were logged before it, the latest first, and ShowFileInfo, which has
\* only the layout of LOGDATA to go by, stays in step with that file.  It prints every
\* record, but perhaps a last one that ends short of a structure; this needs the
\* header to be longer than what a structure has behind it.
\* scsichk.c 937-955, scsilog.cpp 55-60
THEOREM ReaderShowsTheLog == ReaderSpec => []ReaderShowsLog
<1>1. ReaderInit => Init /\ WalkInv /\ ShownInv
  BY EmptySeq DEF ReaderInit, Init, WalkInv, ShownInv
<1>2. [ReaderNext]_allVars => [Next]_vars
  BY DEF ReaderNext, allVars
<1>3. ReaderSpec => ReaderInit /\ [][ReaderNext]_allVars
  BY DEF ReaderSpec, allVars
<1> QED BY <1>1, <1>2, <1>3, TypeInit, LogInit, TypeStep, LockStep, PushedStep, ChainStep,
           WalkStep, ShownStep, ReaderLemma, PTL

=============================================================================
