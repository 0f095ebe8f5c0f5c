--------------------------- MODULE ReadPathProofs ---------------------------
(* A read that succeeds is complete and fresh, and a split read is counted *)
(* and keeps its device.                                                   *)
(*                                                                         *)
(* A read changes nothing of the queue but the remove lock, so everything  *)
(* that is proved about the queue holds beside any number of reads.        *)
EXTENDS ReadPath, DurabilityProofs

\* What the proofs about the queue established, but for the remove lock
QueueInv == /\ QueueTypeOK /\ ListInv /\ RangeInv /\ DiskInv /\ CommitInv /\ RefusedInv
            /\ CompletedOnce

ReadStates ==
  [pc : ReadPcs, range : SUBSET Int, buf : [Sectors -> Irps \cup {None, Unfilled}],
   todo : SUBSET Sectors, flying : SUBSET SUBSET Sectors, landed : SUBSET SUBSET Sectors,
   count : Nat, bytes : Nat, fail : {"SUCCESS", "INSUFFICIENT_RESOURCES", "IO_ERROR"},
   status : Statuses, info : Nat, completions : Nat]

\* The runs of a read are apart from each other and from what is still to be
\* requested, and the references are those of the runs and of the thread.
ScatterOK(d) ==
  /\ IsFiniteSet(d.flying) /\ IsFiniteSet(d.landed) /\ d.flying \cap d.landed = {}
  /\ \A run \in d.flying \cup d.landed : run # {} /\ run \cap d.todo = {}
  /\ d.count = Cardinality(d.flying) + Cardinality(d.landed)
                 + (IF d.pc \in {"split", "drop"} THEN 1 ELSE 0)
  /\ d.completions = (IF d.pc = "returned" THEN 1 ELSE 0)
  /\ d.pc \in {"idle", "overlay", "passed", "create", "returned"} =>
       d.flying = {} /\ d.landed = {}
  /\ d.pc \in {"create", "split"} => d.todo # {}
  /\ d.pc \notin {"idle", "returned"} => d.range \subseteq Sectors

ReadInv ==
  /\ rd \in [Readers -> ReadStates]
  /\ holders \subseteq Irps \cup Readers
  /\ holders # {} => Attached
  /\ \A x \in Readers : ScatterOK(rd[x]) /\ (rd[x].count > 0 => x \in holders)

\* A read in a state d, and whether it holds the remove lock
Counted(d, holds) == d \in ReadStates /\ ScatterOK(d) /\ (d.count > 0 => holds)

-----------------------------------------------------------------------------
(* The queue beside the reads                                              *)

\* A step of a read is no step of the queue.
LEMMA ReadersFrame == ReadersNext => UNCHANGED lockFrame
BY DEF ReadersNext, BeginRead, ReadThread, ReadBelow, Overlay, CreateScatter, SendPart,
       BuildPartFails, EndSplit, PassedReadEnds, PartLands, PartEnds, lockFrame, vars

LEMMA QueueFrame == QueueInv /\ UNCHANGED lockFrame => QueueInv'
<1> SUFFICES ASSUME QueueInv, UNCHANGED lockFrame PROVE QueueInv'
  OBVIOUS
<1> USE DEF QueueInv, lockFrame, irpVars, listVars, flagVars, removeVars, diskVars
<1>1. QueueTypeOK'
  BY DEF QueueTypeOK
<1>2. ListInv' /\ Retired' = Retired /\ Done' = Done
  BY DEF ListInv, Retired, Done
<1>3. RangeInv' /\ DiskInv' /\ CommitInv' /\ RefusedInv'
  BY <1>2 DEF RangeInv, DiskInv, CommitInv, RefusedInv
<1>4. CompletedOnce'
  BY DEF CompletedOnce, OwnedByThread, OwnedByWorker, Queued
<1> QED BY <1>1, <1>2, <1>3, <1>4

LEMMA QueueStep == QueueInv /\ [ReadNext]_<<vars, readVars>> => QueueInv'
<1> SUFFICES ASSUME QueueInv, [ReadNext]_<<vars, readVars>> PROVE QueueInv'
  OBVIOUS
<1>1. CASE ReadersNext
  BY <1>1, ReadersFrame, QueueFrame
<1>2. CASE [Next]_vars
  BY <1>2, TypeStep, ListStep, RangeStep, DiskStep, CommitStep, RefusedStep, OnceStep
     DEF QueueInv
<1> QED BY <1>1, <1>2 DEF ReadNext

LEMMA QueueInit == ReadInit => QueueInv
<1> SUFFICES ASSUME Init PROVE QueueInv
  BY DEF ReadInit
<1>1. Len(log) = 0 /\ \A r \in Irps : pc[r] = "idle"
  BY EmptySeq DEF Init
<1>2. RangeInv /\ DiskInv /\ CommitInv /\ RefusedInv
  BY <1>1 DEF Init, RangeInv, DiskInv, CommitInv, RefusedInv
<1>3. CompletedOnce
  BY DEF Init, CompletedOnce, OwnedByThread
<1> QED BY <1>2, <1>3, TypeInit, ListInit DEF QueueInv

\* The queue takes and releases the remove lock for its own requests, and only
\* while the device is there; the device goes when nothing holds the lock.
LEMMA QueueHolders ==
  ASSUME QueueTypeOK, [Next]_vars, holders # {} => Attached
  PROVE  /\ holders' \subseteq holders \cup Irps /\ holders \subseteq holders' \cup Irps
         /\ holders' # {} => Attached'
<1>1. ASSUME NEW r \in Irps, Dispatch(r) \/ Continue(r)
      PROVE  /\ holders' \in {holders, holders \cup {r}} /\ rpc' = rpc
             /\ holders' # holders => Attached
  BY <1>1 DEF Dispatch, Continue, AnswerAtOnce, TurnOn, EnterQueueIrp, AdmitLazily,
              Decline, NoItem, NoBuffer, MakeItem, Insert, Signal, AcquireLock, At,
              Arrive, threadFrame, removeVars
<1>2. CASE Worker \/ LowerDevice
  <2>1. rpc' = rpc /\ (holders' = holders \/ ReleaseItem)
    BY <1>2 DEF Worker, LowerDevice, LookAtHead, CheckShutdown, WakeUp, PassMarker,
       SendDown, BuildFails, CompleteIrp, Unlink, LowerSucceeds, LowerFails,
       ReleaseItem, workerFrame, removeVars
  <2>2. ReleaseItem => holders' = holders \ {witem} /\ witem \in Irps
    BY DEF ReleaseItem, ReleaseLock, WGoto, QueueTypeOK
  <2> QED BY <2>1, <2>2 DEF Attached
<1>3. CASE Remover
  BY <1>3 DEF Remover, RGoto, BeginRemove, RequestExit, WakeWorker, JoinWorker,
              FinalFlush, CloseLock, DeleteDevice, LockDrained, Attached
<1>4. CASE UNCHANGED vars
  BY <1>4 DEF vars, removeVars, Attached
<1> QED BY <1>1, <1>2, <1>3, <1>4 DEF Next, AttachedNext, Attached

LEMMA QueueKeepsReads ==
  ASSUME QueueInv, ReadInv, [Next]_vars, UNCHANGED readVars
  PROVE  ReadInv'
<1>1. /\ holders' \subseteq holders \cup Irps /\ holders \subseteq holders' \cup Irps
      /\ holders' # {} => Attached'
  BY QueueHolders DEF QueueInv, ReadInv
<1>2. rd' = rd
  BY DEF readVars
<1>3. \A x \in Readers : x \in holders => x \in holders'
  BY <1>1, ReadersAssumption
<1> QED BY <1>1, <1>2, <1>3 DEF ReadInv, ScatterOK

-----------------------------------------------------------------------------
(* The references of a split read                                          *)

LEMMA SectorsFinite ==
  /\ IsFiniteSet(Sectors)
  /\ \A S \in SUBSET Sectors : IsFiniteSet(S) /\ Cardinality(S) \in Nat
<1>1. IsFiniteSet(Sectors)
  BY SizeAssumption, FS_Interval DEF Sectors
<1> QED BY <1>1, FS_Subset, FS_CardinalityType

LEMMA NatMin ==
  ASSUME NEW S \in SUBSET Nat, S # {}
  PROVE  Min(S) \in S /\ \A n \in S : Min(S) <= n
<1>1. PICK m \in S : \A k \in S : ~(<<k, m>> \in NatLess)
  BY NatLessWellFounded, WFMin
<1>2. ASSUME NEW k \in S PROVE m <= k
  <2>1. ~(k < m)
    BY <1>1 DEF NatLess
  <2> QED BY <2>1
<1> QED BY <1>2 DEF Min

LEMMA AnsweredLemma ==
  ASSUME NEW d \in ReadStates, NEW st \in Statuses, NEW n \in Nat
  PROVE  LET e == Answered(d, st, n) IN
         /\ e \in ReadStates /\ e.pc = "returned" /\ e.status = st
         /\ e.completions = d.completions + 1 /\ e.range = d.range /\ e.buf = d.buf
         /\ e.todo = d.todo /\ e.flying = d.flying /\ e.landed = d.landed
         /\ e.count = d.count /\ e.fail = d.fail
<1> DEFINE c == d.completions + 1
           e == [d EXCEPT !.status = st, !.info = n, !.completions = c,
                          !.pc = "returned"]
<1>1. c \in Nat
  BY DEF ReadStates
<1>2. Answered(d, st, n) = e
  BY DEF ReadStates, Answered
<1> HIDE DEF c
<1>3. /\ e \in ReadStates /\ e.pc = "returned" /\ e.status = st
      /\ e.completions = c /\ e.range = d.range /\ e.buf = d.buf
      /\ e.todo = d.todo /\ e.flying = d.flying /\ e.landed = d.landed
      /\ e.count = d.count /\ e.fail = d.fail
  BY <1>1 DEF ReadStates, ReadPcs
<1> QED BY <1>2, <1>3 DEF c

LEMMA CountLemma ==
  ASSUME NEW d \in ReadStates, NEW c \in Nat
  PROVE  LET e == [d EXCEPT !.count = c] IN
         /\ e \in ReadStates /\ e.pc = d.pc /\ e.status = d.status
         /\ e.completions = d.completions /\ e.range = d.range /\ e.buf = d.buf
         /\ e.todo = d.todo /\ e.flying = d.flying /\ e.landed = d.landed
         /\ e.count = c /\ e.fail = d.fail
BY DEF ReadStates

LEMMA GotoLemma ==
  ASSUME NEW d \in ReadStates, NEW p \in ReadPcs
  PROVE  LET e == [d EXCEPT !.pc = p] IN
         /\ e \in ReadStates /\ e.pc = p /\ e.status = d.status
         /\ e.completions = d.completions /\ e.range = d.range /\ e.buf = d.buf
         /\ e.todo = d.todo /\ e.flying = d.flying /\ e.landed = d.landed
         /\ e.count = d.count /\ e.fail = d.fail
BY DEF ReadStates

\* The last reference answers the read, with no run left anywhere.
LEMMA DropCounted ==
  ASSUME NEW x \in Readers, NEW d \in ReadStates, DropReference(x, d),
         IsFiniteSet(d.flying), IsFiniteSet(d.landed), d.flying \cap d.landed = {},
         \A run \in d.flying \cup d.landed : run # {} /\ run \cap d.todo = {},
         d.count = Cardinality(d.flying) + Cardinality(d.landed) + 1
                     + (IF d.pc \in {"split", "drop"} THEN 1 ELSE 0),
         d.completions = 0, d.pc \in {"split", "drop", "pending"},
         d.pc = "split" => d.todo # {}, d.range \subseteq Sectors,
         d.count > 0 => x \in holders
  PROVE  /\ \E e : Update(x, e) /\ Counted(e, x \in holders')
         /\ holders' = holders \/ holders' = holders \ {x}
<1>1. /\ Cardinality(d.flying) \in Nat /\ Cardinality(d.landed) \in Nat
      /\ Cardinality(d.flying) = 0 => d.flying = {}
      /\ Cardinality(d.landed) = 0 => d.landed = {}
  BY FS_CardinalityType, FS_EmptySet
<1>2. CASE d.count > 1
  <2> DEFINE e == [d EXCEPT !.count = @ - 1]
  <2>1. Update(x, e) /\ holders' = holders
    BY <1>2 DEF DropReference
  <2>2. d.count - 1 \in Nat
    BY <1>2 DEF ReadStates
  <2>3. e \in ReadStates
    BY <2>2, CountLemma
  <2>4. ScatterOK(e)
    BY <1>1, <2>2, CountLemma DEF ScatterOK, ReadStates
  <2>5. x \in holders
    BY <1>2 DEF ReadStates
  <2> HIDE DEF e
  <2> QED BY <2>1, <2>3, <2>4, <2>5 DEF Counted
<1>3. CASE ~(d.count > 1)
  <2> DEFINE n == IF d.fail = "SUCCESS" THEN d.bytes ELSE 0
             a == Answered(d, d.fail, n)
             e == [a EXCEPT !.count = @ - 1]
  <2>1. Update(x, e) /\ holders' = holders \ {x}
    BY <1>3 DEF DropReference
  <2>2. /\ d.flying = {} /\ d.landed = {} /\ d.count = 1 /\ d.pc = "pending"
        /\ d.fail \in Statuses /\ n \in Nat
    BY <1>1, <1>3 DEF ReadStates, Statuses
  <2>3. /\ a \in ReadStates /\ a.pc = "returned" /\ a.completions = 1 /\ a.count = 1
        /\ a.flying = {} /\ a.landed = {}
    BY <2>2, AnsweredLemma
  <2> HIDE DEF a
  <2>4. /\ e \in ReadStates /\ e.pc = "returned" /\ e.completions = 1 /\ e.count = 0
        /\ e.flying = {} /\ e.landed = {}
    <3>1. a.count - 1 \in Nat /\ a.count - 1 = 0
      BY <2>3
    <3> QED BY <2>3, <3>1, CountLemma
  <2> HIDE DEF e
  <2>5. ScatterOK(e)
    BY <2>4, FS_EmptySet DEF ScatterOK
  <2> QED BY <2>1, <2>4, <2>5 DEF Counted
<1> QED BY <1>2, <1>3

LEMMA BeginCounted ==
  ASSUME ReadInv, NEW x \in Readers, BeginRead(x)
  PROVE  \E e : Update(x, e) /\ Counted(e, x \in holders)
<1>1. rd[x] \in ReadStates /\ ScatterOK(rd[x]) /\ rd[x].pc = "idle"
  BY DEF ReadInv, BeginRead
<1>2. PICK g \in ReadRanges :
        LET d == [rd[x] EXCEPT !.range = g] IN
          \/ Update(x, Answered(d, "SUCCESS", 0))
          \/ Update(x, Answered(d, "END_OF_MEDIA", 0))
          \/ Update(x, Answered(d, "INSUFFICIENT_RESOURCES", 0))
          \/ g \subseteq Sectors /\ Update(x, [d EXCEPT !.pc = "overlay"])
  BY DEF BeginRead
<1> DEFINE d == [rd[x] EXCEPT !.range = g]
<1>3. d \in ReadStates /\ ScatterOK(d) /\ d.pc = "idle" /\ d.range = g
  BY <1>1, ReadRangesAssumption DEF ReadStates, ScatterOK
<1>4. Cardinality(d.flying) = 0 /\ Cardinality(d.landed) = 0 /\ d.count = 0
  BY <1>3, FS_EmptySet DEF ScatterOK
<1>5. ASSUME NEW st \in Statuses
      PROVE  Counted(Answered(d, st, 0), x \in holders)
  <2> HIDE DEF d
  <2>1. LET e == Answered(d, st, 0) IN
        /\ e \in ReadStates /\ e.pc = "returned" /\ e.completions = 1 /\ e.count = 0
        /\ e.flying = {} /\ e.landed = {}
    BY <1>3, <1>4, AnsweredLemma DEF ScatterOK
  <2> QED BY <2>1, FS_EmptySet DEF Counted, ScatterOK
<1>6. g \subseteq Sectors => Counted([d EXCEPT !.pc = "overlay"], x \in holders)
  <2> HIDE DEF d
  <2> QED BY <1>3, <1>4 DEF Counted, ReadStates, ScatterOK, ReadPcs
<1> QED BY <1>2, <1>5, <1>6 DEF Statuses

LEMMA OverlayCounted ==
  ASSUME QueueInv, ReadInv, NEW x \in Readers, Overlay(x)
  PROVE  \E e : Update(x, e) /\ Counted(e, x \in holders)
<1> DEFINE g == rd[x].range
           clear == {s \in g : Hits(s) = {}}
           b == [s \in Sectors |-> IF s \in g \ clear THEN View(s) ELSE rd[x].buf[s]]
           d == [rd[x] EXCEPT !.todo = clear, !.buf = b]
<1>1. rd[x] \in ReadStates /\ ScatterOK(rd[x]) /\ rd[x].pc = "overlay"
  BY DEF ReadInv, Overlay
<1>2. g \subseteq Sectors /\ clear \in SUBSET Sectors
  BY <1>1 DEF ScatterOK
<1>3. b \in [Sectors -> Irps \cup {None, Unfilled}]
  <2> SUFFICES ASSUME NEW s \in Sectors PROVE View(s) \in Irps \cup {None}
    BY <1>1 DEF ReadStates
  <2>1. ViewInv /\ disk[s] \in Irps \cup {None}
    BY ViewLemma DEF QueueInv, QueueTypeOK
  <2>2. \A h \in 1 .. Len(queue) : queue[h] \in Irps
    BY ElementOfSeq DEF QueueInv, QueueTypeOK
  <2> QED BY <2>1, <2>2 DEF ViewInv
<1>4. Cardinality(g) \in Nat
  BY <1>2, SectorsFinite
<1>5. \/ clear = g /\ Update(x, [d EXCEPT !.pc = "passed"])
      \/ clear = {} /\ Update(x, Answered(d, "SUCCESS", Cardinality(g)))
      \/ clear # {} /\ Update(x, [d EXCEPT !.pc = "create"])
  BY Zenon DEF Overlay
<1> HIDE DEF b, clear
<1>6. /\ d \in ReadStates /\ d.pc = "overlay" /\ d.todo = clear /\ d.range = g
      /\ d.flying = {} /\ d.landed = {} /\ d.count = 0 /\ d.completions = 0
  <2>1. /\ rd[x].flying = {} /\ rd[x].landed = {} /\ rd[x].count = 0
        /\ rd[x].completions = 0
    BY <1>1, FS_EmptySet DEF ScatterOK
  <2> QED BY <1>1, <1>2, <1>3, <2>1 DEF ReadStates
<1> HIDE DEF d
<1>7. CASE Update(x, Answered(d, "SUCCESS", Cardinality(g)))
  <2>1. LET e == Answered(d, "SUCCESS", Cardinality(g)) IN
        /\ e \in ReadStates /\ e.pc = "returned" /\ e.completions = 1 /\ e.count = 0
        /\ e.flying = {} /\ e.landed = {}
    <3>1. "SUCCESS" \in Statuses
      BY DEF Statuses
    <3> QED BY <1>4, <1>6, <3>1, AnsweredLemma
  <2>2. Counted(Answered(d, "SUCCESS", Cardinality(g)), x \in holders)
    BY <2>1, FS_EmptySet DEF Counted, ScatterOK
  <2> QED BY <1>7, <2>2
<1>8. Counted([d EXCEPT !.pc = "passed"], x \in holders)
  <2> DEFINE e == [d EXCEPT !.pc = "passed"]
  <2>1. /\ e \in ReadStates /\ e.pc = "passed" /\ e.range = g /\ e.count = 0
        /\ e.flying = {} /\ e.landed = {} /\ e.completions = 0
    BY <1>6, GotoLemma DEF ReadPcs
  <2> HIDE DEF e
  <2>2. ScatterOK(e) /\ ~(0 > 0)
    BY <1>2, <2>1, FS_EmptySet DEF ScatterOK
  <2> QED BY <2>1, <2>2, Zenon DEF Counted, e
<1>9. clear # {} => Counted([d EXCEPT !.pc = "create"], x \in holders)
  <2> DEFINE e == [d EXCEPT !.pc = "create"]
  <2>1. /\ e \in ReadStates /\ e.pc = "create" /\ e.range = g /\ e.count = 0
        /\ e.flying = {} /\ e.landed = {} /\ e.completions = 0 /\ e.todo = clear
    BY <1>6, GotoLemma DEF ReadPcs
  <2> HIDE DEF e
  <2>2. clear # {} => ScatterOK(e) /\ ~(0 > 0)
    BY <1>2, <2>1, FS_EmptySet DEF ScatterOK
  <2> QED BY <2>1, <2>2, Zenon DEF Counted, e
<1> QED BY <1>5, <1>7, <1>8, <1>9

LEMMA PassedCounted ==
  ASSUME QueueInv, ReadInv, NEW x \in Readers, PassedReadEnds(x)
  PROVE  \E e : Update(x, e) /\ Counted(e, x \in holders)
<1>1. rd[x] \in ReadStates /\ ScatterOK(rd[x]) /\ rd[x].pc = "passed"
  BY DEF ReadInv, PassedReadEnds
<1>2. rd[x].flying = {} /\ rd[x].landed = {} /\ rd[x].count = 0 /\ rd[x].completions = 0
  BY <1>1, FS_EmptySet DEF ScatterOK
<1>3. Cardinality(rd[x].range) \in Nat
  BY <1>1, SectorsFinite DEF ScatterOK
<1>0. "SUCCESS" \in Statuses /\ "IO_ERROR" \in Statuses /\ 0 \in Nat
  BY DEF Statuses
<1> DEFINE b == [s \in Sectors |-> IF s \in rd[x].range THEN disk[s] ELSE rd[x].buf[s]]
<1>4. b \in [Sectors -> Irps \cup {None, Unfilled}]
  <2>1. disk \in [Sectors -> Irps \cup {None}]
    BY DEF QueueInv, QueueTypeOK
  <2> QED BY <1>1, <2>1 DEF ReadStates
<1> DEFINE r == Answered(rd[x], "SUCCESS", Cardinality(rd[x].range))
           f == Answered(rd[x], "IO_ERROR", 0)
<1>5. \/ Update(x, [r EXCEPT !.buf = b, !.todo = {}])
      \/ Update(x, [f EXCEPT !.todo = {}])
  <2>1. r.buf = rd[x].buf
    BY <1>0, <1>1, <1>3, AnsweredLemma
  <2> HIDE DEF r, f
  <2>2. \/ Update(x, [r EXCEPT !.buf = [s \in Sectors |-> IF s \in rd[x].range
                                                          THEN disk[s] ELSE @[s]],
                               !.todo = {}])
        \/ Update(x, [f EXCEPT !.todo = {}])
    BY Zenon DEF PassedReadEnds, r, f
  <2> QED BY <2>1, <2>2
<1>6. /\ r \in ReadStates /\ r.pc = "returned" /\ r.completions = 1 /\ r.count = 0
      /\ r.flying = {} /\ r.landed = {}
      /\ f \in ReadStates /\ f.pc = "returned" /\ f.completions = 1 /\ f.count = 0
      /\ f.flying = {} /\ f.landed = {}
  <2>1. ASSUME NEW st \in Statuses, NEW n \in Nat
        PROVE  LET a == Answered(rd[x], st, n) IN
               /\ a \in ReadStates /\ a.pc = "returned" /\ a.completions = 1
               /\ a.count = 0 /\ a.flying = {} /\ a.landed = {}
    BY <1>1, <1>2, AnsweredLemma
  <2> QED BY <1>0, <1>3, <2>1
<1> HIDE DEF r, f, b
<1>7. Counted([r EXCEPT !.buf = b, !.todo = {}], x \in holders)
  <2> DEFINE e == [r EXCEPT !.buf = b, !.todo = {}]
  <2>1. /\ e \in ReadStates /\ e.pc = "returned" /\ e.completions = 1 /\ e.count = 0
        /\ e.flying = {} /\ e.landed = {}
    BY <1>4, <1>6 DEF ReadStates
  <2> HIDE DEF e
  <2>2. ScatterOK(e) /\ ~(e.count > 0)
    BY <2>1, FS_EmptySet DEF ScatterOK
  <2> QED BY <2>1, <2>2, Zenon DEF Counted, e
<1>8. Counted([f EXCEPT !.todo = {}], x \in holders)
  <2> DEFINE e == [f EXCEPT !.todo = {}]
  <2>1. /\ e \in ReadStates /\ e.pc = "returned" /\ e.completions = 1 /\ e.count = 0
        /\ e.flying = {} /\ e.landed = {}
    BY <1>6 DEF ReadStates
  <2> HIDE DEF e
  <2>2. ScatterOK(e) /\ ~(e.count > 0)
    BY <2>1, FS_EmptySet DEF ScatterOK
  <2> QED BY <2>1, <2>2, Zenon DEF Counted, e
<1> QED BY <1>5, <1>7, <1>8, Zenon

LEMMA CreateCounted ==
  ASSUME ReadInv, NEW x \in Readers, CreateScatter(x)
  PROVE  /\ \E e : Update(x, e) /\ Counted(e, x \in holders')
         /\ holders' = holders \/ holders' = holders \cup {x}
         /\ Attached
<1>1. /\ rd[x] \in ReadStates /\ ScatterOK(rd[x]) /\ rd[x].pc = "create"
      /\ rd[x].completions = 0 /\ rd[x].flying = {} /\ rd[x].landed = {}
      /\ rd[x].count = 0 /\ rd[x].range \subseteq Sectors /\ rd[x].todo # {}
  BY FS_EmptySet DEF ReadInv, CreateScatter, ScatterOK
<1>2. ASSUME NEW st \in Statuses
      PROVE  Counted(Answered(rd[x], st, 0), x \in holders)
  <2>1. LET e == Answered(rd[x], st, 0) IN
        /\ e \in ReadStates /\ e.pc = "returned" /\ e.completions = 1 /\ e.count = 0
        /\ e.flying = {} /\ e.landed = {}
    BY <1>1, AnsweredLemma
  <2> QED BY <2>1, FS_EmptySet DEF Counted, ScatterOK
<1>3. ASSUME NEW st \in Statuses, Update(x, Answered(rd[x], st, 0)), UNCHANGED holders
      PROVE  \E e : Update(x, e) /\ Counted(e, x \in holders')
  <2>1. Counted(Answered(rd[x], st, 0), x \in holders')
    BY <1>2, <1>3
  <2> QED BY <1>3, <2>1, Zenon
<1>4. "DELETE_PENDING" \in Statuses /\ "INSUFFICIENT_RESOURCES" \in Statuses
  BY DEF Statuses
<1>5. CASE /\ Update(x, [rd[x] EXCEPT !.count = 1, !.pc = "split"])
           /\ holders' = holders \cup {x}
  <2> DEFINE e == [rd[x] EXCEPT !.count = 1, !.pc = "split"]
  <2>1. /\ e \in ReadStates /\ e.pc = "split" /\ e.count = 1 /\ e.completions = 0
        /\ e.flying = {} /\ e.landed = {} /\ e.range \subseteq Sectors /\ e.todo # {}
    BY <1>1 DEF ReadStates, ReadPcs
  <2> HIDE DEF e
  <2>2. ScatterOK(e)
    BY <2>1, FS_EmptySet DEF ScatterOK
  <2>3. Update(x, e) /\ x \in holders'
    BY <1>5 DEF e
  <2>4. Attached
    BY DEF CreateScatter
  <2> QED BY <1>5, <2>1, <2>2, <2>3, <2>4 DEF Counted
<1> QED BY <1>3, <1>4, <1>5 DEF CreateScatter

LEMMA BuildFailsCounted ==
  ASSUME ReadInv, NEW x \in Readers, BuildPartFails(x)
  PROVE  \E e : Update(x, e) /\ Counted(e, x \in holders)
<1>1. rd[x] \in ReadStates /\ ScatterOK(rd[x]) /\ rd[x].pc = "split"
  BY DEF ReadInv, BuildPartFails
<1> DEFINE d == rd[x]
           e == [d EXCEPT !.fail = "INSUFFICIENT_RESOURCES", !.pc = "drop"]
<1>2. /\ e \in ReadStates /\ e.pc = "drop" /\ e.count = d.count
      /\ e.completions = d.completions /\ e.todo = d.todo /\ e.range = d.range
      /\ e.flying = d.flying /\ e.landed = d.landed
  BY <1>1 DEF ReadStates, ReadPcs
<1>3. Update(x, e)
  BY DEF BuildPartFails
<1>4. d.count > 0 => x \in holders
  BY DEF ReadInv
<1> HIDE DEF d, e
<1>5. ScatterOK(e)
  BY <1>1, <1>2 DEF ScatterOK, d
<1> QED BY <1>2, <1>3, <1>4, <1>5 DEF Counted

LEMMA EndCounted ==
  ASSUME ReadInv, NEW x \in Readers, EndSplit(x)
  PROVE  /\ \E e : Update(x, e) /\ Counted(e, x \in holders')
         /\ holders' = holders \/ holders' = holders \ {x}
<1> DEFINE d == rd[x]
           e == [d EXCEPT !.pc = "pending"]
<1>1. d \in ReadStates /\ ScatterOK(d) /\ d.pc = "drop" /\ (d.count > 0 => x \in holders)
  BY DEF ReadInv, EndSplit
<1>2. DropReference(x, e)
  BY DEF EndSplit
<1> HIDE DEF d
<1>3. /\ e \in ReadStates /\ e.pc = "pending" /\ e.count = d.count
      /\ e.completions = d.completions /\ e.todo = d.todo /\ e.range = d.range
      /\ e.flying = d.flying /\ e.landed = d.landed
  BY <1>1, GotoLemma DEF ReadPcs
<1> HIDE DEF e
<1>4. Cardinality(e.flying) \in Nat /\ Cardinality(e.landed) \in Nat
  BY <1>1, <1>3, FS_CardinalityType DEF ScatterOK
<1>5. e.count = Cardinality(e.flying) + Cardinality(e.landed) + 1
                  + (IF e.pc \in {"split", "drop"} THEN 1 ELSE 0)
  BY <1>1, <1>3, <1>4 DEF ScatterOK
<1> QED BY <1>1, <1>2, <1>3, <1>5, DropCounted DEF ScatterOK

\* A run moves from below to the completion routine.
LEMMA LandCounted ==
  ASSUME ReadInv, QueueInv, NEW x \in Readers, NEW run \in rd[x].flying, PartLands(x, run)
  PROVE  \E e : Update(x, e) /\ Counted(e, x \in holders)
<1> DEFINE d == rd[x]
           l == [d EXCEPT !.flying = @ \ {run}, !.landed = @ \cup {run}]
           b == [s \in Sectors |-> IF s \in run THEN disk[s] ELSE d.buf[s]]
           n == d.bytes + Cardinality(run)
           g == [l EXCEPT !.bytes = n, !.buf = b]
           f == [l EXCEPT !.fail = "IO_ERROR"]
<1>1. d \in ReadStates /\ ScatterOK(d) /\ (d.count > 0 => x \in holders)
  BY DEF ReadInv
<1>2. run \in SUBSET Sectors
  BY <1>1 DEF ReadStates
<1>3. b \in [Sectors -> Irps \cup {None, Unfilled}] /\ n \in Nat
  <2>1. disk \in [Sectors -> Irps \cup {None}]
    BY DEF QueueInv, QueueTypeOK
  <2>2. b \in [Sectors -> Irps \cup {None, Unfilled}]
    BY <1>1, <2>1 DEF ReadStates
  <2>3. n \in Nat
    BY <1>1, <1>2, SectorsFinite DEF ReadStates
  <2> QED BY <2>2, <2>3
<1> HIDE DEF d
<1>4. /\ l \in ReadStates /\ l.pc = d.pc /\ l.count = d.count /\ l.range = d.range
      /\ l.completions = d.completions /\ l.todo = d.todo
      /\ l.flying = d.flying \ {run} /\ l.landed = d.landed \cup {run}
      /\ l.bytes = d.bytes /\ l.buf = d.buf
  BY <1>1, <1>2 DEF ReadStates, d
<1>5. Update(x, g) \/ Update(x, f)
  <2> HIDE DEF l
  <2>1. \/ Update(x, [l EXCEPT !.bytes = @ + Cardinality(run), !.buf =
                       [s \in Sectors |-> IF s \in run THEN disk[s] ELSE @[s]]])
        \/ Update(x, [l EXCEPT !.fail = "IO_ERROR"])
    BY Zenon DEF PartLands, l, d
  <2> QED BY <1>4, <2>1
<1> HIDE DEF l, b, n
<1>6. ASSUME NEW e \in {f, g}
      PROVE  /\ e \in ReadStates /\ e.pc = d.pc /\ e.count = d.count
             /\ e.range = d.range /\ e.completions = d.completions /\ e.todo = d.todo
             /\ e.flying = d.flying \ {run} /\ e.landed = d.landed \cup {run}
  <2>1. CASE e = g
    BY <1>3, <1>4, <2>1 DEF ReadStates
  <2>2. CASE e = f
    BY <1>4, <2>2 DEF ReadStates
  <2> QED BY <2>1, <2>2
<1> HIDE DEF f, g
<1>7. /\ IsFiniteSet(d.flying \ {run}) /\ IsFiniteSet(d.landed \cup {run})
      /\ Cardinality(d.flying \ {run}) = Cardinality(d.flying) - 1
      /\ Cardinality(d.landed \cup {run}) = Cardinality(d.landed) + 1
      /\ Cardinality(d.flying) \in Nat /\ Cardinality(d.landed) \in Nat
  <2>1. run \in d.flying /\ run \notin d.landed /\ IsFiniteSet(d.flying) /\ IsFiniteSet(d.landed)
    BY <1>1 DEF ScatterOK, d
  <2> QED BY <2>1, FS_RemoveElement, FS_AddElement, FS_CardinalityType
<1>8. ASSUME NEW e \in {f, g} PROVE Counted(e, x \in holders)
  <2>1. /\ e.flying \cap e.landed = {}
        /\ \A r \in e.flying \cup e.landed : r # {} /\ r \cap e.todo = {}
    BY <1>1, <1>6 DEF ScatterOK, d
  <2>2. d.pc \notin {"idle", "overlay", "passed", "create", "returned"}
    BY <1>1 DEF ScatterOK, d
  <2>3. e.count = Cardinality(e.flying) + Cardinality(e.landed)
                    + (IF e.pc \in {"split", "drop"} THEN 1 ELSE 0)
    <3>1. d.count = Cardinality(d.flying) + Cardinality(d.landed)
                      + (IF d.pc \in {"split", "drop"} THEN 1 ELSE 0)
      BY <1>1 DEF ScatterOK
    <3>2. /\ Cardinality(e.flying) = Cardinality(d.flying) - 1
          /\ Cardinality(e.landed) = Cardinality(d.landed) + 1
          /\ e.count = d.count /\ e.pc = d.pc
      BY <1>6, <1>7
    <3> QED BY <1>7, <3>1, <3>2
  <2>4. /\ e.completions = (IF e.pc = "returned" THEN 1 ELSE 0)
        /\ e.pc \in {"create", "split"} => e.todo # {}
        /\ e.pc \notin {"idle", "returned"} => e.range \subseteq Sectors
    BY <1>1, <1>6 DEF ScatterOK
  <2>5. ScatterOK(e)
    BY <1>6, <1>7, <2>1, <2>2, <2>3, <2>4 DEF ScatterOK
  <2> QED BY <1>1, <1>6, <2>5 DEF Counted
<1> QED BY <1>5, <1>8

LEMMA PartEndsCounted ==
  ASSUME ReadInv, NEW x \in Readers, NEW run \in rd[x].landed, PartEnds(x, run)
  PROVE  /\ \E e : Update(x, e) /\ Counted(e, x \in holders')
         /\ holders' = holders \/ holders' = holders \ {x}
<1> DEFINE d == rd[x]
           e == [d EXCEPT !.landed = @ \ {run}]
<1>1. d \in ReadStates /\ ScatterOK(d) /\ (d.count > 0 => x \in holders)
  BY DEF ReadInv
<1>2. DropReference(x, e)
  BY DEF PartEnds
<1>3. run \in d.landed
  OBVIOUS
<1> HIDE DEF d
<1>4. /\ e \in ReadStates /\ e.pc = d.pc /\ e.count = d.count
      /\ e.completions = d.completions /\ e.todo = d.todo /\ e.range = d.range
      /\ e.flying = d.flying /\ e.landed = d.landed \ {run}
  BY <1>1 DEF ReadStates
<1> HIDE DEF e
<1>5. /\ Cardinality(e.flying) \in Nat /\ Cardinality(e.landed) \in Nat
      /\ Cardinality(e.landed) = Cardinality(d.landed) - 1 /\ IsFiniteSet(e.landed)
      /\ IsFiniteSet(e.flying) /\ Cardinality(d.landed) \in Nat
  BY <1>1, <1>3, <1>4, FS_CardinalityType, FS_RemoveElement DEF ScatterOK
<1>6. e.count = Cardinality(e.flying) + Cardinality(e.landed) + 1
                  + (IF e.pc \in {"split", "drop"} THEN 1 ELSE 0)
  BY <1>1, <1>4, <1>5 DEF ScatterOK
<1>7. e.pc \in {"split", "drop", "pending"}
  BY <1>1, <1>3, <1>4 DEF ScatterOK, ReadStates, ReadPcs
<1> QED BY <1>1, <1>2, <1>4, <1>5, <1>6, <1>7, DropCounted DEF ScatterOK

LEMMA SendCounted ==
  ASSUME ReadInv, NEW x \in Readers, SendPart(x)
  PROVE  \E e : Update(x, e) /\ Counted(e, x \in holders)
<1> DEFINE d    == rd[x]
           run  == FirstRun(d.todo)
           rest == d.todo \ run
           c    == d.count + 1
           p    == IF rest = {} THEN "drop" ELSE "split"
           e    == [d EXCEPT !.todo = rest, !.flying = @ \cup {run}, !.count = c, !.pc = p]
<1>1. d \in ReadStates /\ ScatterOK(d) /\ (d.count > 0 => x \in holders) /\ d.pc = "split"
  BY DEF ReadInv, SendPart
<1>2. Update(x, e)
  <2>1. c \in Nat
    BY <1>1 DEF ReadStates
  <2> QED BY <1>1, <2>1 DEF SendPart, ReadStates
<1>3. run \subseteq d.todo /\ run # {} /\ d.todo \in SUBSET Sectors
  <2>1. d.todo # {} /\ d.todo \in SUBSET Sectors
    BY <1>1 DEF ScatterOK, ReadStates
  <2>2. Min(d.todo) \in d.todo
    BY <2>1, NatMin DEF Sectors
  <2>3. Min(d.todo) \in run
    BY <2>1, <2>2 DEF FirstRun, Sectors
  <2> QED BY <2>1, <2>3 DEF FirstRun
<1> HIDE DEF d, run
<1>4. /\ IsFiniteSet(d.flying \cup {run})
      /\ Cardinality(d.flying \cup {run}) = Cardinality(d.flying) + 1
      /\ Cardinality(d.flying) \in Nat /\ Cardinality(d.landed) \in Nat
  <2>1. run \notin d.flying /\ IsFiniteSet(d.flying) /\ IsFiniteSet(d.landed)
    BY <1>1, <1>3 DEF ScatterOK
  <2> QED BY <2>1, FS_AddElement, FS_CardinalityType
<1>5. c \in Nat /\ rest \in SUBSET Sectors /\ run \in SUBSET Sectors /\ p \in ReadPcs
  BY <1>1, <1>3 DEF ReadStates, ReadPcs
<1>6. p \in {"split", "drop"} /\ (p = "split" => rest # {})
  OBVIOUS
<1> HIDE DEF c, p
<1>7. /\ e \in ReadStates /\ e.pc = p /\ e.count = c
      /\ e.completions = d.completions /\ e.todo = rest /\ e.range = d.range
      /\ e.flying = d.flying \cup {run} /\ e.landed = d.landed
  <2> HIDE DEF rest
  <2> QED BY <1>1, <1>5 DEF ReadStates
<1> HIDE DEF e
<1>8. /\ e.flying \cap e.landed = {}
      /\ \A r \in e.flying \cup e.landed : r # {} /\ r \cap e.todo = {}
  BY <1>1, <1>3, <1>7 DEF ScatterOK
<1>9. ScatterOK(e)
  BY <1>1, <1>4, <1>6, <1>7, <1>8 DEF ScatterOK, c
<1>10. x \in holders
  BY <1>1, <1>4 DEF ScatterOK
<1> QED BY <1>2, <1>7, <1>9, <1>10 DEF Counted

LEMMA ReadersKeepReads ==
  ASSUME QueueInv, ReadInv, ReadersNext
  PROVE  ReadInv'
<1>1. PICK x \in Readers : BeginRead(x) \/ ReadThread(x) \/ ReadBelow(x)
  BY DEF ReadersNext
<1>2. /\ \E e : Update(x, e) /\ Counted(e, x \in holders')
      /\ \/ holders' = holders \/ holders' = holders \ {x}
         \/ holders' = holders \cup {x} /\ Attached
  <2>1. CASE BeginRead(x) \/ Overlay(x) \/ SendPart(x) \/ BuildPartFails(x) \/ PassedReadEnds(x)
    <3>1. holders' = holders
      BY <2>1 DEF BeginRead, Overlay, SendPart, BuildPartFails, PassedReadEnds, vars
    <3> QED BY <2>1, <3>1, BeginCounted, OverlayCounted, SendCounted,
               BuildFailsCounted, PassedCounted
  <2>2. CASE CreateScatter(x)
    BY <2>2, CreateCounted
  <2>3. CASE EndSplit(x)
    BY <2>3, EndCounted
  <2>4. ASSUME NEW run \in rd[x].flying \cup rd[x].landed, PartLands(x, run)
        PROVE  holders' = holders /\ \E e : Update(x, e) /\ Counted(e, x \in holders')
    <3>1. holders' = holders /\ run \in rd[x].flying
      BY <2>4 DEF PartLands, vars
    <3> QED BY <2>4, <3>1, LandCounted
  <2>5. ASSUME NEW run \in rd[x].flying \cup rd[x].landed, PartEnds(x, run)
        PROVE  /\ \E e : Update(x, e) /\ Counted(e, x \in holders')
               /\ holders' = holders \/ holders' = holders \ {x}
    BY <2>5, PartEndsCounted DEF PartEnds
  <2> QED BY <1>1, <2>1, <2>2, <2>3, <2>4, <2>5, Zenon DEF ReadThread, ReadBelow
<1>3. PICK e : Update(x, e) /\ Counted(e, x \in holders')
  BY <1>2, Zenon
<1>4. rd' = [rd EXCEPT ![x] = e] /\ rd' \in [Readers -> ReadStates]
  BY <1>3 DEF Update, Counted, ReadInv
<1>5. rpc' = rpc
  BY ReadersFrame DEF lockFrame, removeVars
<1>6. /\ holders' \subseteq Irps \cup Readers /\ (holders' # {} => Attached')
      /\ \A y \in Readers \ {x} : y \in holders => y \in holders'
  BY <1>2, <1>5 DEF ReadInv, Attached
<1>7. \A y \in Readers : ScatterOK(rd'[y]) /\ (rd'[y].count > 0 => y \in holders')
  <2>1. ScatterOK(rd'[x]) /\ (rd'[x].count > 0 => x \in holders')
    BY <1>3, <1>4 DEF Counted, ReadInv
  <2>2. ASSUME NEW y \in Readers \ {x}
        PROVE  ScatterOK(rd'[y]) /\ (rd'[y].count > 0 => y \in holders')
    <3>1. rd'[y] = rd[y]
      BY <1>4 DEF ReadInv
    <3> QED BY <1>6, <3>1 DEF ReadInv
  <2> QED BY <2>1, <2>2
<1> QED BY <1>4, <1>6, <1>7 DEF ReadInv, ScatterOK

LEMMA ReadInvariant == ReadSpec => [](QueueInv /\ ReadInv)
<1>1. ReadInit => ReadInv
  <2> SUFFICES ASSUME ReadInit PROVE ReadInv
    OBVIOUS
  <2>1. NewRead \in ReadStates
    BY DEF NewRead, ReadStates, ReadPcs, Statuses
  <2>2. ScatterOK(NewRead)
    BY FS_EmptySet DEF NewRead, ScatterOK
  <2>3. NewRead.count = 0
    BY DEF NewRead
  <2> QED BY <2>1, <2>2, <2>3 DEF ReadInit, ReadInv, Init
<1>2. QueueInv /\ ReadInv /\ [ReadNext]_<<vars, readVars>> => ReadInv'
  <2> SUFFICES ASSUME QueueInv, ReadInv, [ReadNext]_<<vars, readVars>> PROVE ReadInv'
    OBVIOUS
  <2> QED BY ReadersKeepReads, QueueKeepsReads DEF ReadNext
<1> QED BY <1>1, <1>2, QueueInit, QueueStep, PTL DEF ReadSpec

\* The type invariant of the reads: however the list, the lower device and the
\* pool behave, no field of a SCATTERED_IRP leaves its type.
THEOREM ReadTypeCorrect == ReadSpec => []ReadTypeOK
<1>1. ReadInv => ReadTypeOK
  BY DEF ReadInv, ReadTypeOK, ReadStates
<1> QED BY <1>1, ReadInvariant, PTL

\* ScatterCount is at all times the parts that are below or in their completion
\* routine, and the thread: whichever Complete comes last answers the read, and
\* no other does, whatever the number of runs and the order of their ends.
THEOREM SplitReadsAreCounted == ReadSpec => []ScatterCounted
<1>1. ReadInv => ScatterCounted
  <2> SUFFICES ASSUME ReadInv, NEW x \in Readers
               PROVE  /\ rd[x].count = Cardinality(rd[x].flying) + Cardinality(rd[x].landed)
                           + (IF rd[x].pc \in {"split", "drop"} THEN 1 ELSE 0)
                      /\ rd[x].completions = (IF rd[x].pc = "returned" THEN 1 ELSE 0)
                      /\ rd[x].pc = "returned" => rd[x].count = 0
    BY DEF ScatterCounted
  <2> QED BY FS_EmptySet DEF ReadInv, ScatterOK
<1> QED BY <1>1, ReadInvariant, PTL

\* As long as a part of a split read is outstanding, or the thread that splits
\* it has not dropped its reference, the read holds the remove lock and
\* QCacheRemoveDevice waits.
THEOREM SplitReadsKeepTheDevice == ReadSpec => []SplitReadKeepsDevice
<1>1. ReadInv => SplitReadKeepsDevice
  BY DEF ReadInv, SplitReadKeepsDevice
<1> QED BY <1>1, ReadInvariant, PTL

-----------------------------------------------------------------------------
(* What is settled stays settled                                           *)

\* The lower device holds what the worker is done with, where it was written.
HeldInv == \A s \in Sectors : disk[s] # None =>
  \E j \in 1 .. Len(log) : /\ j <= Done /\ disk[s] = log[j]
                           /\ s \in req[log[j]].range

LEMMA LogFrame ==
  ASSUME QueueTypeOK, ListInv, [Next]_vars
  PROVE  /\ Len(log) \in Nat /\ Len(log') \in Nat /\ Len(log') >= Len(log)
         /\ Done \in Int /\ Done' \in Int /\ Done' >= Done /\ failed \subseteq failed'
         /\ \A i \in 1 .. Len(log) : /\ log'[i] = log[i] /\ req'[log[i]] = req[log[i]]
                                     /\ log[i] \in lazy' <=> log[i] \in lazy
         /\ LowerDevice \/ disk' = disk
<1>1. Len(log) \in Nat /\ Len(queue) \in Nat /\ Done \in Int /\ Retired \in Nat
  BY LenProperties DEF QueueTypeOK, ListInv, Done
<1> DEFINE Frame ==
      /\ Len(log') \in Nat /\ Len(log') >= Len(log)
      /\ Done' \in Int /\ Done' >= Done /\ failed \subseteq failed'
      /\ \A i \in 1 .. Len(log) : /\ log'[i] = log[i] /\ req'[log[i]] = req[log[i]]
                                  /\ log[i] \in lazy' <=> log[i] \in lazy
      /\ LowerDevice \/ disk' = disk
<1>2. ASSUME NEW r \in Irps, Dispatch(r) \/ Continue(r) PROVE Frame
  BY <1>1, <1>2, ThreadFrame DEF diskVars
<1>3. CASE LowerDevice
  <2>1. /\ log' = log /\ req' = req /\ lazy' = lazy /\ Done = Retired
        /\ Done' = Retired + 1
    BY <1>3, DoneLemma
  <2>2. failed \subseteq failed'
    BY <1>3 DEF LowerDevice, LowerSucceeds, LowerFails
  <2> QED BY <1>1, <1>3, <2>1, <2>2
<1>4. CASE Worker /\ ~LowerDevice
  <2>1. /\ log' = log /\ req' = req /\ lazy' = lazy
        /\ PassMarker => Done = Retired /\ Done' = Retired + 1
        /\ ~PassMarker => Done' = Done /\ UNCHANGED diskVars
    BY <1>4, DoneLemma
  <2>2. PassMarker => UNCHANGED diskVars
    BY DEF PassMarker
  <2> QED BY <1>1, <2>1, <2>2 DEF diskVars
<1>5. CASE Remover \/ UNCHANGED vars
  BY <1>1, <1>5, RemoverFrame DEF irpVars, listVars
<1>6. Frame
  BY <1>2, <1>3, <1>4, <1>5, Zenon DEF Next, AttachedNext
<1> QED BY <1>1, <1>6

LEMMA HeldStep == QueueInv /\ HeldInv /\ [Next]_vars => HeldInv'
<1> SUFFICES ASSUME QueueInv, HeldInv, [Next]_vars, NEW s \in Sectors, disk'[s] # None
             PROVE  \E j \in 1 .. Len(log') : /\ j <= Done' /\ disk'[s] = log'[j]
                                              /\ s \in req'[log'[j]].range
  BY DEF HeldInv
<1>1. /\ Len(log) \in Nat /\ Len(log') \in Nat /\ Len(log') >= Len(log)
      /\ Done \in Int /\ Done' \in Int /\ Done' >= Done
      /\ \A i \in 1 .. Len(log) : log'[i] = log[i] /\ req'[log[i]] = req[log[i]]
      /\ LowerDevice \/ disk' = disk
  BY LogFrame DEF QueueInv
<1>2. CASE disk'[s] = disk[s]
  <2>1. PICK j \in 1 .. Len(log) : /\ j <= Done /\ disk[s] = log[j]
                                   /\ s \in req[log[j]].range
    BY <1>2 DEF HeldInv
  <2> QED BY <1>1, <1>2, <2>1
<1>3. CASE disk'[s] # disk[s]
  <2>1. LowerDevice
    BY <1>1, <1>3
  <2>2. Retired + 1 \in 1 .. Len(log) /\ witem = log[Retired + 1] /\ Done' = Retired + 1
    BY <2>1, LowerLemma, DoneLemma DEF QueueInv
  <2>3. disk'[s] = witem /\ s \in req[witem].range
    <3>1. PICK part \in SUBSET req[witem].range : disk' = Written(witem, part)
      BY <2>1 DEF LowerDevice, LowerSucceeds, LowerFails
    <3> QED BY <1>3, <3>1 DEF Written
  <2> QED BY <1>1, <2>2, <2>3
<1> QED BY <1>2, <1>3

\* A request that its thread signalled for keeps its content.
LEMMA PastSignal ==
  ASSUME QueueTypeOK, [Next]_vars, NEW r \in Irps, pc[r] \in {"signal", "returned"}
  PROVE  req'[r] = req[r] /\ pc'[r] \in {"signal", "returned"}
<1>1. ASSUME NEW t \in Irps, Dispatch(t) \/ Continue(t)
      PROVE  req'[r] = req[r] /\ pc'[r] \in {"signal", "returned"}
  <2>1. CASE Insert(t)
    BY <2>1 DEF Insert, At, Goto, QueueTypeOK
  <2>2. CASE ~Insert(t)
    BY <1>1, <2>2, ThreadLemma
  <2> QED BY <2>1, <2>2
<1>2. CASE Worker \/ LowerDevice
  <2>1. UNCHANGED <<pc, req>>
    BY <1>2, WorkerLemma DEF Unlink, workerFrame
  <2> QED BY <2>1
<1>3. CASE Remover \/ UNCHANGED vars
  BY <1>3, RemoverFrame DEF irpVars
<1> QED BY <1>1, <1>2, <1>3, Zenon DEF Next, AttachedNext

\* Only a request that its thread inserts comes into the log.
LEMMA LogGrowth ==
  ASSUME QueueTypeOK, ListInv, [Next]_vars, NEW i \in 1 .. Len(log'), ~(i \in 1 .. Len(log))
  PROVE  log'[i] \in Irps /\ pc[log'[i]] = "insert"
<1>1. CASE \E r \in Irps : Insert(r)
  <2>1. PICK r \in Irps : Insert(r)
    BY <1>1
  <2>2. Len(log') = Len(log) + 1 /\ log'[Len(log) + 1] = r
    BY <2>1, InsertLemma
  <2>3. pc[r] = "insert"
    BY <2>1 DEF Insert, At
  <2>4. Len(log) \in Nat
    BY LenProperties DEF QueueTypeOK
  <2>5. i = Len(log) + 1
    BY <2>2, <2>4
  <2> QED BY <2>2, <2>3, <2>5
<1>2. CASE \A r \in Irps : ~Insert(r)
  <2>1. log' = log
    <3>1. ASSUME NEW r \in Irps, Dispatch(r) \/ Continue(r) PROVE log' = log
      BY <1>2, <3>1, ThreadLemma DEF listVars
    <3>2. CASE Worker \/ LowerDevice
      BY <3>2, DoneLemma
    <3>3. CASE Remover \/ UNCHANGED vars
      BY <3>3, RemoverFrame DEF listVars
    <3> QED BY <3>1, <3>2, <3>3, Zenon DEF Next, AttachedNext
  <2> QED BY <2>1
<1> QED BY <1>1, <1>2

LEMMA AgeStep ==
  ASSUME QueueInv, QueueInv', [Next]_vars, NEW w \in Irps \cup {None}
  PROVE  /\ Age(w) \in Nat /\ Age(w)' \in Nat /\ Age(w)' >= Age(w)
         /\ Age(w) # 0 => Age(w)' = Age(w)
         /\ Age(w)' # Age(w) => w \in Irps /\ pc[w] = "insert"
<1>1. AgeInv /\ AgeInv'
  BY AgeLemma, PTL DEF QueueInv
<1>2. Age(w) \in Nat /\ Age(w)' \in Nat
  BY <1>1 DEF AgeInv
<1>3. /\ Len(log) \in Nat /\ Len(log') \in Nat /\ Len(log') >= Len(log)
      /\ \A i \in 1 .. Len(log) : log'[i] = log[i]
  BY LogFrame DEF QueueInv
<1>4. CASE Age(w) # 0
  <2>1. PICK i \in 1 .. Len(log) : log[i] = w
    BY <1>1, <1>4 DEF AgeInv
  <2>2. Age(log[i]) = i /\ i \in 1 .. Len(log') /\ log'[i] = w
    BY <1>1, <1>3, <2>1 DEF AgeInv
  <2>3. Age(w)' = i
    BY <1>1, <2>2 DEF AgeInv
  <2> QED BY <1>2, <2>1, <2>2, <2>3
<1>5. CASE Age(w) = 0 /\ Age(w)' # 0
  <2>1. PICK i \in 1 .. Len(log') : log'[i] = w
    BY <1>1, <1>5 DEF AgeInv
  <2>2. ~(i \in 1 .. Len(log))
    BY <1>1, <1>3, <1>5, <2>1 DEF AgeInv
  <2> QED BY <1>2, <1>5, <2>1, <2>2, LogGrowth DEF QueueInv
<1> QED BY <1>2, <1>4, <1>5

\* A settled content keeps its age, and stays settled.
LEMMA SettledStep ==
  ASSUME QueueInv, QueueInv', [Next]_vars, NEW w \in Irps \cup {None}, NEW s \in Sectors,
         Settled(w, s)
  PROVE  Settled(w, s)' /\ (w \in failed' \/ (w \notin failed /\ Age(w)' = Age(w)))
<1>1. /\ Len(log) \in Nat /\ Len(log') \in Nat /\ Len(log') >= Len(log)
      /\ Done \in Int /\ Done' \in Int /\ Done' >= Done /\ failed \subseteq failed'
      /\ \A i \in 1 .. Len(log) : /\ log'[i] = log[i] /\ req'[log[i]] = req[log[i]]
                                  /\ log[i] \in lazy' <=> log[i] \in lazy
  BY LogFrame DEF QueueInv
<1>2. /\ Age(w) # 0 => Age(w)' = Age(w)
      /\ Age(w)' # Age(w) => w \in Irps /\ pc[w] = "insert"
  BY AgeStep
<1>3. CASE w \in failed
  BY <1>1, <1>3 DEF Settled
<1>4. CASE w \notin failed /\ w = None
  BY <1>2, <1>4, IrpsAssumption DEF Settled
<1>5. CASE w \notin failed /\ w # None /\ Age(w) = 0 /\ pc[w] \in {"signal", "returned"}
  <2>1. Age(w)' = Age(w) /\ pc'[w] \in {"signal", "returned"}
    BY <1>2, <1>5, PastSignal DEF QueueInv
  <2> QED BY <1>5, <2>1 DEF Settled
<1>6. ASSUME NEW i \in 1 .. Len(log), log[i] = w, s \in req[w].range, i <= Done \/ w \in lazy,
             w \notin failed
      PROVE  Settled(w, s)' /\ w \notin failed /\ Age(w)' = Age(w)
  <2>1. /\ i \in 1 .. Len(log') /\ log'[i] = w /\ s \in req'[w].range
        /\ i <= Done' \/ w \in lazy'
    BY <1>1, <1>6
  <2>2. Age(w) # 0
    BY <1>6, AgeLemma DEF AgeInv, QueueInv
  <2> QED BY <1>2, <1>6, <2>1, <2>2 DEF Settled
<1> QED BY <1>3, <1>4, <1>5, <1>6 DEF Settled

\* What the lower device holds never becomes older.
LEMMA DiskAgeStep ==
  ASSUME QueueInv, QueueInv', [Next]_vars, NEW s \in Sectors
  PROVE  Age(disk[s]) \in Nat /\ Age(disk[s])' \in Nat /\ Age(disk[s])' >= Age(disk[s])
<1>1. AgeInv /\ AgeInv'
  BY AgeLemma, PTL DEF QueueInv
<1>2. /\ disk[s] \in Irps \cup {None} /\ disk'[s] \in Irps \cup {None}
      /\ Age(disk[s]) \in Nat /\ Age(disk[s])' \in Nat
  BY <1>1 DEF QueueInv, QueueTypeOK, AgeInv
<1>3. CASE disk'[s] = disk[s]
  <2>1. PICK w \in Irps \cup {None} : disk[s] = w
    BY <1>2
  <2>2. Age(w)' >= Age(w)
    BY AgeStep
  <2> QED BY <1>2, <1>3, <2>1, <2>2
<1>4. CASE disk'[s] # disk[s]
  <2>1. LowerDevice
    BY <1>4, LogFrame DEF QueueInv
  <2>2. Retired + 1 \in 1 .. Len(log) /\ disk'[s] = log[Retired + 1] /\ log' = log
    BY <1>4, <2>1, LowerLemma, DoneLemma DEF QueueInv
  <2>3. Age(disk[s])' = Retired + 1
    BY <1>1, <2>2 DEF AgeInv
  <2> QED BY <1>1, <1>2, <2>3, DiskAge DEF QueueInv
<1> QED BY <1>3, <1>4

-----------------------------------------------------------------------------
(* A read that succeeds is fresh                                           *)

\* The contents that a read must not miss in a sector
Owed(x, s) == {known[x].view[s]} \cup {v \in known[x].writes : s \in req[v].range}

Recent(c, x, s) == \A w \in Owed(x, s) : w \in failed \/ Age(c) >= Age(w)

KnownOK(x) ==
  /\ known[x].writes \subseteq Irps
  /\ \A v \in known[x].writes : pc[v] \in {"signal", "returned"}
  /\ \A s \in Sectors : known[x].view[s] \in Irps \cup {None}
  /\ \A s \in Sectors : \A w \in Owed(x, s) : Settled(w, s)

\* The sectors of a read in a state d that it has yet to get from below
Awaited(d) == d.todo \cup UNION d.flying

\* What a read in a state d has got is recent, and what is below for it too;
\* nothing of its range is forgotten, unless it fails.
FillOK(d, x) ==
  /\ d.pc \in {"idle", "overlay"} => d.todo = {}
  /\ d.pc \in {"idle", "overlay", "passed", "create"} => d.fail = "SUCCESS"
  /\ d.pc = "passed" => d.todo = d.range
  /\ d.pc \in {"drop", "pending"} /\ d.fail = "SUCCESS" => d.todo = {}
  /\ d.pc = "returned" /\ d.status = "SUCCESS" =>
       d.fail = "SUCCESS" /\ Awaited(d) = {} /\ d.range \subseteq Sectors
  /\ \A s \in Awaited(d) : Recent(disk[s], x, s)
  /\ d.fail = "SUCCESS" /\ d.pc \notin {"idle", "overlay"}
       /\ (d.pc = "returned" => d.status = "SUCCESS")
     => \A s \in d.range : s \in Awaited(d) \/ (d.buf[s] # Unfilled /\ Recent(d.buf[s], x, s))

FreshInv == \A x \in Readers : FillOK(rd[x], x) /\ (rd[x].pc # "idle" => KnownOK(x))

LEMMA RecentStep ==
  ASSUME QueueInv, QueueInv', [Next]_vars, NEW x \in Readers, KnownOK(x),
         UNCHANGED known, NEW s \in Sectors
  PROVE  /\ Recent(disk[s], x, s) => Recent(disk[s], x, s)'
         /\ \A c \in Irps \cup {None} : Recent(c, x, s) => Recent(c, x, s)'
<1>1. ASSUME NEW w \in Owed(x, s)'
      PROVE  /\ w \in Irps \cup {None} /\ w \in Owed(x, s) /\ Age(w) \in Nat
             /\ w \in failed' \/ (w \notin failed /\ Age(w)' = Age(w))
  <2>1. w \in Irps \cup {None} /\ w \in Owed(x, s)
    BY PastSignal DEF Owed, KnownOK, QueueInv
  <2> QED BY <2>1, SettledStep, AgeStep DEF KnownOK
<1>2. Recent(disk[s], x, s) => Recent(disk[s], x, s)'
  <2> SUFFICES ASSUME Recent(disk[s], x, s), NEW w \in Owed(x, s)'
               PROVE  w \in failed' \/ Age(disk[s])' >= Age(w)'
    BY DEF Recent
  <2>1. w \in failed \/ Age(disk[s]) >= Age(w)
    BY <1>1 DEF Recent
  <2> QED BY <1>1, <2>1, DiskAgeStep
<1>3. ASSUME NEW c \in Irps \cup {None}, Recent(c, x, s) PROVE Recent(c, x, s)'
  <2> SUFFICES ASSUME NEW w \in Owed(x, s)'
               PROVE  w \in failed' \/ Age(c)' >= Age(w)'
    BY DEF Recent
  <2>1. w \in failed \/ Age(c) >= Age(w)
    BY <1>1, <1>3 DEF Recent
  <2> QED BY <1>1, <2>1, AgeStep
<1> QED BY <1>2, <1>3

LEMMA KnownStep ==
  ASSUME QueueInv, QueueInv', [Next]_vars, NEW x \in Readers, KnownOK(x), UNCHANGED known
  PROVE  KnownOK(x)'
<1>1. \A v \in known[x].writes : pc'[v] \in {"signal", "returned"} /\ req'[v] = req[v]
  BY PastSignal DEF KnownOK, QueueInv
<1>2. ASSUME NEW s \in Sectors, NEW w \in Owed(x, s)' PROVE Settled(w, s)'
  <2>1. w \in Irps \cup {None} /\ w \in Owed(x, s)
    BY <1>1, <1>2 DEF Owed, KnownOK
  <2> QED BY <2>1, SettledStep DEF KnownOK
<1> QED BY <1>1, <1>2 DEF KnownOK

LEMMA QueueKeepsFresh ==
  ASSUME QueueInv, QueueInv', ReadInv, FreshInv, [Next]_vars, UNCHANGED readVars
  PROVE  FreshInv'
<1> SUFFICES ASSUME NEW x \in Readers
             PROVE  FillOK(rd[x], x)' /\ ((rd[x].pc # "idle")' => KnownOK(x)')
  BY DEF FreshInv
<1>1. rd' = rd /\ known' = known
  BY DEF readVars
<1>2. PICK d : d = rd[x]
  OBVIOUS
<1>3. d \in ReadStates /\ ScatterOK(d) /\ FillOK(d, x) /\ (d.pc # "idle" => KnownOK(x))
  BY <1>2 DEF ReadInv, FreshInv
<1>4. Awaited(d) \subseteq Sectors /\ (d.pc = "idle" => Awaited(d) = {})
  BY <1>3 DEF Awaited, ReadStates, ScatterOK, FillOK
<1>5. ASSUME NEW s \in Awaited(d) PROVE Recent(disk[s], x, s)'
  <2>1. Recent(disk[s], x, s) /\ d.pc # "idle" /\ s \in Sectors
    BY <1>3, <1>4, <1>5 DEF FillOK
  <2> QED BY <1>1, <1>3, <2>1, RecentStep
<1>6. ASSUME d.fail = "SUCCESS", d.pc \notin {"idle", "overlay"},
             d.pc = "returned" => d.status = "SUCCESS", NEW s \in d.range
      PROVE  s \in Awaited(d) \/ (d.buf[s] # Unfilled /\ Recent(d.buf[s], x, s)')
  <2>1. s \in Sectors
    BY <1>3, <1>6 DEF ScatterOK, FillOK
  <2>2. s \in Awaited(d) \/ (d.buf[s] # Unfilled /\ Recent(d.buf[s], x, s))
    BY <1>3, <1>6 DEF FillOK
  <2>3. d.buf[s] # Unfilled => d.buf[s] \in Irps \cup {None}
    BY <1>3, <2>1 DEF ReadStates
  <2> QED BY <1>1, <1>3, <1>6, <2>1, <2>2, <2>3, RecentStep
<1>7. FillOK(d, x)'
  BY <1>3, <1>5, <1>6 DEF FillOK
<1>8. d.pc # "idle" => KnownOK(x)'
  BY <1>1, <1>3, KnownStep
<1> QED BY <1>1, <1>2, <1>7, <1>8

\* A step of a read changes nothing that the freshness of another read is about.
LEMMA FreshFrame ==
  ASSUME UNCHANGED lockFrame, NEW x \in Readers, known'[x] = known[x]
  PROVE  /\ KnownOK(x) => KnownOK(x)'
         /\ \A d : FillOK(d, x) => FillOK(d, x)'
<1> USE DEF lockFrame, irpVars, listVars, flagVars, removeVars, diskVars
<1>1. UNCHANGED <<log, disk, req, failed, pc, lazy>> /\ Done' = Done
  BY DEF Done, Retired
<1>2. \A w : Age(w)' = Age(w)
  BY <1>1 DEF Age
<1>3. \A s : Owed(x, s)' = Owed(x, s)
  BY <1>1 DEF Owed
<1>4. \A w, s : Settled(w, s) => Settled(w, s)'
  BY <1>1, <1>2 DEF Settled
<1>5. \A c, s : Recent(c, x, s) => Recent(c, x, s)'
  BY <1>1, <1>2, <1>3 DEF Recent
<1>6. KnownOK(x) => KnownOK(x)'
  BY <1>1, <1>3, <1>4 DEF KnownOK
<1>7. ASSUME NEW d, FillOK(d, x) PROVE FillOK(d, x)'
  <2>1. \A s \in Awaited(d) : Recent(disk[s], x, s)'
    <3>1. ASSUME NEW s \in Awaited(d) PROVE Recent(disk[s], x, s)'
      <4>1. PICK c : c = disk[s]
        OBVIOUS
      <4>2. Recent(c, x, s)'
        BY <1>5, <1>7, <3>1, <4>1 DEF FillOK
      <4> QED BY <1>1, <4>1, <4>2
    <3> QED BY <3>1
  <2> QED BY <1>5, <1>7, <2>1 DEF FillOK
<1> QED BY <1>6, <1>7

LEMMA ViewRecent ==
  ASSUME QueueInv, NEW x \in Readers, KnownOK(x), NEW s \in Sectors
  PROVE  /\ View(s) \in Irps \cup {None} /\ View(s) # Unfilled
         /\ disk[s] \in Irps \cup {None} /\ disk[s] # Unfilled
         /\ Recent(View(s), x, s)
         /\ Hits(s) = {} => View(s) = disk[s]
<1>1. ViewInv /\ disk[s] \in Irps \cup {None}
  BY ViewLemma DEF QueueInv, QueueTypeOK
<1>2. \A h \in 1 .. Len(queue) : queue[h] \in Irps
  BY ElementOfSeq DEF QueueInv, QueueTypeOK
<1>3. View(s) \in Irps \cup {None} /\ (Hits(s) = {} => View(s) = disk[s])
  BY <1>1, <1>2 DEF ViewInv
<1>4. Recent(View(s), x, s)
  <2> SUFFICES ASSUME NEW w \in Owed(x, s), w \notin failed
               PROVE  Age(View(s)) >= Age(w)
    BY DEF Recent
  <2>1. w \in Irps \cup {None} /\ Settled(w, s)
    BY DEF KnownOK, Owed
  <2> QED BY <2>1, SettledVisible DEF QueueInv
<1> QED BY <1>1, <1>3, <1>4, UnfilledAssumption

LEMMA OverlayFresh ==
  ASSUME QueueInv, ReadInv, NEW x \in Readers, FillOK(rd[x], x), KnownOK(x), Overlay(x)
  PROVE  \E e : Update(x, e) /\ FillOK(e, x)
<1> DEFINE g == rd[x].range
           clear == {s \in g : Hits(s) = {}}
           b == [s \in Sectors |-> IF s \in g \ clear THEN View(s) ELSE rd[x].buf[s]]
           d == [rd[x] EXCEPT !.todo = clear, !.buf = b]
<1>1. rd[x] \in ReadStates /\ ScatterOK(rd[x]) /\ rd[x].pc = "overlay"
  BY DEF ReadInv, Overlay
<1>2. /\ g \subseteq Sectors /\ clear \in SUBSET Sectors /\ rd[x].flying = {}
      /\ rd[x].fail = "SUCCESS"
  BY <1>1 DEF ScatterOK, FillOK
<1>3. /\ \A s \in clear : Recent(disk[s], x, s)
      /\ \A s \in g \ clear : b[s] # Unfilled /\ Recent(b[s], x, s)
      /\ b \in [Sectors -> Irps \cup {None, Unfilled}]
  BY <1>1, <1>2, ViewRecent DEF ReadStates
<1>4. Cardinality(g) \in Nat /\ "SUCCESS" \in Statuses
  BY <1>2, SectorsFinite DEF Statuses
<1>5. \/ clear = g /\ Update(x, [d EXCEPT !.pc = "passed"])
      \/ clear = {} /\ Update(x, Answered(d, "SUCCESS", Cardinality(g)))
      \/ clear # {} /\ Update(x, [d EXCEPT !.pc = "create"])
  BY Zenon DEF Overlay
<1>6. clear \subseteq g
  OBVIOUS
<1> HIDE DEF b, clear
<1>7. /\ d \in ReadStates /\ d.todo = clear /\ d.range = g /\ d.buf = b
      /\ d.flying = {} /\ d.fail = "SUCCESS"
  BY <1>1, <1>2, <1>3 DEF ReadStates
<1> HIDE DEF d
<1>8. ASSUME NEW e, e.pc \in {"passed", "create", "returned"}, e.fail = "SUCCESS",
             e.todo = clear, e.flying = {}, e.range = g, e.buf = b,
             e.pc = "returned" => clear = {}, e.pc = "passed" => clear = g
      PROVE  FillOK(e, x)
  <2>1. Awaited(e) = clear
    BY <1>8 DEF Awaited
  <2> QED BY <1>2, <1>3, <1>8, <2>1 DEF FillOK
<1>9. ASSUME NEW p \in {"passed", "create"}, p = "passed" => clear = g
      PROVE  FillOK([d EXCEPT !.pc = p], x)
  <2> DEFINE e == [d EXCEPT !.pc = p]
  <2>1. /\ e.pc = p /\ e.fail = "SUCCESS" /\ e.todo = clear /\ e.flying = {}
        /\ e.range = g /\ e.buf = b
    BY <1>7, GotoLemma DEF ReadPcs
  <2> HIDE DEF e
  <2>2. FillOK(e, x)
    BY <1>8, <1>9, <2>1
  <2> QED BY <2>2 DEF e
<1>10. clear = {} => FillOK(Answered(d, "SUCCESS", Cardinality(g)), x)
  <2>1. LET e == Answered(d, "SUCCESS", Cardinality(g)) IN
        /\ e.pc = "returned" /\ e.fail = "SUCCESS" /\ e.todo = clear /\ e.flying = {}
        /\ e.range = g /\ e.buf = b
    BY <1>4, <1>7, AnsweredLemma
  <2> QED BY <1>8, <2>1
<1> QED BY <1>5, <1>9, <1>10, Zenon

\* An answer with an error says nothing of the buffer.
LEMMA FailFresh ==
  ASSUME QueueInv, ReadInv, NEW x \in Readers, FillOK(rd[x], x),
         NEW st \in Statuses \ {"SUCCESS"}
  PROVE  FillOK(Answered(rd[x], st, 0), x)
<1>1. LET e == Answered(rd[x], st, 0) IN
      /\ e.pc = "returned" /\ e.status = st /\ e.todo = rd[x].todo
      /\ e.flying = rd[x].flying
  BY AnsweredLemma DEF ReadInv
<1> QED BY <1>1 DEF FillOK, Awaited

LEMMA PassedFresh ==
  ASSUME QueueInv, ReadInv, NEW x \in Readers, FillOK(rd[x], x), KnownOK(x),
         PassedReadEnds(x)
  PROVE  \E e : Update(x, e) /\ FillOK(e, x)
<1> DEFINE g == rd[x].range
           b == [s \in Sectors |-> IF s \in g THEN disk[s] ELSE rd[x].buf[s]]
           r == Answered(rd[x], "SUCCESS", Cardinality(g))
           f == Answered(rd[x], "IO_ERROR", 0)
           e == [r EXCEPT !.buf = b, !.todo = {}]
           h == [f EXCEPT !.todo = {}]
<1>1. /\ rd[x] \in ReadStates /\ rd[x].pc = "passed" /\ g \subseteq Sectors
      /\ rd[x].flying = {} /\ rd[x].fail = "SUCCESS"
  BY DEF ReadInv, PassedReadEnds, ScatterOK, FillOK
<1>2. Cardinality(g) \in Nat /\ 0 \in Nat /\ {"SUCCESS", "IO_ERROR"} \subseteq Statuses
  BY <1>1, SectorsFinite DEF Statuses
<1>3. \A s \in g : b[s] = disk[s] /\ disk[s] # Unfilled /\ Recent(disk[s], x, s)
  <2>1. \A s \in g : Recent(disk[s], x, s)
    BY <1>1 DEF FillOK, Awaited
  <2> QED BY <1>1, <2>1, ViewRecent
<1>4. /\ r.flying = {} /\ r.fail = "SUCCESS" /\ r.pc = "returned" /\ r.range = g
      /\ r.buf = rd[x].buf /\ r \in ReadStates
      /\ f.flying = {} /\ f.pc = "returned" /\ f.status = "IO_ERROR" /\ f \in ReadStates
  <2>1. ASSUME NEW st \in Statuses, NEW n \in Nat
        PROVE  LET a == Answered(rd[x], st, n) IN
               /\ a.flying = {} /\ a.fail = "SUCCESS" /\ a.pc = "returned" /\ a.range = g
               /\ a.buf = rd[x].buf /\ a.status = st /\ a \in ReadStates
    BY <1>1, AnsweredLemma
  <2> QED BY <1>2, <2>1
<1>5. Update(x, e) \/ Update(x, h)
  <2> HIDE DEF r, f
  <2>1. \/ Update(x, [r EXCEPT !.buf = [s \in Sectors |-> IF s \in rd[x].range
                                                          THEN disk[s] ELSE @[s]],
                               !.todo = {}])
        \/ Update(x, [f EXCEPT !.todo = {}])
    BY Zenon DEF PassedReadEnds, r, f
  <2> QED BY <1>4, <2>1
<1> HIDE DEF r, f, b
<1>6. /\ e.todo = {} /\ e.flying = {} /\ e.fail = "SUCCESS" /\ e.pc = "returned"
      /\ e.range = g /\ e.buf = b
      /\ h.todo = {} /\ h.flying = {} /\ h.pc = "returned" /\ h.status = "IO_ERROR"
  BY <1>4 DEF ReadStates
<1> HIDE DEF e, h
<1>7. FillOK(e, x)
  BY <1>1, <1>3, <1>6 DEF FillOK, Awaited
<1>8. FillOK(h, x)
  BY <1>6 DEF FillOK, Awaited
<1> QED BY <1>5, <1>7, <1>8

LEMMA CreateFresh ==
  ASSUME QueueInv, ReadInv, NEW x \in Readers, FillOK(rd[x], x), CreateScatter(x)
  PROVE  \E e : Update(x, e) /\ FillOK(e, x)
<1>1. rd[x] \in ReadStates /\ rd[x].pc = "create"
  BY DEF ReadInv, CreateScatter
<1>2. CASE Update(x, [rd[x] EXCEPT !.count = 1, !.pc = "split"])
  <2> DEFINE e == [rd[x] EXCEPT !.count = 1, !.pc = "split"]
  <2>1. /\ e.pc = "split" /\ e.fail = rd[x].fail /\ e.todo = rd[x].todo
        /\ e.flying = rd[x].flying /\ e.range = rd[x].range /\ e.buf = rd[x].buf
    BY <1>1 DEF ReadStates
  <2> HIDE DEF e
  <2>2. FillOK(e, x)
    BY <1>1, <2>1 DEF FillOK, Awaited
  <2> QED BY <1>2, <2>2 DEF e
<1>3. ASSUME NEW st \in Statuses \ {"SUCCESS"}, Update(x, Answered(rd[x], st, 0))
      PROVE  \E e : Update(x, e) /\ FillOK(e, x)
  BY <1>3, FailFresh, Zenon
<1>4. {"DELETE_PENDING", "INSUFFICIENT_RESOURCES"} \subseteq Statuses \ {"SUCCESS"}
  BY DEF Statuses
<1> QED BY <1>2, <1>3, <1>4 DEF CreateScatter

LEMMA BuildFailsFresh ==
  ASSUME ReadInv, NEW x \in Readers, FillOK(rd[x], x), BuildPartFails(x)
  PROVE  \E e : Update(x, e) /\ FillOK(e, x)
<1> DEFINE e == [rd[x] EXCEPT !.fail = "INSUFFICIENT_RESOURCES", !.pc = "drop"]
<1>1. Update(x, e)
  BY DEF BuildPartFails
<1>2. /\ e.pc = "drop" /\ e.fail = "INSUFFICIENT_RESOURCES" /\ e.todo = rd[x].todo
      /\ e.flying = rd[x].flying
  BY DEF ReadInv, ReadStates
<1> HIDE DEF e
<1>3. FillOK(e, x)
  BY <1>2 DEF FillOK, Awaited
<1> QED BY <1>1, <1>3

LEMMA SendFresh ==
  ASSUME ReadInv, NEW x \in Readers, FillOK(rd[x], x), SendPart(x)
  PROVE  \E e : Update(x, e) /\ FillOK(e, x)
<1> DEFINE d    == rd[x]
           run  == FirstRun(d.todo)
           rest == d.todo \ run
           p    == IF rest = {} THEN "drop" ELSE "split"
           e    == [d EXCEPT !.todo = rest, !.flying = @ \cup {run},
                             !.count = @ + 1, !.pc = p]
<1>1. d \in ReadStates /\ FillOK(d, x) /\ d.pc = "split" /\ Update(x, e)
  BY Zenon DEF ReadInv, SendPart
<1>2. run \subseteq d.todo /\ p \in {"split", "drop"} /\ (p = "drop" => rest = {})
  BY DEF FirstRun
<1> HIDE DEF d, run, p
<1>3. /\ e.pc = p /\ e.todo = rest /\ e.flying = d.flying \cup {run}
      /\ e.range = d.range /\ e.buf = d.buf /\ e.fail = d.fail
  <2> HIDE DEF rest
  <2> QED BY <1>1 DEF ReadStates
<1> HIDE DEF e
<1>4. Awaited(e) = Awaited(d)
  BY <1>2, <1>3 DEF Awaited
<1>5. FillOK(e, x)
  BY <1>1, <1>2, <1>3, <1>4 DEF FillOK
<1> QED BY <1>1, <1>5

\* The answer of the last reference is a success only if every run was.
LEMMA DropFresh ==
  ASSUME NEW x \in Readers, NEW d \in ReadStates, FillOK(d, x), DropReference(x, d),
         d.pc \in {"split", "drop", "pending"}, d.range \subseteq Sectors,
         ~(d.count > 1) => d.flying = {} /\ d.pc = "pending"
  PROVE  \E e : Update(x, e) /\ FillOK(e, x)
<1>1. CASE d.count > 1
  <2> DEFINE e == [d EXCEPT !.count = @ - 1]
  <2>1. Update(x, e)
    BY <1>1 DEF DropReference
  <2>2. /\ e.pc = d.pc /\ e.todo = d.todo /\ e.flying = d.flying
        /\ e.range = d.range /\ e.buf = d.buf /\ e.fail = d.fail
    BY DEF ReadStates
  <2> HIDE DEF e
  <2>3. FillOK(e, x)
    BY <2>2 DEF FillOK, Awaited
  <2> QED BY <2>1, <2>3
<1>2. CASE ~(d.count > 1)
  <2> DEFINE n == IF d.fail = "SUCCESS" THEN d.bytes ELSE 0
             a == Answered(d, d.fail, n)
             e == [a EXCEPT !.count = @ - 1]
  <2>1. Update(x, e)
    BY <1>2 DEF DropReference
  <2>2. d.fail \in Statuses /\ n \in Nat
    BY DEF ReadStates, Statuses
  <2>3. /\ a \in ReadStates /\ a.pc = "returned" /\ a.status = d.fail /\ a.fail = d.fail
        /\ a.todo = d.todo /\ a.flying = d.flying /\ a.range = d.range /\ a.buf = d.buf
    BY <2>2, AnsweredLemma
  <2> HIDE DEF a
  <2>4. /\ e.pc = "returned" /\ e.status = d.fail /\ e.fail = d.fail
        /\ e.todo = d.todo /\ e.flying = d.flying /\ e.range = d.range /\ e.buf = d.buf
    BY <2>3 DEF ReadStates
  <2> HIDE DEF e
  <2>5. FillOK(e, x)
    BY <1>2, <2>4 DEF FillOK, Awaited
  <2> QED BY <2>1, <2>5
<1> QED BY <1>1, <1>2

LEMMA EndFresh ==
  ASSUME ReadInv, NEW x \in Readers, FillOK(rd[x], x), EndSplit(x)
  PROVE  \E e : Update(x, e) /\ FillOK(e, x)
<1> DEFINE d == rd[x]
           e == [d EXCEPT !.pc = "pending"]
<1>1. d \in ReadStates /\ ScatterOK(d) /\ d.pc = "drop" /\ DropReference(x, e)
  BY DEF ReadInv, EndSplit
<1>2. /\ e \in ReadStates /\ e.pc = "pending" /\ e.count = d.count /\ e.todo = d.todo
      /\ e.flying = d.flying /\ e.range = d.range /\ e.buf = d.buf /\ e.fail = d.fail
  BY <1>1, GotoLemma DEF ReadPcs
<1>3. FillOK(d, x)
  OBVIOUS
<1> HIDE DEF d, e
<1>4. FillOK(e, x)
  BY <1>1, <1>2, <1>3 DEF FillOK, Awaited
<1>5. ~(d.count > 1) => d.flying = {}
  <2>1. /\ d.count = Cardinality(d.flying) + Cardinality(d.landed) + 1
        /\ Cardinality(d.flying) \in Nat /\ Cardinality(d.landed) \in Nat
        /\ Cardinality(d.flying) = 0 => d.flying = {}
    BY <1>1, FS_CardinalityType, FS_EmptySet DEF ScatterOK
  <2> QED BY <2>1
<1>6. d.range \subseteq Sectors
  BY <1>1 DEF ScatterOK
<1> QED BY <1>1, <1>2, <1>4, <1>5, <1>6, DropFresh

LEMMA PartEndsFresh ==
  ASSUME ReadInv, NEW x \in Readers, FillOK(rd[x], x), NEW run \in rd[x].landed,
         PartEnds(x, run)
  PROVE  \E e : Update(x, e) /\ FillOK(e, x)
<1> DEFINE d == rd[x]
           e == [d EXCEPT !.landed = @ \ {run}]
<1>1. d \in ReadStates /\ ScatterOK(d) /\ DropReference(x, e) /\ FillOK(d, x) /\ run \in d.landed
  BY DEF ReadInv, PartEnds
<1> HIDE DEF d
<1>2. /\ e \in ReadStates /\ e.pc = d.pc /\ e.count = d.count /\ e.todo = d.todo
      /\ e.flying = d.flying /\ e.range = d.range /\ e.buf = d.buf /\ e.fail = d.fail
      /\ e.status = d.status
  BY <1>1 DEF ReadStates
<1> HIDE DEF e
<1>3. FillOK(e, x)
  BY <1>1, <1>2 DEF FillOK, Awaited
<1>4. d.pc \in {"split", "drop", "pending"} /\ d.range \subseteq Sectors
  BY <1>1 DEF ScatterOK, ReadStates, ReadPcs
<1>5. ~(d.count > 1) => d.flying = {} /\ d.pc = "pending"
  <2>1. d.count = Cardinality(d.flying) + Cardinality(d.landed)
                    + (IF d.pc \in {"split", "drop"} THEN 1 ELSE 0)
    BY <1>1 DEF ScatterOK
  <2>2. /\ Cardinality(d.flying) \in Nat /\ Cardinality(d.landed) \in Nat
        /\ Cardinality(d.flying) = 0 => d.flying = {}
        /\ Cardinality(d.landed) = 0 => d.landed = {}
    BY <1>1, FS_CardinalityType, FS_EmptySet DEF ScatterOK
  <2>3. Cardinality(d.landed) # 0
    BY <1>1, <2>2
  <2> QED BY <1>4, <2>1, <2>2, <2>3
<1> QED BY <1>1, <1>2, <1>3, <1>4, <1>5, DropFresh

\* A run that comes back brings what the lower device holds at that moment.
LEMMA LandFresh ==
  ASSUME QueueInv, ReadInv, NEW x \in Readers, FillOK(rd[x], x), KnownOK(x),
         NEW run \in rd[x].flying, PartLands(x, run)
  PROVE  \E e : Update(x, e) /\ FillOK(e, x)
<1> DEFINE d == rd[x]
           l == [d EXCEPT !.flying = @ \ {run}, !.landed = @ \cup {run}]
           b == [s \in Sectors |-> IF s \in run THEN disk[s] ELSE d.buf[s]]
           g == [l EXCEPT !.bytes = @ + Cardinality(run), !.buf = b]
           f == [l EXCEPT !.fail = "IO_ERROR"]
<1>1. d \in ReadStates /\ ScatterOK(d) /\ FillOK(d, x) /\ run \in d.flying
  BY DEF ReadInv
<1>2. run \in SUBSET Sectors /\ d.pc \in {"split", "drop", "pending"}
  BY <1>1 DEF ReadStates, ReadPcs, ScatterOK
<1>3. \A s \in run : b[s] = disk[s] /\ disk[s] # Unfilled /\ Recent(disk[s], x, s)
  <2>1. \A s \in run : s \in Awaited(d)
    BY <1>1 DEF Awaited
  <2> QED BY <1>1, <1>2, <2>1, ViewRecent DEF FillOK
<1>4. \A s \in Sectors \ run : b[s] = d.buf[s]
  OBVIOUS
<1> HIDE DEF d
<1>5. /\ l.pc = d.pc /\ l.range = d.range /\ l.todo = d.todo /\ l.fail = d.fail
      /\ l.flying = d.flying \ {run} /\ l.buf = d.buf /\ DOMAIN l = DOMAIN d
  BY <1>1 DEF ReadStates
<1>6. Update(x, g) \/ Update(x, f)
  <2> HIDE DEF l
  <2>1. \/ Update(x, [l EXCEPT !.bytes = @ + Cardinality(run), !.buf =
                       [s \in Sectors |-> IF s \in run THEN disk[s] ELSE @[s]]])
        \/ Update(x, [l EXCEPT !.fail = "IO_ERROR"])
    BY Zenon DEF PartLands, l, d
  <2> QED BY <1>5, <2>1
<1> HIDE DEF l, b
<1>7. /\ g.pc = d.pc /\ g.range = d.range /\ g.todo = d.todo /\ g.fail = d.fail
      /\ g.flying = d.flying \ {run} /\ g.buf = b
      /\ f.pc = d.pc /\ f.todo = d.todo /\ f.fail = "IO_ERROR"
      /\ f.flying = d.flying \ {run}
  BY <1>1, <1>5 DEF ReadStates
<1> HIDE DEF f, g
<1>8. Awaited(g) \subseteq Awaited(d) /\ Awaited(f) \subseteq Awaited(d)
      /\ Awaited(d) \subseteq Awaited(g) \cup run
  BY <1>1, <1>7 DEF Awaited
<1>9. FillOK(f, x)
  BY <1>1, <1>2, <1>7, <1>8 DEF FillOK
<1>10. FillOK(g, x)
  <2>1. ASSUME g.fail = "SUCCESS", NEW s \in g.range
        PROVE  s \in Awaited(g) \/ (g.buf[s] # Unfilled /\ Recent(g.buf[s], x, s))
    <3>1. s \in Awaited(d) \/ (d.buf[s] # Unfilled /\ Recent(d.buf[s], x, s))
      BY <1>1, <1>2, <1>7, <2>1 DEF FillOK
    <3>2. s \in Sectors
      BY <1>1, <1>2, <1>7, <2>1 DEF ScatterOK
    <3> QED BY <1>3, <1>4, <1>7, <1>8, <3>1, <3>2
  <2> QED BY <1>1, <1>2, <1>7, <1>8, <2>1 DEF FillOK
<1> QED BY <1>6, <1>9, <1>10

\* When a read arrives, all that was acknowledged, or that could be seen, is settled.
LEMMA BeginKnown ==
  ASSUME QueueInv, HeldInv, NEW x \in Readers, BeginRead(x),
         x \in DOMAIN known
  PROVE  KnownOK(x)'
<1> DEFINE k == [writes |-> FinishedWrites, view |-> [s \in Sectors |-> View(s)]]
<1>1. known'[x] = k
  BY DEF BeginRead
<1>2. UNCHANGED <<log, req, lazy, pc, failed>> /\ Done' = Done
  BY DEF BeginRead, vars, irpVars, listVars, diskVars, Done, Retired
<1>3. \A w : Age(w)' = Age(w)
  BY <1>2 DEF Age
<1>4. \A v \in FinishedWrites : v \in Irps /\ pc[v] \in {"signal", "returned"}
  BY DEF FinishedWrites, QueueInv, CompletedOnce, OwnedByThread
<1>5. ASSUME NEW s \in Sectors PROVE View(s) \in Irps \cup {None} /\ Settled(View(s), s)
  <2>1. ViewInv /\ disk[s] \in Irps \cup {None} /\ DOMAIN queue = 1 .. Len(queue)
    BY ViewLemma, LenProperties DEF QueueInv, QueueTypeOK
  <2>2. CASE Hits(s) = {}
    <3>1. View(s) = disk[s]
      BY <2>1, <2>2 DEF ViewInv
    <3> QED BY <2>1, <3>1 DEF HeldInv, Settled
  <2>3. CASE Hits(s) # {}
    <3>1. PICK h \in Hits(s) : h \in 1 .. Len(queue) /\ View(s) = queue[h]
      BY <2>1, <2>3 DEF ViewInv
    <3>2. queue[h] \in lazy /\ s \in req[queue[h]].range /\ queue[h] \in Irps
      BY <3>1, ElementOfSeq DEF Hits, QueueInv, QueueTypeOK
    <3>3. Retired + h \in 1 .. Len(log) /\ queue[h] = log[Retired + h]
      BY <3>1, LenProperties DEF QueueInv, ListInv, QueueTypeOK, Retired
    <3> QED BY <3>1, <3>2, <3>3 DEF Settled
  <2> QED BY <2>2, <2>3
<1>6. ASSUME NEW s \in Sectors, NEW w \in Owed(x, s)' PROVE Settled(w, s)'
  <2>1. Settled(w, s)
    BY <1>1, <1>2, <1>5, <1>6, FinishedSettled DEF Owed, QueueInv
  <2> QED BY <1>2, <1>3, <2>1 DEF Settled
<1> QED BY <1>1, <1>2, <1>4, <1>5, <1>6 DEF KnownOK

\* Of a read that arrived nothing is awaited and nothing filled yet.
Blank(d) == /\ d.todo = {} /\ d.flying = {} /\ d.fail = "SUCCESS"
            /\ \/ d.pc = "overlay"
               \/ d.pc = "returned" /\ (d.status # "SUCCESS" \/ d.range = {})

LEMMA BeginBlank ==
  ASSUME ReadInv, NEW x \in Readers, FillOK(rd[x], x), BeginRead(x)
  PROVE  \E e : Update(x, e) /\ Blank(e)
<1>1. /\ rd[x] \in ReadStates /\ rd[x].pc = "idle" /\ rd[x].todo = {} /\ rd[x].flying = {}
      /\ rd[x].fail = "SUCCESS"
  BY DEF ReadInv, BeginRead, ScatterOK, FillOK
<1>2. PICK g \in ReadRanges :
        LET d == [rd[x] EXCEPT !.range = g] IN
          \/ g = {} /\ Update(x, Answered(d, "SUCCESS", 0))
          \/ Update(x, Answered(d, "END_OF_MEDIA", 0))
          \/ Update(x, Answered(d, "INSUFFICIENT_RESOURCES", 0))
          \/ Update(x, [d EXCEPT !.pc = "overlay"])
  BY DEF BeginRead
<1> DEFINE d == [rd[x] EXCEPT !.range = g]
<1>3. d \in ReadStates /\ d.todo = {} /\ d.flying = {} /\ d.fail = "SUCCESS" /\ d.range = g
  BY <1>1, ReadRangesAssumption DEF ReadStates
<1> HIDE DEF d
<1>4. ASSUME NEW st \in Statuses, g = {} \/ st # "SUCCESS"
      PROVE  Blank(Answered(d, st, 0))
  <2>1. LET e == Answered(d, st, 0) IN
        /\ e.pc = "returned" /\ e.status = st /\ e.todo = {} /\ e.flying = {}
        /\ e.fail = "SUCCESS" /\ e.range = g
    BY <1>3, AnsweredLemma
  <2> QED BY <1>4, <2>1 DEF Blank
<1>5. Blank([d EXCEPT !.pc = "overlay"])
  BY <1>3 DEF ReadStates, Blank
<1>6. {"SUCCESS", "END_OF_MEDIA", "INSUFFICIENT_RESOURCES"} \subseteq Statuses
  BY DEF Statuses
<1>7. \/ g = {} /\ Update(x, Answered(d, "SUCCESS", 0))
      \/ Update(x, Answered(d, "END_OF_MEDIA", 0))
      \/ Update(x, Answered(d, "INSUFFICIENT_RESOURCES", 0))
      \/ Update(x, [d EXCEPT !.pc = "overlay"])
  BY <1>2, Zenon DEF d
<1> QED BY <1>4, <1>5, <1>6, <1>7

LEMMA ReadersKeepFresh ==
  ASSUME QueueInv, HeldInv, ReadInv, FreshInv, ReadersNext, DOMAIN known = Readers
  PROVE  FreshInv' /\ DOMAIN known' = Readers
<1>1. PICK x \in Readers : BeginRead(x) \/ ReadThread(x) \/ ReadBelow(x)
  BY DEF ReadersNext
<1>2. UNCHANGED lockFrame
  BY ReadersFrame
<1>3. FillOK(rd[x], x) /\ (rd[x].pc # "idle" => KnownOK(x))
  BY DEF FreshInv
<1>4. /\ DOMAIN known' = Readers /\ \A y \in Readers \ {x} : known'[y] = known[y]
      /\ \E e : Update(x, e) /\ FillOK(e, x)' /\ (e.pc # "idle" => KnownOK(x)')
  <2>1. CASE BeginRead(x)
    <3>1. /\ DOMAIN known' = Readers /\ \A y \in Readers \ {x} : known'[y] = known[y]
      BY <2>1 DEF BeginRead
    <3>2. KnownOK(x)'
      BY <2>1, BeginKnown
    <3>3. PICK e : Update(x, e) /\ Blank(e)
      BY <1>3, <2>1, BeginBlank
    <3>4. FillOK(e, x)'
      BY <3>3 DEF Blank, FillOK, Awaited
    <3> QED BY <3>1, <3>2, <3>3, <3>4
  <2>2. CASE ReadThread(x) \/ ReadBelow(x)
    <3>1. known' = known /\ rd[x].pc # "idle"
      <4>1. CASE ReadThread(x)
        BY <4>1 DEF ReadThread, Overlay, CreateScatter, SendPart, BuildPartFails, EndSplit
      <4>2. CASE ReadBelow(x)
        BY <4>2 DEF ReadBelow, PassedReadEnds, PartLands, PartEnds, ReadInv, ScatterOK
      <4> QED BY <2>2, <4>1, <4>2
    <3>2. \E e : Update(x, e) /\ FillOK(e, x)
      <4>1. CASE ReadThread(x)
        BY <1>3, <3>1, <4>1, OverlayFresh, CreateFresh, SendFresh, BuildFailsFresh, EndFresh
           DEF ReadThread
      <4>2. CASE PassedReadEnds(x)
        BY <1>3, <3>1, <4>2, PassedFresh
      <4>3. ASSUME NEW run \in rd[x].flying \cup rd[x].landed, PartLands(x, run)
            PROVE  \E e : Update(x, e) /\ FillOK(e, x)
        BY <1>3, <3>1, <4>3, LandFresh DEF PartLands
      <4>4. ASSUME NEW run \in rd[x].flying \cup rd[x].landed, PartEnds(x, run)
            PROVE  \E e : Update(x, e) /\ FillOK(e, x)
        BY <1>3, <4>4, PartEndsFresh DEF PartEnds
      <4> QED BY <2>2, <4>1, <4>2, <4>3, <4>4, Zenon DEF ReadBelow
    <3>3. PICK e : Update(x, e) /\ FillOK(e, x)
      BY <3>2
    <3>4. FillOK(e, x)' /\ KnownOK(x)'
      BY <1>2, <1>3, <3>1, <3>3, FreshFrame
    <3> QED BY <3>1, <3>3, <3>4
  <2> QED BY <1>1, <2>1, <2>2
<1>5. PICK e : Update(x, e) /\ FillOK(e, x)' /\ (e.pc # "idle" => KnownOK(x)')
  BY <1>4
<1>6. rd'[x] = e /\ \A y \in Readers \ {x} : rd'[y] = rd[y]
  BY <1>5 DEF Update, ReadInv
<1>7. FillOK(rd[x], x)' /\ ((rd[x].pc # "idle")' => KnownOK(x)')
  BY <1>5, <1>6
<1>8. ASSUME NEW y \in Readers \ {x}
      PROVE  FillOK(rd[y], y)' /\ ((rd[y].pc # "idle")' => KnownOK(y)')
  <2>1. PICK d : d = rd[y]
    OBVIOUS
  <2>2. FillOK(d, y) /\ (d.pc # "idle" => KnownOK(y)) /\ known'[y] = known[y]
    BY <1>4, <2>1 DEF FreshInv
  <2>3. FillOK(d, y)' /\ (d.pc # "idle" => KnownOK(y)')
    BY <1>2, <2>2, FreshFrame
  <2> QED BY <1>6, <2>1, <2>3
<1> QED BY <1>4, <1>7, <1>8 DEF FreshInv

\* A read that succeeds returns, in every sector, content that is no older than
\* what had been acknowledged or could be seen when it arrived, although it
\* looks at the list once and at the lower device later, in any number of
\* parts, while the worker moves items from the one to the other.
THEOREM ReadsAreFresh == ReadSpec => []ReadIsFresh
<1>1. ReadInit => HeldInv /\ FreshInv /\ DOMAIN known = Readers
  <2> SUFFICES ASSUME ReadInit PROVE HeldInv /\ FreshInv /\ DOMAIN known = Readers
    OBVIOUS
  <2>1. HeldInv /\ DOMAIN known = Readers
    BY DEF ReadInit, Init, HeldInv
  <2>2. /\ NewRead.pc = "idle" /\ NewRead.todo = {} /\ NewRead.flying = {}
        /\ NewRead.fail = "SUCCESS"
    BY DEF NewRead
  <2>3. \A x \in Readers : rd[x] = NewRead
    BY DEF ReadInit
  <2>4. FreshInv
    BY <2>2, <2>3 DEF FreshInv, FillOK, Awaited
  <2> QED BY <2>1, <2>4
<1>2. /\ QueueInv /\ QueueInv' /\ HeldInv /\ ReadInv /\ FreshInv /\ DOMAIN known = Readers
      /\ [ReadNext]_<<vars, readVars>>
      => HeldInv' /\ FreshInv' /\ (DOMAIN known = Readers)'
  <2> SUFFICES ASSUME QueueInv, QueueInv', HeldInv, ReadInv, FreshInv, DOMAIN known = Readers,
                      [ReadNext]_<<vars, readVars>>
               PROVE  HeldInv' /\ FreshInv' /\ DOMAIN known' = Readers
    OBVIOUS
  <2>1. CASE ReadersNext
    <3>1. UNCHANGED <<disk, log, req, queue, wpc>>
      BY <2>1, ReadersFrame DEF lockFrame, irpVars, listVars, diskVars
    <3> QED BY <2>1, <3>1, ReadersKeepFresh DEF HeldInv, Done, Retired
  <2>2. CASE [Next]_vars /\ UNCHANGED readVars
    BY <2>2, HeldStep, QueueKeepsFresh DEF readVars
  <2> QED BY <2>1, <2>2 DEF ReadNext
<1>3. ReadInv /\ FreshInv => ReadIsFresh
  <2> SUFFICES ASSUME ReadInv, FreshInv, NEW x \in Readers, Succeeded(x),
                      NEW s \in rd[x].range
               PROVE  /\ rd[x].buf[s] # Unfilled
                      /\ \A w \in Owed(x, s) : w \in failed \/ Age(rd[x].buf[s]) >= Age(w)
    BY DEF ReadIsFresh, Owed
  <2>1. rd[x].pc = "returned" /\ rd[x].status = "SUCCESS"
    BY DEF Succeeded, ReadInv, ScatterOK
  <2>2. FillOK(rd[x], x)
    BY DEF FreshInv
  <2>3. rd[x].fail = "SUCCESS" /\ Awaited(rd[x]) = {}
    BY <2>1, <2>2 DEF FillOK
  <2> QED BY <2>1, <2>2, <2>3 DEF FillOK, Recent
<1> QED BY <1>1, <1>2, <1>3, ReadInvariant, PTL DEF ReadSpec
=============================================================================
