-------------------------- MODULE DurabilityProofs --------------------------
(* What has left the list is on the lower device, and what a successful    *)
(* flush covers is out of the lower device's cache.                        *)
EXTENDS WriteQueueProofs, WellFoundedInduction

\* How many entries of the log the lower device, or PassMarker, is done with
Done == Retired + IF wpc \in {"complete", "unlink"} THEN 1 ELSE 0

RangeInv ==
  /\ \A r \in Irps : pc[r] \in {"limits", "lazy", "defer", "insert"} =>
       req[r].range \subseteq Sectors
  /\ \A i \in 1 .. Len(log) : req[log[i]].range \subseteq Sectors

CommitInv == \A i \in 1 .. Len(log) : i <= Done /\ log[i] \notin failed =>
  \A s \in req[log[i]].range : \E j \in 1 .. Len(log) : i <= j /\ disk[s] = log[j]

FlushInv == \A j \in 1 .. Len(log) :
  /\ j <= Done /\ log[j] \notin lazy
  /\ req[log[j]].kind \in FlushKinds /\ status[log[j]] = "SUCCESS"
  => \A i \in 1 .. j : log[i] \notin unflushed

-----------------------------------------------------------------------------
(* What the steps leave alone                                              *)

\* A dispatch thread changes nothing of a request that is in the log, but the
\* status of a lazy one.
LEMMA ThreadFrame ==
  ASSUME QueueTypeOK, ListInv, NEW r \in Irps, Dispatch(r) \/ Continue(r)
  PROVE  /\ UNCHANGED diskVars /\ Done' = Done /\ Len(log') \in Nat
         /\ Len(log') >= Len(log)
         /\ \A i \in 1 .. Len(log) :
              /\ log'[i] = log[i] /\ req'[log[i]] = req[log[i]]
              /\ log[i] \in lazy' <=> log[i] \in lazy
              /\ log[i] \notin lazy => status'[log[i]] = status[log[i]]
<1>1. Len(log) \in Nat /\ \A i \in 1 .. Len(log) : log[i] \in Irps
  BY ElementOfSeq, LenProperties DEF QueueTypeOK
<1>2. CASE Insert(r)
  <2>1. UNCHANGED <<req, lazy, status, wpc, diskVars>>
    BY <1>2 DEF Insert, threadFrame
  <2> QED BY <1>1, <1>2, <2>1, InsertLemma DEF Done
<1>3. CASE ~Insert(r)
  <2>1. UNCHANGED <<log, queue, wpc, diskVars>>
    BY <1>3, ThreadLemma DEF listVars, threadFrame
  <2>2. \A i \in 1 .. Len(log) :
          /\ req'[log[i]] = req[log[i]]
          /\ log[i] \in lazy' <=> log[i] \in lazy
          /\ log[i] \notin lazy => status'[log[i]] = status[log[i]]
    BY <1>1, <1>3, ThreadLemma DEF ListInv
  <2> QED BY <1>1, <2>1, <2>2 DEF Done, Retired
<1> QED BY <1>2, <1>3

\* The worker is done with one entry more when it has its outcome, and with no
\* other step.
LEMMA DoneLemma ==
  ASSUME QueueTypeOK, ListInv, Worker \/ LowerDevice
  PROVE  /\ log' = log /\ req' = req /\ lazy' = lazy
         /\ LowerDevice \/ PassMarker => Done = Retired /\ Done' = Retired + 1
         /\ ~(LowerDevice \/ PassMarker) => Done' = Done /\ status' = status
                                            /\ UNCHANGED diskVars
<1>1. Len(log) \in Nat /\ Len(queue) \in Nat /\ Retired \in Nat
  BY LenProperties DEF QueueTypeOK, ListInv
<1>2. CASE Unlink
  <2>1. /\ UNCHANGED <<log, req, lazy, status, diskVars>>
        /\ wpc = "unlink" /\ wpc' = "release"
    BY <1>2 DEF Unlink, WGoto, workerFrame
  <2>2. Len(queue') = Len(queue) - 1
    BY <1>2, UnlinkLemma
  <2>3. Done' = Done
    BY <1>1, <2>1, <2>2 DEF Done, Retired
  <2>4. ~(LowerDevice \/ PassMarker)
    BY <2>1 DEF LowerDevice, LowerSucceeds, LowerFails, PassMarker, WGoto
  <2> QED BY <2>1, <2>3, <2>4
<1>3. CASE ~Unlink
  <2>1. UNCHANGED <<log, queue, req, lazy>>
    BY <1>3, WorkerLemma DEF workerFrame
  <2>2. CASE LowerDevice \/ PassMarker
    <3>1. wpc \in {"lower", "item"} /\ wpc' = "complete"
      BY <2>2 DEF LowerDevice, LowerSucceeds, LowerFails, PassMarker, WGoto
    <3> QED BY <1>1, <2>1, <2>2, <3>1 DEF Done, Retired
  <2>3. CASE ~(LowerDevice \/ PassMarker)
    <3>1. /\ wpc \in {"complete", "unlink"} <=> wpc' \in {"complete", "unlink"}
          /\ UNCHANGED <<status, diskVars>>
      BY <1>3, <2>3 DEF Worker, WGoto, LookAtHead, CheckShutdown, WakeUp,
           SendDown, BuildFails, CompleteIrp, ReleaseItem
    <3> QED BY <2>1, <2>3, <3>1 DEF Done, Retired
  <2> QED BY <2>1, <2>2, <2>3
<1> QED BY <1>2, <1>3

LEMMA RemoverFrame ==
  ASSUME Remover \/ UNCHANGED vars
  PROVE  /\ UNCHANGED <<irpVars, listVars, wpc, witem, disk, failed>>
         /\ Done' = Done /\ unflushed' \subseteq unflushed
<1>1. UNCHANGED <<irpVars, listVars, wpc, witem, disk, failed>>
  BY RemoverLemma DEF vars, diskVars
<1>2. Done' = Done
  BY <1>1 DEF Done, Retired, listVars
<1>3. unflushed' \subseteq unflushed
  BY DEF vars, diskVars, Remover, BeginRemove, RequestExit, WakeWorker,
         JoinWorker, FinalFlush, CloseLock, DeleteDevice
<1> QED BY <1>1, <1>2, <1>3

-----------------------------------------------------------------------------
(* Acknowledged writes                                                     *)

\* What enters the list passed the range check of QCacheWrite.
LEMMA RangeStep == QueueTypeOK /\ ListInv /\ RangeInv /\ [Next]_vars => RangeInv'
<1> SUFFICES ASSUME QueueTypeOK, ListInv, RangeInv, [Next]_vars PROVE RangeInv'
  OBVIOUS
<1>1. Len(log) \in Nat /\ \A i \in 1 .. Len(log) : log[i] \in Irps
  BY ElementOfSeq, LenProperties DEF QueueTypeOK
<1>2. ASSUME NEW r \in Irps, Insert(r) PROVE RangeInv'
  <2>1. req' = req /\ pc[r] = "insert" /\ pc' = [pc EXCEPT ![r] = "signal"]
    BY <1>2 DEF Insert, At, Goto
  <2>2. /\ Len(log') = Len(log) + 1 /\ log'[Len(log) + 1] = r
        /\ \A i \in 1 .. Len(log) : log'[i] = log[i]
    BY <1>2, InsertLemma
  <2>3. \A t \in Irps : pc'[t] \in {"limits", "lazy", "defer", "insert"} =>
          req'[t].range \subseteq Sectors
    BY <2>1 DEF QueueTypeOK, RangeInv
  <2>4. req[r].range \subseteq Sectors
    BY <2>1 DEF RangeInv
  <2>5. \A i \in 1 .. Len(log') : req'[log'[i]].range \subseteq Sectors
    <3> SUFFICES ASSUME NEW i \in 1 .. Len(log')
                 PROVE  req[log'[i]].range \subseteq Sectors
      BY <2>1
    <3>1. i \in 1 .. Len(log) \/ i = Len(log) + 1
      BY <1>1, <2>2
    <3> QED BY <2>2, <2>4, <3>1 DEF RangeInv
  <2> QED BY <2>3, <2>5 DEF RangeInv
<1>3. ASSUME NEW r \in Irps, Dispatch(r) \/ Continue(r), ~Insert(r) PROVE RangeInv'
  <2>1. /\ log' = log
        /\ \A t \in Irps \ {r} : pc'[t] = pc[t] /\ req'[t] = req[t]
    BY <1>3, ThreadLemma DEF listVars
  <2>2. \A i \in 1 .. Len(log) : req'[log[i]] = req[log[i]]
    BY <1>3, ThreadFrame
  <2>3. pc'[r] \in {"limits", "lazy", "defer", "insert"} => req'[r].range \subseteq Sectors
    <3>1. ASSUME NEW q \in Requests, EnterQueueIrp(r, q)
          PROVE  req'[r].range \subseteq Sectors
      <4>1. q.kind = "write" => q.range \subseteq Sectors
        BY <3>1 DEF EnterQueueIrp
      <4>2. q.kind # "write" => q.range = {}
        BY DEF Requests
      <4>3. req'[r] = q
        BY <3>1 DEF EnterQueueIrp, Arrive, QueueTypeOK
      <4> QED BY <4>1, <4>2, <4>3
    <3>2. ASSUME NEW q \in Requests, AnswerAtOnce(r, q) \/ TurnOn(r, q)
          PROVE  pc'[r] = "returned"
      BY <3>2 DEF AnswerAtOnce, TurnOn, CompleteAndReturn, Goto, QueueTypeOK
    <3>3. CASE AdmitLazily(r) \/ Decline(r) \/ NoItem(r) \/ NoBuffer(r) \/ MakeItem(r)
      <4>1. req' = req /\ pc[r] \in {"limits", "lazy", "defer"}
        BY <3>3 DEF AdmitLazily, Decline, NoItem, NoBuffer, MakeItem, At
      <4> QED BY <4>1 DEF RangeInv
    <3>4. CASE Signal(r)
      BY <3>4 DEF Signal, CompleteAndReturn, Goto, QueueTypeOK
    <3> QED BY <1>3, <3>1, <3>2, <3>3, <3>4, Zenon DEF Dispatch, Continue
  <2> QED BY <1>1, <2>1, <2>2, <2>3 DEF RangeInv
<1>4. CASE Worker \/ LowerDevice
  <2>1. log' = log /\ req' = req
    BY <1>4, DoneLemma
  <2>2. pc' = pc
    BY <1>4, WorkerLemma DEF Unlink, workerFrame
  <2> QED BY <2>1, <2>2 DEF RangeInv
<1>5. CASE Remover \/ UNCHANGED vars
  BY <1>5, RemoverFrame DEF RangeInv, irpVars, listVars
<1> QED BY <1>2, <1>3, <1>4, <1>5, Zenon DEF Next, AttachedNext

\* Only LowerSucceeds and LowerFails change the disk, and only to the item of
\* which they are the outcome.
LEMMA LowerLemma ==
  ASSUME QueueTypeOK, ListInv, RangeInv, LowerDevice
  PROVE  /\ Retired + 1 \in 1 .. Len(log) /\ witem = log[Retired + 1]
         /\ \A s \in Sectors : disk'[s] = witem \/ disk'[s] = disk[s]
         /\ failed \subseteq failed'
         /\ witem \notin failed' => \A s \in req[witem].range : disk'[s] = witem
<1>1. Retired + 1 \in 1 .. Len(log) /\ witem = log[Retired + 1]
  BY CarriedLemma DEF LowerDevice, LowerSucceeds, LowerFails, WGoto, Carrying
<1>2. req[witem].range \subseteq Sectors
  BY <1>1 DEF RangeInv
<1>3. CASE LowerSucceeds
  <2>1. disk' = Written(witem, req[witem].range) /\ failed' = failed
    BY <1>3 DEF LowerSucceeds
  <2> QED BY <1>1, <1>2, <2>1 DEF Written
<1>4. CASE LowerFails
  <2>1. PICK part \in SUBSET req[witem].range : disk' = Written(witem, part)
    BY <1>4 DEF LowerFails
  <2>2. failed' = failed \cup {witem}
    BY <1>4 DEF LowerFails
  <2> QED BY <1>1, <2>1, <2>2 DEF Written
<1> QED BY <1>3, <1>4 DEF LowerDevice

LEMMA CommitStep ==
  QueueTypeOK /\ ListInv /\ RangeInv /\ CommitInv /\ [Next]_vars => CommitInv'
<1> SUFFICES ASSUME QueueTypeOK, ListInv, RangeInv, CommitInv, [Next]_vars
             PROVE  CommitInv'
  OBVIOUS
<1>1. /\ Len(log) \in Nat /\ Len(queue) \in Nat /\ Retired \in Nat
      /\ Retired <= Len(log) /\ Done \in Nat
      /\ wpc \in {"complete", "unlink"} => Retired + 1 \in 1 .. Len(log)
  BY LenProperties, CarriedLemma DEF QueueTypeOK, ListInv, Done, Retired, Carrying
<1>2. Done <= Len(log)
  BY <1>1 DEF Done
<1>3. ASSUME NEW r \in Irps, Dispatch(r) \/ Continue(r) PROVE CommitInv'
  <2> SUFFICES ASSUME NEW i \in 1 .. Len(log'), i <= Done', log'[i] \notin failed',
                      NEW s \in req'[log'[i]].range
               PROVE  \E j \in 1 .. Len(log') : i <= j /\ disk'[s] = log'[j]
    BY DEF CommitInv
  <2>1. /\ UNCHANGED diskVars /\ Done' = Done /\ Len(log') \in Nat
        /\ Len(log') >= Len(log)
        /\ \A k \in 1 .. Len(log) : log'[k] = log[k] /\ req'[log[k]] = req[log[k]]
    BY <1>3, ThreadFrame
  <2>2. i \in 1 .. Len(log)
    BY <1>1, <1>2, <2>1
  <2>3. i <= Done /\ log[i] \notin failed /\ s \in req[log[i]].range
    BY <2>1, <2>2 DEF diskVars
  <2>4. PICK j \in 1 .. Len(log) : i <= j /\ disk[s] = log[j]
    BY <2>2, <2>3 DEF CommitInv
  <2> QED BY <1>1, <2>1, <2>4 DEF diskVars
<1>4. CASE LowerDevice
  <2> SUFFICES ASSUME NEW i \in 1 .. Len(log'), i <= Done', log'[i] \notin failed',
                      NEW s \in req'[log'[i]].range
               PROVE  \E j \in 1 .. Len(log') : i <= j /\ disk'[s] = log'[j]
    BY DEF CommitInv
  <2>1. log' = log /\ req' = req /\ Done = Retired /\ Done' = Retired + 1
    BY <1>4, DoneLemma
  <2>2. /\ Retired + 1 \in 1 .. Len(log) /\ witem = log[Retired + 1]
        /\ \A x \in Sectors : disk'[x] = witem \/ disk'[x] = disk[x]
        /\ failed \subseteq failed'
        /\ witem \notin failed' => \A x \in req[witem].range : disk'[x] = witem
    BY <1>4, LowerLemma
  <2>3. s \in Sectors
    BY <2>1 DEF RangeInv
  <2>4. CASE disk'[s] = witem
    BY <2>1, <2>2, <2>4
  <2>5. CASE disk'[s] # witem
    <3>1. i # Retired + 1
      BY <2>1, <2>2, <2>5
    <3>2. i <= Done /\ log[i] \notin failed /\ disk'[s] = disk[s]
      BY <1>1, <2>1, <2>2, <2>3, <2>5, <3>1
    <3> QED BY <2>1, <3>2 DEF CommitInv
  <2> QED BY <2>4, <2>5
<1>5. CASE PassMarker
  <2> SUFFICES ASSUME NEW i \in 1 .. Len(log), i <= Done', log[i] \notin failed,
                      NEW s \in req[log[i]].range
               PROVE  \E j \in 1 .. Len(log) : i <= j /\ disk[s] = log[j]
    <3>1. log' = log /\ req' = req
      BY <1>5, DoneLemma DEF Worker
    <3>2. UNCHANGED <<disk, failed>>
      BY <1>5 DEF PassMarker, diskVars
    <3> QED BY <3>1, <3>2 DEF CommitInv
  <2>1. Done = Retired /\ Done' = Retired + 1
    BY <1>5, DoneLemma DEF Worker
  <2>2. witem = log[Retired + 1] /\ req[witem].kind # "write"
    BY <1>5, CarriedLemma DEF PassMarker, IsMarker, MarkerKinds, WGoto, Carrying
  <2>3. req[witem].range = {}
    <3>1. req[witem] \in Requests \cup {[kind |-> "control", range |-> {}]}
      BY <1>5 DEF QueueTypeOK, PassMarker, WGoto
    <3> QED BY <2>2, <3>1 DEF Requests
  <2>4. i <= Done
    BY <1>1, <2>1, <2>2, <2>3
  <2> QED BY <2>4 DEF CommitInv
<1>6. CASE Worker /\ ~PassMarker
  <2>1. ~LowerDevice \/ LowerDevice
    OBVIOUS
  <2>2. ~LowerDevice => /\ log' = log /\ req' = req /\ Done' = Done
                        /\ UNCHANGED diskVars
    BY <1>6, DoneLemma
  <2>3. ~LowerDevice => CommitInv'
    BY <2>2 DEF CommitInv, diskVars
  <2> QED BY <1>4, <2>3
<1>7. CASE Remover \/ UNCHANGED vars
  BY <1>7, RemoverFrame DEF CommitInv, irpVars, listVars
<1> QED BY <1>3, <1>4, <1>5, <1>6, <1>7, Zenon DEF Next, AttachedNext

\* A write that was acknowledged is never dropped: when its item has left the
\* list, the lower device has it, a newer write of the sector, or failed it.
THEOREM WritesAreNotLost == Spec => []NoLostWrite
<1>1. Init => RangeInv /\ CommitInv
  <2> SUFFICES ASSUME Init PROVE RangeInv /\ CommitInv
    OBVIOUS
  <2>1. Len(log) = 0 /\ \A r \in Irps : pc[r] = "idle"
    BY EmptySeq DEF Init
  <2> QED BY <2>1 DEF RangeInv, CommitInv
<1>2. QueueTypeOK /\ ListInv /\ CommitInv => NoLostWrite
  <2> SUFFICES ASSUME QueueTypeOK, ListInv, CommitInv, NEW i \in DOMAIN log,
                      NEW s \in req[log[i]].range, log[i] \notin Queued \cup failed
               PROVE  \E j \in DOMAIN log : j >= i /\ disk[s] = log[j]
    BY DEF NoLostWrite
  <2>1. DOMAIN log = 1 .. Len(log) /\ Len(log) \in Nat /\ Retired \in Nat
    BY LenProperties DEF QueueTypeOK, ListInv
  <2>2. i <= Retired
    BY <2>1, QueuedLemma
  <2>3. i <= Done
    BY <2>1, <2>2 DEF Done
  <2>4. PICK j \in 1 .. Len(log) : i <= j /\ disk[s] = log[j]
    BY <2>1, <2>3 DEF CommitInv
  <2> QED BY <2>1, <2>4
<1> QED BY <1>1, <1>2, RangeStep, CommitStep, QueueTypeCorrect, ListCorrect, PTL DEF Spec

-----------------------------------------------------------------------------
(* Flushes                                                                 *)

LEMMA FlushStep == QueueTypeOK /\ ListInv /\ FlushInv /\ [Next]_vars => FlushInv'
<1> SUFFICES ASSUME QueueTypeOK, ListInv, FlushInv, [Next]_vars PROVE FlushInv'
  OBVIOUS
<1>1. /\ Len(log) \in Nat /\ Len(queue) \in Nat /\ Retired \in Nat
      /\ Retired <= Len(log)
      /\ wpc \in {"complete", "unlink"} => Retired + 1 \in 1 .. Len(log)
  BY LenProperties, CarriedLemma DEF QueueTypeOK, ListInv, Retired, Carrying
<1>2. Done \in Nat /\ Done <= Len(log)
  BY <1>1 DEF Done
<1>3. ASSUME NEW r \in Irps, Dispatch(r) \/ Continue(r) PROVE FlushInv'
  <2> SUFFICES ASSUME NEW j \in 1 .. Len(log'), j <= Done', log'[j] \notin lazy',
                      req'[log'[j]].kind \in FlushKinds,
                      status'[log'[j]] = "SUCCESS",
                      NEW i \in 1 .. j
               PROVE  log'[i] \notin unflushed'
    BY DEF FlushInv
  <2>1. /\ UNCHANGED diskVars /\ Done' = Done /\ Len(log') \in Nat
        /\ \A k \in 1 .. Len(log) :
             /\ log'[k] = log[k] /\ req'[log[k]] = req[log[k]]
             /\ log[k] \in lazy' <=> log[k] \in lazy
             /\ log[k] \notin lazy => status'[log[k]] = status[log[k]]
    BY <1>3, ThreadFrame
  <2>2. j \in 1 .. Len(log) /\ i \in 1 .. Len(log)
    BY <1>1, <1>2, <2>1
  <2>3. /\ j <= Done /\ log[j] \notin lazy /\ req[log[j]].kind \in FlushKinds
        /\ status[log[j]] = "SUCCESS"
    BY <2>1, <2>2
  <2> QED BY <2>1, <2>2, <2>3 DEF FlushInv, diskVars
<1>4. CASE LowerDevice \/ PassMarker
  <2> SUFFICES ASSUME NEW j \in 1 .. Len(log), j <= Done', log[j] \notin lazy,
                      req[log[j]].kind \in FlushKinds,
                      status'[log[j]] = "SUCCESS",
                      NEW i \in 1 .. j
               PROVE  log[i] \notin unflushed'
    <3>1. log' = log /\ req' = req /\ lazy' = lazy
      BY <1>4, DoneLemma DEF Worker
    <3> QED BY <3>1 DEF FlushInv
  <2>1. Done = Retired /\ Done' = Retired + 1
    BY <1>4, DoneLemma DEF Worker
  <2>2. Retired + 1 \in 1 .. Len(log) /\ witem = log[Retired + 1]
    BY <1>4, CarriedLemma DEF LowerDevice, LowerSucceeds, LowerFails,
                              PassMarker, WGoto, Carrying
  <2>3. i \in 1 .. Len(log) /\ log[j] \in Irps
    BY <1>1, ElementOfSeq DEF QueueTypeOK
  <2>4. CASE j = Retired + 1
    <3>1. witem \notin lazy /\ req[witem].kind \in FlushKinds
      BY <2>2, <2>4
    <3>2. CASE LowerSucceeds
      BY <3>1, <3>2 DEF LowerSucceeds
    <3>3. CASE LowerFails
      BY <2>2, <2>3, <2>4, <3>1, <3>3 DEF LowerFails, SetStatus, QueueTypeOK
    <3>4. CASE PassMarker
      BY <3>1, <3>4 DEF PassMarker, IsMarker, MarkerKinds, FlushKinds
    <3> QED BY <1>4, <3>2, <3>3, <3>4 DEF LowerDevice
  <2>5. CASE j # Retired + 1
    <3>1. j <= Done /\ i # Retired + 1
      BY <1>1, <2>1, <2>5
    <3>2. log[j] # witem /\ log[i] # witem
      BY <2>2, <2>3, <2>5, <3>1 DEF ListInv
    <3>3. \E st : SetStatus(st)
      BY <1>4 DEF LowerDevice, LowerSucceeds, LowerFails, PassMarker
    <3>4. status[log[j]] = "SUCCESS"
      BY <2>3, <3>2, <3>3 DEF SetStatus, QueueTypeOK
    <3>5. unflushed' \subseteq unflushed \cup {witem}
      BY <1>4 DEF LowerDevice, LowerSucceeds, LowerFails, PassMarker, diskVars
    <3>6. log[i] \notin unflushed
      BY <3>1, <3>4 DEF FlushInv
    <3> QED BY <3>2, <3>5, <3>6
  <2> QED BY <2>4, <2>5
<1>5. CASE Worker /\ ~(LowerDevice \/ PassMarker)
  <2>1. UNCHANGED <<log, req, lazy, status, diskVars>> /\ Done' = Done
    BY <1>5, DoneLemma
  <2> QED BY <2>1 DEF FlushInv, diskVars
<1>6. CASE Remover \/ UNCHANGED vars
  <2>1. UNCHANGED <<log, req, lazy, status>> /\ Done' = Done /\ unflushed' \subseteq unflushed
    BY <1>6, RemoverFrame DEF irpVars, listVars
  <2> QED BY <2>1 DEF FlushInv
<1> QED BY <1>3, <1>4, <1>5, <1>6, Zenon DEF Next, AttachedNext

\* A flush or a shutdown request that QCacheQueueIrp left pending and that
\* succeeds covers every item inserted before it: none is on the list, and none
\* in the lower device's cache.
THEOREM FlushesAreDurable == Spec => []FlushIsDurable
<1>1. Init => FlushInv
  <2> SUFFICES ASSUME Init PROVE FlushInv
    OBVIOUS
  <2>1. Len(log) = 0
    BY EmptySeq DEF Init
  <2> QED BY <2>1 DEF FlushInv
<1>2. QueueTypeOK /\ ListInv /\ CompletedOnce /\ DeferredIsBarrier /\ FlushInv => FlushIsDurable
  <2> SUFFICES ASSUME QueueTypeOK, ListInv, CompletedOnce, DeferredIsBarrier, FlushInv,
                      NEW i \in DOMAIN log, NEW j \in DOMAIN log,
                      i < j, log[j] \notin lazy, req[log[j]].kind \in FlushKinds,
                      completions[log[j]] > 0, status[log[j]] = "SUCCESS"
               PROVE  log[i] \notin Queued \cup unflushed
    BY DEF FlushIsDurable
  <2>1. /\ i \in 1 .. Len(log) /\ j \in 1 .. Len(log) /\ log[j] \in Irps
        /\ Len(log) \in Nat /\ Len(queue) \in Nat /\ Retired \in Nat
    BY LenProperties, ElementOfSeq DEF QueueTypeOK, ListInv
  <2>2. log[i] \notin Queued
    BY DEF DeferredIsBarrier
  <2>3. ~OwnedByWorker(log[j])
    BY <2>1 DEF CompletedOnce
  <2>4. j <= Done
    <3>1. CASE log[j] \notin Queued
      <4>1. j <= Retired
        BY <2>1, <3>1, QueuedLemma
      <4> QED BY <2>1, <4>1 DEF Done
    <3>2. CASE wpc = "unlink" /\ witem = log[j]
      <4>1. j = Retired + 1
        BY <2>1, <3>2, CarriedLemma DEF ListInv, Carrying
      <4> QED BY <2>1, <3>2, <4>1 DEF Done
    <3> QED BY <2>3, <3>1, <3>2 DEF OwnedByWorker
  <2>5. log[i] \notin unflushed
    BY <2>1, <2>4 DEF FlushInv
  <2> QED BY <2>2, <2>5
<1> QED BY <1>1, <1>2, FlushStep, QueueTypeCorrect, ListCorrect, IrpsCompleteOnce,
           DeferredRequestsAreBarriers, PTL DEF Spec

-----------------------------------------------------------------------------
(* What a reader sees: the content of a sector as QCacheRead assembles it  *)
(* from the list and the lower device, and how its place in the order of   *)
(* the log moves.                                                          *)

\* The age of an entry of the log is its index, the age of anything else 0.
AgeInv ==
  /\ \A i \in 1 .. Len(log) : Age(log[i]) = i
  /\ \A w \in Irps \cup {None} :
       Age(w) \in Nat /\ (Age(w) # 0 => \E i \in 1 .. Len(log) : log[i] = w)

\* A reader gets the newest hit, or what is on the disk.
ViewInv == \A s \in Sectors :
  /\ Age(View(s)) \in Nat
  /\ \A h \in Hits(s) : h \in 1 .. Len(queue) /\ Age(View(s)) >= Retired + h
  /\ Hits(s) # {} => \E h \in Hits(s) :
                       View(s) = queue[h] /\ Age(View(s)) = Retired + h
  /\ Hits(s) = {} => View(s) = disk[s]

\* A content that no reader of the sector may miss any more, unless the lower
\* device failed it: it was never written, it needs no entry of the log, or it
\* has one that was acknowledged early or that the worker is done with.
Settled(w, s) ==
  \/ w \in {None} \cup failed
  \/ Age(w) = 0 /\ pc[w] \in {"signal", "returned"}
  \/ \E i \in 1 .. Len(log) : /\ log[i] = w /\ s \in req[w].range
                              /\ i <= Done \/ w \in lazy

\* A request that does not fit into the device was refused at once.
RefusedInv == \A r \in Irps : pc[r] # "idle" =>
  req[r].range \subseteq Sectors \/ (pc[r] = "returned" /\ status[r] = "END_OF_MEDIA")

-----------------------------------------------------------------------------
(* Maxima of bounded sets                                                  *)

NatLess == {p \in Nat \X Nat : p[1] < p[2]}

LEMMA NatLessWellFounded == IsWellFoundedOn(NatLess, Nat)
BY NatLessThanWellFounded DEF OpToRel, NatLess

\* Max finds the greatest element of a set of naturals that has a bound: the
\* distance to the bound has a least value.
LEMMA BoundedMax ==
  ASSUME NEW S \in SUBSET Nat, NEW b \in Nat, S # {}, \A x \in S : x <= b
  PROVE  Max(S) \in S /\ \A x \in S : x <= Max(S)
<1> DEFINE T == {n \in Nat : b - n \in S}
<1>1. T \subseteq Nat /\ T # {}
  <2>1. PICK x \in S : TRUE
    OBVIOUS
  <2>2. b - x \in T
    BY <2>1
  <2> QED BY <2>2
<1>2. PICK n \in T : \A k \in T : ~(<<k, n>> \in NatLess)
  <2> HIDE DEF T
  <2> QED BY <1>1, NatLessWellFounded, WFMin
<1>3. n \in Nat /\ b - n \in S
  OBVIOUS
<1>4. ASSUME NEW x \in S PROVE x <= b - n
  <2>1. b - x \in T
    OBVIOUS
  <2>2. ~(b - x < n)
    BY <1>2, <2>1 DEF NatLess
  <2> QED BY <1>3, <2>2
<1>5. \E m \in S : \A x \in S : m >= x
  BY <1>3, <1>4
<1> QED BY <1>5 DEF Max

-----------------------------------------------------------------------------
(* Ages and views                                                          *)

LEMMA AgeLemma == QueueTypeOK /\ ListInv => AgeInv
<1> SUFFICES ASSUME QueueTypeOK, ListInv PROVE AgeInv
  OBVIOUS
<1>1. Len(log) \in Nat /\ DOMAIN log = 1 .. Len(log)
  BY LenProperties DEF QueueTypeOK
<1>2. ASSUME NEW w
      PROVE  LET S == {0} \cup {i \in DOMAIN log : log[i] = w}
             IN  Age(w) \in S /\ \A x \in S : x <= Age(w)
  <2> DEFINE S == {0} \cup {i \in DOMAIN log : log[i] = w}
  <2>1. S \in SUBSET Nat /\ S # {} /\ \A x \in S : x <= Len(log)
    BY <1>1
  <2>2. Age(w) = Max(S)
    BY DEF Age
  <2> HIDE DEF S
  <2>3. Max(S) \in S /\ \A x \in S : x <= Max(S)
    BY <1>1, <2>1, BoundedMax
  <2> QED BY <2>2, <2>3 DEF S
<1>3. ASSUME NEW i \in 1 .. Len(log) PROVE Age(log[i]) = i
  BY <1>1, <1>2, <1>3 DEF ListInv
<1>4. ASSUME NEW w \in Irps \cup {None}
      PROVE  Age(w) \in Nat /\ (Age(w) # 0 => \E i \in 1 .. Len(log) : log[i] = w)
  BY <1>1, <1>2
<1> QED BY <1>3, <1>4 DEF AgeInv

LEMMA ViewLemma == QueueTypeOK /\ ListInv => ViewInv
<1> SUFFICES ASSUME QueueTypeOK, ListInv, NEW s \in Sectors
             PROVE  /\ Age(View(s)) \in Nat
                    /\ \A h \in Hits(s) : /\ h \in 1 .. Len(queue)
                                          /\ Age(View(s)) >= Retired + h
                    /\ Hits(s) # {} => \E h \in Hits(s) :
                                         View(s) = queue[h] /\ Age(View(s)) = Retired + h
                    /\ Hits(s) = {} => View(s) = disk[s]
  BY DEF ViewInv
<1>1. /\ Len(queue) \in Nat /\ DOMAIN queue = 1 .. Len(queue) /\ Len(log) \in Nat
      /\ Retired \in Nat
  BY LenProperties DEF QueueTypeOK, ListInv
<1>2. AgeInv
  BY AgeLemma
<1>3. Hits(s) \in SUBSET Nat /\ \A h \in Hits(s) : h \in 1 .. Len(queue)
  BY <1>1 DEF Hits
<1>4. CASE Hits(s) = {}
  <2>1. View(s) = disk[s] /\ disk[s] \in Irps \cup {None}
    BY <1>4 DEF View, QueueTypeOK
  <2> QED BY <1>2, <1>4, <2>1 DEF AgeInv
<1>5. CASE Hits(s) # {}
  <2>1. Max(Hits(s)) \in Hits(s) /\ \A h \in Hits(s) : h <= Max(Hits(s))
    <3>1. \A h \in Hits(s) : h <= Len(queue)
      BY <1>1, <1>3
    <3> QED BY <1>1, <1>3, <1>5, <3>1, BoundedMax
  <2>2. PICK m \in Hits(s) : View(s) = queue[m] /\ \A h \in Hits(s) : h <= m
    BY <1>5, <2>1 DEF View
  <2>3. Retired + m \in 1 .. Len(log) /\ queue[m] = log[Retired + m]
    BY <1>1, <1>3 DEF ListInv, Retired
  <2>4. Age(View(s)) = Retired + m
    BY <1>2, <2>2, <2>3 DEF AgeInv
  <2> QED BY <1>1, <1>3, <1>5, <2>2, <2>4
<1> QED BY <1>4, <1>5

-----------------------------------------------------------------------------
(* Read your writes                                                        *)

\* The worker gives a status to entries of the log only.
LEMMA RefusedStep ==
  QueueTypeOK /\ ListInv /\ RangeInv /\ RefusedInv /\ [Next]_vars => RefusedInv'
<1> SUFFICES ASSUME QueueTypeOK, ListInv, RangeInv, RefusedInv, [Next]_vars
             PROVE  RefusedInv'
  OBVIOUS
<1>1. ASSUME NEW r \in Irps, Dispatch(r) \/ Continue(r) PROVE RefusedInv'
  <2>1. \A t \in Irps \ {r} :
          pc'[t] = pc[t] /\ req'[t] = req[t] /\ status'[t] = status[t]
    <3>1. CASE Insert(r)
      BY <3>1 DEF Insert, Goto, QueueTypeOK
    <3> QED BY <1>1, <3>1, ThreadLemma
  <2>2. \/ req'[r].range \subseteq Sectors
        \/ pc'[r] = "returned" /\ status'[r] = "END_OF_MEDIA"
    <3>1. ASSUME NEW q \in Requests, AnswerAtOnce(r, q) \/ TurnOn(r, q) \/ EnterQueueIrp(r, q)
          PROVE  \/ req'[r].range \subseteq Sectors
                 \/ pc'[r] = "returned" /\ status'[r] = "END_OF_MEDIA"
      <4>1. req'[r] = q
        BY <3>1 DEF AnswerAtOnce, TurnOn, EnterQueueIrp, Arrive, QueueTypeOK
      <4>2. q.kind # "write" => q.range = {}
        BY DEF Requests
      <4>3. q.range \subseteq Sectors \/ AnswerAtOnce(r, q)
        BY <3>1, <4>2 DEF TurnOn, EnterQueueIrp
      <4>4. CASE AnswerAtOnce(r, q)
        <5>1. \/ q.range = {}
              \/ CompleteAndReturn(r, "END_OF_MEDIA")
          BY <4>2, <4>4 DEF AnswerAtOnce
        <5>2. CompleteAndReturn(r, "END_OF_MEDIA") =>
                pc'[r] = "returned" /\ status'[r] = "END_OF_MEDIA"
          BY DEF CompleteAndReturn, Goto, QueueTypeOK
        <5> QED BY <4>1, <5>1, <5>2
      <4> QED BY <4>1, <4>3, <4>4
    <3>2. CASE Continue(r)
      <4>1. req' = req /\ pc[r] \notin {"idle", "returned"}
        BY <3>2 DEF Continue, AdmitLazily, Decline, NoItem, NoBuffer, MakeItem,
                    Insert, Signal, At
      <4> QED BY <4>1 DEF RefusedInv
    <3> QED BY <1>1, <3>1, <3>2 DEF Dispatch
  <2> QED BY <2>1, <2>2 DEF RefusedInv
<1>2. CASE Worker \/ LowerDevice
  <2>1. UNCHANGED <<pc, req, log>>
    BY <1>2, WorkerLemma, DoneLemma DEF Unlink, workerFrame
  <2>2. CASE LowerDevice \/ PassMarker
    <3>1. Retired + 1 \in 1 .. Len(log) /\ witem = log[Retired + 1]
      BY <2>2, CarriedLemma DEF LowerDevice, LowerSucceeds, LowerFails,
                                PassMarker, WGoto, Carrying
    <3>2. \E st : SetStatus(st)
      BY <2>2 DEF LowerDevice, LowerSucceeds, LowerFails, PassMarker
    <3>3. req[witem].range \subseteq Sectors /\ \A t \in Irps \ {witem} : status'[t] = status[t]
      BY <3>1, <3>2 DEF RangeInv, SetStatus, QueueTypeOK
    <3> QED BY <2>1, <3>3 DEF RefusedInv
  <2>3. CASE ~(LowerDevice \/ PassMarker)
    <3>1. status' = status
      BY <1>2, <2>3, DoneLemma
    <3> QED BY <2>1, <3>1 DEF RefusedInv
  <2> QED BY <2>2, <2>3
<1>3. CASE Remover \/ UNCHANGED vars
  BY <1>3, RemoverFrame DEF RefusedInv, irpVars
<1> QED BY <1>1, <1>2, <1>3, Zenon DEF Next, AttachedNext

\* A reader finds every settled content, or a newer one: on the list, or below.
LEMMA SettledVisible ==
  ASSUME QueueTypeOK, ListInv, CommitInv, NEW w \in Irps \cup {None}, NEW s \in Sectors,
         Settled(w, s), w \notin failed
  PROVE  Age(View(s)) >= Age(w)
<1>1. /\ Len(log) \in Nat /\ Len(queue) \in Nat /\ Retired \in Nat
      /\ DOMAIN queue = 1 .. Len(queue)
  BY LenProperties DEF QueueTypeOK, ListInv
<1>2. AgeInv /\ ViewInv /\ Age(View(s)) \in Nat
  BY AgeLemma, ViewLemma DEF ViewInv
<1>3. CASE Age(w) = 0
  BY <1>2, <1>3
<1>4. CASE Age(w) # 0
  <2>1. w # None
    <3>1. \A i \in 1 .. Len(log) : log[i] \in Irps
      BY ElementOfSeq DEF QueueTypeOK
    <3> QED BY <1>2, <1>4, <3>1, IrpsAssumption DEF AgeInv
  <2>2. PICK i \in 1 .. Len(log) : /\ log[i] = w /\ s \in req[w].range
                                   /\ i <= Done \/ w \in lazy
    BY <1>4, <2>1 DEF Settled
  <2>3. Age(w) = i
    BY <1>2, <2>2 DEF AgeInv
  <2>4. CASE i > Retired /\ w \in lazy
    <3>1. i - Retired \in 1 .. Len(queue) /\ Retired + (i - Retired) = i
      BY <1>1, <2>2, <2>4 DEF Retired
    <3>2. i - Retired \in Hits(s)
      BY <1>1, <2>2, <2>4, <3>1 DEF Hits, ListInv
    <3> QED BY <1>2, <2>3, <3>1, <3>2 DEF ViewInv
  <2>5. CASE ~(i > Retired /\ w \in lazy)
    <3>1. i <= Done /\ i <= Retired + 1
      BY <1>1, <2>2, <2>5 DEF Done
    <3>2. PICK j \in 1 .. Len(log) : i <= j /\ disk[s] = log[j]
      BY <2>2, <3>1 DEF CommitInv
    <3>3. CASE Hits(s) = {}
      <4>1. Age(View(s)) = j
        BY <1>2, <3>2, <3>3 DEF AgeInv, ViewInv
      <4> QED BY <2>3, <3>2, <4>1
    <3>4. CASE Hits(s) # {}
      <4>1. PICK h \in 1 .. Len(queue) : Age(View(s)) >= Retired + h
        BY <1>2, <3>4 DEF ViewInv
      <4> QED BY <1>1, <1>2, <2>3, <3>1, <4>1
    <3> QED BY <3>3, <3>4
  <2> QED BY <2>4, <2>5
<1> QED BY <1>3, <1>4

LEMMA FinishedSettled ==
  ASSUME QueueTypeOK, ListInv, CompletedOnce, RefusedInv,
         NEW r \in FinishedWrites, NEW s \in req[r].range
  PROVE  s \in Sectors /\ Settled(r, s)
<1>1. r \in Irps /\ completions[r] > 0 /\ ~OwnedByThread(r) /\ ~OwnedByWorker(r)
  BY DEF FinishedWrites, CompletedOnce
<1>2. s \in Sectors /\ pc[r] \in {"signal", "returned"}
  BY <1>1 DEF OwnedByThread, RefusedInv, FinishedWrites
<1>3. CASE Age(r) = 0
  BY <1>2, <1>3 DEF Settled
<1>4. CASE Age(r) # 0
  <2>1. PICK i \in 1 .. Len(log) : log[i] = r
    BY <1>1, <1>4, AgeLemma DEF AgeInv
  <2>2. Len(log) \in Nat /\ Retired \in Nat
    BY LenProperties DEF QueueTypeOK, ListInv
  <2>3. i <= Done \/ r \in lazy
    <3>1. CASE i <= Retired
      BY <2>2, <3>1 DEF Done
    <3>2. CASE i > Retired /\ r \notin lazy
      <4>1. r \in Queued \ lazy
        BY <2>1, <3>2, QueuedLemma
      <4>2. wpc = "unlink" /\ log[Retired + 1] = log[i] /\ Retired + 1 \in 1 .. Len(log)
        BY <1>1, <2>1, <4>1, CarriedLemma DEF OwnedByWorker, Carrying
      <4>3. i = Retired + 1
        BY <2>1, <4>2 DEF ListInv
      <4> QED BY <2>2, <4>2, <4>3 DEF Done
    <3> QED BY <2>2, <3>1, <3>2
  <2> QED BY <1>2, <2>1, <2>3 DEF Settled
<1> QED BY <1>3, <1>4

\* What QCacheRead assembles for a sector is at least as new as every write of
\* the sector that was acknowledged, early by QCacheQueueLazyWriteIrp or by the
\* worker, unless the lower device failed that write.
THEOREM AcknowledgedWritesAreVisible == Spec => []AcknowledgedVisible
<1>1. QueueTypeOK /\ ListInv /\ CommitInv /\ RefusedInv /\ CompletedOnce
        => AcknowledgedVisible
  BY FinishedSettled, SettledVisible DEF AcknowledgedVisible, FinishedWrites
<1>2. Init => RangeInv /\ CommitInv /\ RefusedInv
  <2> SUFFICES ASSUME Init PROVE RangeInv /\ CommitInv /\ RefusedInv
    OBVIOUS
  <2>1. Len(log) = 0 /\ \A r \in Irps : pc[r] = "idle"
    BY EmptySeq DEF Init
  <2> QED BY <2>1 DEF RangeInv, CommitInv, RefusedInv
<1> QED BY <1>1, <1>2, RangeStep, CommitStep, RefusedStep, QueueTypeCorrect, ListCorrect,
           IrpsCompleteOnce, PTL DEF Spec

-----------------------------------------------------------------------------
(* Readers never go back                                                   *)

\* Only Insert and Unlink change which places of the list a reader looks at.
LEMMA HitsFrame ==
  ASSUME QueueTypeOK, ListInv, [Next]_vars, ~Unlink,
         \A r \in Irps : ~Insert(r), NEW s \in Sectors
  PROVE  UNCHANGED <<queue, log>> /\ Hits(s)' = Hits(s)
<1>1. DOMAIN queue = 1 .. Len(queue) /\ Len(queue) \in Nat /\ Len(log) \in Nat
  BY LenProperties DEF QueueTypeOK
<1>2. /\ UNCHANGED <<queue, log>>
      /\ \A i \in 1 .. Len(log) : /\ log[i] \in lazy' <=> log[i] \in lazy
                                  /\ req'[log[i]] = req[log[i]]
  <2>1. ASSUME NEW r \in Irps, Dispatch(r) \/ Continue(r)
        PROVE  /\ UNCHANGED <<queue, log>>
               /\ \A i \in 1 .. Len(log) : /\ log[i] \in lazy' <=> log[i] \in lazy
                                           /\ req'[log[i]] = req[log[i]]
    BY <2>1, ThreadLemma, ThreadFrame DEF listVars
  <2>2. CASE Worker \/ LowerDevice
    BY <2>2, WorkerLemma DEF workerFrame
  <2>3. CASE Remover \/ UNCHANGED vars
    BY <2>3, RemoverFrame DEF irpVars, listVars
  <2> QED BY <2>1, <2>2, <2>3, Zenon DEF Next, AttachedNext
<1>3. \A i \in 1 .. Len(queue) : /\ queue[i] \in lazy' <=> queue[i] \in lazy
                                 /\ req'[queue[i]] = req[queue[i]]
  <2> SUFFICES ASSUME NEW i \in 1 .. Len(queue)
               PROVE  /\ queue[i] \in lazy' <=> queue[i] \in lazy
                      /\ req'[queue[i]] = req[queue[i]]
    OBVIOUS
  <2>1. Retired + i \in 1 .. Len(log) /\ queue[i] = log[Retired + i]
    BY <1>1 DEF ListInv, Retired
  <2> QED BY <1>2, <2>1
<1> QED BY <1>1, <1>2, <1>3 DEF Hits

\* The age of what the lower device holds is not above that of the item that the
\* worker carries.
LEMMA DiskAge ==
  ASSUME QueueTypeOK, ListInv, DiskInv, AgeInv, NEW s \in Sectors
  PROVE  /\ Age(disk[s]) \in Nat /\ Age(disk[s]) <= Retired + 1
         /\ Age(disk[s]) # 0 =>
              Age(disk[s]) \in 1 .. Len(log) /\ disk[s] = log[Age(disk[s])]
<1>1. disk[s] \in Irps \cup {None} /\ Retired \in Nat
  BY DEF QueueTypeOK, ListInv
<1>2. CASE Age(disk[s]) = 0
  BY <1>1, <1>2
<1>3. CASE Age(disk[s]) # 0
  <2>1. PICK i \in 1 .. Len(log) : log[i] = disk[s]
    BY <1>1, <1>3 DEF AgeInv
  <2>2. log[i] # None
    <3>1. log[i] \in Irps
      BY <2>1, ElementOfSeq DEF QueueTypeOK
    <3> QED BY <3>1, IrpsAssumption
  <2>3. PICK j \in 1 .. Len(log) : j <= Retired + 1 /\ disk[s] = log[j]
    BY <2>1, <2>2 DEF DiskInv
  <2> QED BY <1>1, <2>3 DEF AgeInv
<1> QED BY <1>2, <1>3

LEMMA ViewStep ==
  ASSUME QueueTypeOK, ListInv, RangeInv, DiskInv, CommitInv, AgeInv, ViewInv,
         QueueTypeOK', ListInv', AgeInv', ViewInv', [Next]_vars, NEW s \in Sectors
  PROVE  Age(View(s))' >= Age(View(s)) \/ (Unlink /\ witem \in failed)
<1>1. /\ Len(log) \in Nat /\ Len(queue) \in Nat /\ Retired \in Nat
      /\ DOMAIN queue = 1 .. Len(queue) /\ DOMAIN queue' = 1 .. Len(queue')
      /\ Age(View(s)) \in Nat /\ Age(View(s))' \in Nat
  BY LenProperties DEF QueueTypeOK, ListInv, ViewInv
<1>2. CASE \E r \in Irps : Insert(r)
  <2>1. PICK r \in Irps : Insert(r)
    BY <1>2
  <2>2. /\ Len(log') = Len(log) + 1 /\ Retired' = Retired
        /\ \A i \in 1 .. Len(log) : log'[i] = log[i]
    BY <2>1, InsertLemma
  <2>3. /\ Len(queue') = Len(queue) + 1
        /\ \A i \in 1 .. Len(queue) : queue'[i] = queue[i]
        /\ UNCHANGED <<req, lazy, disk>>
    <3>1. queue' = Append(queue, r) /\ UNCHANGED <<req, lazy, disk>>
      BY <2>1 DEF Insert, InsertList, threadFrame, diskVars
    <3> QED BY <3>1, AppendLemma DEF QueueTypeOK
  <2>4. CASE Hits(s) # {}
    <3>1. PICK h \in Hits(s) : Age(View(s)) = Retired + h
      BY <2>4 DEF ViewInv
    <3>2. h \in Hits(s)'
      BY <1>1, <2>3 DEF Hits
    <3>3. Age(View(s))' >= Retired' + h
      BY <3>2 DEF ViewInv
    <3> QED BY <2>2, <3>1, <3>3
  <2>5. CASE Hits(s) = {}
    <3>1. View(s) = disk[s]
      BY <2>5 DEF ViewInv
    <3>2. CASE Age(disk[s]) = 0
      BY <1>1, <3>1, <3>2
    <3>3. CASE Age(disk[s]) # 0
      <4> DEFINE i == Age(disk[s])
      <4>1. i \in 1 .. Len(log) /\ disk[s] = log[i]
        BY <3>3, DiskAge
      <4>2. CASE Hits(s)' = {}
        <5>1. View(s)' = log'[i] /\ i \in 1 .. Len(log')
          BY <1>1, <2>2, <2>3, <4>1, <4>2 DEF ViewInv
        <5>2. Age(View(s))' = i
          BY <5>1 DEF AgeInv
        <5> QED BY <1>1, <3>1, <5>2
      <4>3. CASE Hits(s)' # {}
        <5>1. PICK h \in Hits(s)' : TRUE
          BY <4>3
        <5>2. h \in 1 .. Len(queue') /\ Age(View(s))' >= Retired' + h
          BY <5>1 DEF ViewInv
        <5>3. h \notin 1 .. Len(queue)
          BY <1>1, <2>3, <2>5, <5>1 DEF Hits
        <5>4. h = Len(queue) + 1
          BY <1>1, <2>3, <5>2, <5>3
        <5> QED BY <1>1, <2>2, <3>1, <4>1, <5>2, <5>4 DEF Retired
      <4> QED BY <4>2, <4>3
    <3> QED BY <3>2, <3>3
  <2> QED BY <2>4, <2>5
<1>3. CASE Unlink /\ witem \notin failed
  <2>1. /\ Len(queue') = Len(queue) - 1
        /\ \A k \in 1 .. Len(queue) - 1 : queue'[k] = queue[k + 1]
        /\ Retired + 1 \in 1 .. Len(log) /\ witem = log[Retired + 1]
    BY <1>3, UnlinkLemma
  <2>2. UNCHANGED <<log, req, lazy, disk, failed>> /\ wpc = "unlink"
    BY <1>3 DEF Unlink, WGoto, workerFrame, diskVars
  <2>3. Retired' = Retired + 1
    BY <1>1, <2>1, <2>2 DEF Retired
  <2>4. \A h \in Hits(s)' : h \in Nat \ {0} /\ Age(View(s))' >= Retired + 1 + h
    BY <1>1, <2>3 DEF ViewInv
  <2>5. CASE Hits(s) = {}
    <3>1. Hits(s)' = {}
      <4> SUFFICES ASSUME NEW h \in Hits(s)' PROVE FALSE
        OBVIOUS
      <4>1. h \in 1 .. Len(queue) - 1 /\ h + 1 \in 1 .. Len(queue)
        BY <1>1, <2>1 DEF Hits
      <4>2. h + 1 \in Hits(s)
        BY <1>1, <2>1, <2>2, <4>1 DEF Hits
      <4> QED BY <2>5, <4>2
    <3>2. View(s) = disk[s] /\ View(s)' = disk[s]
      BY <2>2, <2>5, <3>1 DEF ViewInv
    <3>3. CASE Age(disk[s]) = 0
      BY <1>1, <3>2, <3>3
    <3>4. CASE Age(disk[s]) # 0
      <4> DEFINE i == Age(disk[s])
      <4>1. i \in 1 .. Len(log) /\ disk[s] = log[i]
        BY <3>4, DiskAge
      <4>2. View(s)' = log'[i] /\ i \in 1 .. Len(log')
        BY <2>2, <3>2, <4>1
      <4>3. Age(View(s))' = i
        BY <4>2 DEF AgeInv
      <4> QED BY <1>1, <3>2, <4>3
    <3> QED BY <3>3, <3>4
  <2>6. CASE Hits(s) # {}
    <3>1. PICK h \in Hits(s) : h \in 1 .. Len(queue) /\ Age(View(s)) = Retired + h
      BY <2>6 DEF ViewInv
    <3>2. CASE h # 1
      <4>1. h - 1 \in 1 .. Len(queue') /\ (h - 1) + 1 = h
        BY <1>1, <2>1, <3>1, <3>2
      <4>2. h - 1 \in Hits(s)'
        BY <1>1, <2>1, <2>2, <3>1, <4>1 DEF Hits
      <4> QED BY <1>1, <2>4, <3>1, <4>1, <4>2
    <3>3. CASE h = 1
      <4>1. s \in req[witem].range
        BY <1>1, <2>2, <3>1, <3>3 DEF Hits, ListInv, Carrying
      <4>2. Retired + 1 <= Done
        BY <1>1, <2>2 DEF Done
      <4>3. PICK j \in 1 .. Len(log) : Retired + 1 <= j /\ disk[s] = log[j]
        BY <1>3, <2>1, <4>1, <4>2 DEF CommitInv
      <4>4. CASE Hits(s)' = {}
        <5>1. View(s)' = log'[j] /\ j \in 1 .. Len(log')
          BY <2>2, <4>3, <4>4 DEF ViewInv
        <5>2. Age(View(s))' = j
          BY <5>1 DEF AgeInv
        <5> QED BY <1>1, <3>1, <3>3, <4>3, <5>2
      <4>5. CASE Hits(s)' # {}
        <5>1. PICK k \in Nat \ {0} : Age(View(s))' >= Retired + 1 + k
          BY <2>4, <4>5
        <5> QED BY <1>1, <3>1, <3>3, <5>1
      <4> QED BY <4>4, <4>5
    <3> QED BY <3>2, <3>3
  <2> QED BY <2>5, <2>6
<1>4. CASE ~Unlink /\ \A r \in Irps : ~Insert(r)
  <2>1. UNCHANGED <<queue, log>> /\ Hits(s)' = Hits(s)
    BY <1>4, HitsFrame
  <2>2. Retired' = Retired
    BY <2>1 DEF Retired
  <2>3. CASE Hits(s) # {}
    <3>1. PICK h \in Hits(s) : Age(View(s)) = Retired + h
      BY <2>3 DEF ViewInv
    <3>2. Age(View(s))' >= Retired' + h
      BY <2>1, <3>1 DEF ViewInv
    <3> QED BY <2>2, <3>1, <3>2
  <2>4. CASE Hits(s) = {}
    <3>1. View(s) = disk[s] /\ View(s)' = disk'[s]
      BY <2>1, <2>4 DEF ViewInv
    <3>2. \/ disk'[s] = disk[s]
          \/ Retired + 1 \in 1 .. Len(log) /\ disk'[s] = log[Retired + 1]
      <4>1. CASE LowerDevice
        BY <4>1, LowerLemma
      <4>2. CASE ~LowerDevice
        <5>1. CASE \E r \in Irps : Dispatch(r) \/ Continue(r)
          BY <5>1, ThreadFrame DEF diskVars
        <5>2. CASE Worker
          BY <5>2, <4>2 DEF Worker, LookAtHead, CheckShutdown, WakeUp, PassMarker,
               SendDown, BuildFails, CompleteIrp, Unlink, ReleaseItem, diskVars
        <5>3. CASE Remover \/ UNCHANGED vars
          BY <5>3, RemoverFrame
        <5> QED BY <4>2, <5>1, <5>2, <5>3, Zenon DEF Next, AttachedNext
      <4> QED BY <4>1, <4>2
    <3>3. CASE Age(disk[s]) = 0
      BY <1>1, <3>1, <3>3
    <3>4. CASE disk'[s] = disk[s] /\ Age(disk[s]) # 0
      <4> DEFINE i == Age(disk[s])
      <4>1. i \in 1 .. Len(log) /\ disk[s] = log[i]
        BY <3>4, DiskAge
      <4>2. View(s)' = log'[i] /\ i \in 1 .. Len(log')
        BY <2>1, <3>1, <3>4, <4>1
      <4>3. Age(View(s))' = i
        BY <4>2 DEF AgeInv
      <4> QED BY <1>1, <3>1, <4>3
    <3>5. CASE Retired + 1 \in 1 .. Len(log) /\ disk'[s] = log[Retired + 1]
      <4>1. View(s)' = log'[Retired + 1] /\ Retired + 1 \in 1 .. Len(log')
        BY <2>1, <3>1, <3>5
      <4>2. Age(View(s))' = Retired + 1
        BY <4>1 DEF AgeInv
      <4> QED BY <1>1, <3>1, <4>2, DiskAge
    <3> QED BY <3>2, <3>3, <3>4, <3>5
  <2> QED BY <2>3, <2>4
<1> QED BY <1>2, <1>3, <1>4

\* Whatever the worker and the lower device do, what a reader gets for a sector
\* never becomes older, but in the one step in which the worker drops a write
\* that failed below.
THEOREM ReadersNeverGoBack == Spec => ViewNeverOlder
<1>1. /\ QueueTypeOK /\ ListInv /\ RangeInv /\ DiskInv /\ CommitInv /\ AgeInv /\ ViewInv
      /\ (QueueTypeOK /\ ListInv /\ AgeInv /\ ViewInv)' /\ [Next]_vars
      => [\A s \in Sectors : \/ Age(View(s))' >= Age(View(s))
                             \/ Unlink /\ witem \in failed]_vars
  BY ViewStep
<1>2. Init => RangeInv /\ CommitInv /\ DiskInv
  <2> SUFFICES ASSUME Init PROVE RangeInv /\ CommitInv /\ DiskInv
    OBVIOUS
  <2>1. Len(log) = 0 /\ \A r \in Irps : pc[r] = "idle"
    BY EmptySeq DEF Init
  <2> QED BY <2>1 DEF RangeInv, CommitInv, DiskInv, Init
<1> QED BY <1>1, <1>2, RangeStep, CommitStep, DiskStep, AgeLemma, ViewLemma,
           QueueTypeCorrect, ListCorrect, PTL DEF Spec, ViewNeverOlder

=============================================================================
