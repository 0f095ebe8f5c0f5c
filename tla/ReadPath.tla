------------------------------ MODULE ReadPath ------------------------------
(***************************************************************************)
(* QCacheRead (read.cpp) and SCATTERED_IRP (qcache.h, partialirp.cpp)      *)
(* beside the write queue: a read copies what it finds on the list while   *)
(* it holds WriteQueueLock, then passes on, completes, or splits itself    *)
(* into one lower read for every run of sectors that the list left clear.  *)
(***************************************************************************)
EXTENDS WriteQueue

CONSTANTS
  Readers,     \* the IRP_MJ_READ requests
  ReadRanges,  \* the sector ranges that a read may name
  Unfilled     \* the content of a read buffer that nothing was copied to

ASSUME ReadersAssumption    == IsFiniteSet(Readers) /\ Readers \cap Irps = {}
ASSUME ReadRangesAssumption == ReadRanges \subseteq SUBSET Int
ASSUME UnfilledAssumption   == Unfilled \notin Irps \cup {None}

VARIABLES
  rd,    \* the state of each read
  known  \* history: what was acknowledged, and what could be seen, when each
         \* read arrived

readVars == <<rd, known>>

\* What a read changes nothing of, when it acquires or releases the lock
lockFrame == <<irpVars, listVars, flagVars, wpc, witem, removeVars, diskVars,
               event>>

(* Of a read: where its thread is; its range and buffer; the clear runs    *)
(* that wait to be requested (todo), are below (flying), or are back but   *)
(* not yet counted down (landed); ScatterCount, BytesCompleted and         *)
(* LastFailedStatus of its SCATTERED_IRP; and its IoStatus.                *)
NewRead == [pc |-> "idle", range |-> {}, buf |-> [s \in Sectors |-> Unfilled],
            todo |-> {}, flying |-> {}, landed |-> {},
            count |-> 0, bytes |-> 0, fail |-> "SUCCESS",
            status |-> "none", info |-> 0, completions |-> 0]

ReadInit == /\ Init
            /\ rd = [x \in Readers |-> NewRead]
            /\ known = [x \in Readers |-> [writes |-> {},
                                           view   |-> [s \in Sectors |-> None]]]

-----------------------------------------------------------------------------
\* Irp->IoStatus = (st, n); IoCompleteRequest(Irp)
Answered(d, st, n) == [d EXCEPT !.status = st, !.info = n,
                                !.completions = @ + 1, !.pc = "returned"]

Update(x, d) == rd' = [rd EXCEPT ![x] = d]

\* An empty read succeeds, one past the end or without resources fails; the
\* others go on to look at the list.
BeginRead(x) ==
  /\ Attached /\ rd[x].pc = "idle"
  /\ known' = [known EXCEPT ![x] = [writes |-> FinishedWrites,
                                    view   |-> [s \in Sectors |-> View(s)]]]
  /\ \E g \in ReadRanges : LET d == [rd[x] EXCEPT !.range = g] IN
       \/ g = {} /\ Update(x, Answered(d, "SUCCESS", 0))
       \/ ~(g \subseteq Sectors) /\ Update(x, Answered(d, "END_OF_MEDIA", 0))
       \/ /\ g \subseteq Sectors /\ g # {} /\ "scatter" \in Faults
          /\ Update(x, Answered(d, "INSUFFICIENT_RESOURCES", 0))
       \/ /\ g \subseteq Sectors /\ g # {}
          /\ Update(x, [d EXCEPT !.pc = "overlay"])
  /\ UNCHANGED vars

\* Under WriteQueueLock: copy every overlapping lazy write in list order and
\* set its bits in the bitmap.  Then the three ways to go on.
Overlay(x) ==
  /\ Attached /\ rd[x].pc = "overlay"
  /\ LET g     == rd[x].range
         clear == {s \in g : Hits(s) = {}}
         d     == [rd[x] EXCEPT !.todo = clear, !.buf =
                     [s \in Sectors |-> IF s \in g \ clear THEN View(s) ELSE @[s]]]
     IN CASE clear = g  -> Update(x, [d EXCEPT !.pc = "passed"])
          [] clear = {} -> Update(x, Answered(d, "SUCCESS", Cardinality(g)))
          [] OTHER      -> Update(x, [d EXCEPT !.pc = "create"])
  /\ UNCHANGED <<vars, known>>

\* The lower device completes the read that was passed on to it.
PassedReadEnds(x) ==
  /\ rd[x].pc = "passed"
  /\ \/ Update(x, [Answered(rd[x], "SUCCESS", Cardinality(rd[x].range))
                   EXCEPT !.buf = [s \in Sectors |-> IF s \in rd[x].range
                                                     THEN disk[s] ELSE @[s]],
                          !.todo = {}])
     \/ /\ "read" \in Faults
        /\ Update(x, [Answered(rd[x], "IO_ERROR", 0) EXCEPT !.todo = {}])
  /\ UNCHANGED <<vars, known>>

CreateScatter_NoOwnReference(x) ==
  /\ Attached /\ rd[x].pc = "create" /\ ~removed
  /\ Update(x, [rd[x] EXCEPT !.count = 0, !.pc = "split"])
  /\ holders' = holders \cup {x}
  /\ UNCHANGED <<lockFrame, known>>

\* SCATTERED_IRP::Create
CreateScatter(x) ==
  /\ Attached /\ rd[x].pc = "create"
  /\ \/ /\ removed
        /\ Update(x, Answered(rd[x], "DELETE_PENDING", 0))
        /\ UNCHANGED holders
     \/ /\ ~removed /\ "scatter" \in Faults
        /\ Update(x, Answered(rd[x], "INSUFFICIENT_RESOURCES", 0))
        /\ UNCHANGED holders   \* acquired and released
     \/ /\ ~removed
        /\ Update(x, [rd[x] EXCEPT !.count = 1, !.pc = "split"])
        /\ holders' = holders \cup {x}
  /\ UNCHANGED <<lockFrame, known>>

\* The first run of sectors that is still clear
FirstRun(todo) == {s \in todo : Min(todo) .. s \subseteq todo}

\* BuildIrp takes a reference, IoCallDriver sends the part down
SendPart(x) ==
  /\ rd[x].pc = "split"
  /\ LET run  == FirstRun(rd[x].todo)
         rest == rd[x].todo \ run
     IN Update(x, [rd[x] EXCEPT !.todo = rest, !.flying = @ \cup {run},
                                !.count = @ + 1,
                                !.pc = IF rest = {} THEN "drop" ELSE "split"])
  /\ UNCHANGED <<vars, known>>

BuildPartFails(x) ==
  /\ rd[x].pc = "split" /\ "scatter" \in Faults
  /\ Update(x, [rd[x] EXCEPT !.fail = "INSUFFICIENT_RESOURCES", !.pc = "drop"])
  /\ UNCHANGED <<vars, known>>

\* SCATTERED_IRP::Complete; the last reference destroys the object, which
\* completes the read and releases the remove lock
DropReference(x, d) ==
  IF d.count > 1
  THEN Update(x, [d EXCEPT !.count = @ - 1]) /\ UNCHANGED holders
  ELSE LET n == IF d.fail = "SUCCESS" THEN d.bytes ELSE 0
       IN /\ Update(x, [Answered(d, d.fail, n) EXCEPT !.count = @ - 1])
          /\ holders' = holders \ {x}

EndSplit_Unlocks(x) ==
  /\ rd[x].pc = "drop"
  /\ Update(x, [rd[x] EXCEPT !.pc = "pending", !.count = @ - 1])
  /\ holders' = holders \ {x}
  /\ UNCHANGED <<lockFrame, known>>

EndSplit_KeepsReference(x) ==
  /\ rd[x].pc = "drop"
  /\ Update(x, [rd[x] EXCEPT !.pc = "pending"])
  /\ UNCHANGED <<vars, known>>

\* QCacheRead drops its own reference and returns STATUS_PENDING
EndSplit(x) ==
  /\ rd[x].pc = "drop"
  /\ DropReference(x, [rd[x] EXCEPT !.pc = "pending"])
  /\ UNCHANGED <<lockFrame, known>>

PartLands_WholeBuffer(x, run) ==
  /\ run \in rd[x].flying
  /\ Update(x, [rd[x] EXCEPT !.flying = @ \ {run}, !.landed = @ \cup {run},
                             !.bytes = @ + Cardinality(run), !.buf = disk])
  /\ UNCHANGED <<vars, known>>

\* IrpCompletionRoutine up to its call of Complete
PartLands(x, run) ==
  /\ run \in rd[x].flying
  /\ LET d == [rd[x] EXCEPT !.flying = @ \ {run}, !.landed = @ \cup {run}] IN
     \/ Update(x, [d EXCEPT !.bytes = @ + Cardinality(run), !.buf =
                     [s \in Sectors |-> IF s \in run THEN disk[s] ELSE @[s]]])
     \/ "read" \in Faults /\ Update(x, [d EXCEPT !.fail = "IO_ERROR"])
  /\ UNCHANGED <<vars, known>>

PartEnds(x, run) ==
  /\ run \in rd[x].landed
  /\ DropReference(x, [rd[x] EXCEPT !.landed = @ \ {run}])
  /\ UNCHANGED <<lockFrame, known>>

ReadThread(x) ==
  \/ Overlay(x) \/ CreateScatter(x) \/ SendPart(x) \/ BuildPartFails(x)
  \/ EndSplit(x)

ReadBelow(x) ==
  \/ PassedReadEnds(x)
  \/ \E run \in rd[x].flying \cup rd[x].landed : PartLands(x, run) \/ PartEnds(x, run)

ReadersNext == \E x \in Readers : BeginRead(x) \/ ReadThread(x) \/ ReadBelow(x)

ReadNext == (Next /\ UNCHANGED readVars) \/ ReadersNext

\* A thread that reads runs on, and the lower device answers every read.
ReadSpec ==
  /\ ReadInit /\ [][ReadNext]_<<vars, readVars>>
  /\ \A x \in Readers : /\ WF_<<vars, readVars>>(ReadThread(x))
                        /\ WF_<<vars, readVars>>(ReadBelow(x))

-----------------------------------------------------------------------------
(* Properties                                                              *)

ReadPcs == {"idle", "overlay", "passed", "create", "split", "drop", "pending",
            "returned"}

\* The variables of the reads stay in their types.
ReadTypeOK ==
  /\ DOMAIN rd = Readers
  /\ \A x \in Readers :
       /\ rd[x].pc \in ReadPcs
       /\ rd[x].buf \in [Sectors -> Irps \cup {None, Unfilled}]
       /\ rd[x].count \in Nat /\ rd[x].bytes \in Nat
       /\ rd[x].status \in Statuses
  /\ holders \subseteq Irps \cup Readers

Succeeded(x) == rd[x].completions > 0 /\ rd[x].status = "SUCCESS"

\* A read that succeeds returns, in every sector, content at least as new as every
\* write that was acknowledged before the read arrived, and as what an earlier read
\* could have seen by then, wherever the worker was meanwhile; writes that the lower
\* device failed excepted.  read.cpp 105-238, queue.cpp 316-356
ReadIsFresh == \A x \in Readers : Succeeded(x) =>
  \A s \in rd[x].range :
    /\ rd[x].buf[s] # Unfilled
    /\ \A w \in {known[x].view[s]} \cup {v \in known[x].writes : s \in req[v].range} :
         w \in failed \/ Age(rd[x].buf[s]) >= Age(w)

\* The reference count of a SCATTERED_IRP covers its thread and every part
\* below: the read is completed once, when nothing can touch its buffer any
\* more.
ScatterCounted == \A x \in Readers :
  /\ rd[x].count = Cardinality(rd[x].flying) + Cardinality(rd[x].landed)
                     + (IF rd[x].pc \in {"split", "drop"} THEN 1 ELSE 0)
  /\ rd[x].completions = (IF rd[x].pc = "returned" THEN 1 ELSE 0)
  /\ rd[x].pc = "returned" => rd[x].count = 0

\* While a split read has anything outstanding the device stays.
SplitReadKeepsDevice == \A x \in Readers :
  rd[x].count > 0 => x \in holders /\ Attached

\* Every read that arrives is answered, whatever is found on the list and
\* whichever of its parts fail, unless the device goes before it looked there.
ReadsEnd == \A x \in Readers :
  rd[x].pc # "idle" ~> rd[x].completions = 1 \/ ~Attached
=============================================================================
