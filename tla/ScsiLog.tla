------------------------------ MODULE ScsiLog ------------------------------
(***************************************************************************)
(* scsichk.c: requests that are counted on their way down and logged by    *)
(* the completion routine, on any number of processors, beside the control *)
(* of the counters and the removal that writes the log to a file.          *)
(***************************************************************************)
EXTENDS Integers, FiniteSets, SequencesExt

CONSTANTS
  Irps,        \* the requests that are ever sent; a record is its request
  MaxSwitches, \* bound on how often the counters are enabled and disabled
  Null         \* the null pointer, and no thread

ASSUME ScsiLogAssumption == Null \notin Irps /\ MaxSwitches \in Nat

VARIABLES
  pc, kind,        \* of each request: where its thread is; IRP_MJ_SCSI or not
  queueDepth, countersEnabled, enabledAlways,
  switching, switches,   \* the thread that switches the counters, and how often
  logData, next,   \* LogData, and Next of each record
  logLock,         \* LogLock: its owner
  rpc, cursor, fileOpen, written,   \* the removing thread, its logdata, the file
  freed,           \* the records that were given back to the pool
  holders, removed,
  pushed           \* history: the requests in the order of their records

ioVars      == <<pc, kind>>
switchVars  == <<countersEnabled, enabledAlways, switching, switches>>
counterVars == <<queueDepth, switchVars>>
logVars     == <<logData, next, logLock, pushed>>
walkVars    == <<rpc, cursor, fileOpen, written, freed, removed>>
vars == <<ioVars, counterVars, logVars, walkVars, holders>>

\* ScsiChkAddDevice
Init ==
  /\ pc = [i \in Irps |-> "idle"] /\ kind \in [Irps -> {"scsi", "disk"}]
  /\ queueDepth = 0 /\ countersEnabled = 0 /\ enabledAlways = FALSE
  /\ switching = "none" /\ switches = 0
  /\ logData = Null /\ next = [i \in Irps |-> Null]
  /\ logLock = Null /\ pushed = <<>>
  /\ rpc = "none" /\ cursor = Null /\ fileOpen = FALSE /\ written = <<>> /\ freed = {}
  /\ holders = {} /\ removed = FALSE

Goes(i, from, to) == pc[i] = from /\ pc' = [pc EXCEPT ![i] = to]
Attached          == rpc # "gone"

-----------------------------------------------------------------------------
(* ScsiChkReadWrite and ScsiChkScsi                                        *)

Refuse(i) ==
  /\ Attached /\ removed
  /\ Goes(i, "idle", "done")
  /\ UNCHANGED <<kind, counterVars, logVars, walkVars, holders>>

Enter(i) ==
  /\ Attached /\ ~removed
  /\ Goes(i, "idle", "entered")
  /\ holders' = holders \cup {i}
  /\ UNCHANGED <<kind, counterVars, logVars, walkVars>>

\* A read or write passes uncounted while the counters are disabled; enabled or not,
\* before the device has a name and on a processor that has no counters.
LookAtCounters(i) ==
  /\ \/ kind[i] = "disk" /\ Goes(i, "entered", "release")
     \/ (kind[i] = "scsi" \/ countersEnabled > 0) /\ Goes(i, "entered", "count")
  /\ UNCHANGED <<kind, counterVars, logVars, walkVars, holders>>

\* InterlockedIncrement(&QueueDepth), and down to the disk with a completion routine
CountIn(i) ==
  /\ Goes(i, "count", "below")
  /\ queueDepth' = queueDepth + 1
  /\ UNCHANGED <<kind, switchVars, logVars, walkVars, holders>>

-----------------------------------------------------------------------------
(* ScsiChkIoCompletion                                                     *)

\* What follows: only SCSI requests are logged, and none on a processor that has no
\* counters.
AfterCount(i) == {"release"} \cup (IF kind[i] = "scsi" THEN {"lock"} ELSE {})

CountOut_NoRestore(i) ==
  /\ \E to \in AfterCount(i) : Goes(i, "below", to)
  /\ queueDepth' = queueDepth - 1
  /\ UNCHANGED <<kind, switchVars, logVars, walkVars, holders>>

\* InterlockedDecrement(&QueueDepth): below zero it is taken back
CountOut(i) ==
  /\ \E to \in IF queueDepth <= 0 THEN {"restore"} ELSE AfterCount(i) : Goes(i, "below", to)
  /\ queueDepth' = queueDepth - 1
  /\ UNCHANGED <<kind, switchVars, logVars, walkVars, holders>>

\* "do not over-decrement", in a second interlocked operation
Restore(i) ==
  /\ \E to \in AfterCount(i) : Goes(i, "restore", to)
  /\ queueDepth' = queueDepth + 1
  /\ UNCHANGED <<kind, switchVars, logVars, walkVars, holders>>

TakeLogLock_NoLock(i) ==
  /\ Goes(i, "lock", "link")
  /\ UNCHANGED <<kind, counterVars, logVars, walkVars, holders>>

TakeLogLock(i) ==
  /\ logLock = Null
  /\ Goes(i, "lock", "link")
  /\ logLock' = i
  /\ UNCHANGED <<kind, counterVars, logData, next, pushed, walkVars, holders>>

\* logdata->Next = LogData
Link(i) ==
  /\ Goes(i, "link", "push")
  /\ next' = [next EXCEPT ![i] = logData]
  /\ UNCHANGED <<kind, counterVars, logData, logLock, pushed, walkVars, holders>>

\* LogData = logdata, KeReleaseSpinLock
Push(i) ==
  /\ Goes(i, "push", "release")
  /\ logData' = i /\ pushed' = Append(pushed, i)
  /\ logLock' = Null
  /\ UNCHANGED <<kind, counterVars, next, walkVars, holders>>

ReleaseLock(i) ==
  /\ Goes(i, "release", "done")
  /\ holders' = holders \ {i}
  /\ UNCHANGED <<kind, counterVars, logVars, walkVars>>

-----------------------------------------------------------------------------
(* Who switches the counters on and off; DiskperfWmiFunctionControl and    *)
(* the first IOCTL_DISK_PERFORMANCE do it in several steps, here one after *)
(* the other.                                                              *)

MaySwitch == /\ Attached /\ ~removed /\ switching = "none"
             /\ switches < MaxSwitches /\ switches' = switches + 1

\* A WMI client enables; only the first one resets.
Enable ==
  /\ MaySwitch
  /\ countersEnabled' = countersEnabled + 1
  /\ switching' = IF countersEnabled' = 1 THEN "reset" ELSE "none"
  /\ UNCHANGED <<enabledAlways, queueDepth, ioVars, logVars, walkVars, holders>>

\* The first performance query enables for ever, and resets.
EnableAlways ==
  /\ MaySwitch
  /\ ~enabledAlways /\ enabledAlways' = TRUE
  /\ countersEnabled' = countersEnabled + 1
  /\ switching' = "reset"
  /\ UNCHANGED <<queueDepth, ioVars, logVars, walkVars, holders>>

Disable ==
  /\ MaySwitch
  /\ countersEnabled' = countersEnabled - 1
  /\ switching' = IF countersEnabled' <= 0 THEN "clear" ELSE "none"
  /\ UNCHANGED <<enabledAlways, queueDepth, ioVars, logVars, walkVars, holders>>

\* CountersEnabled = 0
ClearEnabled ==
  /\ switching = "clear" /\ switching' = "reset"
  /\ countersEnabled' = 0
  /\ UNCHANGED <<enabledAlways, switches, queueDepth, ioVars, logVars, walkVars, holders>>

\* QueueDepth = 0, whatever is below
ResetDepth ==
  /\ switching = "reset" /\ switching' = "none"
  /\ queueDepth' = 0
  /\ UNCHANGED <<countersEnabled, enabledAlways, switches, ioVars, logVars, walkVars, holders>>

-----------------------------------------------------------------------------
(* ScsiChkRemoveDevice.  It does not take LogLock, and waits for the       *)
(* requests only when the log is written.  It is not followed into a       *)
(* record that it freed before.                                            *)

RemoverGoes(from, to) == rpc = from /\ rpc' = to

OpenFile ==
  /\ RemoverGoes("none", "head")
  /\ fileOpen' \in BOOLEAN
  /\ UNCHANGED <<cursor, written, freed, removed, ioVars, counterVars, logVars, holders>>

AtEnd_TestedLate == cursor # Null /\ logData = Null
AtEnd == logData = Null

\* logdata = LogData, while (logdata != NULL)
ReadHead ==
  /\ RemoverGoes("head", IF AtEnd THEN "counters" ELSE "write")
  /\ cursor' = logData
  /\ UNCHANGED <<fileOpen, written, freed, removed, ioVars, counterVars, logVars, holders>>

\* The local variable, not what LogData is by now
RecordToWrite_Head == logData
RecordToWrite      == cursor

\* ZwWriteFile, unless opening or an earlier write failed
WriteRecord ==
  /\ RemoverGoes("write", "unlink")
  /\ cursor \notin freed
  /\ \/ fileOpen /\ written' = Append(written, RecordToWrite) /\ UNCHANGED fileOpen
     \/ fileOpen' = FALSE /\ UNCHANGED written
  /\ UNCHANGED <<cursor, freed, removed, ioVars, counterVars, logVars, holders>>

\* LogData = logdata->Next
Unlink ==
  /\ RemoverGoes("unlink", "free")
  /\ logData' = next[cursor]
  /\ UNCHANGED <<cursor, fileOpen, written, freed, removed, next, logLock, pushed,
                 ioVars, counterVars, holders>>

\* ExFreePool(logdata)
FreeRecord ==
  /\ RemoverGoes("free", "head")
  /\ freed' = freed \cup {cursor}
  /\ UNCHANGED <<cursor, fileOpen, written, removed, ioVars, counterVars, logVars, holders>>

\* Deregister from WMI and free the counters; IoReleaseRemoveLockAndWait
CloseLock ==
  /\ RemoverGoes("counters", "drain")
  /\ removed' = TRUE
  /\ UNCHANGED <<cursor, fileOpen, written, freed, ioVars, counterVars, logVars, holders>>

\* The thread that switches the counters holds the remove lock too.
DeleteDevice ==
  /\ RemoverGoes("drain", "gone")
  /\ holders = {} /\ switching = "none"
  /\ UNCHANGED <<cursor, fileOpen, written, freed, removed, ioVars, counterVars, logVars, holders>>

-----------------------------------------------------------------------------
Next ==
  \/ \E i \in Irps : \/ Refuse(i) \/ Enter(i) \/ LookAtCounters(i) \/ CountIn(i)
                      \/ CountOut(i) \/ Restore(i)
                      \/ TakeLogLock(i) \/ Link(i) \/ Push(i) \/ ReleaseLock(i)
  \/ Enable \/ EnableAlways \/ Disable \/ ClearEnabled \/ ResetDepth
  \/ OpenFile \/ ReadHead \/ WriteRecord \/ Unlink \/ FreeRecord \/ CloseLock \/ DeleteDevice

Spec == Init /\ [][Next]_vars

\* Types; in particular no null pointer is written or freed.  scsichk.c 937-955
LogTypeOK ==
  /\ pc \in [Irps -> {"idle", "entered", "count", "below", "restore", "lock", "link",
                      "push", "release", "done"}]
  /\ kind \in [Irps -> {"scsi", "disk"}]
  /\ queueDepth \in Int /\ countersEnabled \in Int /\ enabledAlways \in BOOLEAN
  /\ switching \in {"none", "clear", "reset"} /\ switches \in 0 .. MaxSwitches
  /\ {logData, logLock, cursor} \subseteq Irps \cup {Null}
  /\ next \in [Irps -> Irps \cup {Null}]
  /\ rpc \in {"none", "head", "write", "unlink", "free", "counters", "drain", "gone"}
  /\ ToSet(written) \cup ToSet(pushed) \cup freed \cup holders \subseteq Irps
  /\ fileOpen \in BOOLEAN /\ removed \in BOOLEAN

\* Before the removal reads it, the list holds the record of every logged request,
\* once, the latest first: processors that log at the same time lose none.
\* scsichk.c 1671-1690, ScsiChkIoCompletion under LogLock
LogIsComplete == rpc = "none" =>
  /\ logData = IF pushed = <<>> THEN Null ELSE Last(pushed)
  /\ \A k \in 1 .. Len(pushed) : next[pushed[k]] = IF k = 1 THEN Null ELSE pushed[k - 1]

\* However completions and resets of the counters overlap, the depth of the queue
\* is not left negative: once no thread is between the two halves of its decrement,
\* it is at least zero.  scsichk.c 1505-1509, 1793-1810, 2697-2721
DepthNotNegative == (\A i \in Irps : pc[i] # "restore") => queueDepth >= 0
=============================================================================
