----------------------------- MODULE LogReader -----------------------------
(***************************************************************************)
(* scsilog.cpp on the file that the removal of ScsiLog wrote: the two      *)
(* programs agree on nothing but the layout of LOGDATA.                    *)
(***************************************************************************)
EXTENDS ScsiLog

CONSTANTS
  DataOffset,   \* FIELD_OFFSET(LOGDATA, Data)
  RecordSize,   \* sizeof(LOGDATA): Data[1] and padding are behind DataOffset
  DataLengths,  \* what the DataLength of a record may be
  Pages,        \* what the size of a view may be rounded up to: 1, or a page
  Blank         \* a record of zeros

\* Behind the header are a byte and the padding, and the header is longer.
ASSUME LayoutAssumption == /\ DataOffset \in Nat /\ RecordSize \in Nat
                           /\ DataOffset < RecordSize /\ RecordSize <= 2 * DataOffset
                           /\ DataLengths \subseteq Nat /\ Pages \subseteq Nat \ {0}
                           /\ Blank \notin Irps

VARIABLES
  reading,    \* where ShowFileInfo is
  lengths,    \* the DataLength of each record in the file
  capacity,   \* size, the Capacity of the view
  at,         \* logdata - ptr
  shown,      \* what was printed
  before      \* history: the records that were logged when the removal began

readerVars == <<reading, lengths, capacity, at, shown>>

ReaderInit == /\ Init
              /\ reading = "no" /\ lengths = <<>> /\ capacity = 0 /\ at = 0
              /\ shown = <<>> /\ before = <<>>

WrittenBytes_WholeStruct(n) == RecordSize + n
\* What ZwWriteFile is given for a record
WrittenBytes(n) == DataOffset + n

\* Where each record ends that was written with such data
EndsOf(data) ==
  LET end[k \in 0 .. Len(data)] == IF k = 0 THEN 0 ELSE end[k - 1] + WrittenBytes(data[k])
  IN  end
EndOf(k) == EndsOf(lengths)[k]

RoundedUp(n, page) == ((n + page - 1) \div page) * page

\* The lengths matter to nobody before.  An empty file cannot be mapped.
MapFile ==
  /\ rpc = "gone" /\ reading = "no" /\ written # <<>>
  /\ reading' = "loop"
  /\ \E data \in [1 .. Len(written) -> DataLengths], page \in Pages :
       /\ lengths' = data
       /\ capacity' = RoundedUp(EndsOf(data)[Len(written)], page)
  /\ UNCHANGED <<at, shown>>

InView == at <= capacity - RecordSize

Advance(n) == at' = at + DataOffset + n

\* One turn of the loop: at a record, in the zeros behind the last one, or lost
ShowRecord ==
  /\ reading = "loop" /\ InView
  /\ \/ \E k \in DOMAIN written :
          /\ at = EndOf(k - 1)
          /\ shown' = Append(shown, written[k]) /\ Advance(lengths[k])
          /\ UNCHANGED reading
     \/ /\ at >= EndOf(Len(written))
        /\ shown' = Append(shown, Blank) /\ Advance(0)
        /\ UNCHANGED reading
     \/ /\ at < EndOf(Len(written)) /\ \A k \in DOMAIN written : at # EndOf(k - 1)
        /\ reading' = "lost"
        /\ UNCHANGED <<shown, at>>
  /\ UNCHANGED <<lengths, capacity>>

EndLoop ==
  /\ reading = "loop" /\ ~InView
  /\ reading' = "done"
  /\ UNCHANGED <<lengths, capacity, at, shown>>

ReaderNext ==
  \/ /\ Next /\ UNCHANGED readerVars
     /\ before' = IF rpc = "none" /\ rpc' # "none" THEN pushed ELSE before
  \/ (MapFile \/ ShowRecord \/ EndLoop) /\ UNCHANGED <<vars, before>>

ReaderSpec == ReaderInit /\ [][ReaderNext]_<<vars, readerVars, before>>

\* What is logged before the removal begins comes out of the reader, the latest
\* record first, if the file could be written and nothing is logged during the
\* removal.  The reader stays in step with the file; all it may miss is a last
\* record with less data than the structure has behind its header.
\* scsichk.c 937-955, scsilog.cpp 55-60
ReaderShowsLog ==
  /\ reading # "lost"
  /\ rpc = "gone" /\ fileOpen /\ before = pushed => written = Reverse(pushed)
  /\ reading = "done" => \E n \in {Len(written), Len(written) - 1} :
       /\ n <= Len(shown)
       /\ \A k \in DOMAIN shown : shown[k] = IF k <= n THEN written[k] ELSE Blank
       /\ n # Len(written) => n = Len(shown) /\ Last(lengths) < RecordSize - DataOffset

\* The removal walks the list without LogLock while completion routines still push.
\* What they push may be lost, and may lead the walk into a freed record, where the
\* model stops; but a walk that comes to an end has written every record that was
\* there when it began, if the file could be opened and written.
\* scsichk.c 937-955, ScsiChkRemoveDevice, against 1680-1681
EarlierRecordsWritten ==
  rpc = "gone" /\ fileOpen => ToSet(before) \subseteq ToSet(written)
=============================================================================
