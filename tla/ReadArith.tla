----------------------------- MODULE ReadArith -----------------------------
(***************************************************************************)
(* The byte arithmetic of QCacheRead (read.cpp) and of the range check     *)
(* that it shares with QCacheWrite (write.cpp): 64-bit offsets, 32-bit     *)
(* lengths, the bitmap with one bit for a block, its buffer, and the runs  *)
(* of clear bits that are read from below.  Requests come one at a time;   *)
(* ReadPath has them beside each other, in whole sectors.                  *)
(***************************************************************************)
EXTENDS Integers, Sequences, FiniteSetsExt

CONSTANTS
  BlockSize,   \* 512, what a bit of the bitmap stands for
  DeviceSize,  \* Statistics.Size
  WordMax,     \* the largest LONGLONG
  Offsets,     \* of the requests: the I/O manager sends no negative one
  Lengths,     \* of the requests, ULONG
  MaxWrites    \* bound on the writes in the queue

ASSUME SizesAssumption   == /\ BlockSize \in Nat \ {0} /\ WordMax \in Nat
                            /\ DeviceSize \in 1 .. WordMax
ASSUME RequestAssumption == /\ Offsets \subseteq 0 .. WordMax /\ Lengths \subseteq 0 .. WordMax
                            /\ MaxWrites \in Nat

VARIABLES
  queue,    \* WriteQueue: the range of each lazy write
  read,     \* the range of the read
  phase,    \* where QCacheRead is
  entry,    \* how many entries of the list it has looked at
  buf,      \* system_buffer: for every byte the write it comes from, 0 for
            \* the older content of the disk, Unfilled
  bits,     \* bitmap: the bits that are set
  any,      \* any_from_write_queue
  next,     \* where the search for the next run of clear bits begins
  runs,     \* history: the runs that were requested from below
  status, info   \* Irp->IoStatus

vars == <<queue, read, phase, entry, buf, bits, any, next, runs, status, info>>

Unfilled == -1

Requests == [offset : Offsets, length : Lengths]

End(g) == g.offset + g.length

\* The sum of two LONGLONGs
Wrapped(n) == IF n > WordMax THEN n - 2 * (WordMax + 1) ELSE n

InRange_NoSign(g) == g.offset < DeviceSize /\ Wrapped(End(g)) <= DeviceSize

\* What is not answered with END_OF_MEDIA
InRange(g) ==
  /\ g.offset < DeviceSize
  /\ Wrapped(End(g)) > 0 /\ Wrapped(End(g)) <= DeviceSize

Aligned(g) == g.offset % BlockSize = 0 /\ g.length % BlockSize = 0

\* Length >> 9
Blocks(g) == g.length \div BlockSize

BitmapBytes_Exact(g) == (Blocks(g) + 7) \div 8

\* The size of bitmap_buffer
BitmapBytes(g) == Blocks(g) + 3

Init ==
  /\ queue = <<>> /\ read = [offset |-> 0, length |-> 0]
  /\ phase = "idle" /\ entry = 0 /\ buf = <<>> /\ bits = {} /\ any = FALSE
  /\ next = 0 /\ runs = <<>> /\ status = "none" /\ info = 0

-----------------------------------------------------------------------------
\* QCacheWrite has no test of the alignment.  One write after the other is
\* queued; then a read comes.
WriteArrives(g) ==
  /\ phase = "idle" /\ Len(queue) < MaxWrites
  /\ g.length # 0 /\ InRange(g)
  /\ queue' = Append(queue, g)
  /\ UNCHANGED <<read, phase, entry, buf, bits, any, next, runs, status, info>>

Complete(st, n) == phase' = "done" /\ status' = st /\ info' = n

ReadArrives(g) ==
  /\ phase = "idle"
  /\ read' = g
  /\ buf' = [b \in 0 .. g.length - 1 |-> Unfilled]
  /\ \/ g.length = 0 /\ Complete("SUCCESS", 0)
     \/ g.length # 0 /\ ~Aligned(g) /\ Complete("INVALID_PARAMETER", 0)
     \/ g.length # 0 /\ Aligned(g) /\ ~InRange(g) /\ Complete("END_OF_MEDIA", 0)
     \/ /\ g.length # 0 /\ Aligned(g) /\ InRange(g)
        /\ phase' = "overlay" /\ UNCHANGED <<status, info>>
  /\ UNCHANGED <<queue, entry, bits, any, next, runs>>

-----------------------------------------------------------------------------
\* The part of the read that the write w holds, in bytes of the buffer
First(w) == Max({w.offset, read.offset}) - read.offset
Limit(w) == Min({End(w), End(read)}) - read.offset

\* RtlSetBits(start >> 9, (end - start) >> 9)
BitsOf(w) == LET b == First(w) \div BlockSize
             IN b .. b + (Limit(w) - First(w)) \div BlockSize - 1

Overlaps(w) == w.offset < End(read) /\ End(w) > read.offset

Copied_OffByOne(b, w) == b \in First(w) .. Limit(w)
Copied(b, w) == b \in First(w) .. Limit(w) - 1

\* One entry of the list; the loop runs under WriteQueueLock.
LookAtEntry ==
  /\ phase = "overlay" /\ entry < Len(queue)
  /\ entry' = entry + 1
  /\ LET w == queue[entry'] IN
     \/ ~Overlaps(w) /\ UNCHANGED <<buf, bits, any>>
     \/ /\ Overlaps(w)
        /\ buf' = [b \in DOMAIN buf |-> IF Copied(b, w) THEN entry' ELSE buf[b]]
        /\ bits' = bits \cup BitsOf(w)
        /\ any' = TRUE
  /\ UNCHANGED <<queue, read, phase, next, runs, status, info>>

\* The lower device fills a range of the buffer.
FilledBelow(bytes) == buf' = [b \in DOMAIN buf |-> IF b \in bytes THEN 0 ELSE buf[b]]

PassOn ==
  /\ phase = "overlay" /\ entry = Len(queue) /\ ~any
  /\ FilledBelow(DOMAIN buf)
  /\ Complete("SUCCESS", read.length)
  /\ UNCHANGED <<queue, read, entry, bits, any, next, runs>>

Clear(from) == {i \in from .. Blocks(read) - 1 : i \notin bits}

\* RtlFindFirstRunClear found none
FilledByQueue ==
  /\ phase = "overlay" /\ entry = Len(queue) /\ any /\ Clear(0) = {}
  /\ Complete("SUCCESS", read.length)
  /\ UNCHANGED <<queue, read, entry, buf, bits, any, next, runs>>

CreateScatter ==
  /\ phase = "overlay" /\ entry = Len(queue) /\ any /\ Clear(0) # {}
  /\ phase' = "split"
  /\ UNCHANGED <<queue, read, entry, buf, bits, any, next, runs, status, info>>

\* The first run of clear bits at or after a bit
RunFrom(from) == {i \in Clear(from) : Min(Clear(from)) .. i \subseteq Clear(from)}

Bytes(run) == {b \in DOMAIN buf : b \div BlockSize \in run}

AfterRun_SameBit(run) == Max(run)
AfterRun(run) == Max(run) + 1

\* One lower read, clear_index << 9 bytes into the buffer, of clear_bits << 9
\* bytes; RtlFindNextForwardRunClear looks for the next
ReadRun ==
  /\ phase = "split" /\ Clear(next) # {}
  /\ LET run == RunFrom(next) IN
       /\ FilledBelow(Bytes(run))
       /\ runs' = Append(runs, run)
       /\ info' = info + Cardinality(run) * BlockSize
       /\ next' = AfterRun(run)
  /\ UNCHANGED <<queue, read, phase, entry, bits, any, status>>

\* The last reference of the SCATTERED_IRP is dropped
LastRunEnds ==
  /\ phase = "split" /\ Clear(next) = {}
  /\ Complete("SUCCESS", info)
  /\ UNCHANGED <<queue, read, entry, buf, bits, any, next, runs>>

Next ==
  \/ \E g \in Requests : WriteArrives(g) \/ ReadArrives(g)
  \/ LookAtEntry \/ PassOn \/ FilledByQueue \/ CreateScatter \/ ReadRun \/ LastRunEnds

Spec == Init /\ [][Next]_vars

-----------------------------------------------------------------------------
(* Properties                                                              *)

\* Whether or not the sum of offset and length wraps, exactly the requests that end
\* beyond the device are refused with END_OF_MEDIA.  read.cpp 56-71, write.cpp 25-40
RangeIsExact ==
  /\ \A i \in DOMAIN queue : End(queue[i]) <= DeviceSize
  /\ phase \in {"overlay", "split"} => End(read) <= DeviceSize
  /\ status = "END_OF_MEDIA" => End(read) > DeviceSize

\* Of the writes that hold a byte, the newest; 0 if there is none
Newest(b) == Max({0} \cup {i \in DOMAIN queue : read.offset + b \in queue[i].offset .. End(queue[i]) - 1})

Served == phase = "done" /\ status = "SUCCESS"

\* Every byte of a block that no unaligned write reaches into is returned from the
\* newest write that holds it, or else from below, whatever overlaps.
\* read.cpp 114-151, 170-238
WholeBlocksExact == Served =>
  \A b \in DOMAIN buf :
    LET block == (read.offset + b) \div BlockSize IN
    \/ \E i \in DOMAIN queue :
         /\ ~Aligned(queue[i])
         /\ block \in queue[i].offset \div BlockSize .. (End(queue[i]) - 1) \div BlockSize
    \/ buf[b] = Newest(b)

BitmapFits == phase \in {"overlay", "split"} =>
  /\ 4 * ((Blocks(read) + 31) \div 32) <= BitmapBytes(read)
  /\ bits \subseteq 0 .. Blocks(read) - 1

\* The bitmap fits the buffer that is allocated for it, in whole ULONGs, also when
\* it has a single bit; no bit beyond it is set; the runs that are read from below
\* do not overlap, and when the read ends they are the clear bits, and what it
\* reports.  read.cpp 84-99, 140-144, 170-238; partialirp.cpp 164
BitmapCovers ==
  /\ BitmapFits
  /\ \A j, k \in DOMAIN runs : j # k => runs[j] \cap runs[k] = {}
  /\ Served /\ runs # <<>> =>
       /\ UNION {runs[k] : k \in DOMAIN runs} = Clear(0)
       /\ info = BlockSize * Cardinality(Clear(0))

\* "walking the pending lazy-write queue and only then if any ranges left to read,
\* request those reads from underlying driver" (read.cpp 4): a byte is read from
\* below if, and only if, the queue does not hold it.
LeftRangesAreRead == Served => \A b \in DOMAIN buf : (buf[b] = 0) <=> (Newest(b) = 0)
=============================================================================
