-------------------------- MODULE ReadArithProofs --------------------------
(***************************************************************************)
(* Proofs about ReadArith: the range check is exact although the sum of an *)
(* offset and a length may wrap, the bitmap fits its buffer and its runs   *)
(* are what is missing, and every byte is the newest, for every size of    *)
(* the word, the device, the block and the requests.                       *)
(***************************************************************************)
EXTENDS ReadArith, FiniteSetTheorems, WellFoundedInduction, TLAPS

-----------------------------------------------------------------------------
(* The range check                                                         *)

LEMMA RequestsLemma ==
  ASSUME NEW g \in Requests
  PROVE  g.offset \in 0 .. WordMax /\ g.length \in 0 .. WordMax
<1>1. g.offset \in Offsets /\ g.length \in Lengths
  BY DEF Requests
<1> QED BY <1>1, RequestAssumption

\* A sum that wraps is negative, and what does not wrap is compared as it is.
LEMMA InRangeIsExact ==
  ASSUME NEW g \in Requests, g.length # 0
  PROVE  InRange(g) <=> End(g) <= DeviceSize
<1>1. WordMax \in Nat /\ DeviceSize \in 1 .. WordMax
  BY SizesAssumption
<1>2. g.offset \in Nat /\ g.length \in Nat /\ g.offset <= WordMax /\ g.length <= WordMax
  BY <1>1, RequestsLemma
<1> QED BY <1>1, <1>2 DEF InRange, Wrapped, End

\* What the refused and the admitted requests are
RangeInv ==
  /\ queue \in Seq(Requests) /\ entry \in Nat
  /\ read \in Requests \cup {[offset |-> 0, length |-> 0]}
  /\ \A i \in DOMAIN queue : queue[i].length # 0 /\ InRange(queue[i])
  /\ phase \in {"overlay", "split"} => read \in Requests /\ read.length # 0 /\ InRange(read)
  /\ status = "END_OF_MEDIA" => read \in Requests /\ read.length # 0 /\ ~InRange(read)
  /\ phase \in {"idle", "overlay", "split"} => status # "END_OF_MEDIA"
  /\ phase \in {"idle", "overlay", "split", "done"}

LEMMA RangeInit == Init => RangeInv
BY DEF Init, RangeInv

LEMMA RangeStep == RangeInv /\ [Next]_vars => RangeInv'
<1> SUFFICES ASSUME RangeInv, [Next]_vars PROVE RangeInv'
  OBVIOUS
<1> USE DEF RangeInv
<1>1. CASE UNCHANGED vars
  BY <1>1 DEF vars, InRange, End
<1>2. ASSUME NEW g \in Requests, WriteArrives(g) PROVE RangeInv'
  <2>1. /\ queue' \in Seq(Requests)
        /\ \A i \in DOMAIN queue' : queue'[i] = g \/ (i \in DOMAIN queue /\ queue'[i] = queue[i])
    BY <1>2 DEF WriteArrives
  <2> QED BY <1>2, <2>1 DEF WriteArrives, InRange, End
<1>3. ASSUME NEW g \in Requests, ReadArrives(g) PROVE RangeInv'
  BY <1>3 DEF ReadArrives, Complete, InRange, End
<1>4. CASE LookAtEntry
  BY <1>4 DEF LookAtEntry, InRange, End
<1>5. CASE PassOn
  BY <1>5 DEF PassOn, Complete, InRange, End
<1>6. CASE FilledByQueue
  BY <1>6 DEF FilledByQueue, Complete, InRange, End
<1>7. CASE CreateScatter
  BY <1>7 DEF CreateScatter, InRange, End
<1>8. CASE ReadRun
  BY <1>8 DEF ReadRun, InRange, End
<1>9. CASE LastRunEnds
  BY <1>9 DEF LastRunEnds, Complete, InRange, End
<1> QED BY <1>1, <1>2, <1>3, <1>4, <1>5, <1>6, <1>7, <1>8, <1>9 DEF Next

\* For every width of the sum: what is queued or read lies on the device, and what
\* is answered with END_OF_MEDIA does not.  read.cpp 56-71, write.cpp 25-40
THEOREM RangeCheckIsExact == Spec => []RangeIsExact
<1>1. RangeInv => RangeIsExact
  <2> SUFFICES ASSUME RangeInv PROVE RangeIsExact
    OBVIOUS
  <2>1. ASSUME NEW i \in DOMAIN queue PROVE End(queue[i]) <= DeviceSize
    <3>1. queue[i] \in Requests /\ queue[i].length # 0 /\ InRange(queue[i])
      BY DEF RangeInv
    <3> QED BY <3>1, InRangeIsExact
  <2>2. phase \in {"overlay", "split"} => End(read) <= DeviceSize
    BY InRangeIsExact DEF RangeInv
  <2>3. status = "END_OF_MEDIA" => End(read) > DeviceSize
    <3> SUFFICES ASSUME status = "END_OF_MEDIA" PROVE End(read) > DeviceSize
      OBVIOUS
    <3>1. read \in Requests /\ read.length # 0 /\ ~InRange(read)
      BY DEF RangeInv
    <3>2. End(read) \in Int /\ DeviceSize \in Int
      BY <3>1, SizesAssumption, RequestsLemma DEF End
    <3> QED BY <3>1, <3>2, InRangeIsExact
  <2> QED BY <2>1, <2>2, <2>3 DEF RangeIsExact
<1> QED BY <1>1, RangeInit, RangeStep, PTL DEF Spec

-----------------------------------------------------------------------------
(* The bitmap                                                              *)

LEMMA DivisionLemma ==
  ASSUME NEW n \in Nat, NEW d \in Nat \ {0}
  PROVE  /\ n \div d \in Nat /\ d * (n \div d) <= n
         /\ n < d * (n \div d) + d
OBVIOUS

\* What is less than a multiple and one more is not beyond it.
LEMMA FewerTimes ==
  ASSUME NEW a \in Int, NEW b \in Int, NEW d \in Nat \ {0}, d * a < d * b + d
  PROVE  a <= b
<1> SUFFICES ASSUME a >= b + 1 PROVE FALSE
  OBVIOUS
<1>1. PICK e \in Nat : a = b + 1 + e
  <2>1. a - b - 1 \in Nat
    OBVIOUS
  <2> QED BY <2>1
<1>2. d * a = d * b + d + d * e /\ d * e >= 0 /\ d * b \in Int
  BY <1>1
<1> QED BY <1>2

LEMMA DivisionUnique ==
  ASSUME NEW n \in Nat, NEW d \in Nat \ {0}, NEW q \in Int, d * q <= n, n < d * q + d
  PROVE  n \div d = q
<1>1. n \div d \in Nat /\ d * (n \div d) <= n /\ n < d * (n \div d) + d
  BY DivisionLemma
<1> DEFINE p == n \div d
<1> HIDE DEF p
<1>2. d * p < d * q + d /\ d * q < d * p + d /\ p \in Nat
  BY <1>1 DEF p
<1> QED BY <1>2, FewerTimes DEF p

LEMMA DivisionMonotonic ==
  ASSUME NEW m \in Nat, NEW n \in Nat, NEW d \in Nat \ {0}, m <= n
  PROVE  m \div d <= n \div d
<1> DEFINE p == m \div d
           q == n \div d
<1>1. p \in Nat /\ q \in Nat /\ d * p <= m /\ n < d * q + d
  BY DivisionLemma
<1> HIDE DEF p, q
<1>2. d * p < d * q + d
  BY <1>1
<1> QED BY <1>1, <1>2, FewerTimes DEF p, q

LEMMA DivisionExact ==
  ASSUME NEW n \in Nat, NEW d \in Nat \ {0}, n % d = 0
  PROVE  n = d * (n \div d)
OBVIOUS

LEMMA DivisionShift ==
  ASSUME NEW k \in Nat, NEW n \in Nat, NEW d \in Nat \ {0}
  PROVE  (d * k + n) \div d = k + n \div d
<1> DEFINE q == n \div d
<1>1. q \in Nat /\ d * q <= n /\ n < d * q + d
  BY DivisionLemma
<1> HIDE DEF q
<1>2. d * (k + q) = d * k + d * q /\ d * k \in Nat
  BY <1>1
<1>3. d * (k + q) <= d * k + n /\ d * k + n < d * (k + q) + d
  BY <1>1, <1>2
<1>4. d * k + n \in Nat /\ k + q \in Int
  BY <1>1, <1>2
<1> QED BY <1>3, <1>4, DivisionUnique DEF q

\* The blocks from f up to l are those of the bytes from d * f up to d * l.
LEMMA DivisionSpan ==
  ASSUME NEW n \in Nat, NEW d \in Nat \ {0}, NEW f \in Int, NEW l \in Int
  PROVE  n \div d \in f .. l - 1 <=> d * f <= n /\ n < d * l
<1> DEFINE q == n \div d
<1>1. q \in Nat /\ d * q <= n /\ n < d * q + d
  BY DivisionLemma
<1> HIDE DEF q
<1>2. ASSUME q \in f .. l - 1 PROVE d * f <= n /\ n < d * l
  <2>1. PICK g \in Nat : q = f + g
    <3>1. q - f \in Nat
      BY <1>1, <1>2
    <3> QED BY <1>1, <3>1
  <2>2. PICK h \in Nat : l = q + 1 + h
    <3>1. l - q - 1 \in Nat
      BY <1>1, <1>2
    <3> QED BY <1>1, <3>1
  <2>3. d * q = d * f + d * g /\ d * g >= 0 /\ d * f \in Int
    BY <2>1
  <2>4. d * l = d * q + d + d * h /\ d * h >= 0
    BY <1>1, <2>2
  <2> QED BY <1>1, <2>3, <2>4
<1>3. ASSUME d * f <= n, n < d * l PROVE q \in f .. l - 1
  <2>1. d * f < d * q + d /\ d * (q + 1) < d * l + d
    <3>1. d * (q + 1) = d * q + d
      BY <1>1
    <3> QED BY <1>1, <1>3, <3>1
  <2>2. f <= q /\ q + 1 <= l
    BY <1>1, <2>1, FewerTimes
  <2> QED BY <1>1, <2>2
<1> QED BY <1>2, <1>3 DEF q

\* Two parts of a length have no more blocks than the length has.
LEMMA BlocksAddUp ==
  ASSUME NEW m \in Nat, NEW k \in Nat, NEW n \in Nat, NEW d \in Nat \ {0}, m + k <= n
  PROVE  (m \div d) + (k \div d) <= n \div d
<1> DEFINE a == m \div d
           b == k \div d
           c == n \div d
<1>1. a \in Nat /\ b \in Nat /\ c \in Nat
  BY DivisionLemma
<1>2. d * a <= m /\ d * b <= k /\ n < d * c + d
  BY DivisionLemma
<1> HIDE DEF a, b, c
<1>3. d * (a + b) = d * a + d * b
  BY <1>1
<1>4. d * (a + b) < d * c + d
  BY <1>1, <1>2, <1>3
<1>5. a + b <= c
  BY <1>1, <1>4, FewerTimes
<1> QED BY <1>5 DEF a, b, c

LEMMA MaxOfTwo ==
  ASSUME NEW a \in Int, NEW b \in Int
  PROVE  Max({a, b}) = IF a >= b THEN a ELSE b
<1> DEFINE m == IF a >= b THEN a ELSE b
<1>1. m \in {a, b} /\ \A y \in {a, b} : m >= y
  OBVIOUS
<1>2. \A x \in {a, b} : (\A y \in {a, b} : x >= y) => x = m
  OBVIOUS
<1> QED BY <1>1, <1>2 DEF Max

LEMMA MinOfTwo ==
  ASSUME NEW a \in Int, NEW b \in Int
  PROVE  Min({a, b}) = IF a <= b THEN a ELSE b
<1> DEFINE m == IF a <= b THEN a ELSE b
<1>1. m \in {a, b} /\ \A y \in {a, b} : m <= y
  OBVIOUS
<1>2. \A x \in {a, b} : (\A y \in {a, b} : x <= y) => x = m
  OBVIOUS
<1> QED BY <1>1, <1>2 DEF Min

\* The bits of a write that overlaps the read are bits of its bitmap.
LEMMA BitsInBitmap ==
  ASSUME read \in Requests, NEW w \in Requests, Overlaps(w)
  PROVE  BitsOf(w) \subseteq 0 .. Blocks(read) - 1
<1>1. /\ read.offset \in Nat /\ read.length \in Nat
      /\ w.offset \in Nat /\ w.length \in Nat
  BY SizesAssumption, RequestsLemma
<1>2. First(w) \in Nat /\ Limit(w) \in Nat /\ Limit(w) <= read.length
      /\ Limit(w) - First(w) \in Nat
  <2>1. End(w) \in Nat /\ End(read) \in Nat /\ w.offset < End(read) /\ End(w) > read.offset
    BY <1>1 DEF Overlaps, End
  <2>2. Max({w.offset, read.offset}) = (IF w.offset >= read.offset THEN w.offset ELSE read.offset)
    BY <1>1, MaxOfTwo
  <2>3. Min({End(w), End(read)}) = (IF End(w) <= End(read) THEN End(w) ELSE End(read))
    BY <2>1, MinOfTwo
  <2>4. End(w) = w.offset + w.length /\ End(read) = read.offset + read.length
    BY DEF End
  <2> QED BY <1>1, <2>1, <2>2, <2>3, <2>4 DEF First, Limit
<1>3. First(w) \div BlockSize \in Nat /\ (Limit(w) - First(w)) \div BlockSize \in Nat
      /\ read.length \div BlockSize \in Nat
  BY <1>1, <1>2, SizesAssumption, DivisionLemma
<1>4. First(w) \div BlockSize + (Limit(w) - First(w)) \div BlockSize <= read.length \div BlockSize
  BY <1>1, <1>2, SizesAssumption, BlocksAddUp
<1> QED BY <1>3, <1>4 DEF BitsOf, Blocks

BitsInv == phase \in {"idle", "overlay", "split"} =>
  /\ phase = "idle" => bits = {}
  /\ phase # "idle" => bits \subseteq 0 .. Blocks(read) - 1

LEMMA BitsStep == RangeInv /\ BitsInv /\ [Next]_vars => BitsInv'
<1> SUFFICES ASSUME RangeInv, BitsInv, [Next]_vars PROVE BitsInv'
  OBVIOUS
<1> USE DEF BitsInv
<1>1. CASE UNCHANGED vars
  BY <1>1 DEF vars, Blocks
<1>2. ASSUME NEW g \in Requests, WriteArrives(g) PROVE BitsInv'
  BY <1>2 DEF WriteArrives
<1>3. ASSUME NEW g \in Requests, ReadArrives(g) PROVE BitsInv'
  BY <1>3 DEF ReadArrives, Complete
<1>4. CASE LookAtEntry
  <2>1. queue[entry'] \in Requests
    BY <1>4 DEF LookAtEntry, RangeInv
  <2>2. Overlaps(queue[entry']) => BitsOf(queue[entry']) \subseteq 0 .. Blocks(read) - 1
    BY <1>4, <2>1, BitsInBitmap DEF LookAtEntry, RangeInv
  <2>3. bits' \subseteq 0 .. Blocks(read) - 1
    BY <1>4, <2>2 DEF LookAtEntry
  <2> QED BY <1>4, <2>3 DEF LookAtEntry, Blocks
<1>5. CASE PassOn \/ FilledByQueue \/ LastRunEnds
  BY <1>5 DEF PassOn, FilledByQueue, LastRunEnds, Complete
<1>6. CASE CreateScatter \/ ReadRun
  BY <1>6 DEF CreateScatter, ReadRun, Blocks
<1> QED BY <1>1, <1>2, <1>3, <1>4, <1>5, <1>6 DEF Next

-----------------------------------------------------------------------------
(* Extremes of sets of naturals                                            *)

NatLess == {p \in Nat \X Nat : p[1] < p[2]}

LEMMA NatLessWellFounded == IsWellFoundedOn(NatLess, Nat)
BY NatLessThanWellFounded DEF OpToRel, NatLess

LEMMA NatMin ==
  ASSUME NEW S \in SUBSET Nat, S # {}
  PROVE  Min(S) \in S /\ \A n \in S : Min(S) <= n
<1>1. PICK m \in S : \A k \in S : ~(<<k, m>> \in NatLess)
  BY NatLessWellFounded, WFMin
<1>2. ASSUME NEW k \in S PROVE m <= k
  <2>1. ~(k < m)
    BY <1>1 DEF NatLess
  <2> QED BY <2>1
<1> QED BY <1>2 DEF Min

\* The greatest element is the one at the least distance from the bound.
LEMMA NatMax ==
  ASSUME NEW S \in SUBSET Nat, NEW b \in Nat, S # {}, \A x \in S : x <= b
  PROVE  Max(S) \in S /\ \A x \in S : x <= Max(S)
<1> DEFINE T == {n \in Nat : b - n \in S}
<1>1. T \subseteq Nat /\ T # {}
  <2>1. PICK x \in S : TRUE
    OBVIOUS
  <2>2. b - x \in T
    BY <2>1
  <2> QED BY <2>2
<1>2. Min(T) \in Nat /\ b - Min(T) \in S /\ \A n \in T : Min(T) <= n
  <2>1. Min(T) \in T /\ \A n \in T : Min(T) <= n
    <3> HIDE DEF T
    <3> QED BY <1>1, NatMin
  <2> QED BY <2>1
<1>3. ASSUME NEW x \in S PROVE x <= b - Min(T)
  <2>1. b - x \in T
    OBVIOUS
  <2>2. Min(T) <= b - x
    BY <1>2, <2>1
  <2> QED BY <1>2, <2>2
<1>4. \E m \in S : \A x \in S : m >= x
  BY <1>2, <1>3
<1> QED BY <1>4 DEF Max

-----------------------------------------------------------------------------
(* The runs of clear bits                                                  *)

LEMMA BlocksNat == RangeInv => Blocks(read) \in Nat
<1> SUFFICES ASSUME RangeInv PROVE Blocks(read) \in Nat
  OBVIOUS
<1>1. read.length \in Nat
  BY SizesAssumption, RequestsLemma DEF RangeInv
<1> QED BY <1>1, SizesAssumption, DivisionLemma DEF Blocks

\* The buffer has room for the bitmap in whole ULONGs.
LEMMA BitmapRoom == RangeInv /\ BitsInv => BitmapFits
<1> SUFFICES ASSUME RangeInv, BitsInv, phase \in {"overlay", "split"} PROVE BitmapFits
  BY DEF BitmapFits
<1>1. Blocks(read) \in Nat
  BY BlocksNat
<1>2. 4 * ((Blocks(read) + 31) \div 32) <= Blocks(read) + 3
  BY <1>1
<1> QED BY <1>2 DEF BitmapFits, BitmapBytes, BitsInv

\* The clear bits that the search has passed
Passed == {i \in Clear(0) : i < next}

LEMMA ClearFinite ==
  ASSUME RangeInv, NEW S \in SUBSET Clear(0)
  PROVE  S \subseteq Nat /\ IsFiniteSet(S) /\ Cardinality(S) \in Nat
<1>1. Blocks(read) \in Nat
  BY BlocksNat
<1>2. S \subseteq 0 .. Blocks(read) - 1 /\ S \subseteq Nat
  BY <1>1 DEF Clear
<1>3. IsFiniteSet(0 .. Blocks(read) - 1)
  BY <1>1, FS_Interval
<1> QED BY <1>2, <1>3, FS_Subset, FS_CardinalityType

\* A run is all the clear bits between where the search begins and where it goes on.
LEMMA RunLemma ==
  ASSUME RangeInv, next \in Nat, Clear(next) # {}
  PROVE  LET run == RunFrom(next) IN
         /\ run = {i \in Clear(0) : next <= i /\ i < AfterRun(run)}
         /\ AfterRun(run) \in Nat /\ next < AfterRun(run)
<1> DEFINE C == Clear(next)
           run == RunFrom(next)
           m == Min(C)
           M == Max(run)
<1>1. Blocks(read) \in Nat
  BY BlocksNat
<1>2. C \subseteq Nat /\ C = {i \in Clear(0) : next <= i} /\ C # {}
      /\ \A i \in C : i <= Blocks(read)
  BY <1>1 DEF Clear
<1>3. run = {i \in C : m .. i \subseteq C}
  BY DEF RunFrom
<1>4. m \in C /\ \A i \in C : m <= i
  <2> HIDE DEF C
  <2> QED BY <1>2, NatMin
<1> HIDE DEF C, run, m
<1>5. m \in run
  <2>1. m .. m = {m}
    BY <1>2, <1>4
  <2> QED BY <1>3, <1>4, <2>1
<1>6. M \in run /\ \A i \in run : i <= M
  <2>1. run \subseteq Nat /\ run # {} /\ \A i \in run : i <= Blocks(read)
    BY <1>2, <1>3, <1>5
  <2> QED BY <1>1, <2>1, NatMax
<1> HIDE DEF M
<1>7. \A i \in C : i <= M => i \in run
  <2> SUFFICES ASSUME NEW i \in C, i <= M PROVE i \in run
    OBVIOUS
  <2>1. m .. i \subseteq m .. M /\ m .. M \subseteq C
    BY <1>2, <1>3, <1>4, <1>6
  <2> QED BY <1>3, <2>1
<1>8. AfterRun(run) = M + 1
  BY DEF AfterRun, M
<1>9. M \in Nat /\ next <= M
  BY <1>2, <1>3, <1>6
<1>10. run = {i \in Clear(0) : next <= i /\ i < M + 1}
  <2>1. ASSUME NEW i \in run PROVE i \in Clear(0) /\ next <= i /\ i < M + 1
    BY <1>2, <1>3, <1>6, <1>9, <2>1
  <2>2. ASSUME NEW i \in Clear(0), next <= i, i < M + 1 PROVE i \in run
    <3>1. i \in C /\ i <= M
      BY <1>2, <1>9, <2>2
    <3> QED BY <1>7, <3>1
  <2> QED BY <2>1, <2>2
<1>11. M + 1 \in Nat /\ next < M + 1
  BY <1>9
<1> QED BY <1>8, <1>10, <1>11 DEF run

\* What has been requested from below is what the search has passed.
RunsInv ==
  /\ next \in Nat /\ runs \in Seq(SUBSET Passed)
  /\ phase \in {"idle", "overlay"} => runs = <<>> /\ next = 0 /\ info = 0
  /\ \A i \in Passed : \E k \in DOMAIN runs : i \in runs[k]
  /\ \A j, k \in DOMAIN runs : j # k => runs[j] \cap runs[k] = {}
  /\ phase = "split" \/ (Served /\ runs # <<>>) => info = BlockSize * Cardinality(Passed)
  /\ Served /\ runs # <<>> => Clear(next) = {}

LEMMA RunsStep == RangeInv /\ RunsInv /\ [Next]_vars => RunsInv'
<1> SUFFICES ASSUME RangeInv, RunsInv, [Next]_vars PROVE RunsInv'
  OBVIOUS
<1>1. CASE UNCHANGED vars
  BY <1>1 DEF vars, RunsInv, Passed, Clear, Blocks, Served
<1>2. ASSUME phase = "idle" \/ phase = "overlay",
             UNCHANGED <<next, runs>>,
             \/ phase' \in {"idle", "overlay", "split"} /\ info' = info
             \/ phase' = "done"
      PROVE  RunsInv'
  <2>1. runs' = <<>> /\ next' = 0 /\ Passed' = {}
    BY <1>2 DEF RunsInv, Passed, Clear
  <2>2. Cardinality(Passed') = 0 /\ BlockSize * 0 = 0
    BY <2>1, FS_EmptySet, SizesAssumption
  <2>3. runs' \in Seq(SUBSET Passed')
    BY <2>1
  <2>4. info = 0
    BY <1>2 DEF RunsInv
  <2>5. (Served /\ runs # <<>>)' = FALSE
    BY <2>1 DEF Served
  <2>6. phase' \in {"idle", "overlay", "split"} => info' = 0
    BY <1>2, <2>4
  <2> QED BY <1>2, <2>1, <2>2, <2>3, <2>5, <2>6 DEF RunsInv
<1>3. CASE \/ \E g \in Requests : WriteArrives(g) \/ ReadArrives(g)
           \/ LookAtEntry \/ PassOn \/ FilledByQueue \/ CreateScatter
  BY <1>2, <1>3 DEF WriteArrives, ReadArrives, LookAtEntry, PassOn, FilledByQueue,
                    CreateScatter, Complete
<1>4. CASE ReadRun
  <2> DEFINE run == RunFrom(next)
             n == AfterRun(run)
  <2>1. /\ next \in Nat /\ Clear(next) # {} /\ next' = n /\ runs' = Append(runs, run)
        /\ info' = info + Cardinality(run) * BlockSize
        /\ phase = "split" /\ phase' = "split" /\ Clear(0)' = Clear(0)
    BY <1>4 DEF ReadRun, RunsInv, Clear, Blocks
  <2>2. run = {i \in Clear(0) : next <= i /\ i < n} /\ n \in Nat /\ next < n
    BY <2>1, RunLemma
  <2> HIDE DEF run, n
  <2>3. Clear(0) \subseteq Nat
    BY ClearFinite
  <2>4. Passed' = {i \in Clear(0) : i < n}
    BY <2>1 DEF Passed
  <2>5. Passed' = Passed \cup run /\ Passed \cap run = {}
    BY <2>1, <2>2, <2>3, <2>4 DEF Passed
  <2>6. /\ runs \in Seq(SUBSET Passed)
        /\ \A i \in Passed : \E k \in DOMAIN runs : i \in runs[k]
        /\ \A j, k \in DOMAIN runs : j # k => runs[j] \cap runs[k] = {}
        /\ info = BlockSize * Cardinality(Passed)
    BY <2>1 DEF RunsInv
  <2>7. runs' \in Seq(SUBSET (Passed'))
    <3>1. runs \in Seq(SUBSET (Passed')) /\ run \in SUBSET (Passed')
      BY <2>5, <2>6
    <3> QED BY <2>1, <3>1
  <2>8. /\ DOMAIN runs' = DOMAIN runs \cup {Len(runs) + 1}
        /\ \A k \in DOMAIN runs : runs'[k] = runs[k] /\ runs[k] \subseteq Passed
        /\ runs'[Len(runs) + 1] = run
    BY <2>1, <2>6
  <2>9. \A i \in Passed' : \E k \in DOMAIN runs' : i \in runs'[k]
    BY <2>5, <2>6, <2>8
  <2>10. \A j, k \in DOMAIN runs' : j # k => runs'[j] \cap runs'[k] = {}
    BY <2>5, <2>6, <2>8
  <2>11. info' = BlockSize * Cardinality(Passed')
    <3>1. /\ IsFiniteSet(Passed) /\ Cardinality(Passed) \in Nat
          /\ IsFiniteSet(run) /\ Cardinality(run) \in Nat
      <4>1. Passed \in SUBSET Clear(0) /\ run \in SUBSET Clear(0)
        BY <2>2 DEF Passed
      <4> QED BY <4>1, ClearFinite
    <3>2. Cardinality(Passed') = Cardinality(Passed) + Cardinality(run)
      <4>1. Cardinality(Passed \cap run) = 0
        BY <2>5, FS_EmptySet
      <4>2. Cardinality(Passed \cup run)
              = Cardinality(Passed) + Cardinality(run) - Cardinality(Passed \cap run)
        BY <3>1, FS_Union
      <4>3. Cardinality(Passed') = Cardinality(Passed \cup run)
        BY <2>5
      <4> QED BY <3>1, <4>1, <4>2, <4>3
    <3> DEFINE p == Cardinality(Passed)
               r == Cardinality(run)
    <3>3. p \in Nat /\ r \in Nat /\ BlockSize \in Nat
      BY <3>1, SizesAssumption
    <3> HIDE DEF p, r
    <3>4. BlockSize * p + r * BlockSize = BlockSize * (p + r)
      BY <3>3
    <3> QED BY <2>1, <2>6, <3>2, <3>4 DEF p, r
  <2> QED BY <2>1, <2>2, <2>7, <2>9, <2>10, <2>11 DEF RunsInv, Served
<1>5. CASE LastRunEnds
  <2>1. UNCHANGED <<read, bits, next, runs, info>> /\ phase = "split" /\ phase' = "done"
    BY <1>5 DEF LastRunEnds, Complete
  <2>2. Clear(next) = {}
    BY <1>5 DEF LastRunEnds
  <2>3. Passed' = Passed /\ Clear(next)' = Clear(next)
    BY <2>1 DEF Passed, Clear, Blocks
  <2> QED BY <2>1, <2>2, <2>3 DEF RunsInv
<1> QED BY <1>1, <1>3, <1>4, <1>5 DEF Next

\* The bitmap fits its buffer, and the runs that a mixed read requests from below are,
\* without overlap, exactly the clear bits, and what it reports, for every size of the
\* block and the read and whatever the queue holds.
\* read.cpp 84-99, 140-144, 170-238; partialirp.cpp 164
THEOREM RunsCoverTheBitmap == Spec => []BitmapCovers
<1>1. Init => BitsInv /\ RunsInv
  <2> SUFFICES ASSUME Init PROVE BitsInv /\ RunsInv
    OBVIOUS
  <2>1. Passed = {}
    BY DEF Init, Passed, Clear
  <2> QED BY <2>1 DEF Init, BitsInv, RunsInv, Served
<1>2. RangeInv /\ BitsInv /\ RunsInv => BitmapCovers
  <2> SUFFICES ASSUME RangeInv, BitsInv, RunsInv PROVE BitmapCovers
    OBVIOUS
  <2>1. ASSUME Served, runs # <<>>
        PROVE  /\ UNION {runs[k] : k \in DOMAIN runs} = Clear(0)
               /\ info = BlockSize * Cardinality(Clear(0))
    <3>1. Clear(next) = {} /\ next \in Nat /\ Clear(0) \subseteq Nat
      BY <2>1, ClearFinite DEF RunsInv
    <3>2. Passed = Clear(0)
      BY <3>1, BlocksNat DEF Passed, Clear
    <3>3. \A k \in DOMAIN runs : runs[k] \subseteq Passed
      BY DEF RunsInv
    <3>4. \A i \in Passed : \E k \in DOMAIN runs : i \in runs[k]
      BY DEF RunsInv
    <3>5. UNION {runs[k] : k \in DOMAIN runs} = Clear(0)
      BY <3>2, <3>3, <3>4
    <3>6. info = BlockSize * Cardinality(Passed)
      BY <2>1 DEF RunsInv
    <3> QED BY <3>2, <3>5, <3>6
  <2> QED BY <2>1, BitmapRoom DEF BitmapCovers, RunsInv
<1> QED BY <1>1, <1>2, BitsStep, RunsStep, RangeInit, RangeStep, PTL DEF Spec

-----------------------------------------------------------------------------
(* The bytes of whole blocks                                               *)

\* The block of the device that a byte of the buffer belongs to
Block(b) == (read.offset + b) \div BlockSize

HeldBy(w, b) == read.offset + b \in w.offset .. End(w) - 1

\* No block that an unaligned write reaches into
Whole(w, b) ==
  Aligned(w) \/ Block(b) \notin w.offset \div BlockSize .. (End(w) - 1) \div BlockSize

\* What is copied of a write is what the read asks for of it.
LEMMA CopiedLemma ==
  ASSUME read \in Requests, NEW w \in Requests, NEW b \in 0 .. read.length - 1
  PROVE  /\ HeldBy(w, b) => Overlaps(w)
         /\ Overlaps(w) => (Copied(b, w) <=> HeldBy(w, b))
<1>1. /\ read.offset \in Nat /\ read.length \in Nat
      /\ w.offset \in Nat /\ w.length \in Nat
  BY SizesAssumption, RequestsLemma
<1>2. End(w) = w.offset + w.length /\ End(read) = read.offset + read.length
  BY DEF End
<1>3. Max({w.offset, read.offset}) = (IF w.offset >= read.offset THEN w.offset ELSE read.offset)
  BY <1>1, MaxOfTwo
<1>4. Min({End(w), End(read)}) = (IF End(w) <= End(read) THEN End(w) ELSE End(read))
  BY <1>1, <1>2, MinOfTwo
<1>5. HeldBy(w, b) => Overlaps(w)
  BY <1>1, <1>2 DEF HeldBy, Overlaps
<1>6. ASSUME Overlaps(w) PROVE Copied(b, w) <=> HeldBy(w, b)
  <2>1. /\ First(w) = (IF w.offset >= read.offset THEN w.offset ELSE read.offset) - read.offset
        /\ Limit(w) = (IF End(w) <= End(read) THEN End(w) ELSE End(read)) - read.offset
    BY <1>3, <1>4 DEF First, Limit
  <2> QED BY <1>1, <1>2, <2>1 DEF Copied, HeldBy
<1> QED BY <1>5, <1>6

LEMMA ExtentLemma ==
  ASSUME read \in Requests, NEW w \in Requests, Overlaps(w)
  PROVE  /\ First(w) \in Nat /\ Limit(w) \in Nat /\ Limit(w) - First(w) \in Nat
         /\ w.offset <= read.offset + First(w) /\ read.offset + Limit(w) <= End(w)
         /\ First(w) \in {0, w.offset - read.offset}
         /\ Limit(w) \in {read.length, w.offset + w.length - read.offset}
<1>1. /\ read.offset \in Nat /\ read.length \in Nat
      /\ w.offset \in Nat /\ w.length \in Nat
  BY SizesAssumption, RequestsLemma
<1>2. End(w) = w.offset + w.length /\ End(read) = read.offset + read.length
  BY DEF End
<1>3. Max({w.offset, read.offset}) = (IF w.offset >= read.offset THEN w.offset ELSE read.offset)
  BY <1>1, MaxOfTwo
<1>4. Min({End(w), End(read)}) = (IF End(w) <= End(read) THEN End(w) ELSE End(read))
  BY <1>1, <1>2, MinOfTwo
<1>5. First(w) = (IF w.offset >= read.offset THEN w.offset ELSE read.offset) - read.offset
  BY <1>3 DEF First
<1>6. Limit(w) = (IF End(w) <= End(read) THEN End(w) ELSE End(read)) - read.offset
  BY <1>4 DEF Limit
<1>7. w.offset < End(read) /\ End(w) > read.offset
  BY DEF Overlaps
<1> QED BY <1>1, <1>2, <1>5, <1>6, <1>7

\* The bits of an aligned write are the blocks that are copied.
LEMMA AlignedBits ==
  ASSUME read \in Requests, Aligned(read), NEW w \in Requests, Aligned(w), Overlaps(w),
         NEW b \in Nat
  PROVE  b \div BlockSize \in BitsOf(w) <=> Copied(b, w)
<1>1. /\ read.offset \in Nat /\ read.length \in Nat /\ BlockSize \in Nat \ {0}
      /\ w.offset \in Nat /\ w.length \in Nat
  BY SizesAssumption, RequestsLemma
<1>2. PICK a \in Nat, c \in Nat, u \in Nat, v \in Nat :
        /\ read.offset = BlockSize * a /\ read.length = BlockSize * c
        /\ w.offset = BlockSize * u /\ w.length = BlockSize * v
  <2>1. /\ read.offset = BlockSize * (read.offset \div BlockSize)
        /\ read.length = BlockSize * (read.length \div BlockSize)
        /\ w.offset = BlockSize * (w.offset \div BlockSize)
        /\ w.length = BlockSize * (w.length \div BlockSize)
    BY <1>1, DivisionExact DEF Aligned
  <2>2. /\ read.offset \div BlockSize \in Nat /\ read.length \div BlockSize \in Nat
        /\ w.offset \div BlockSize \in Nat /\ w.length \div BlockSize \in Nat
    BY <1>1, DivisionLemma
  <2> QED BY <2>1, <2>2
<1>3. PICK f \in Int : First(w) = BlockSize * f
  <2>1. BlockSize * (u - a) = w.offset - read.offset /\ BlockSize * 0 = 0
    BY <1>1, <1>2
  <2>2. u - a \in Int /\ 0 \in Int
    BY <1>2
  <2> QED BY <2>1, <2>2, ExtentLemma
<1>4. PICK l \in Int : Limit(w) = BlockSize * l
  <2>1. BlockSize * (u + v - a) = w.offset + w.length - read.offset
    BY <1>1, <1>2
  <2>2. u + v - a \in Int /\ c \in Int
    BY <1>2
  <2> QED BY <1>2, <2>1, <2>2, ExtentLemma
<1>5. First(w) \in Nat /\ Limit(w) - First(w) \in Nat
  BY ExtentLemma
<1>6. First(w) \div BlockSize = f
  BY <1>1, <1>3, <1>5, DivisionUnique
<1>7. (Limit(w) - First(w)) \div BlockSize = l - f
  <2>1. BlockSize * (l - f) = Limit(w) - First(w)
    BY <1>1, <1>3, <1>4
  <2> QED BY <1>1, <1>5, <2>1, DivisionUnique
<1>8. BitsOf(w) = f .. l - 1
  BY <1>6, <1>7 DEF BitsOf
<1>9. b \div BlockSize \in f .. l - 1 <=> First(w) <= b /\ b < Limit(w)
  BY <1>1, <1>3, <1>4, DivisionSpan
<1>10. Copied(b, w) <=> First(w) <= b /\ b < Limit(w)
  BY <1>5, ExtentLemma DEF Copied
<1> QED BY <1>8, <1>9, <1>10

\* A byte of the buffer and its block, when the read begins with a block
LEMMA BlockLemma ==
  ASSUME read \in Requests, Aligned(read), NEW b \in Nat
  PROVE  Block(b) = read.offset \div BlockSize + b \div BlockSize
<1>1. read.offset \in Nat /\ BlockSize \in Nat \ {0}
  BY SizesAssumption, RequestsLemma
<1>2. read.offset = BlockSize * (read.offset \div BlockSize)
      /\ read.offset \div BlockSize \in Nat
  BY <1>1, DivisionExact, DivisionLemma DEF Aligned
<1>3. (BlockSize * (read.offset \div BlockSize) + b) \div BlockSize
        = read.offset \div BlockSize + b \div BlockSize
  BY <1>1, <1>2, DivisionShift
<1> QED BY <1>2, <1>3 DEF Block

\* An unaligned write neither holds a byte nor sets the bit of a block that it does
\* not reach into.
LEMMA UnalignedBits ==
  ASSUME read \in Requests, Aligned(read), NEW w \in Requests, Overlaps(w), NEW b \in Nat,
         Block(b) \notin w.offset \div BlockSize .. (End(w) - 1) \div BlockSize
  PROVE  b \div BlockSize \notin BitsOf(w) /\ ~HeldBy(w, b)
<1>1. /\ read.offset \in Nat /\ read.length \in Nat /\ BlockSize \in Nat \ {0}
      /\ w.offset \in Nat /\ w.length \in Nat
  BY SizesAssumption, RequestsLemma
<1>2. /\ First(w) \in Nat /\ Limit(w) \in Nat /\ Limit(w) - First(w) \in Nat
      /\ w.offset <= read.offset + First(w) /\ read.offset + Limit(w) <= End(w)
  BY ExtentLemma
<1>3. End(w) = w.offset + w.length /\ End(w) > read.offset /\ End(w) - 1 \in Nat
  BY <1>1 DEF End, Overlaps
<1>4. Block(b) \in Nat /\ w.offset \div BlockSize \in Nat /\ (End(w) - 1) \div BlockSize \in Nat
  BY <1>1, <1>3, DivisionLemma DEF Block
<1>5. ~HeldBy(w, b)
  <2> SUFFICES ASSUME HeldBy(w, b) PROVE FALSE
    OBVIOUS
  <2>1. w.offset <= read.offset + b /\ read.offset + b <= End(w) - 1 /\ read.offset + b \in Nat
    BY <1>1, <1>3 DEF HeldBy
  <2>2. w.offset \div BlockSize <= Block(b) /\ Block(b) <= (End(w) - 1) \div BlockSize
    BY <1>1, <1>3, <2>1, DivisionMonotonic DEF Block
  <2> QED BY <1>4, <2>2
<1>6. b \div BlockSize \notin BitsOf(w)
  <2> SUFFICES ASSUME b \div BlockSize \in BitsOf(w) PROVE FALSE
    OBVIOUS
  <2> DEFINE a == read.offset \div BlockSize
             q == b \div BlockSize
             f == First(w) \div BlockSize
             s == (Limit(w) - First(w)) \div BlockSize
             t == Limit(w) \div BlockSize
  <2>1. a \in Nat /\ q \in Nat /\ f \in Nat /\ s \in Nat /\ t \in Nat
        /\ BlockSize * t <= Limit(w)
    BY <1>1, <1>2, DivisionLemma
  <2>2. f <= q /\ q <= f + s - 1
    BY <2>1 DEF BitsOf
  <2>3. f + s <= t
    BY <1>1, <1>2, BlocksAddUp
  <2>4. Block(b) = a + q /\ Block(First(w)) = a + f
    BY <1>2, BlockLemma
  <2>5. w.offset \div BlockSize <= Block(First(w))
    BY <1>1, <1>2, DivisionMonotonic DEF Block
  <2>6. read.offset = BlockSize * a
    BY <1>1, DivisionExact DEF Aligned
  <2> HIDE DEF a, q, f, s, t
  <2>7. w.offset \div BlockSize <= Block(b)
    BY <1>4, <2>1, <2>2, <2>4, <2>5
  <2>8. q + 1 <= t
    BY <2>1, <2>2, <2>3
  <2>9. PICK e \in Nat : t = q + 1 + e
    <3>1. t - q - 1 \in Nat
      BY <2>1, <2>8
    <3> QED BY <2>1, <3>1
  <2>10. /\ BlockSize * t = BlockSize * q + BlockSize + BlockSize * e
         /\ BlockSize * e >= 0 /\ BlockSize * q \in Nat
    BY <1>1, <2>1, <2>9
  <2>11. BlockSize * (a + q) = BlockSize * a + BlockSize * q
    BY <1>1, <2>1
  <2>12. BlockSize * (a + q) <= End(w) - 1 /\ BlockSize * (a + q) \in Nat
    <3> DEFINE n == BlockSize * (a + q)
               k == BlockSize * q
               j == BlockSize * e
               m == BlockSize * t
    <3>1. n = read.offset + k /\ m = k + BlockSize + j /\ j >= 0 /\ k \in Nat /\ j \in Int
      BY <1>1, <2>6, <2>9, <2>10, <2>11
    <3>2. m <= Limit(w)
      BY <2>1
    <3> HIDE DEF n, k, j, m
    <3>3. n <= End(w) - 1 /\ n \in Nat
      BY <1>1, <1>2, <1>3, <3>1, <3>2
    <3> QED BY <3>3 DEF n
  <2>13. BlockSize * (a + q) < BlockSize * ((End(w) - 1) \div BlockSize) + BlockSize
    <3>1. End(w) - 1 < BlockSize * ((End(w) - 1) \div BlockSize) + BlockSize
      BY <1>1, <1>3, DivisionLemma
    <3>2. BlockSize * ((End(w) - 1) \div BlockSize) \in Nat
      BY <1>1, <1>4
    <3> QED BY <1>1, <1>3, <2>12, <3>1, <3>2
  <2>14. a + q <= (End(w) - 1) \div BlockSize
    BY <1>1, <1>4, <2>1, <2>13, FewerTimes
  <2> QED BY <1>4, <2>4, <2>7, <2>14
<1> QED BY <1>5, <1>6

\* Where no unaligned write reaches, the bit of a byte says whether a write holds it.
LEMMA BitsLemma ==
  ASSUME read \in Requests, Aligned(read), NEW w \in Requests, Overlaps(w),
         NEW b \in 0 .. read.length - 1, Whole(w, b)
  PROVE  b \div BlockSize \in BitsOf(w) <=> HeldBy(w, b)
<1>1. b \in Nat
  BY SizesAssumption, RequestsLemma
<1> QED BY <1>1, AlignedBits, UnalignedBits, CopiedLemma DEF Whole

LEMMA MaxIs ==
  ASSUME NEW S \in SUBSET Int, NEW m \in S, \A x \in S : x <= m
  PROVE  Max(S) = m
<1>1. \A y \in S : m >= y
  OBVIOUS
<1>2. \A x \in S : (\A y \in S : x >= y) => x = m
  OBVIOUS
<1> QED BY <1>1, <1>2 DEF Max

WholeByte(b) == \A i \in DOMAIN queue : Whole(queue[i], b)

\* Of the first n writes the buffer has the last one that holds a byte.
Latest(b, n) ==
  /\ buf[b] \in 1 .. n /\ HeldBy(queue[buf[b]], b)
  /\ \A j \in 1 .. n : HeldBy(queue[j], b) => j <= buf[b]

LEMMA NewestLemma ==
  ASSUME RangeInv, NEW b
  PROVE  /\ (\A i \in 1 .. Len(queue) : ~HeldBy(queue[i], b)) => Newest(b) = 0
         /\ Latest(b, Len(queue)) => Newest(b) = buf[b]
<1> DEFINE S == {0} \cup {i \in DOMAIN queue : HeldBy(queue[i], b)}
<1>1. Newest(b) = Max(S)
  BY DEF Newest, HeldBy
<1>2. DOMAIN queue = 1 .. Len(queue) /\ Len(queue) \in Nat
  BY DEF RangeInv
<1>3. S \in SUBSET Int /\ 0 \in S
  BY <1>2
<1>4. ASSUME \A i \in 1 .. Len(queue) : ~HeldBy(queue[i], b) PROVE Max(S) = 0
  <2>1. \A x \in S : x <= 0
    BY <1>2, <1>4
  <2> HIDE DEF S
  <2> QED BY <1>3, <2>1, MaxIs
<1>5. ASSUME Latest(b, Len(queue)) PROVE Max(S) = buf[b]
  <2>1. buf[b] \in S /\ \A x \in S : x <= buf[b]
    BY <1>2, <1>5 DEF Latest
  <2> HIDE DEF S
  <2> QED BY <1>3, <2>1, MaxIs
<1> QED BY <1>1, <1>4, <1>5

\* What the overlay has done after some entries, and the runs after it
BytesInv ==
  /\ entry \in 0 .. Len(queue)
  /\ phase = "idle" => entry = 0 /\ any = FALSE
  /\ phase \in {"overlay", "split"} => Aligned(read) /\ DOMAIN buf = 0 .. read.length - 1
  /\ phase = "overlay" /\ any = FALSE => \A i \in 1 .. entry : ~Overlaps(queue[i])
  /\ phase = "split" => entry = Len(queue)
  /\ phase \in {"overlay", "split"} => \A b \in DOMAIN buf : WholeByte(b) =>
       /\ b \div BlockSize \in bits => Latest(b, entry)
       /\ b \div BlockSize \notin bits => \A i \in 1 .. entry : ~HeldBy(queue[i], b)
       /\ phase = "split" /\ b \div BlockSize \notin bits /\ b \div BlockSize < next => buf[b] = 0
  /\ WholeBlocksExact

\* A clear bit of a byte of the buffer is found by the search.
LEMMA ClearLemma ==
  ASSUME RangeInv, read \in Requests, Aligned(read), NEW b \in 0 .. read.length - 1,
         b \div BlockSize \notin bits
  PROVE  /\ b \div BlockSize \in Clear(0)
         /\ next \in Nat /\ next <= b \div BlockSize => b \div BlockSize \in Clear(next)
<1>1. read.length \in Nat /\ BlockSize \in Nat \ {0} /\ b \in Nat /\ b < read.length
  BY SizesAssumption, RequestsLemma
<1>2. read.length = BlockSize * Blocks(read) /\ Blocks(read) \in Nat
  BY <1>1, DivisionExact, BlocksNat DEF Aligned, Blocks
<1>3. BlockSize * 0 <= b
  BY <1>1
<1>4. b \div BlockSize \in 0 .. Blocks(read) - 1
  <2> DEFINE l == Blocks(read)
  <2>1. l \in Int /\ b < BlockSize * l
    BY <1>1, <1>2
  <2> HIDE DEF l
  <2>2. b \div BlockSize \in 0 .. l - 1
    <3>1. \A f \in Int : BlockSize * f <= b => b \div BlockSize \in f .. l - 1
      BY <1>1, <2>1, DivisionSpan
    <3> QED BY <1>3, <3>1
  <2> QED BY <2>2 DEF l
<1> QED BY <1>4 DEF Clear

\* What the property asks for, in terms of the writes of the queue
LEMMA ServedBytes ==
  WholeBlocksExact <=> (Served => \A b \in DOMAIN buf : WholeByte(b) => buf[b] = Newest(b))
BY DEF WholeBlocksExact, WholeByte, Whole, Block

LEMMA EntryStep == RangeInv /\ BitsInv /\ BytesInv /\ LookAtEntry => BytesInv'
<1> SUFFICES ASSUME RangeInv, BitsInv, BytesInv, LookAtEntry PROVE BytesInv'
  OBVIOUS
<1> DEFINE w == queue[entry + 1]
<1>1. /\ phase = "overlay" /\ phase' = "overlay" /\ UNCHANGED <<queue, read, next>>
      /\ entry \in Nat /\ entry' = entry + 1 /\ entry + 1 \in 1 .. Len(queue)
      /\ Aligned(read) /\ DOMAIN buf = 0 .. read.length - 1
      /\ read \in Requests
  BY DEF LookAtEntry, BytesInv, RangeInv
<1>2. w \in Requests /\ DOMAIN queue = 1 .. Len(queue)
  BY <1>1 DEF RangeInv
<1>3. \/ ~Overlaps(w) /\ UNCHANGED <<buf, bits, any>>
      \/ /\ Overlaps(w) /\ any' = TRUE /\ bits' = bits \cup BitsOf(w)
         /\ buf' = [b \in DOMAIN buf |-> IF Copied(b, w) THEN entry + 1 ELSE buf[b]]
  BY <1>1 DEF LookAtEntry
<1>4. DOMAIN buf' = DOMAIN buf
  BY <1>3
<1>5. \A i \in 1 .. entry' : i \in 1 .. entry \/ i = entry + 1
  BY <1>1
<1>6. any' = FALSE => \A i \in 1 .. entry' : ~Overlaps(queue[i])
  BY <1>1, <1>3, <1>5 DEF BytesInv
<1>7. ASSUME NEW b \in DOMAIN buf, WholeByte(b)
      PROVE  /\ b \div BlockSize \in bits' => Latest(b, entry)' 
             /\ b \div BlockSize \notin bits' => \A i \in 1 .. entry' : ~HeldBy(queue[i], b)
  <2>1. /\ b \div BlockSize \in bits => Latest(b, entry)
        /\ b \div BlockSize \notin bits => \A i \in 1 .. entry : ~HeldBy(queue[i], b)
    BY <1>1, <1>7 DEF BytesInv
  <2>2. b \in 0 .. read.length - 1 /\ Whole(w, b)
    BY <1>1, <1>2, <1>7 DEF WholeByte
  <2>3. HeldBy(w, b) => Overlaps(w)
    BY <1>1, <1>2, <2>2, CopiedLemma
  <2>4. Latest(b, entry)' <=>
          /\ buf'[b] \in 1 .. entry + 1 /\ HeldBy(queue[buf'[b]], b)
          /\ \A j \in 1 .. entry + 1 : HeldBy(queue[j], b) => j <= buf'[b]
    BY <1>1 DEF Latest, HeldBy, End
  <2>5. CASE ~HeldBy(w, b)
    <3>1. buf'[b] = buf[b]
      BY <1>1, <1>2, <1>3, <1>7, <2>2, <2>5, CopiedLemma
    <3>2. b \div BlockSize \in bits' <=> b \div BlockSize \in bits
      BY <1>1, <1>2, <1>3, <2>2, <2>5, BitsLemma
    <3>3. Latest(b, entry) => Latest(b, entry)'
      BY <1>1, <1>5, <2>4, <2>5, <3>1 DEF Latest
    <3> QED BY <1>1, <1>5, <2>1, <2>5, <3>2, <3>3
  <2>6. CASE HeldBy(w, b)
    <3>1. buf'[b] = entry + 1
      BY <1>1, <1>2, <1>3, <1>7, <2>2, <2>3, <2>6, CopiedLemma
    <3>2. b \div BlockSize \in bits'
      BY <1>1, <1>2, <1>3, <2>2, <2>3, <2>6, BitsLemma
    <3>3. Latest(b, entry)'
      BY <1>1, <2>4, <2>6, <3>1
    <3> QED BY <3>2, <3>3
  <2> QED BY <2>5, <2>6
<1>8. \A b \in DOMAIN buf : WholeByte(b)' <=> WholeByte(b)
  BY <1>1 DEF WholeByte, Whole, Block, End, Aligned
<1>9. \A b \in DOMAIN buf, i \in 1 .. entry' : HeldBy(queue[i], b)' <=> HeldBy(queue[i], b)
  BY <1>1 DEF HeldBy, End
<1>10. WholeBlocksExact'
  BY <1>1 DEF WholeBlocksExact, Served
<1>11. (\A i \in 1 .. entry : ~Overlaps(queue[i]))' <=> \A i \in 1 .. entry' : ~Overlaps(queue[i])
  BY <1>1 DEF Overlaps, End
<1> QED BY <1>1, <1>4, <1>6, <1>7, <1>8, <1>9, <1>10, <1>11 DEF BytesInv, Aligned

LEMMA RunBytesStep == RangeInv /\ RunsInv /\ BytesInv /\ ReadRun => BytesInv'
<1> SUFFICES ASSUME RangeInv, RunsInv, BytesInv, ReadRun PROVE BytesInv'
  OBVIOUS
<1> DEFINE run == RunFrom(next)
           n == AfterRun(run)
<1>1. /\ phase = "split" /\ phase' = "split" /\ next' = n /\ next \in Nat
      /\ UNCHANGED <<queue, read, entry, bits, any>>
      /\ buf' = [b \in DOMAIN buf |-> IF b \in Bytes(run) THEN 0 ELSE buf[b]]
      /\ Clear(next) # {} /\ read \in Requests /\ Aligned(read)
      /\ DOMAIN buf = 0 .. read.length - 1 /\ entry = Len(queue)
  BY DEF ReadRun, FilledBelow, RunsInv, RangeInv, BytesInv
<1>2. run = {i \in Clear(0) : next <= i /\ i < n} /\ n \in Nat /\ next < n
  BY <1>1, RunLemma
<1> HIDE DEF run, n
<1>3. DOMAIN buf' = DOMAIN buf
  BY <1>1
<1>4. ASSUME NEW b \in DOMAIN buf, WholeByte(b)
      PROVE  /\ b \div BlockSize \in bits => Latest(b, entry)'
             /\ b \div BlockSize \notin bits => \A i \in 1 .. entry : ~HeldBy(queue[i], b)
             /\ b \div BlockSize \notin bits /\ b \div BlockSize < n => buf'[b] = 0
  <2>1. /\ b \div BlockSize \in bits => Latest(b, entry)
        /\ b \div BlockSize \notin bits => \A i \in 1 .. entry : ~HeldBy(queue[i], b)
        /\ b \div BlockSize \notin bits /\ b \div BlockSize < next => buf[b] = 0
    BY <1>1, <1>4 DEF BytesInv
  <2>2. ASSUME b \div BlockSize \in bits PROVE Latest(b, entry)'
    <3>1. b \notin Bytes(run)
      BY <1>2, <2>2 DEF Bytes, Clear
    <3>2. buf'[b] = buf[b]
      BY <1>1, <1>4, <3>1
    <3> QED BY <1>1, <2>1, <2>2, <3>2 DEF Latest, HeldBy, End
  <2>3. ASSUME b \div BlockSize \notin bits, b \div BlockSize < n PROVE buf'[b] = 0
    <3>1. CASE b \in Bytes(run)
      BY <1>1, <1>4, <3>1
    <3>2. CASE b \notin Bytes(run)
      <4>1. b \div BlockSize \in Clear(0)
        BY <1>1, <1>4, <2>3, ClearLemma
      <4>2. b \div BlockSize \notin run
        BY <1>4, <3>2 DEF Bytes
      <4>3. b \div BlockSize < next
        <5>1. b \div BlockSize \in Nat
          BY <4>1, ClearFinite
        <5> QED BY <1>1, <1>2, <2>3, <4>1, <4>2, <5>1
      <4> QED BY <1>1, <1>4, <2>1, <2>3, <3>2, <4>3
    <3> QED BY <3>1, <3>2
  <2> QED BY <2>1, <2>2, <2>3
<1>5. \A b \in DOMAIN buf : WholeByte(b)' <=> WholeByte(b)
  BY <1>1 DEF WholeByte, Whole, Block, End, Aligned
<1>6. \A b \in DOMAIN buf, i \in 1 .. entry : HeldBy(queue[i], b)' <=> HeldBy(queue[i], b)
  BY <1>1 DEF HeldBy, End
<1>7. WholeBlocksExact'
  BY <1>1 DEF WholeBlocksExact, Served
<1>8. entry' = Len(queue') /\ entry' \in 0 .. Len(queue')
  BY <1>1 DEF BytesInv
<1> QED BY <1>1, <1>3, <1>4, <1>5, <1>6, <1>7, <1>8 DEF BytesInv, Aligned

\* A read that ends: every byte of a whole block is the newest, or the disk's.
LEMMA ServedStep ==
  ASSUME RangeInv, BytesInv, UNCHANGED <<queue, read, entry>>, phase' = "done",
         DOMAIN buf' = DOMAIN buf, entry = Len(queue),
         \A b \in DOMAIN buf : WholeByte(b) =>
           \/ buf'[b] = buf[b] /\ Latest(b, entry)
           \/ buf'[b] = 0 /\ \A i \in 1 .. entry : ~HeldBy(queue[i], b)
  PROVE  BytesInv'
<1>1. ASSUME NEW b \in DOMAIN buf', WholeByte(b)' PROVE buf'[b] = Newest(b)'
  <2>1. WholeByte(b)
    BY <1>1 DEF WholeByte, Whole, Block, End, Aligned
  <2>2. Newest(b)' = Newest(b)
    BY DEF Newest, End
  <2>3. \/ buf'[b] = buf[b] /\ Latest(b, Len(queue))
        \/ buf'[b] = 0 /\ \A i \in 1 .. Len(queue) : ~HeldBy(queue[i], b)
    BY <1>1, <2>1
  <2> QED BY <2>2, <2>3, NewestLemma
<1>2. WholeBlocksExact' <=>
        (Served' => \A b \in DOMAIN buf' : WholeByte(b)' => buf'[b] = Newest(b)')
  BY DEF WholeBlocksExact, WholeByte, Whole, Block
<1>3. WholeBlocksExact'
  BY <1>1, <1>2
<1> QED BY <1>3 DEF BytesInv

LEMMA BytesStep == RangeInv /\ BitsInv /\ RunsInv /\ BytesInv /\ [Next]_vars => BytesInv'
<1> SUFFICES ASSUME RangeInv, BitsInv, RunsInv, BytesInv, [Next]_vars PROVE BytesInv'
  OBVIOUS
<1>1. CASE UNCHANGED vars
  BY <1>1 DEF vars, BytesInv, WholeBlocksExact, Served, WholeByte, Whole, Block, End, Aligned,
              Latest, HeldBy, Overlaps, Newest
<1>2. ASSUME NEW g \in Requests, WriteArrives(g) PROVE BytesInv'
  <2>1. Len(queue') = Len(queue) + 1 /\ Len(queue) \in Nat
    BY <1>2 DEF WriteArrives, RangeInv
  <2>2. phase = "idle" /\ phase' = "idle" /\ UNCHANGED <<entry, any>>
    BY <1>2 DEF WriteArrives
  <2>3. WholeBlocksExact'
    BY <2>2 DEF WholeBlocksExact, Served
  <2> QED BY <2>1, <2>2, <2>3 DEF BytesInv
<1>3. ASSUME NEW g \in Requests, ReadArrives(g) PROVE BytesInv'
  <2>1. /\ phase = "idle" /\ UNCHANGED <<queue, entry, bits, any, next>> /\ read' = g
        /\ buf' = [b \in 0 .. g.length - 1 |-> Unfilled]
        /\ entry = 0 /\ any = FALSE /\ bits = {}
    BY <1>3 DEF ReadArrives, BytesInv, BitsInv
  <2>2. CASE phase' = "overlay"
    <3>1. Aligned(g)
      BY <1>3, <2>2 DEF ReadArrives, Complete
    <3>2. WholeBlocksExact'
      BY <2>2 DEF WholeBlocksExact, Served
    <3>3. bits' = {} /\ 1 .. entry' = {}
      BY <2>1
    <3> QED BY <2>1, <2>2, <3>1, <3>2, <3>3 DEF BytesInv, Aligned
  <2>3. CASE phase' = "done"
    <3>1. status' = "SUCCESS" => g.length = 0
      BY <1>3, <2>3 DEF ReadArrives, Complete
    <3>2. Served' => DOMAIN buf' = {}
      BY <2>1, <3>1 DEF Served
    <3>3. WholeBlocksExact'
      BY <3>2 DEF WholeBlocksExact
    <3> QED BY <2>1, <2>3, <3>3 DEF BytesInv
  <2> QED BY <1>3, <2>2, <2>3 DEF ReadArrives, Complete
<1>4. CASE LookAtEntry
  BY <1>4, EntryStep
<1>5. CASE PassOn
  <2>1. /\ phase = "overlay" /\ phase' = "done" /\ UNCHANGED <<queue, read, entry>>
        /\ entry = Len(queue) /\ ~any
        /\ buf' = [b \in DOMAIN buf |-> IF b \in DOMAIN buf THEN 0 ELSE buf[b]]
    BY <1>5 DEF PassOn, Complete, FilledBelow
  <2>2. DOMAIN buf' = DOMAIN buf /\ \A b \in DOMAIN buf : buf'[b] = 0
    BY <2>1
  <2>3. DOMAIN buf = 0 .. read.length - 1 /\ read \in Requests /\ Len(queue) \in Nat
    BY <2>1 DEF BytesInv, RangeInv
  <2>4. \A i \in 1 .. entry : queue[i] \in Requests /\ ~Overlaps(queue[i])
    BY <2>1 DEF BytesInv, RangeInv
  <2>5. \A b \in DOMAIN buf, i \in 1 .. entry : ~HeldBy(queue[i], b)
    BY <2>3, <2>4, CopiedLemma
  <2> QED BY <2>1, <2>2, <2>5, ServedStep
<1>6. CASE FilledByQueue
  <2>1. /\ phase = "overlay" /\ phase' = "done" /\ UNCHANGED <<queue, read, entry, buf>>
        /\ entry = Len(queue) /\ Clear(0) = {}
    BY <1>6 DEF FilledByQueue, Complete
  <2>2. /\ DOMAIN buf = 0 .. read.length - 1 /\ read \in Requests /\ Aligned(read)
        /\ \A b \in DOMAIN buf : WholeByte(b) => (b \div BlockSize \in bits => Latest(b, entry))
    BY <2>1 DEF BytesInv, RangeInv
  <2>3. \A b \in DOMAIN buf : b \div BlockSize \in bits
    BY <2>1, <2>2, ClearLemma
  <2> QED BY <2>1, <2>2, <2>3, ServedStep
<1>7. CASE CreateScatter
  <2>1. /\ phase = "overlay" /\ phase' = "split" /\ entry = Len(queue)
        /\ UNCHANGED <<queue, read, entry, buf, bits, any, next, runs>>
    BY <1>7 DEF CreateScatter
  <2>2. next = 0
    BY <2>1 DEF RunsInv
  <2>3. \A b \in DOMAIN buf : ~(b \div BlockSize < 0)
    <3>1. DOMAIN buf \subseteq Nat
      BY <2>1, SizesAssumption, RequestsLemma DEF BytesInv, RangeInv
    <3>2. \A b \in Nat : b \div BlockSize \in Nat
      BY SizesAssumption, DivisionLemma
    <3> QED BY <3>1, <3>2
  <2>4. WholeBlocksExact'
    BY <2>1 DEF WholeBlocksExact, Served
  <2>5. /\ \A b \in DOMAIN buf : WholeByte(b)' <=> WholeByte(b)
        /\ \A b \in DOMAIN buf : Latest(b, entry)' <=> Latest(b, entry)
        /\ \A b \in DOMAIN buf, i \in 1 .. entry : HeldBy(queue[i], b)' <=> HeldBy(queue[i], b)
    BY <2>1 DEF WholeByte, Whole, Block, End, Aligned, Latest, HeldBy
  <2>6. entry' \in 0 .. Len(queue') /\ Aligned(read)' /\ DOMAIN buf' = 0 .. read'.length - 1
    BY <2>1 DEF BytesInv, Aligned
  <2> QED BY <2>1, <2>2, <2>3, <2>4, <2>5, <2>6 DEF BytesInv
<1>8. CASE ReadRun
  BY <1>8, RunBytesStep
<1>9. CASE LastRunEnds
  <2>1. /\ phase = "split" /\ phase' = "done" /\ UNCHANGED <<queue, read, entry, buf>>
        /\ entry = Len(queue) /\ Clear(next) = {} /\ next \in Nat
    BY <1>9 DEF LastRunEnds, Complete, BytesInv, RunsInv
  <2>2. /\ DOMAIN buf = 0 .. read.length - 1 /\ read \in Requests /\ Aligned(read)
        /\ \A b \in DOMAIN buf : WholeByte(b) =>
             /\ b \div BlockSize \in bits => Latest(b, entry)
             /\ b \div BlockSize \notin bits => \A i \in 1 .. entry : ~HeldBy(queue[i], b)
             /\ b \div BlockSize \notin bits /\ b \div BlockSize < next => buf[b] = 0
    BY <2>1 DEF BytesInv, RangeInv
  <2>3. \A b \in DOMAIN buf : b \div BlockSize \notin bits => b \div BlockSize < next
    <3> SUFFICES ASSUME NEW b \in DOMAIN buf, b \div BlockSize \notin bits
                 PROVE  b \div BlockSize < next
      OBVIOUS
    <3>1. b \div BlockSize \in Clear(0)
      BY <2>2, ClearLemma
    <3>2. b \div BlockSize \in Nat
      BY <3>1, ClearFinite
    <3>3. ~(next <= b \div BlockSize)
      BY <2>1, <2>2, ClearLemma
    <3> QED BY <2>1, <3>2, <3>3
  <2> QED BY <2>1, <2>2, <2>3, ServedStep
<1> QED BY <1>1, <1>2, <1>3, <1>4, <1>5, <1>6, <1>7, <1>8, <1>9 DEF Next

\* For every size of the block, the device and the requests, and whatever overlaps: a
\* byte of a block that no unaligned write reaches into comes from the newest write
\* that holds it, or else from below.  read.cpp 114-151, 170-238
THEOREM ReadsReturnTheNewestBytes == Spec => []WholeBlocksExact
<1>1. Init => BitsInv /\ RunsInv /\ BytesInv
  <2> SUFFICES ASSUME Init PROVE BitsInv /\ RunsInv /\ BytesInv
    OBVIOUS
  <2>1. Passed = {}
    BY DEF Init, Passed, Clear
  <2> QED BY <2>1 DEF Init, BitsInv, RunsInv, BytesInv, Served, WholeBlocksExact
<1>2. BytesInv => WholeBlocksExact
  BY DEF BytesInv
<1> QED BY <1>1, <1>2, BitsStep, RunsStep, BytesStep, RangeInit, RangeStep, PTL DEF Spec

=============================================================================
