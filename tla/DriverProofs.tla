---------------------------- MODULE DriverProofs ----------------------------
(***************************************************************************)
(* Proofs about DriverLoad: whatever fails, the driver holds nothing when  *)
(* it is gone, and no filter device is left half made; the list of disks   *)
(* in the registry is tried to its end, and every device has its limits.   *)
(***************************************************************************)
EXTENDS DriverLoad, SequenceTheorems, FiniteSetTheorems, WellFoundedInduction, TLAPS

-----------------------------------------------------------------------------
(* What the driver holds                                                   *)

\* The key and the event are taken once each, and by nobody but DriverEntry; its
\* memory is there only while it runs.
HeldInv ==
  /\ key \in BOOLEAN /\ lowMem \in BOOLEAN
  /\ (key => openKeys = 1) /\ (~key => openKeys = 0)
  /\ (lowMem => lowRefs = 1) /\ (~lowMem => lowRefs = 0)
  /\ at \in {"absent", "failed", "low"} => ~lowMem
  /\ at \in {"absent", "failed", "low", "high", "path", "key"} => ~key
  /\ at \in {"absent", "failed", "loaded", "low"} => blocks = {}
  /\ at \in Attaching /\ caller = "pnp" => blocks = {}

LEMMA HeldInit == Init => HeldInv
BY DEF Init, HeldInv, Attaching

\* The two ways out of DriverEntry, and QCacheUnload
LEMMA UnloadLemma ==
  ASSUME HeldInv, Unload
  PROVE  ~key' /\ ~lowMem' /\ openKeys' = 0 /\ lowRefs' = 0
<1>1. openKeys' = 0
  <2>1. CASE key
    BY <2>1 DEF HeldInv, Unload, One
  <2>2. CASE ~key
    BY <2>2 DEF HeldInv, Unload, One
  <2> QED BY <2>1, <2>2
<1>2. lowRefs' = 0
  <2>1. CASE lowMem
    BY <2>1 DEF HeldInv, Unload, One
  <2>2. CASE ~lowMem
    BY <2>2 DEF HeldInv, Unload, One
  <2> QED BY <2>1, <2>2
<1> QED BY <1>1, <1>2 DEF Unload

LEMMA FailHolds == HeldInv /\ Fail => HeldInv'
<1> SUFFICES ASSUME HeldInv, Fail PROVE HeldInv'
  OBVIOUS
<1>1. ~key' /\ ~lowMem' /\ openKeys' = 0 /\ lowRefs' = 0
  BY UnloadLemma DEF Fail
<1>2. at' = "failed" /\ blocks' = {} /\ key' = FALSE /\ lowMem' = FALSE
  BY DEF Fail, Unload
<1> QED BY <1>1, <1>2 DEF HeldInv, Attaching

LEMMA SucceedHolds == HeldInv /\ Succeed => HeldInv'
BY DEF HeldInv, Succeed, held, Attaching

LEMMA HeldStep == HeldInv /\ [Next]_vars => HeldInv'
<1> SUFFICES ASSUME HeldInv, [Next]_vars PROVE HeldInv'
  OBVIOUS
<1>1. CASE UNCHANGED vars
  BY <1>1 DEF HeldInv, vars, held, Attaching
<1>2. CASE Load
  BY <1>2 DEF HeldInv, Load, Attaching
<1>3. CASE OpenLowMemory
  <2>1. /\ ~lowMem /\ lowRefs = 0 /\ ~key /\ openKeys = 0
        /\ at' = "high" /\ key' = key /\ openKeys' = openKeys
    BY <1>3 DEF HeldInv, OpenLowMemory, Goes
  <2>4. ~key' /\ openKeys' = 0 /\ key' \in BOOLEAN
    BY <2>1 DEF HeldInv
  <2>2. CASE lowMem' = TRUE /\ lowRefs' = lowRefs + 1
    <3>1. lowRefs' = 1 /\ lowMem'
      BY <2>1, <2>2
    <3> QED BY <2>1, <2>2, <2>4, <3>1 DEF HeldInv, Attaching
  <2>3. CASE UNCHANGED <<lowMem, lowRefs>>
    <3>1. ~lowMem' /\ lowRefs' = 0 /\ lowMem' \in BOOLEAN
      BY <2>1, <2>3 DEF HeldInv
    <3> QED BY <2>1, <2>4, <3>1 DEF HeldInv, Attaching
  <2> QED BY <1>3, <2>2, <2>3 DEF OpenLowMemory
<1>4. CASE OpenHighMemory
  BY <1>4 DEF HeldInv, OpenHighMemory, Goes, Attaching
<1>5. CASE MakeKeyPath
  BY <1>5, FailHolds DEF HeldInv, MakeKeyPath, held, Attaching
<1>6. CASE OpenKey
  <2>1. CASE Succeed
    BY <2>1, SucceedHolds
  <2>2. CASE /\ at' = "limits" /\ key' = TRUE /\ openKeys' = openKeys + 1
             /\ UNCHANGED <<lowMem, lowRefs>>
    <3>1. openKeys' = 1 /\ key'
      BY <1>6, <2>2 DEF HeldInv, OpenKey
    <3> QED BY <2>2, <3>1 DEF HeldInv, Attaching
  <2> QED BY <1>6, <2>1, <2>2 DEF OpenKey
<1>7. CASE ReadLimits
  <2>1. CASE Fail
    BY <2>1, FailHolds
  <2>2. CASE at' = "list" /\ UNCHANGED held
    BY <1>7, <2>2 DEF HeldInv, ReadLimits, held, Attaching
  <2> QED BY <1>7, <2>1, <2>2 DEF ReadLimits
<1>8. CASE ReadList
  BY <1>8, FailHolds, SucceedHolds DEF HeldInv, ReadList, held, Attaching
<1>9. CASE TryName
  <2>1. CASE Fail
    BY <2>1, FailHolds
  <2>2. CASE at' \in {"create", "wild"} /\ UNCHANGED <<blocks, held>> /\ (at' = "create" => caller' = "entry")
    BY <1>9, <2>2 DEF HeldInv, TryName, held, Attaching
  <2> QED BY <1>9, <2>1, <2>2 DEF TryName
<1>10. CASE RunOver
  BY <1>10 DEF HeldInv, RunOver, Goes, held, Attaching
<1>11. CASE EndOfNames
  BY <1>11, SucceedHolds DEF EndOfNames
<1>12. CASE AddDevice
  BY <1>12 DEF HeldInv, AddDevice, Goes, held, Attaching
<1>13. CASE CreateDevice \/ AttachToStack \/ TestDirectIo
  BY <1>13 DEF HeldInv, CreateDevice, AttachToStack, TestDirectIo, Ignored, held, Attaching
<1>14. CASE StartWorker
  BY <1>14, FailHolds DEF HeldInv, StartWorker, held, Attaching
<1>15. ASSUME NEW i \in DOMAIN filters, RemoveDevice(i) PROVE HeldInv'
  BY <1>15 DEF HeldInv, RemoveDevice, held, Attaching
<1>16. CASE UnloadDriver
  <2>1. ~key' /\ ~lowMem' /\ openKeys' = 0 /\ lowRefs' = 0
    BY <1>16, UnloadLemma DEF UnloadDriver
  <2>2. at' = "absent" /\ at = "loaded" /\ UNCHANGED blocks /\ key' = FALSE /\ lowMem' = FALSE
    BY <1>16 DEF UnloadDriver, Unload, Goes
  <2> QED BY <2>1, <2>2 DEF HeldInv, Attaching
<1> QED BY <1>1, <1>2, <1>3, <1>4, <1>5, <1>6, <1>7, <1>8, <1>9, <1>10, <1>11, <1>12,
           <1>13, <1>14, <1>15, <1>16 DEF Next

\* Wherever DriverEntry gives up, and when the driver is unloaded, the key is closed
\* and the low-memory event is not referenced; nothing is closed twice.
\* mainwdm.cpp 48-425, 1536-1571
THEOREM DriverHoldsNothing == Spec => []UnloadedHoldsNothing
<1>1. HeldInv => UnloadedHoldsNothing
  <2> SUFFICES ASSUME HeldInv PROVE UnloadedHoldsNothing
    OBVIOUS
  <2>1. openKeys = One(key)
    BY DEF HeldInv, One
  <2>2. lowRefs = One(lowMem)
    BY DEF HeldInv, One
  <2> QED BY <2>1, <2>2 DEF HeldInv, UnloadedHoldsNothing
<1> QED BY <1>1, HeldInit, HeldStep, PTL DEF Spec

-----------------------------------------------------------------------------
(* The filter devices                                                      *)

LimitSet  == [Limits -> Seq(0 .. Base - 1)]
DeviceSet == [exists : BOOLEAN, stack : BOOLEAN, worker : BOOLEAN, cached : BOOLEAN,
              limits : LimitSet]

Complete(d) == d.exists /\ d.stack /\ d.worker /\ d.cached
Gone(d)     == ~d.exists /\ ~d.stack /\ ~d.worker

\* Only the last device may be neither, and only between its creation and the start
\* of its worker.
DeviceInv ==
  /\ registry \in Registries /\ limits \in LimitSet /\ filters \in Seq(DeviceSet)
  /\ \A i \in DOMAIN filters :
       \/ Complete(filters[i]) \/ Gone(filters[i])
       \/ at \in {"stack", "direct", "thread"} /\ i = Len(filters)
  /\ at \in {"stack", "direct", "thread"} =>
       /\ filters # <<>>
       /\ Device.exists /\ ~Device.worker /\ (Device.stack <=> at # "stack")

LEMMA StoredLemma ==
  ASSUME NEW old \in Seq(0 .. Base - 1), NEW value \in Values
  PROVE  Stored(old, value) \in Seq(0 .. Base - 1)
<1> DEFINE B == 0 .. Base - 1
<1>1. value \in Seq(B) /\ 0 \in B
  BY RegistryAssumption
<1>2. Len(old) \in Nat /\ Len(value) \in Nat /\ DOMAIN old = 1 .. Len(old)
  BY <1>1, LenProperties
<1>3. ASSUME NEW i \in 1 .. Len(old), i <= Len(value) PROVE value[i] \in B
  <2>1. i \in 1 .. Len(value)
    BY <1>2, <1>3
  <2> QED BY <1>1, <2>1, ElementOfSeq
<1> HIDE DEF B
<1>4. Stored(old, value) \in [1 .. Len(old) -> B]
  BY <1>1, <1>2, <1>3 DEF Stored
<1>5. Stored(old, value) \in Seq(B)
  BY <1>2, <1>4
<1> QED BY <1>5 DEF B

\* The last device of the list takes another state.
LEMMA BecomesLemma ==
  ASSUME filters \in Seq(DeviceSet), filters # <<>>, NEW d \in DeviceSet, Becomes(d)
  PROVE  /\ filters' \in Seq(DeviceSet) /\ Len(filters') = Len(filters)
         /\ DOMAIN filters' = DOMAIN filters
         /\ Device' = d
         /\ \A i \in DOMAIN filters : i # Len(filters) => filters'[i] = filters[i]
BY DEF Becomes, Device, Last

LEMMA DeviceLemma ==
  ASSUME filters \in Seq(DeviceSet), filters # <<>>
  PROVE  Device \in DeviceSet /\ Device = filters[Len(filters)] /\ Len(filters) \in DOMAIN filters
BY DEF Device, Last

\* Nobody is in QCacheAttachDevice, before and after.
LEMMA RestKeepsDevices ==
  ASSUME DeviceInv, at \notin {"stack", "direct", "thread"},
         at' \notin {"stack", "direct", "thread"}, UNCHANGED <<filters, limits, registry>>
  PROVE  DeviceInv'
BY DEF DeviceInv, Complete, Gone

\* A step of QCacheAttachDevice leaves the device complete, or gone.
LEMMA DeviceSettles ==
  ASSUME DeviceInv, at \in {"stack", "direct", "thread"},
         at' \notin {"stack", "direct", "thread"}, UNCHANGED <<limits, registry>>,
         NEW d \in DeviceSet, Becomes(d), Complete(d) \/ Gone(d)
  PROVE  DeviceInv'
<1>1. filters \in Seq(DeviceSet) /\ filters # <<>>
  BY DEF DeviceInv
<1>2. /\ filters' \in Seq(DeviceSet) /\ DOMAIN filters' = DOMAIN filters /\ Device' = d
      /\ Len(filters') = Len(filters)
      /\ \A i \in DOMAIN filters : i # Len(filters) => filters'[i] = filters[i]
  BY <1>1, BecomesLemma
<1>3. ASSUME NEW i \in DOMAIN filters PROVE Complete(filters'[i]) \/ Gone(filters'[i])
  <2>1. CASE i = Len(filters)
    BY <1>2, <2>1 DEF Device, Last
  <2>2. CASE i # Len(filters)
    BY <1>2, <2>2 DEF DeviceInv
  <2> QED BY <2>1, <2>2
<1> QED BY <1>2, <1>3 DEF DeviceInv, Complete, Gone

\* The device is on its way.
LEMMA DeviceAdvances ==
  ASSUME DeviceInv, at \in {"stack", "direct", "thread"}, at' \in {"direct", "thread"},
         UNCHANGED <<limits, registry>>,
         NEW d \in DeviceSet, Becomes(d), d.exists, d.stack, ~d.worker
  PROVE  DeviceInv'
<1>1. filters \in Seq(DeviceSet) /\ filters # <<>>
  BY DEF DeviceInv
<1>2. /\ filters' \in Seq(DeviceSet) /\ DOMAIN filters' = DOMAIN filters /\ Device' = d
      /\ Len(filters') = Len(filters) /\ filters' # <<>>
      /\ \A i \in DOMAIN filters : i # Len(filters) => filters'[i] = filters[i]
  BY <1>1, BecomesLemma
<1> QED BY <1>2 DEF DeviceInv, Complete, Gone

LEMMA DeviceInit == Init => DeviceInv
BY RegistryAssumption DEF Init, DeviceInv, LimitSet

LEMMA DeviceStep == DeviceInv /\ [Next]_vars => DeviceInv'
<1> SUFFICES ASSUME DeviceInv, [Next]_vars PROVE DeviceInv'
  OBVIOUS
<1> DEFINE Steps == {"stack", "direct", "thread"}
<1>1. CASE UNCHANGED vars
  BY <1>1 DEF DeviceInv, vars, config, Complete, Gone, Device
<1>2. CASE Load
  <2>1. registry' \in Registries /\ limits' \in LimitSet /\ filters' = <<>>
    BY <1>2, RegistryAssumption DEF Load, LimitSet
  <2> QED BY <1>2, <2>1 DEF Load, DeviceInv
<1>3. CASE OpenLowMemory \/ OpenHighMemory \/ MakeKeyPath \/ OpenKey \/ ReadList \/ TryName
           \/ RunOver \/ EndOfNames \/ AddDevice \/ UnloadDriver
  <2>1. UNCHANGED <<filters, limits, registry>>
    BY <1>3 DEF OpenLowMemory, OpenHighMemory, MakeKeyPath, OpenKey, ReadList, TryName,
                RunOver, EndOfNames, AddDevice, UnloadDriver, config
  <2>2. at \notin Steps /\ at' \notin Steps
    BY <1>3 DEF OpenLowMemory, OpenHighMemory, MakeKeyPath, OpenKey, ReadList, TryName,
                RunOver, EndOfNames, AddDevice, UnloadDriver, Goes, Succeed, Fail
  <2> QED BY <2>1, <2>2, RestKeepsDevices
<1>4. CASE ReadLimits
  <2>1. limits' \in LimitSet
    <3>1. CASE UNCHANGED limits
      BY <3>1 DEF DeviceInv
    <3>2. CASE limits' = [v \in Limits |-> IF Fits(registry.limit[v])
                                          THEN Stored(limits[v], registry.limit[v]) ELSE limits[v]]
      <4>1. ASSUME NEW v \in Limits, Fits(registry.limit[v])
            PROVE  Stored(limits[v], registry.limit[v]) \in Seq(0 .. Base - 1)
        <5>1. limits[v] \in Seq(0 .. Base - 1) /\ registry.limit[v] \in Values
          BY <4>1 DEF DeviceInv, LimitSet, Registries, Fits
        <5> QED BY <5>1, StoredLemma
      <4>2. \A v \in Limits : limits[v] \in Seq(0 .. Base - 1)
        BY DEF DeviceInv, LimitSet
      <4> QED BY <3>2, <4>1, <4>2 DEF LimitSet
    <3> QED BY <1>4, <3>1, <3>2 DEF ReadLimits
  <2>2. UNCHANGED <<filters, registry>> /\ at \notin Steps /\ at' \notin Steps
    BY <1>4 DEF ReadLimits, Fail
  <2> QED BY <2>1, <2>2 DEF DeviceInv, Complete, Gone
<1>5. CASE CreateDevice
  <2>1. CASE Ignored /\ UNCHANGED filters
    <3>1. at \notin Steps /\ at' \notin Steps /\ UNCHANGED <<filters, limits, registry>>
      BY <1>5, <2>1 DEF CreateDevice, Ignored, config
    <3> QED BY <3>1, RestKeepsDevices
  <2>2. CASE at' = "stack" /\ filters' = Append(filters, New)
    <3>1. New \in DeviceSet /\ New.exists /\ ~New.stack /\ ~New.worker
      BY DEF New, DeviceSet, DeviceInv
    <3>2. /\ filters' \in Seq(DeviceSet) /\ Len(filters') = Len(filters) + 1
          /\ \A i \in DOMAIN filters : filters'[i] = filters[i]
          /\ filters'[Len(filters')] = New
          /\ DOMAIN filters' = 1 .. Len(filters) + 1 /\ DOMAIN filters = 1 .. Len(filters)
      BY <2>2, <3>1 DEF DeviceInv
    <3>3. filters' # <<>> /\ Device' = New
      BY <3>2 DEF Device, Last
    <3>4. at = "create" /\ UNCHANGED <<limits, registry>>
      BY <1>5 DEF CreateDevice, config
    <3>5. ASSUME NEW i \in DOMAIN filters', i # Len(filters')
          PROVE  Complete(filters'[i]) \/ Gone(filters'[i])
      <4>1. i \in DOMAIN filters
        BY <3>2, <3>5 DEF DeviceInv
      <4> QED BY <3>2, <3>4, <4>1 DEF DeviceInv
    <3> QED BY <2>2, <3>1, <3>2, <3>3, <3>4, <3>5 DEF DeviceInv, Complete, Gone
  <2> QED BY <1>5, <2>1, <2>2 DEF CreateDevice
<1>6. CASE AttachToStack \/ TestDirectIo \/ StartWorker
  <2>1. at \in Steps /\ UNCHANGED <<limits, registry>>
    BY <1>6 DEF AttachToStack, TestDirectIo, StartWorker, config
  <2>2. filters \in Seq(DeviceSet) /\ filters # <<>> /\ Device \in DeviceSet
    BY <2>1, DeviceLemma DEF DeviceInv
  <2>3. Device.exists /\ ~Device.worker /\ (Device.stack <=> at # "stack")
    BY <2>1 DEF DeviceInv
  <2>4. Ignored \/ Fail => at' \notin Steps
    BY DEF Ignored, Fail
  <2>5. CASE AttachToStack
    <3>1. CASE at' = "direct" /\ Becomes([Device EXCEPT !.stack = TRUE])
      <4> DEFINE d == [Device EXCEPT !.stack = TRUE]
      <4>1. d \in DeviceSet /\ d.exists /\ d.stack /\ ~d.worker
        BY <2>2, <2>3 DEF DeviceSet
      <4> QED BY <2>1, <3>1, <4>1, DeviceAdvances
    <3>2. CASE Ignored /\ Becomes(Deleted(Device))
      <4>1. Deleted(Device) \in DeviceSet /\ Gone(Deleted(Device))
        BY <2>2, <2>3, <2>5 DEF DeviceSet, Deleted, Gone, AttachToStack
      <4> QED BY <2>1, <2>4, <3>2, <4>1, DeviceSettles
    <3> QED BY <2>5, <3>1, <3>2 DEF AttachToStack
  <2>6. Undone(Device) \in DeviceSet /\ Gone(Undone(Device))
    BY <2>2 DEF DeviceSet, Undone, Deleted, Gone
  <2>7. CASE TestDirectIo
    <3>1. CASE at' = "thread" /\ UNCHANGED filters
      BY <2>1, <2>7, <3>1 DEF TestDirectIo, DeviceInv, Device, Complete, Gone
    <3>2. CASE Ignored /\ Becomes(Undone(Device))
      BY <2>1, <2>4, <2>6, <3>2, DeviceSettles
    <3> QED BY <2>7, <3>1, <3>2 DEF TestDirectIo
  <2>8. CASE StartWorker
    <3>1. at' \notin Steps
      BY <2>4, <2>8 DEF StartWorker
    <3>2. CASE Becomes([Device EXCEPT !.worker = TRUE, !.cached = TRUE])
      <4> DEFINE d == [Device EXCEPT !.worker = TRUE, !.cached = TRUE]
      <4>1. d \in DeviceSet /\ Complete(d)
        BY <2>2, <2>3, <2>8 DEF DeviceSet, Complete, StartWorker
      <4> QED BY <2>1, <3>1, <3>2, <4>1, DeviceSettles
    <3>3. CASE Becomes(Undone(Device))
      BY <2>1, <2>6, <3>1, <3>3, DeviceSettles
    <3> QED BY <2>8, <3>2, <3>3 DEF StartWorker
  <2> QED BY <1>6, <2>5, <2>7, <2>8
<1>7. ASSUME NEW i \in DOMAIN filters, RemoveDevice(i) PROVE DeviceInv'
  <2>1. filters[i] \in DeviceSet
    BY DEF DeviceInv
  <2>2. Undone(filters[i]) \in DeviceSet /\ Gone(Undone(filters[i]))
    BY <2>1 DEF DeviceSet, Undone, Deleted, Gone
  <2>3. /\ filters' = [filters EXCEPT ![i] = Undone(filters[i])]
        /\ at \notin Steps /\ at' = at /\ UNCHANGED <<limits, registry>>
    BY <1>7 DEF RemoveDevice, config
  <2>4. filters' \in Seq(DeviceSet) /\ DOMAIN filters' = DOMAIN filters
        /\ \A j \in DOMAIN filters : filters'[j] = IF j = i THEN Undone(filters[i]) ELSE filters[j]
    BY <2>2, <2>3 DEF DeviceInv
  <2> QED BY <2>2, <2>3, <2>4 DEF DeviceInv, Complete, Gone
<1> QED BY <1>1, <1>2, <1>3, <1>4, <1>5, <1>6, <1>7 DEF Next

\* However far an attachment comes before it fails, the filter device is complete or
\* taken out of the stack, without a worker, and deleted.
\* mainwdm.cpp 771-951, QCacheAttachDevice
THEOREM DevicesAreWhole == Spec => []NoHalfDevice
<1>1. DeviceInv => NoHalfDevice
  <2> SUFFICES ASSUME DeviceInv, NEW i \in DOMAIN filters
               PROVE  LET d == filters[i] IN
                        IF d.exists
                        THEN (at \in Attaching /\ i = Len(filters)) \/ (d.stack /\ d.worker /\ d.cached)
                        ELSE ~d.stack /\ ~d.worker
    BY DEF NoHalfDevice
  <2>1. CASE Complete(filters[i])
    BY <2>1 DEF Complete
  <2>2. CASE Gone(filters[i])
    BY <2>2 DEF Gone
  <2>3. CASE at \in {"stack", "direct", "thread"} /\ i = Len(filters)
    BY <2>3 DEF DeviceInv, Device, Last, Attaching
  <2> QED BY <2>1, <2>2, <2>3 DEF DeviceInv
<1> QED BY <1>1, DeviceInit, DeviceStep, PTL DEF Spec

-----------------------------------------------------------------------------
(* The bytes of the names                                                  *)

NatLess == {p \in Nat \X Nat : p[1] < p[2]}

LEMMA NatLessWellFounded == IsWellFoundedOn(NatLess, Nat)
BY NatLessThanWellFounded DEF OpToRel, NatLess

\* A set of naturals that does not contain the first element it has is empty.
LEMMA NoLeastElement ==
  ASSUME NEW S \in SUBSET Nat, \A m \in S : \E k \in S : k < m
  PROVE  S = {}
<1> SUFFICES ASSUME S # {} PROVE FALSE
  OBVIOUS
<1>1. PICK m \in S : \A k \in S : ~(<<k, m>> \in NatLess)
  BY NatLessWellFounded, WFMin
<1>2. PICK k \in S : k < m
  OBVIOUS
<1> QED BY <1>1, <1>2 DEF NatLess

\* The bytes of one name with its null, and those of the names up to and after one
BytesAt(names, i)    == {i} \X (1 .. NameBytes[names[i]] + 2)
BytesUpTo(names, k)  == UNION {BytesAt(names, i) : i \in 1 .. k}
BytesAfter(names, k) == UNION {BytesAt(names, i) : i \in k + 1 .. Len(names)}

LEMMA NameLemma ==
  ASSUME NEW names \in Seq(Disks), NEW i \in 1 .. Len(names)
  PROVE  /\ names[i] \in Disks /\ NameBytes[names[i]] \in Nat \ {0}
         /\ IsFiniteSet(BytesAt(names, i))
         /\ Cardinality(BytesAt(names, i)) = NameBytes[names[i]] + 2
<1>1. names[i] \in Disks /\ NameBytes[names[i]] \in Nat \ {0}
  BY RegistryAssumption
<1> DEFINE n == NameBytes[names[i]] + 2
<1>2. n \in Nat /\ n >= 3
  BY <1>1
<1> HIDE DEF n
<1>3. IsFiniteSet(1 .. n) /\ Cardinality(1 .. n) = n
  BY <1>2, FS_Interval
<1>4. IsFiniteSet({i}) /\ Cardinality({i}) = 1
  BY FS_Singleton
<1>5. IsFiniteSet({i} \X (1 .. n)) /\ Cardinality({i} \X (1 .. n)) = 1 * n
  BY <1>3, <1>4, FS_Product
<1> QED BY <1>1, <1>2, <1>5 DEF BytesAt, n

LEMMA UpToFinite ==
  ASSUME NEW names \in Seq(Disks)
  PROVE  \A k \in 0 .. Len(names) : IsFiniteSet(BytesUpTo(names, k))
<1> DEFINE S == {k \in 0 .. Len(names) : ~IsFiniteSet(BytesUpTo(names, k))}
<1>1. S \in SUBSET Nat
  OBVIOUS
<1>2. ASSUME NEW m \in S PROVE \E k \in S : k < m
  <2>1. m # 0
    <3>1. BytesUpTo(names, 0) = {}
      BY DEF BytesUpTo
    <3> QED BY <3>1, FS_EmptySet
  <2>2. m - 1 \in 0 .. Len(names) /\ m \in 1 .. Len(names) /\ m - 1 < m
    BY <2>1
  <2>3. 1 .. m = (1 .. m - 1) \cup {m}
    BY <2>2
  <2>4. BytesUpTo(names, m) = BytesUpTo(names, m - 1) \cup BytesAt(names, m)
    BY <2>3 DEF BytesUpTo
  <2>5. ~IsFiniteSet(BytesUpTo(names, m - 1))
    <3>1. IsFiniteSet(BytesAt(names, m))
      BY <2>2, NameLemma
    <3>2. ~IsFiniteSet(BytesUpTo(names, m))
      OBVIOUS
    <3> QED BY <2>4, <3>1, <3>2, FS_Union
  <2> QED BY <2>2, <2>5
<1> HIDE DEF S
<1>3. S = {}
  BY <1>1, <1>2, NoLeastElement
<1> QED BY <1>3 DEF S

\* The names after one are the next name and the names after that.
LEMMA AfterLemma ==
  ASSUME NEW names \in Seq(Disks), NEW k \in 0 .. Len(names)
  PROVE  /\ IsFiniteSet(BytesAfter(names, k)) /\ Cardinality(BytesAfter(names, k)) \in Nat
         /\ k = Len(names) => Cardinality(BytesAfter(names, k)) = 0
         /\ k # Len(names) => Cardinality(BytesAfter(names, k))
              = Cardinality(BytesAfter(names, k + 1)) + NameBytes[names[k + 1]] + 2
<1> DEFINE n == Len(names)
<1>1. n \in Nat
  OBVIOUS
<1>2. IsFiniteSet(BytesUpTo(names, n))
  BY <1>1, UpToFinite
<1>3. \A j \in 0 .. n : BytesAfter(names, j) \subseteq BytesUpTo(names, n)
  BY DEF BytesAfter, BytesUpTo
<1>4. \A j \in 0 .. n : /\ IsFiniteSet(BytesAfter(names, j))
                        /\ Cardinality(BytesAfter(names, j)) \in Nat
  BY <1>2, <1>3, FS_Subset, FS_CardinalityType
<1>5. ASSUME k = n PROVE Cardinality(BytesAfter(names, k)) = 0
  <2>1. BytesAfter(names, k) = {}
    BY <1>5 DEF BytesAfter
  <2> QED BY <2>1, FS_EmptySet
<1>6. ASSUME k # n
      PROVE  Cardinality(BytesAfter(names, k))
               = Cardinality(BytesAfter(names, k + 1)) + NameBytes[names[k + 1]] + 2
  <2> DEFINE A == BytesAfter(names, k + 1)
             B == BytesAt(names, k + 1)
  <2>1. k + 1 \in 1 .. n /\ k + 1 \in 0 .. n
    BY <1>1, <1>6
  <2>2. k + 1 .. n = {k + 1} \cup (k + 1 + 1 .. n)
    BY <2>1
  <2>3. BytesAfter(names, k) = A \cup B
    BY <2>2 DEF BytesAfter
  <2>4. A \cap B = {}
    BY <2>1 DEF BytesAfter, BytesAt
  <2>5. Cardinality(A \cap B) = 0
    BY <2>4, FS_EmptySet
  <2>6. IsFiniteSet(B) /\ Cardinality(B) = NameBytes[names[k + 1]] + 2
        /\ NameBytes[names[k + 1]] \in Nat
    BY <2>1, NameLemma
  <2>7. IsFiniteSet(A) /\ Cardinality(A) \in Nat
    BY <1>4, <2>1
  <2> HIDE DEF A, B
  <2>8. Cardinality(A \cup B) = Cardinality(A) + Cardinality(B) - Cardinality(A \cap B)
    BY <2>6, <2>7, FS_Union
  <2> QED BY <2>3, <2>5, <2>6, <2>7, <2>8 DEF A
<1> QED BY <1>4, <1>5, <1>6

LEMMA ListBytesLemma ==
  ASSUME NEW list \in Lists
  PROVE  /\ list.names \in Seq(Disks) /\ list.tail \in Nat
         /\ ListBytes(list) \in Nat
         /\ list.names # <<>> =>
              ListBytes(list) = Cardinality(BytesAfter(list.names, 0)) + list.tail - 2
<1>1. list.names \in Seq(Disks) /\ list.tail \in Nat
  BY RegistryAssumption
<1> DEFINE names == list.names
<1>2. BytesAfter(names, 0) = NamesBytes(names)
  BY <1>1 DEF BytesAfter, BytesAt, NamesBytes
<1>3. ASSUME names # <<>>
      PROVE  Cardinality(NamesBytes(names)) \in Nat /\ Cardinality(NamesBytes(names)) >= 3
  <2>1. Len(names) \in Nat /\ Len(names) # 0
    BY <1>1, <1>3
  <2>2. 0 \in 0 .. Len(names) /\ 1 \in 0 .. Len(names) /\ 1 \in 1 .. Len(names)
    BY <2>1
  <2>3. /\ Cardinality(BytesAfter(names, 0)) \in Nat
        /\ Cardinality(BytesAfter(names, 0))
             = Cardinality(BytesAfter(names, 0 + 1)) + NameBytes[names[0 + 1]] + 2
        /\ Cardinality(BytesAfter(names, 1)) \in Nat /\ NameBytes[names[1]] \in Nat \ {0}
    BY <1>1, <2>1, <2>2, AfterLemma, NameLemma
  <2> QED BY <1>2, <2>3
<1> QED BY <1>1, <1>2, <1>3 DEF ListBytes

-----------------------------------------------------------------------------
(* The list of disks                                                       *)

\* DriverEntry is in the list of disks.
Listing == at = "names" \/ (at \in Attaching /\ caller = "entry")

\* Beside the types: a device that is to be created has its place, and there is a
\* list where one is gone through.
PlacesInv ==
  /\ LoadTypeOK
  /\ at = "create" => Len(filters) < MaxFilters
  /\ Listing => registry.list # Absent

\* The least of two
LEMMA LeastOfTwo ==
  ASSUME NEW a \in Int, NEW b \in Int
  PROVE  Min({a, b}) = IF a <= b THEN a ELSE b
<1> DEFINE m == IF a <= b THEN a ELSE b
<1>1. m \in {a, b} /\ \A y \in {a, b} : m <= y
  OBVIOUS
<1>2. \A x \in {a, b} : (\A y \in {a, b} : x <= y) => x = m
  OBVIOUS
<1> QED BY <1>1, <1>2 DEF Min

LEMMA Remainder ==
  ASSUME NEW x \in Int, NEW m \in Nat
  PROVE  x % (m + 1) \in 0 .. m /\ (x \in 0 .. m => x % (m + 1) = x)
<1> DEFINE n == m + 1
<1>1. n \in Nat \ {0} /\ m = n - 1
  OBVIOUS
<1> HIDE DEF n
<1>2. x % n \in 0 .. n - 1 /\ (x \in 0 .. n - 1 => x % n = x)
  BY <1>1
<1> QED BY <1>1, <1>2 DEF n

\* TryName takes the next name, and what is left of the length.
LEMMA TryLemma ==
  ASSUME LoadTypeOK, TryName, registry.list # Absent
  PROVE  LET k == Len(tried)
             left == rest - NameBytes[Names[k + 1]] - 2 IN
         /\ Names \in Seq(Disks) /\ k \in Nat /\ k < Len(Names)
         /\ tried' = Append(tried, Names[k + 1]) /\ tried' \in Seq(Disks)
         /\ Names[k + 1] \in Disks /\ left \in Int
         /\ rest' = left % (LengthMax + 1) /\ rest' \in 0 .. LengthMax
<1> DEFINE k == Len(tried)
           d == Names[k + 1]
           left == rest - NameBytes[d] - 2
<1>1. registry.list \in Lists
  BY DEF LoadTypeOK, Registries
<1>2. Names \in Seq(Disks)
  BY <1>1, ListBytesLemma DEF Names
<1>3. k \in Nat /\ k < Len(Names) /\ tried' = Append(tried, d) /\ tried \in Seq(Disks)
  BY DEF TryName, LoadTypeOK
<1>4. d \in Disks /\ NameBytes[d] \in Nat
  BY <1>2, <1>3, RegistryAssumption
<1> HIDE DEF d
<1>5. tried' \in Seq(Disks) /\ Last(tried') = d
  BY <1>3, <1>4 DEF Last
<1>6. LengthMax \in Nat /\ rest \in 0 .. LengthMax
  BY LoadAssumption DEF LoadTypeOK
<1>7. left \in Int /\ rest' = left % (LengthMax + 1)
  <2>1. rest' = (rest - NameBytes[Last(tried')] - 2) % (LengthMax + 1)
    BY DEF TryName
  <2> QED BY <1>4, <1>5, <1>6, <2>1
<1> HIDE DEF left
<1>8. left % (LengthMax + 1) \in 0 .. LengthMax
  BY <1>6, <1>7, Remainder
<1> QED BY <1>2, <1>3, <1>4, <1>5, <1>7, <1>8 DEF d, left

LEMMA PlacesStep == HeldInv /\ DeviceInv /\ PlacesInv /\ [Next]_vars => PlacesInv'
<1> SUFFICES ASSUME HeldInv, DeviceInv, PlacesInv, [Next]_vars PROVE PlacesInv'
  OBVIOUS
<1> USE DEF PlacesInv, Listing, Attaching
<1>1. {openKeys, lowRefs}' \subseteq Nat /\ key' \in BOOLEAN /\ lowMem' \in BOOLEAN
  BY HeldStep DEF HeldInv
<1>2. registry' \in Registries
  BY DeviceStep DEF DeviceInv
<1>3. /\ at \in {"absent", "low", "high", "path", "key", "limits", "list", "names",
                 "loaded", "failed", "wild", "create", "stack", "direct", "thread"}
      /\ caller \in {"entry", "pnp"} /\ loads \in 0 .. MaxLoads
      /\ highRefs \in Nat /\ blocks \subseteq {"descriptor", "path", "list"}
      /\ DOMAIN limits = Limits /\ \A v \in Limits : DOMAIN limits[v] = DOMAIN Default
      /\ rest \in 0 .. LengthMax /\ tried \in Seq(Disks) /\ Len(filters) <= MaxFilters
  BY DEF LoadTypeOK
<1>4. CASE UNCHANGED vars
  BY <1>1, <1>2, <1>3, <1>4 DEF vars, held, config, walk, LoadTypeOK
<1>5. CASE Load
  <2>1. loads' \in 0 .. MaxLoads
    BY <1>3, <1>5, LoadAssumption DEF Load
  <2>2. filters' = <<>> /\ Len(filters') = 0 /\ 0 <= MaxFilters /\ 0 \in 0 .. LengthMax
    BY <1>5, LoadAssumption DEF Load
  <2>3. DOMAIN limits' = Limits /\ \A v \in Limits : DOMAIN limits'[v] = DOMAIN Default
    BY <1>5 DEF Load
  <2>4. tried' \in Seq(Disks) /\ rest' = 0
    BY <1>5 DEF Load
  <2> QED BY <1>1, <1>2, <1>3, <1>5, <2>1, <2>2, <2>3, <2>4 DEF Load, LoadTypeOK
<1>6. CASE OpenLowMemory \/ MakeKeyPath \/ OpenKey
  BY <1>1, <1>2, <1>3, <1>6 DEF OpenLowMemory, MakeKeyPath, OpenKey, Goes, Allocate,
     Succeed, Fail, Unload, held, config, walk, LoadTypeOK
<1>7. CASE OpenHighMemory
  <2>1. highRefs' \in Nat
    BY <1>3, <1>7 DEF OpenHighMemory
  <2> QED BY <1>1, <1>2, <1>3, <1>7, <2>1 DEF OpenHighMemory, Goes, held, config, walk, LoadTypeOK
<1>8. CASE ReadLimits
  <2>1. DOMAIN limits' = Limits /\ \A v \in Limits : DOMAIN limits'[v] = DOMAIN Default
    BY <1>3, <1>8 DEF ReadLimits, Stored
  <2> QED BY <1>1, <1>2, <1>3, <1>8, <2>1 DEF ReadLimits, EndOfScope, Fail, Unload, held, walk, LoadTypeOK
<1>9. CASE ReadList
  <2>1. rest' \in 0 .. LengthMax
    <3>1. CASE UNCHANGED rest
      BY <1>3, <3>1
    <3>2. CASE registry.list # Absent /\ rest' = Min({LengthMax, ListBytes(registry.list)})
      <4>1. registry.list \in Lists
        BY <3>2 DEF LoadTypeOK, Registries
      <4>2. ListBytes(registry.list) \in Nat /\ LengthMax \in Nat
        BY <4>1, ListBytesLemma, LoadAssumption
      <4> QED BY <3>2, <4>2, LeastOfTwo
    <3> QED BY <1>9, <3>1, <3>2 DEF ReadList
  <2> QED BY <1>1, <1>2, <1>3, <1>9, <2>1 DEF ReadList, Allocate, Succeed, Fail, Unload, held, config, LoadTypeOK
<1>10. CASE TryName
  <2>1. registry.list # Absent
    BY <1>10 DEF TryName
  <2>2. tried' \in Seq(Disks) /\ rest' \in 0 .. LengthMax
    BY <1>10, <2>1, TryLemma
  <2> QED BY <1>1, <1>2, <1>3, <1>10, <2>2 DEF TryName, Fail, Unload, held, config, LoadTypeOK
<1>11. CASE RunOver \/ EndOfNames \/ AddDevice \/ UnloadDriver
  BY <1>1, <1>2, <1>3, <1>11 DEF RunOver, EndOfNames, AddDevice, UnloadDriver, Goes,
     Succeed, Unload, held, config, walk, LoadTypeOK
<1>12. CASE CreateDevice
  <2>1. Len(filters') <= MaxFilters
    <3>1. Len(filters) < MaxFilters /\ Len(filters) \in Nat
      BY <1>12 DEF CreateDevice, DeviceInv
    <3>2. filters' = filters \/ Len(filters') = Len(filters) + 1
      BY <1>12 DEF CreateDevice, DeviceInv
    <3> QED BY <3>1, <3>2, LoadAssumption
  <2> QED BY <1>1, <1>2, <1>3, <1>12, <2>1 DEF CreateDevice, Ignored, held, config, walk, LoadTypeOK
<1>13. CASE AttachToStack \/ TestDirectIo \/ StartWorker
  <2>1. Len(filters') = Len(filters)
    BY <1>13 DEF AttachToStack, TestDirectIo, StartWorker, Becomes, DeviceInv
  <2> QED BY <1>1, <1>2, <1>3, <1>13, <2>1 DEF AttachToStack, TestDirectIo, StartWorker,
          Ignored, Fail, Unload, held, config, walk, LoadTypeOK
<1>14. ASSUME NEW i \in DOMAIN filters, RemoveDevice(i) PROVE PlacesInv'
  <2>1. Len(filters') = Len(filters)
    BY <1>14 DEF RemoveDevice, DeviceInv
  <2> QED BY <1>1, <1>2, <1>3, <1>14, <2>1 DEF RemoveDevice, held, config, walk, LoadTypeOK
<1> QED BY <1>4, <1>5, <1>6, <1>7, <1>8, <1>9, <1>10, <1>11, <1>12, <1>13, <1>14 DEF Next

LEMMA PlacesInit == Init => PlacesInv
<1> SUFFICES ASSUME Init PROVE PlacesInv
  OBVIOUS
<1>1. filters = <<>> /\ Len(filters) = 0 /\ 0 <= MaxFilters /\ 0 \in 0 .. LengthMax
      /\ 0 \in 0 .. MaxLoads
  BY LoadAssumption DEF Init
<1>2. DOMAIN limits = Limits /\ \A v \in Limits : DOMAIN limits[v] = DOMAIN Default
  BY DEF Init
<1>3. at = "absent" /\ caller = "entry" /\ registry \in Registries
      /\ key = FALSE /\ lowMem = FALSE /\ blocks = {}
  BY DEF Init
<1>4. {openKeys, lowRefs, highRefs} \subseteq Nat
  BY DEF Init
<1>5. loads \in 0 .. MaxLoads /\ rest \in 0 .. LengthMax /\ tried \in Seq(Disks)
      /\ Len(filters) <= MaxFilters
  BY <1>1 DEF Init
<1>6. LoadTypeOK
  BY <1>2, <1>3, <1>4, <1>5 DEF LoadTypeOK
<1> QED BY <1>3, <1>6 DEF PlacesInv, Listing, Attaching

\* Every variable of the loading of the driver keeps its type: the length that is
\* left of the list stays a USHORT also where it wraps, and a limit the bytes of a
\* LONGLONG, whatever the registry holds.  mainwdm.cpp 263-420
THEOREM LoadTypesHold == Spec => []LoadTypeOK
<1>1. PlacesInv => LoadTypeOK
  BY DEF PlacesInv
<1> QED BY <1>1, HeldInit, HeldStep, DeviceInit, DeviceStep, PlacesInit, PlacesStep, PTL DEF Spec

-----------------------------------------------------------------------------
(* The disks that were tried                                               *)

\* What DataLength leaves behind the first k names
Left(k) == Cardinality(BytesAfter(Names, k)) + registry.list.tail - 2

\* DriverEntry is done, or the PnP manager's call of QCacheAddDevice is under way.
Loaded == at = "loaded" \/ (at \in Attaching /\ caller = "pnp")

\* The names that were tried are the first of the list, and the length is that of the
\* others.
TriedInv ==
  /\ at \in {"low", "high", "path", "key", "limits", "list"} => tried = <<>>
  /\ Listing =>
       /\ Len(tried) <= Len(Names) /\ \A i \in 1 .. Len(tried) : tried[i] = Names[i]
       /\ WellFormed(registry.list) /\ Names # <<>> => rest = Left(Len(tried))
  /\ Loaded /\ key /\ registry.list # Absent /\ WellFormed(registry.list) => tried = Names

LEMMA TriedTry == HeldInv /\ PlacesInv /\ TriedInv /\ TryName => TriedInv'
<1> SUFFICES ASSUME HeldInv, PlacesInv, TriedInv, TryName PROVE TriedInv'
  OBVIOUS
<1> DEFINE k == Len(tried)
           d == Names[k + 1]
<1>1. at = "names" /\ registry.list # Absent /\ registry' = registry /\ LoadTypeOK
      /\ Names' = Names
  BY DEF TryName, PlacesInv, Listing, config, Names
<1>2. /\ Names \in Seq(Disks) /\ k \in Nat /\ k < Len(Names) /\ d \in Disks
      /\ tried' = Append(tried, d) /\ tried \in Seq(Disks)
      /\ rest' = (rest - NameBytes[d] - 2) % (LengthMax + 1)
  BY <1>1, TryLemma DEF LoadTypeOK
<1>3. at' \in {"create", "wild", "failed"} /\ (at' = "create" => caller' = "entry")
  BY DEF TryName, Fail
<1>4. Len(tried') = k + 1 /\ Len(tried') <= Len(Names)
  BY <1>2
<1>5. \A i \in 1 .. Len(tried') : tried'[i] = Names[i]
  <2> SUFFICES ASSUME NEW i \in 1 .. k + 1 PROVE tried'[i] = Names[i]
    BY <1>4
  <2>1. CASE i = k + 1
    BY <1>2, <2>1
  <2>2. CASE i \in 1 .. k
    BY <1>1, <1>2, <2>2 DEF TriedInv, Listing
  <2> QED BY <1>2, <2>1, <2>2
<1>6. ASSUME WellFormed(registry.list) PROVE rest' = Left(k + 1)
  <2>1. Names # <<>>
    BY <1>2
  <2>2. rest = Left(k)
    BY <1>1, <1>6, <2>1 DEF TriedInv, Listing
  <2>3. registry.list \in Lists
    BY <1>1 DEF LoadTypeOK, Registries
  <2>4. registry.list.tail \in Nat /\ registry.list.tail >= 2
    BY <1>6, <2>1, <2>3, ListBytesLemma DEF WellFormed, Names
  <2>5. NameBytes[d] \in Nat /\ k \in 0 .. Len(Names) /\ k # Len(Names)
        /\ k + 1 \in 0 .. Len(Names)
    BY <1>2, RegistryAssumption
  <2>6. /\ Cardinality(BytesAfter(Names, k))
             = Cardinality(BytesAfter(Names, k + 1)) + NameBytes[d] + 2
        /\ Cardinality(BytesAfter(Names, k + 1)) \in Nat
    BY <1>2, <2>5, AfterLemma
  <2> DEFINE c == Cardinality(BytesAfter(Names, k + 1))
             b == NameBytes[d]
  <2>7. rest = c + b + 2 + registry.list.tail - 2 /\ Left(k + 1) = c + registry.list.tail - 2
    BY <2>2, <2>4, <2>6 DEF Left
  <2>8. rest \in 0 .. LengthMax /\ LengthMax \in Nat /\ c \in Nat /\ b \in Nat
    BY <1>1, <2>5, <2>6, LoadAssumption DEF LoadTypeOK
  <2> HIDE DEF c, b
  <2>9. rest - b - 2 = c + registry.list.tail - 2 /\ rest - b - 2 \in 0 .. LengthMax
    BY <2>4, <2>7, <2>8
  <2>10. (rest - b - 2) % (LengthMax + 1) = rest - b - 2
    BY <2>8, <2>9, Remainder
  <2> QED BY <1>2, <2>7, <2>9, <2>10 DEF b
<1>7. Left(Len(tried))' = Left(k + 1)
  BY <1>1, <1>2, <1>4 DEF Left
<1>8. ~Loaded'
  BY <1>3 DEF Loaded, Attaching
<1>9. at' \notin {"low", "high", "path", "key", "limits", "list"}
  BY <1>3
<1>10. WellFormed(registry.list)' => rest' = Left(Len(tried))'
  BY <1>1, <1>6, <1>7
<1> HIDE DEF k, d
<1> QED BY <1>1, <1>4, <1>5, <1>8, <1>9, <1>10 DEF TriedInv

\* A step that leaves the list and the names alone
LEMMA TriedFrame ==
  ASSUME TriedInv, UNCHANGED <<registry, tried, rest>>,
         at' \in {"low", "high", "path", "key", "limits", "list"} =>
           at \in {"low", "high", "path", "key", "limits", "list"},
         Listing' => Listing, Loaded' /\ key' => Loaded /\ key
  PROVE  TriedInv'
<1>1. Names' = Names /\ Left(Len(tried))' = Left(Len(tried))
  BY DEF Names, Left
<1>2. WellFormed(registry.list)' = WellFormed(registry.list)
  OBVIOUS
<1> QED BY <1>1, <1>2 DEF TriedInv

LEMMA TriedStep == HeldInv /\ PlacesInv /\ TriedInv /\ [Next]_vars => TriedInv'
<1> SUFFICES ASSUME HeldInv, PlacesInv, TriedInv, [Next]_vars PROVE TriedInv'
  OBVIOUS
<1>1. CASE \/ UNCHANGED vars \/ OpenLowMemory \/ OpenHighMemory \/ MakeKeyPath
           \/ ReadLimits \/ RunOver \/ AddDevice \/ UnloadDriver
  <2> USE DEF Listing, Loaded, Attaching
  <2>1. CASE UNCHANGED vars
    BY <2>1, TriedFrame DEF vars, held, config, walk
  <2>2. CASE OpenLowMemory \/ OpenHighMemory \/ MakeKeyPath \/ ReadLimits
    <3>1. UNCHANGED <<registry, tried, rest>>
      BY <2>2 DEF OpenLowMemory, OpenHighMemory, MakeKeyPath, ReadLimits, config, walk
    <3>2. /\ at \in {"low", "high", "path", "key", "limits", "list"}
          /\ at' \in {"high", "path", "key", "list", "failed"}
      BY <2>2 DEF OpenLowMemory, OpenHighMemory, MakeKeyPath, ReadLimits, Goes, Fail
    <3> QED BY <3>1, <3>2, TriedFrame
  <2>3. CASE RunOver \/ AddDevice \/ UnloadDriver
    <3>1. UNCHANGED <<registry, tried, rest>>
      BY <2>3 DEF RunOver, AddDevice, UnloadDriver, config, walk
    <3>2. \/ at' \in {"wild", "absent"}
          \/ at = "loaded" /\ at' = "create" /\ caller' = "pnp" /\ key' = key
      BY <2>3 DEF RunOver, AddDevice, UnloadDriver, Goes, held
    <3> QED BY <3>1, <3>2, TriedFrame
  <2> QED BY <1>1, <2>1, <2>2, <2>3
<1>2. CASE \/ CreateDevice \/ AttachToStack \/ TestDirectIo \/ StartWorker
           \/ \E i \in DOMAIN filters : RemoveDevice(i)
  <2>1. UNCHANGED <<registry, tried, rest, caller>>
    BY <1>2 DEF config, walk, CreateDevice, AttachToStack, TestDirectIo, StartWorker, RemoveDevice
  <2>2. /\ at \in {"create", "stack", "direct", "thread", "loaded", "failed"}
        /\ \/ at' = "failed" \/ at' = "wild"
           \/ at' = at /\ key' = key
           \/ at' \in {"stack", "direct", "thread"} /\ at \in Attaching /\ key' = key
           \/ at' = "loaded" /\ caller = "pnp" /\ at \in Attaching /\ key' = key
           \/ at' = "names" /\ caller = "entry" /\ at \in Attaching
    <3>1. CASE CreateDevice
      BY <3>1 DEF CreateDevice, Ignored, held, Attaching, PlacesInv, LoadTypeOK
    <3>2. CASE AttachToStack
      BY <3>2 DEF AttachToStack, Ignored, held, Attaching, PlacesInv, LoadTypeOK
    <3>3. CASE TestDirectIo
      BY <3>3 DEF TestDirectIo, Ignored, held, Attaching, PlacesInv, LoadTypeOK
    <3>4. CASE StartWorker
      BY <3>4 DEF StartWorker, Fail, held, Attaching, PlacesInv, LoadTypeOK
    <3>5. CASE \E i \in DOMAIN filters : RemoveDevice(i)
      BY <3>5 DEF RemoveDevice, held
    <3> QED BY <1>2, <3>1, <3>2, <3>3, <3>4, <3>5
  <2>3. Listing' => Listing
    BY <2>1, <2>2 DEF Listing, Attaching
  <2>4. Loaded' /\ key' => Loaded /\ key
    BY <2>1, <2>2 DEF Loaded, Attaching
  <2>5. at' \notin {"low", "high", "path", "key", "limits", "list"}
    BY <2>2
  <2> QED BY <2>1, <2>3, <2>4, <2>5, TriedFrame
<1>3. CASE Load
  <2>1. at' = "low" /\ tried' = <<>>
    BY <1>3 DEF Load
  <2>2. ~Listing' /\ ~Loaded'
    BY <2>1 DEF Listing, Loaded, Attaching
  <2> QED BY <2>1, <2>2 DEF TriedInv
<1>4. CASE OpenKey
  BY <1>4, TriedFrame DEF OpenKey, Succeed, HeldInv, held, config, walk, Listing, Loaded, Attaching
<1>5. CASE ReadList
  <2>1. at = "list" /\ tried = <<>> /\ tried' = <<>> /\ UNCHANGED registry
    BY <1>5 DEF ReadList, TriedInv, config
  <2>2. CASE /\ registry.list # Absent /\ at' = "names"
             /\ rest' = Min({LengthMax, ListBytes(registry.list)})
    <3>1. registry.list \in Lists
      BY <2>2 DEF PlacesInv, LoadTypeOK, Registries
    <3>2. /\ Names \in Seq(Disks) /\ registry.list.tail \in Nat
          /\ ListBytes(registry.list) \in Nat /\ LengthMax \in Nat
          /\ Names # <<>> => ListBytes(registry.list) = Left(0)
      BY <3>1, ListBytesLemma, LoadAssumption DEF Names, Left
    <3>3. WellFormed(registry.list) => rest' = ListBytes(registry.list)
      BY <2>2, <3>2, LeastOfTwo DEF WellFormed
    <3>4. Len(tried) = 0 /\ Len(tried)' = 0 /\ 0 <= Len(Names)
      BY <2>1, <3>2
    <3>5. Names' = Names /\ Left(Len(tried))' = Left(0)
          /\ WellFormed(registry.list)' = WellFormed(registry.list)
      BY <2>1, <3>4 DEF Names, Left
    <3>6. ~Loaded'
      BY <2>2 DEF Loaded, Attaching
    <3> QED BY <2>1, <2>2, <3>2, <3>3, <3>4, <3>5, <3>6 DEF TriedInv
  <2>3. CASE (registry.list = Absent /\ Succeed) \/ Fail
    <3>1. (registry.list' = Absent /\ at' = "loaded") \/ at' = "failed"
      BY <2>1, <2>3 DEF Succeed, Fail
    <3>2. ~Listing' /\ (at' = "failed" => ~Loaded')
      BY <3>1 DEF Listing, Loaded, Attaching
    <3> QED BY <2>1, <3>1, <3>2 DEF TriedInv
  <2> QED BY <1>5, <2>2, <2>3 DEF ReadList
<1>6. CASE TryName
  BY <1>6, TriedTry
<1>7. CASE EndOfNames
  <2>1. at = "names" /\ at' = "loaded" /\ rest < 6 /\ UNCHANGED <<registry, tried>>
    BY <1>7 DEF EndOfNames, Succeed, MoreNames, config, walk, PlacesInv, LoadTypeOK
  <2>2. registry.list \in Lists
    BY <2>1 DEF PlacesInv, LoadTypeOK, Registries, Listing
  <2>3. Names \in Seq(Disks) /\ registry.list.tail \in Nat /\ tried \in Seq(Disks)
    BY <2>2, ListBytesLemma DEF Names, PlacesInv, LoadTypeOK
  <2>4. Len(tried) <= Len(Names) /\ \A i \in 1 .. Len(tried) : tried[i] = Names[i]
    BY <2>1 DEF TriedInv, Listing
  <2>5. ASSUME WellFormed(registry.list) PROVE Len(tried) = Len(Names)
    <3> SUFFICES ASSUME Len(tried) # Len(Names) PROVE FALSE
      OBVIOUS
    <3> DEFINE k == Len(tried)
    <3>1. k \in 0 .. Len(Names) /\ k + 1 \in 1 .. Len(Names) /\ k + 1 \in 0 .. Len(Names)
          /\ Names # <<>>
      BY <2>3, <2>4
    <3>2. rest = Left(k)
      BY <2>1, <2>5, <3>1 DEF TriedInv, Listing
    <3>3. registry.list.tail >= 2 /\ NameBytes[Names[k + 1]] >= 4
      BY <2>3, <2>5, <3>1 DEF WellFormed, Names
    <3>4. /\ Cardinality(BytesAfter(Names, k))
               = Cardinality(BytesAfter(Names, k + 1)) + NameBytes[Names[k + 1]] + 2
          /\ Cardinality(BytesAfter(Names, k + 1)) \in Nat /\ NameBytes[Names[k + 1]] \in Nat
      BY <2>3, <3>1, AfterLemma, NameLemma
    <3>5. Left(k) >= 6
      BY <2>3, <3>3, <3>4 DEF Left
    <3>6. rest \in Nat
      BY LoadAssumption DEF PlacesInv, LoadTypeOK
    <3> QED BY <2>1, <3>2, <3>5, <3>6
  <2>6. WellFormed(registry.list) => tried = Names
    BY <2>3, <2>4, <2>5, SeqEqual
  <2>7. Names' = Names /\ WellFormed(registry.list)' = WellFormed(registry.list)
    BY <2>1 DEF Names
  <2>8. ~Listing'
    BY <2>1 DEF Listing, Attaching
  <2> QED BY <2>1, <2>6, <2>7, <2>8 DEF TriedInv
<1> QED BY <1>1, <1>2, <1>3, <1>4, <1>5, <1>6, <1>7 DEF Next

\* A driver that is loaded has tried every disk of the list, in its order, for any
\* number and length of the names.  mainwdm.cpp 347-420
THEOREM WholeListIsTried == Spec => []ListIsTried
<1>1. Init => TriedInv
  BY DEF Init, TriedInv, Listing, Loaded, Attaching
<1>2. TriedInv => ListIsTried
  BY DEF TriedInv, ListIsTried, Loaded
<1> QED BY <1>1, <1>2, TriedStep, HeldInit, HeldStep, DeviceInit, DeviceStep, PlacesInit,
           PlacesStep, PTL DEF Spec

-----------------------------------------------------------------------------
(* Numbers and their bytes                                                 *)

\* Powers is the function that its equations describe.
LEMMA PowersLemma ==
  ASSUME NEW n \in Nat
  PROVE  Powers(n)[0] = 1 /\ \A k \in 1 .. n : Powers(n)[k] = Base * Powers(n)[k - 1]
<1> DEFINE Multiplies(f, m) == f = [k \in 0 .. m |-> IF k = 0 THEN 1 ELSE Base * f[k - 1]]
    S == {m \in Nat : ~\E f : Multiplies(f, m)}
<1>1. ASSUME NEW m \in S PROVE \E k \in S : k < m
  <2>1. m # 0
    <3> DEFINE f == [k \in 0 .. 0 |-> 1]
    <3>1. Multiplies(f, 0)
      OBVIOUS
    <3> QED BY <3>1
  <2>2. m - 1 \in Nat /\ m - 1 < m
    BY <2>1
  <2>3. ASSUME m - 1 \notin S PROVE FALSE
    <3>1. PICK f : Multiplies(f, m - 1)
      BY <2>2, <2>3
    <3> DEFINE g == [k \in 0 .. m |-> IF k = m THEN Base * f[m - 1] ELSE f[k]]
    <3>2. \A k \in 0 .. m - 1 : f[k] = IF k = 0 THEN 1 ELSE Base * f[k - 1]
      BY <3>1
    <3> HIDE DEF Multiplies
    <3>3. ASSUME NEW k \in 0 .. m PROVE g[k] = IF k = 0 THEN 1 ELSE Base * g[k - 1]
      BY <2>1, <3>2
    <3>4. g = [k \in 0 .. m |-> IF k = 0 THEN 1 ELSE Base * g[k - 1]]
      <4> HIDE DEF g
      <4>1. g = [k \in 0 .. m |-> g[k]]
        BY DEF g
      <4> QED BY <3>3, <4>1
    <3>5. Multiplies(g, m)
      BY <3>4 DEF Multiplies
    <3> HIDE DEF g
    <3> QED BY <3>5
  <2> QED BY <2>2, <2>3
<1>2. S = {}
  <2> HIDE DEF S
  <2> QED BY <1>1, NoLeastElement DEF S
<1>3. PICK f : Multiplies(f, n)
  BY <1>2
<1>4. Powers(n) = CHOOSE h : Multiplies(h, n)
  BY DEF Powers
<1>5. Multiplies(Powers(n), n)
  <2> HIDE DEF Multiplies
  <2> QED BY <1>3, <1>4
<1> DEFINE e == Powers(n)
<1>6. e = [k \in 0 .. n |-> IF k = 0 THEN 1 ELSE Base * e[k - 1]]
  BY <1>5
<1> HIDE DEF e
<1>7. e[0] = 1 /\ \A k \in 1 .. n : e[k] = Base * e[k - 1]
  BY <1>6
<1> QED BY <1>7 DEF e

\* It has the same values in every range.
LEMMA PowersAgree ==
  ASSUME NEW n \in Nat, NEW k \in 0 .. n
  PROVE  Powers(n)[k] = Power(k)
<1> DEFINE S == {j \in 0 .. k : Powers(n)[j] # Powers(k)[j]}
<1>1. ASSUME NEW j \in S PROVE j - 1 \in S /\ j - 1 < j
  <2>1. Powers(n)[0] = 1 /\ Powers(k)[0] = 1
    BY PowersLemma
  <2>2. j \in 1 .. k /\ j \in 1 .. n
    BY <2>1
  <2>3. Powers(n)[j] = Base * Powers(n)[j - 1] /\ Powers(k)[j] = Base * Powers(k)[j - 1]
    BY <2>2, PowersLemma
  <2>4. Powers(n)[j - 1] # Powers(k)[j - 1]
    BY <2>3
  <2> QED BY <2>2, <2>4
<1>2. S \in SUBSET Nat
  OBVIOUS
<1>3. S = {}
  <2> HIDE DEF S
  <2> QED BY <1>1, <1>2, NoLeastElement
<1>4. k \in 0 .. k
  OBVIOUS
<1> QED BY <1>3, <1>4 DEF Power

LEMMA PowerLemma ==
  /\ Power(0) = 1
  /\ \A k \in Nat : Power(k) \in Nat \ {0}
  /\ \A k \in Nat \ {0} : Power(k) = Base * Power(k - 1)
<1>1. Power(0) = 1
  BY PowersLemma DEF Power
<1>2. ASSUME NEW k \in Nat \ {0} PROVE Power(k) = Base * Power(k - 1)
  <2>1. k \in 1 .. k /\ k - 1 \in 0 .. k
    OBVIOUS
  <2>2. Powers(k)[k] = Base * Powers(k)[k - 1]
    BY <2>1, PowersLemma
  <2> QED BY <2>1, <2>2, PowersAgree DEF Power
<1> DEFINE S == {k \in Nat : Power(k) \notin Nat \ {0}}
<1>3. ASSUME NEW k \in S PROVE k - 1 \in S /\ k - 1 < k
  <2>1. k \in Nat \ {0}
    BY <1>1
  <2>2. Power(k) = Base * Power(k - 1) /\ k - 1 \in Nat /\ k - 1 < k
    BY <1>2, <2>1
  <2>3. ASSUME NEW p \in Nat \ {0} PROVE Base * p \in Nat \ {0}
    BY RegistryAssumption
  <2> QED BY <2>2, <2>3
<1>4. S = {}
  <2>1. S \in SUBSET Nat
    OBVIOUS
  <2> HIDE DEF S
  <2> QED BY <1>3, <2>1, NoLeastElement
<1> QED BY <1>1, <1>2, <1>4

\* Lows is the function that its equations describe.
LEMMA LowsLemma ==
  ASSUME NEW bytes \in Seq(0 .. Base - 1)
  PROVE  /\ Lows(bytes)[0] = 0
         /\ \A k \in 1 .. Len(bytes) :
              Lows(bytes)[k] = Lows(bytes)[k - 1] + Power(k - 1) * bytes[k]
<1> DEFINE Adds(f, n) ==
      f = [k \in 0 .. n |-> IF k = 0 THEN 0 ELSE f[k - 1] + Power(k - 1) * bytes[k]]
    S == {n \in Nat : ~\E f : Adds(f, n)}
<1>1. ASSUME NEW m \in S PROVE \E k \in S : k < m
  <2>1. m # 0
    <3> DEFINE f == [k \in 0 .. 0 |-> 0]
    <3>1. Adds(f, 0)
      OBVIOUS
    <3> QED BY <3>1
  <2>2. m - 1 \in Nat /\ m - 1 < m
    BY <2>1
  <2>3. ASSUME m - 1 \notin S PROVE FALSE
    <3>1. PICK f : Adds(f, m - 1)
      BY <2>2, <2>3
    <3> DEFINE g == [k \in 0 .. m |-> IF k = m THEN f[m - 1] + Power(m - 1) * bytes[m]
                                               ELSE f[k]]
    <3>2. \A k \in 0 .. m - 1 :
            f[k] = IF k = 0 THEN 0 ELSE f[k - 1] + Power(k - 1) * bytes[k]
      BY <3>1
    <3> HIDE DEF Adds
    <3>3. ASSUME NEW k \in 0 .. m
          PROVE  g[k] = IF k = 0 THEN 0 ELSE g[k - 1] + Power(k - 1) * bytes[k]
      BY <2>1, <3>2
    <3>4. g = [k \in 0 .. m |-> IF k = 0 THEN 0 ELSE g[k - 1] + Power(k - 1) * bytes[k]]
      <4> HIDE DEF g
      <4>1. g = [k \in 0 .. m |-> g[k]]
        BY DEF g
      <4> QED BY <3>3, <4>1
    <3>5. Adds(g, m)
      BY <3>4 DEF Adds
    <3> HIDE DEF g
    <3> QED BY <3>5
  <2> QED BY <2>2, <2>3
<1>2. S = {}
  <2> HIDE DEF S
  <2> QED BY <1>1, NoLeastElement DEF S
<1>3. PICK f : Adds(f, Len(bytes))
  BY <1>2
<1>4. Lows(bytes) = CHOOSE h : Adds(h, Len(bytes))
  BY DEF Lows
<1>5. Adds(Lows(bytes), Len(bytes))
  <2> HIDE DEF Adds
  <2> QED BY <1>3, <1>4
<1> DEFINE e == Lows(bytes)
<1>6. e = [k \in 0 .. Len(bytes) |-> IF k = 0 THEN 0 ELSE e[k - 1] + Power(k - 1) * bytes[k]]
  BY <1>5
<1> HIDE DEF e
<1>7. /\ e[0] = 0
      /\ \A k \in 1 .. Len(bytes) : e[k] = e[k - 1] + Power(k - 1) * bytes[k]
  BY <1>6, LenProperties
<1> QED BY <1>7 DEF e

\* k bytes are a number below the power of k.
LEMMA LowBound ==
  ASSUME NEW bytes \in Seq(0 .. Base - 1)
  PROVE  \A k \in 0 .. Len(bytes) : Lows(bytes)[k] \in 0 .. Power(k) - 1
<1> DEFINE low == Lows(bytes)
    n == Len(bytes)
    S == {k \in 0 .. n : low[k] \notin 0 .. Power(k) - 1}
<1>1. /\ n \in Nat /\ Base \in Nat \ {0} /\ low[0] = 0
      /\ \A k \in 1 .. n : /\ bytes[k] \in 0 .. Base - 1
                           /\ low[k] = low[k - 1] + Power(k - 1) * bytes[k]
  BY LowsLemma, LenProperties, ElementOfSeq, RegistryAssumption
<1> HIDE DEF low, n
<1>2. ASSUME NEW k \in S PROVE k - 1 \in S /\ k - 1 < k
  <2>1. 0 \in 0 .. Power(0) - 1
    BY PowerLemma
  <2>2. k \in 1 .. n /\ k - 1 \in 0 .. n /\ k - 1 < k /\ k \in Nat \ {0} /\ k - 1 \in Nat
    BY <1>1, <2>1
  <2>3. ASSUME low[k - 1] \in 0 .. Power(k - 1) - 1 PROVE low[k] \in 0 .. Power(k) - 1
    <3> DEFINE p == Power(k - 1)
               b == bytes[k]
               l == low[k - 1]
    <3>1. /\ p \in Nat \ {0} /\ b \in 0 .. Base - 1 /\ l \in 0 .. p - 1
          /\ low[k] = l + p * b /\ Power(k) = Base * p
      BY <1>1, <2>2, <2>3, PowerLemma
    <3> HIDE DEF p, b, l
    <3>2. PICK e \in Nat : Base = b + 1 + e
      <4>1. Base - b - 1 \in Nat
        BY <1>1, <3>1
      <4> QED BY <1>1, <3>1, <4>1
    <3>3. Base * p = p * b + p + p * e /\ p * e \in Nat /\ p * b \in Nat
      BY <3>1, <3>2
    <3> QED BY <3>1, <3>3
  <2> QED BY <2>2, <2>3
<1>3. S = {}
  <2>1. S \in SUBSET Nat
    BY <1>1
  <2> HIDE DEF S
  <2> QED BY <1>2, <2>1, NoLeastElement
<1> QED BY <1>3 DEF low, n

\* The number of the first bytes depends on them alone.
LEMMA LowShare ==
  ASSUME NEW a \in Seq(0 .. Base - 1), NEW b \in Seq(0 .. Base - 1), NEW m \in Nat,
         m <= Len(a), m <= Len(b), \A k \in 1 .. m : a[k] = b[k]
  PROVE  \A k \in 0 .. m : Lows(a)[k] = Lows(b)[k]
<1> DEFINE S == {k \in 0 .. m : Lows(a)[k] # Lows(b)[k]}
<1>1. ASSUME NEW k \in S PROVE k - 1 \in S /\ k - 1 < k
  <2>1. k \in 1 .. m /\ k \in 1 .. Len(a) /\ k \in 1 .. Len(b)
    BY LowsLemma, LenProperties
  <2>2. /\ Lows(a)[k] = Lows(a)[k - 1] + Power(k - 1) * a[k]
        /\ Lows(b)[k] = Lows(b)[k - 1] + Power(k - 1) * b[k]
    BY <2>1, LowsLemma
  <2>3. Lows(a)[k - 1] # Lows(b)[k - 1]
    BY <2>1, <2>2
  <2> QED BY <2>1, <2>3
<1>2. S = {}
  <2>1. S \in SUBSET Nat
    OBVIOUS
  <2> HIDE DEF S
  <2> QED BY <1>1, <2>1, NoLeastElement
<1> QED BY <1>2

\* What zeros add
LEMMA LowPad ==
  ASSUME NEW a \in Seq(0 .. Base - 1), NEW m \in 0 .. Len(a),
         \A k \in m + 1 .. Len(a) : a[k] = 0
  PROVE  \A k \in m .. Len(a) : Lows(a)[k] = Lows(a)[m]
<1> DEFINE n == Len(a)
           low == Lows(a)
           S == {k \in m .. n : low[k] # low[m]}
<1>1. n \in Nat /\ \A k \in 0 .. n : low[k] \in Int
  BY LowBound, LenProperties, PowerLemma
<1>2. \A k \in 1 .. n : low[k] = low[k - 1] + Power(k - 1) * a[k]
  BY LowsLemma
<1> HIDE DEF low, n
<1>3. ASSUME NEW k \in S PROVE k - 1 \in S /\ k - 1 < k
  <2>1. k \in m + 1 .. n /\ k \in 1 .. n /\ k - 1 \in m .. n /\ k - 1 \in 0 .. n
    BY <1>1 DEF n
  <2>2. a[k] = 0 /\ Power(k - 1) \in Nat
    BY <2>1, PowerLemma DEF n
  <2>3. low[k] = low[k - 1]
    BY <1>1, <1>2, <2>1, <2>2
  <2> QED BY <2>1, <2>3
<1>4. S = {}
  <2>1. S \in SUBSET Nat
    BY <1>1 DEF n
  <2> HIDE DEF S
  <2> QED BY <1>3, <2>1, NoLeastElement
<1> QED BY <1>4 DEF low, n

\* Higher bytes add multiples of the power.
LEMMA HighBytes ==
  ASSUME NEW a \in Seq(0 .. Base - 1), NEW m \in 0 .. Len(a)
  PROVE  \E q \in Nat : Number(a) = Lows(a)[m] + Power(m) * q
<1> DEFINE n == Len(a)
           low == Lows(a)
           Above(k) == \E p \in Nat, q \in Nat : /\ Power(k) = Power(m) * p
                                                 /\ low[k] = low[m] + Power(m) * q
           S == {k \in m .. n : ~Above(k)}
<1>1. n \in Nat /\ \A k \in 0 .. n : low[k] \in Int
  BY LowBound, LenProperties, PowerLemma
<1>2. \A k \in 1 .. n : low[k] = low[k - 1] + Power(k - 1) * a[k] /\ a[k] \in Nat
  BY LowsLemma, ElementOfSeq, RegistryAssumption
<1>3. m \in 0 .. n /\ Power(m) \in Nat /\ low[m] \in Int
  BY <1>1, PowerLemma
<1> HIDE DEF low, n
<1>4. ASSUME NEW k \in S PROVE k - 1 \in S /\ k - 1 < k
  <2>1. k # m
    <3>1. Power(m) = Power(m) * 1 /\ low[m] = low[m] + Power(m) * 0
      BY <1>3
    <3>2. Above(m)
      BY <3>1
    <3> QED BY <3>2
  <2>2. k \in 1 .. n /\ k - 1 \in m .. n /\ k - 1 < k /\ k \in Nat \ {0} /\ k - 1 \in 0 .. n
    BY <1>1, <1>3, <2>1
  <2>3. ASSUME Above(k - 1) PROVE Above(k)
    <3>1. PICK p \in Nat, q \in Nat : /\ Power(k - 1) = Power(m) * p
                                      /\ low[k - 1] = low[m] + Power(m) * q
      BY <2>3
    <3>2. Power(k) = Base * (Power(m) * p)
      BY <2>2, <3>1, PowerLemma
    <3>3. low[k] = low[m] + Power(m) * q + Power(m) * p * a[k] /\ a[k] \in Nat
      BY <1>2, <2>2, <3>1
    <3>4. Power(k) = Power(m) * (Base * p) /\ Base * p \in Nat
      BY <1>3, <3>2, RegistryAssumption
    <3>5. low[k] = low[m] + Power(m) * (q + p * a[k]) /\ q + p * a[k] \in Nat
      <4> DEFINE w == Power(m)
                 r == p * a[k]
      <4>1. r \in Nat /\ w * p * a[k] = w * r /\ w \in Nat
        BY <1>3, <3>3
      <4>2. low[k] = low[m] + w * q + w * r
        BY <3>3, <4>1
      <4> HIDE DEF w, r
      <4>3. w * (q + r) = w * q + w * r /\ w * q \in Nat /\ w * r \in Nat
        BY <4>1
      <4>4. low[k] = low[m] + w * (q + r) /\ q + r \in Nat
        BY <1>3, <4>1, <4>2, <4>3
      <4> QED BY <4>4 DEF w, r
    <3> QED BY <3>4, <3>5
  <2> QED BY <2>2, <2>3
<1>5. S = {}
  <2>1. S \in SUBSET Nat
    BY <1>1, <1>3
  <2> HIDE DEF S
  <2> QED BY <1>4, <2>1, NoLeastElement
<1>6. n \in m .. n
  BY <1>1, <1>3
<1>7. Above(n)
  BY <1>5, <1>6
<1> QED BY <1>7 DEF Number, low, n

\* What is left of a division
LEMMA RemainderUnique ==
  ASSUME NEW w \in Nat \ {0}, NEW r \in 0 .. w - 1, NEW q \in Nat
  PROVE  (r + w * q) % w = r
<1> DEFINE x == r + w * q
           d == x \div w
           m == x % w
<1>1. x \in Nat
  OBVIOUS
<1>2. d \in Int /\ m \in 0 .. w - 1 /\ x = w * d + m
  <2> HIDE DEF x
  <2> QED BY <1>1
<1>3. x = r + w * q
  OBVIOUS
<1> HIDE DEF x, d, m
<1>4. ASSUME d < q PROVE FALSE
  <2>1. PICK e \in Nat : q = d + 1 + e
    <3>1. q - d - 1 \in Nat
      BY <1>2, <1>4
    <3> QED BY <1>2, <3>1
  <2>2. w * q = w * d + w + w * e /\ w * e \in Nat /\ w * d \in Int
    BY <1>2, <2>1
  <2> QED BY <1>2, <1>3, <2>2
<1>5. ASSUME q < d PROVE FALSE
  <2>1. PICK e \in Nat : d = q + 1 + e
    <3>1. d - q - 1 \in Nat
      BY <1>2, <1>5
    <3> QED BY <1>2, <3>1
  <2>2. w * d = w * q + w + w * e /\ w * e \in Nat /\ w * q \in Int
    BY <1>2, <2>1
  <2> QED BY <1>2, <1>3, <2>2
<1>6. d = q
  BY <1>2, <1>4, <1>5
<1>7. w * q \in Int
  OBVIOUS
<1>8. m = r
  BY <1>2, <1>3, <1>6, <1>7
<1> QED BY <1>8 DEF x, m

\* What is stored is the low bytes of the value.
LEMMA StoredNumber ==
  ASSUME NEW old \in Seq(0 .. Base - 1), NEW value \in Values
  PROVE  Number(Stored(old, value)) = Number(value) % Power(Len(old))
<1> DEFINE s == Stored(old, value)
           l == Len(old)
           n == Len(value)
<1>1. s \in Seq(0 .. Base - 1) /\ value \in Seq(0 .. Base - 1)
  BY StoredLemma, RegistryAssumption
<1>2. /\ Len(s) = l /\ l \in Nat /\ n \in Nat
      /\ \A i \in 1 .. l : s[i] = IF i <= n THEN value[i] ELSE 0
  <2>1. DOMAIN old = 1 .. l /\ l \in Nat /\ n \in Nat
    BY <1>1, LenProperties
  <2>2. DOMAIN s = 1 .. l
    BY <2>1 DEF Stored
  <2>3. Len(s) = l
    BY <1>1, <2>1, <2>2, LenProperties
  <2> QED BY <2>1, <2>3 DEF Stored
<1>3. Power(l) \in Nat \ {0} /\ Power(n) \in Nat \ {0}
  BY <1>2, PowerLemma
<1>4. Lows(s)[l] \in 0 .. Power(l) - 1 /\ Number(s) = Lows(s)[l]
  <2>1. l \in 0 .. l
    BY <1>2
  <2> QED BY <1>1, <1>2, <2>1, LowBound DEF Number
<1> HIDE DEF s, l, n
<1>5. CASE l <= n
  <2>1. Lows(s)[l] = Lows(value)[l]
    <3>1. \A k \in 1 .. l : s[k] = value[k]
      BY <1>2, <1>5
    <3>2. l \in 0 .. l
      BY <1>2
    <3> QED BY <1>1, <1>2, <1>5, <3>1, <3>2, LowShare DEF n
  <2>2. l \in 0 .. n
    BY <1>2, <1>5
  <2>3. PICK q \in Nat : Number(value) = Lows(value)[l] + Power(l) * q
    BY <1>1, <2>2, HighBytes DEF n
  <2> QED BY <1>3, <1>4, <2>1, <2>3, RemainderUnique DEF s, l
<1>6. CASE n < l
  <2>1. Lows(s)[n] = Lows(value)[n]
    <3>1. \A k \in 1 .. n : s[k] = value[k]
      BY <1>2, <1>6
    <3>2. n \in 0 .. n /\ n <= Len(s)
      BY <1>2, <1>6
    <3> QED BY <1>1, <1>2, <3>1, <3>2, LowShare DEF n
  <2>2. Lows(s)[l] = Lows(s)[n]
    <3>1. n \in 0 .. Len(s) /\ l \in n .. Len(s)
      BY <1>2, <1>6
    <3>2. \A k \in n + 1 .. Len(s) : s[k] = 0
      BY <1>2, <1>6
    <3> QED BY <1>1, <3>1, <3>2, LowPad
  <2>3. Number(s) = Number(value)
    BY <1>4, <2>1, <2>2 DEF Number, n
  <2>4. Number(s) % Power(l) = Number(s)
    BY <1>3, <1>4
  <2> QED BY <2>3, <2>4 DEF s, l
<1> QED BY <1>2, <1>5, <1>6

-----------------------------------------------------------------------------
(* The limits of the filter devices                                        *)

\* The bytes that a limit should have
Expected(v) == IF registry.key /\ Fits(registry.limit[v])
               THEN Stored(Default, registry.limit[v]) ELSE Default

Early == {"low", "high", "path", "key", "limits"}
Late  == {"list", "names", "loaded"} \cup Attaching

\* The limits are the defaults until they are read, and what they should be where
\* devices are made.
LimitsInv ==
  /\ at \in Early => \A v \in Limits : limits[v] = Default
  /\ at = "limits" => registry.key
  /\ at \in Late => \A v \in Limits : limits[v] = Expected(v)
  /\ \A i \in DOMAIN filters : \A v \in Limits : filters[i].limits[v] = Expected(v)

\* A step that reads no limit and makes no device
LEMMA LimitsFrame ==
  ASSUME LimitsInv, UNCHANGED <<registry, limits>>,
         DOMAIN filters' = DOMAIN filters,
         \A i \in DOMAIN filters : filters'[i].limits = filters[i].limits,
         at' \in Early => at \in Early, at' = "limits" => registry.key,
         at' \in Late => at \in Late \/ (at = "key" /\ ~registry.key)
  PROVE  LimitsInv'
<1>1. \A v \in Limits : Expected(v)' = Expected(v)
  BY DEF Expected, Fits, Stored
<1>2. at = "key" /\ ~registry.key => \A v \in Limits : limits[v] = Expected(v)
  BY DEF LimitsInv, Early, Expected
<1>3. at' \in Late => \A v \in Limits : limits'[v] = Expected(v)'
  BY <1>1, <1>2 DEF LimitsInv
<1>4. \A i \in DOMAIN filters' : \A v \in Limits : filters'[i].limits[v] = Expected(v)'
  BY <1>1 DEF LimitsInv
<1> QED BY <1>3, <1>4 DEF LimitsInv

LEMMA LimitsStep == DeviceInv /\ LimitsInv /\ [Next]_vars => LimitsInv'
<1> SUFFICES ASSUME DeviceInv, LimitsInv, [Next]_vars PROVE LimitsInv'
  OBVIOUS
<1>1. CASE UNCHANGED vars
  <2>1. UNCHANGED <<at, registry, limits, filters>>
    BY <1>1 DEF vars, config
  <2>2. at = "limits" => registry.key
    BY DEF LimitsInv
  <2> QED BY <2>1, <2>2, LimitsFrame
<1>2. CASE Load
  BY <1>2 DEF Load, LimitsInv, Early, Late, Attaching
<1>3. CASE OpenLowMemory \/ OpenHighMemory \/ MakeKeyPath \/ OpenKey
  <2>1. UNCHANGED <<registry, limits, filters>>
    BY <1>3 DEF OpenLowMemory, OpenHighMemory, MakeKeyPath, OpenKey, config
  <2>2. /\ at \in Early
        /\ \/ at' \in {"high", "path", "key", "failed"}
           \/ at' = "limits" /\ registry.key
           \/ at = "key" /\ at' = "loaded" /\ ~registry.key
    BY <1>3 DEF OpenLowMemory, OpenHighMemory, MakeKeyPath, OpenKey, Goes, Fail, Succeed, Early
  <2> QED BY <2>1, <2>2, LimitsFrame DEF Early, Late, Attaching
<1>4. CASE ReadLimits
  <2>1. at = "limits" /\ UNCHANGED <<registry, filters>>
    BY <1>4 DEF ReadLimits
  <2>2. \A v \in Limits : Expected(v)' = Expected(v)
    BY <2>1 DEF Expected, Fits, Stored
  <2>3. CASE Fail
    BY <2>1, <2>2, <2>3 DEF Fail, LimitsInv, Early, Late, Attaching
  <2>4. CASE /\ at' = "list"
             /\ limits' = [v \in Limits |-> IF Fits(registry.limit[v])
                                            THEN Stored(limits[v], registry.limit[v]) ELSE limits[v]]
    <3>1. registry.key /\ \A v \in Limits : limits[v] = Default
      BY <2>1 DEF LimitsInv, Early
    <3>2. \A v \in Limits : limits'[v] = Expected(v)
      BY <2>4, <3>1 DEF Expected
    <3> QED BY <2>1, <2>2, <2>4, <3>2 DEF LimitsInv, Early, Late
  <2> QED BY <1>4, <2>3, <2>4 DEF ReadLimits
<1>5. CASE ReadList \/ TryName \/ RunOver \/ EndOfNames \/ AddDevice \/ UnloadDriver
  <2>1. UNCHANGED <<registry, limits, filters>>
    BY <1>5 DEF ReadList, TryName, RunOver, EndOfNames, AddDevice, UnloadDriver, config
  <2>2. at \in Late /\ at' \notin Early
    BY <1>5 DEF ReadList, TryName, RunOver, EndOfNames, AddDevice, UnloadDriver, Goes,
                Fail, Succeed, Early, Late, Attaching
  <2> QED BY <2>1, <2>2, LimitsFrame DEF Early
<1>6. CASE CreateDevice
  <2>1. at = "create" /\ UNCHANGED <<registry, limits>>
    BY <1>6 DEF CreateDevice, config
  <2>2. CASE Ignored /\ UNCHANGED filters
    <3>1. at' \notin Early /\ at \in Late
      BY <2>1, <2>2 DEF Ignored, Early, Late, Attaching
    <3> QED BY <2>1, <2>2, <3>1, LimitsFrame DEF Early
  <2>3. CASE at' = "stack" /\ filters' = Append(filters, New)
    <3>1. \A v \in Limits : Expected(v)' = Expected(v) /\ limits[v] = Expected(v)
      BY <2>1 DEF Expected, Fits, Stored, LimitsInv, Late, Attaching
    <3>2. /\ DOMAIN filters' = 1 .. Len(filters) + 1 /\ DOMAIN filters = 1 .. Len(filters)
          /\ filters'[Len(filters) + 1] = New /\ Len(filters) \in Nat
          /\ \A i \in DOMAIN filters : filters'[i] = filters[i]
      BY <2>3 DEF DeviceInv
    <3>3. ASSUME NEW i \in DOMAIN filters', NEW v \in Limits
          PROVE  filters'[i].limits[v] = Expected(v)'
      <4>1. CASE i = Len(filters) + 1
        BY <3>1, <3>2, <4>1 DEF New
      <4>2. CASE i # Len(filters) + 1
        <5>1. i \in DOMAIN filters
          BY <3>2, <4>2
        <5> QED BY <3>1, <3>2, <5>1 DEF LimitsInv
      <4> QED BY <4>1, <4>2
    <3> QED BY <2>1, <2>3, <3>1, <3>3 DEF LimitsInv, Early
  <2> QED BY <1>6, <2>2, <2>3 DEF CreateDevice
<1>7. CASE AttachToStack \/ TestDirectIo \/ StartWorker
  <2>1. at \in {"stack", "direct", "thread"} /\ UNCHANGED <<registry, limits>>
    BY <1>7 DEF AttachToStack, TestDirectIo, StartWorker, config
  <2>2. at' \notin Early
    BY <1>7 DEF AttachToStack, TestDirectIo, StartWorker, Ignored, Fail, Early
  <2>3. filters \in Seq(DeviceSet) /\ filters # <<>> /\ Device \in DeviceSet
        /\ Device = filters[Len(filters)] /\ Len(filters) \in DOMAIN filters
    BY <2>1, DeviceLemma DEF DeviceInv
  <2>4. \/ UNCHANGED filters
        \/ Becomes([Device EXCEPT !.stack = TRUE])
        \/ Becomes([Device EXCEPT !.worker = TRUE, !.cached = TRUE])
        \/ Becomes(Deleted(Device)) \/ Becomes(Undone(Device))
    BY <1>7 DEF AttachToStack, TestDirectIo, StartWorker
  <2>5. ASSUME NEW d \in DeviceSet, d.limits = Device.limits, Becomes(d)
        PROVE  /\ DOMAIN filters' = DOMAIN filters
               /\ \A i \in DOMAIN filters : filters'[i].limits = filters[i].limits
    BY <2>3, <2>5 DEF Becomes
  <2>6. ASSUME NEW d \in {[Device EXCEPT !.stack = TRUE],
                          [Device EXCEPT !.worker = TRUE, !.cached = TRUE],
                          Deleted(Device), Undone(Device)}
        PROVE  d \in DeviceSet /\ d.limits = Device.limits
    BY <2>3, <2>6 DEF DeviceSet, Deleted, Undone
  <2>7. /\ DOMAIN filters' = DOMAIN filters
        /\ \A i \in DOMAIN filters : filters'[i].limits = filters[i].limits
    BY <2>4, <2>5, <2>6
  <2>8. at \in Late
    BY <2>1 DEF Late, Attaching
  <2> QED BY <2>1, <2>2, <2>7, <2>8, LimitsFrame DEF Early
<1>8. ASSUME NEW i \in DOMAIN filters, RemoveDevice(i) PROVE LimitsInv'
  <2>1. at' = at /\ UNCHANGED <<registry, limits>> /\ filters' = [filters EXCEPT ![i] = Undone(@)]
    BY <1>8 DEF RemoveDevice, config
  <2>2. filters[i] \in DeviceSet
    BY <1>8 DEF DeviceInv
  <2>3. Undone(filters[i]).limits = filters[i].limits
    BY <2>2 DEF DeviceSet, Undone, Deleted
  <2>4. /\ DOMAIN filters' = DOMAIN filters
        /\ \A j \in DOMAIN filters : filters'[j].limits = filters[j].limits
    BY <2>1, <2>3
  <2>5. at = "limits" => registry.key
    BY DEF LimitsInv
  <2> QED BY <2>1, <2>4, <2>5, LimitsFrame
<1> QED BY <1>1, <1>2, <1>3, <1>4, <1>5, <1>6, <1>7, <1>8 DEF Next

\* Every filter device has the limits of the registry, as the numbers that their bytes
\* are: a value shorter than a LONGLONG is extended with zeros and one that is longer
\* loses its high bytes, and where there is none the default stands.
\* mainwdm.cpp 263-312, 830-832
THEOREM RegistryIsHeeded == Spec => []LimitsAsAsked
<1>1. Init => LimitsInv
  BY DEF Init, LimitsInv, Early, Late, Attaching
<1>2. DeviceInv /\ LimitsInv => LimitsAsAsked
  <2> SUFFICES ASSUME DeviceInv, LimitsInv, NEW i \in DOMAIN filters, NEW v \in Limits
               PROVE  Number(filters[i].limits[v]) = Asked(v)
    BY DEF LimitsAsAsked
  <2>1. filters[i].limits[v] = Expected(v)
    BY DEF LimitsInv
  <2>2. CASE registry.key /\ Fits(registry.limit[v])
    <3>1. registry.limit[v] \in Values
      BY <2>2 DEF DeviceInv, Registries, Fits
    <3> QED BY <2>1, <2>2, <3>1, StoredNumber, RegistryAssumption DEF Expected, Asked
  <2>3. CASE ~(registry.key /\ Fits(registry.limit[v]))
    BY <2>1, <2>3 DEF Expected, Asked
  <2> QED BY <2>2, <2>3
<1> QED BY <1>1, <1>2, DeviceInit, DeviceStep, LimitsStep, PTL DEF Spec

\* Both halves of what the registry asks for: the limits that every device has, and the
\* disks of the list, which are all tried.  mainwdm.cpp 263-312, 347-420
THEOREM DriverIsConfigured == Spec => []ConfiguredAsAsked
<1>1. LimitsAsAsked /\ ListIsTried => ConfiguredAsAsked
  BY DEF ConfiguredAsAsked
<1> QED BY <1>1, RegistryIsHeeded, WholeListIsTried, PTL

=============================================================================
