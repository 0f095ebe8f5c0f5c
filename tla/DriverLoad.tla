----------------------------- MODULE DriverLoad -----------------------------
(***************************************************************************)
(* DriverEntry with its failure paths, the parameters in the registry, the *)
(* attachment of filter devices by the list there and by the PnP manager,  *)
(* and QCacheUnload (mainwdm.cpp).  Nothing here runs beside anything      *)
(* else: what is hard is that every call may fail, one after the other.    *)
(***************************************************************************)
EXTENDS Integers, SequencesExt

CONSTANTS
  Disks,       \* what can be attached to
  Values,      \* what a limit in the registry may be: its bytes, lowest first
  Absent,      \* a value that is not there or cannot be read
  Default,     \* of the limits: the bytes of a LONGLONG
  Base,        \* how many values a byte has
  Room,        \* the longest value that reg_value holds
  Lists,       \* what AttachDevices may be: its names, its bytes behind the last
  NameBytes,   \* of the name of each disk in the list, without its null
  LengthMax,   \* 65535, the largest USHORT
  MaxLoads,    \* bound on how often the driver is loaded
  MaxFilters   \* bound on the filter devices that are created in a load

ASSUME RegistryAssumption ==
  /\ Base \in Nat \ {0} /\ Room \in Nat
  /\ Values \subseteq Seq(0 .. Base - 1) /\ Default \in Seq(0 .. Base - 1)
  /\ Absent \notin Values \cup Lists
  /\ Lists \subseteq [names : Seq(Disks), tail : Nat] /\ NameBytes \in [Disks -> Nat \ {0}]
ASSUME LoadAssumption == {LengthMax, MaxLoads, MaxFilters} \subseteq Nat

VARIABLES
  at,        \* where DriverEntry or QCacheAttachDevice is
  caller,    \* of QCacheAttachDevice: DriverEntry, or the PnP manager
  loads,
  registry,  \* the parameters; whether the key can be opened
  key, lowMem,                    \* whether the global pointers are set
  openKeys, lowRefs, highRefs,    \* what the kernel counts for them
  blocks,    \* the pool memory of DriverEntry
  limits,    \* QCacheMaxQueueItems and QCacheMaxQueueSize
  rest,      \* device_name.MaximumLength
  tried,     \* the disks of the list that were opened, or should have been
  filters    \* the filter devices of this load, also the deleted ones

held   == <<key, lowMem, openKeys, lowRefs, highRefs>>
config == <<loads, registry, limits>>
walk   == <<rest, tried>>
vars   == <<at, caller, blocks, filters, held, config, walk>>

Limits == {"MaxQueueItems", "MaxQueueSize"}

Registries == [key : BOOLEAN, limit : [Limits -> Values \cup {Absent}],
               list : Lists \cup {Absent}]

Init ==
  /\ at = "absent" /\ caller = "entry" /\ loads = 0 /\ registry \in Registries
  /\ key = FALSE /\ lowMem = FALSE /\ openKeys = 0 /\ lowRefs = 0 /\ highRefs = 0
  /\ blocks = {} /\ limits = [v \in Limits |-> Default]
  /\ rest = 0 /\ tried = <<>> /\ filters = <<>>

Goes(from, to) == at = from /\ at' = to

NoDevices == \A i \in DOMAIN filters : ~filters[i].exists

-----------------------------------------------------------------------------
(* WPoolMem: what is allocated is given back when its scope ends, on every *)
(* path.                                                                   *)

Allocate(b)   == blocks' = blocks \cup {b}
EndOfScope(b) == blocks' = blocks \ {b}

-----------------------------------------------------------------------------
(* QCacheUnload                                                            *)

One(b) == IF b THEN 1 ELSE 0

Unload_KeyOnly ==
  /\ key' = FALSE /\ openKeys' = openKeys - One(key)
  /\ UNCHANGED <<highRefs, lowMem, lowRefs>>

Unload_Untested ==
  /\ key' = FALSE /\ openKeys' = openKeys - 1
  /\ lowMem' = FALSE /\ lowRefs' = lowRefs - 1
  /\ UNCHANGED highRefs

\* The two high-memory events stay referenced.
Unload ==
  /\ key' = FALSE /\ openKeys' = openKeys - One(key)
  /\ lowMem' = FALSE /\ lowRefs' = lowRefs - One(lowMem)
  /\ UNCHANGED highRefs

\* The I/O manager unloads a driver that has no devices.
UnloadDriver ==
  /\ Goes("loaded", "absent") /\ NoDevices
  /\ Unload
  /\ UNCHANGED <<caller, blocks, filters, config, walk>>

-----------------------------------------------------------------------------
(* DriverEntry                                                             *)

\* The image is loaded with its globals as they were compiled.
Load ==
  /\ at \in {"absent", "failed"} /\ at' = "low" /\ NoDevices
  /\ loads < MaxLoads /\ loads' = loads + 1
  /\ registry' \in Registries
  /\ limits' = [v \in Limits |-> Default] /\ key' = FALSE /\ lowMem' = FALSE
  /\ filters' = <<>> /\ tried' = <<>> /\ rest' = 0
  /\ UNCHANGED <<caller, blocks, openKeys, lowRefs, highRefs>>

Succeed == at' = "loaded" /\ blocks' = {} /\ UNCHANGED held
Fail    == at' = "failed" /\ blocks' = {} /\ Unload

\* Neither the descriptor nor the event is a reason to stop.
OpenLowMemory ==
  /\ Goes("low", "high")
  /\ Allocate("descriptor") \/ UNCHANGED blocks
  /\ \/ lowMem' = TRUE /\ lowRefs' = lowRefs + 1
     \/ UNCHANGED <<lowMem, lowRefs>>
  /\ UNCHANGED <<key, openKeys, highRefs, caller, filters, config, walk>>

OpenHighMemory ==
  /\ Goes("high", "path")
  /\ highRefs' \in highRefs .. highRefs + 2
  /\ UNCHANGED <<key, lowMem, openKeys, lowRefs, blocks, caller, filters, config, walk>>

MakeKeyPath ==
  /\ at = "path"
  /\ \/ at' = "key" /\ Allocate("path") /\ UNCHANGED held
     \/ Fail
  /\ UNCHANGED <<caller, filters, config, walk>>

\* Without the key the defaults stand, and no disk is attached.
OpenKey ==
  /\ at = "key"
  /\ \/ /\ registry.key /\ at' = "limits"
        /\ key' = TRUE /\ openKeys' = openKeys + 1
        /\ UNCHANGED <<lowMem, lowRefs, highRefs, blocks>>
     \/ ~registry.key /\ Succeed
  /\ UNCHANGED <<caller, filters, config, walk>>

Fits(value) == value # Absent /\ Len(value) <= Room

Stored_NotZeroed(old, value) ==
  [i \in DOMAIN old |-> IF i <= Len(value) THEN value[i] ELSE old[i]]

\* The global is zeroed and gets as many bytes as there are, and fit.
Stored(old, value) == [i \in DOMAIN old |-> IF i <= Len(value) THEN value[i] ELSE 0]

\* reg_value is freed at the end of the block.
ReadLimits ==
  /\ at = "limits"
  /\ \/ /\ at' = "list"
        /\ limits' = [v \in Limits |-> IF Fits(registry.limit[v])
                                       THEN Stored(limits[v], registry.limit[v]) ELSE limits[v]]
        /\ EndOfScope("limits") /\ UNCHANGED held
     \/ Fail /\ UNCHANGED limits
  /\ UNCHANGED <<caller, filters, loads, registry, walk>>

\* The bytes of names, each with its null
NamesBytes(names) == UNION {{i} \X (1 .. NameBytes[names[i]] + 2) : i \in DOMAIN names}

\* DataLength of the list: the characters of its names, the nulls between them, and
\* what is behind the last
ListBytes(list) == IF list.names = <<>> THEN list.tail
                   ELSE Cardinality(NamesBytes(list.names)) + list.tail - 2

ReadList ==
  /\ at = "list"
  /\ \/ /\ registry.list # Absent /\ at' = "names"
        /\ rest' = Min({LengthMax, ListBytes(registry.list)})
        /\ Allocate("list") /\ UNCHANGED held
     \/ registry.list = Absent /\ Succeed /\ UNCHANGED rest
     \/ Fail /\ UNCHANGED rest
  /\ UNCHANGED <<caller, filters, config, tried>>

MoreNames_Longer == rest > 6
MoreNames == rest >= 6

Names == registry.list.names

\* QCacheAttachLegacyDevice opens the disk.  A read-only one gives SUCCESS and no
\* extension, and what is then initialised is whatever was on the stack.
TryName ==
  /\ at = "names" /\ MoreNames /\ Len(tried) < Len(Names)
  /\ tried' = Append(tried, Names[Len(tried) + 1])
  /\ rest' = (rest - NameBytes[Last(tried')] - 2) % (LengthMax + 1)
  /\ \/ at' = "create" /\ caller' = "entry" /\ Len(filters) < MaxFilters /\ UNCHANGED <<blocks, held>>
     \/ at' = "wild" /\ UNCHANGED <<caller, blocks, held>>
     \/ Fail /\ UNCHANGED caller
  /\ UNCHANGED <<filters, config>>

\* Behind a last name without its null the length wraps, and the loop goes on in
\* memory that nobody wrote.
RunOver ==
  /\ Goes("names", "wild") /\ MoreNames /\ Len(tried) = Len(Names)
  /\ UNCHANGED <<caller, blocks, filters, held, config, walk>>

EndOfNames ==
  /\ at = "names" /\ ~MoreNames /\ Succeed
  /\ UNCHANGED <<caller, filters, config, walk>>

-----------------------------------------------------------------------------
(* QCacheAttachDevice                                                      *)

\* QCacheAddDevice: the result for a read-only disk is SUCCESS, and nothing else.
AddDevice ==
  /\ Goes("loaded", "create") /\ Len(filters) < MaxFilters
  /\ caller' = "pnp"
  /\ UNCHANGED <<blocks, filters, held, config, walk>>

\* SUCCESS without a device; the list's caller takes the extension for valid.
Ignored == /\ at' = IF caller = "pnp" THEN "loaded" ELSE "wild"
           /\ UNCHANGED <<blocks, held>>

New == [exists |-> TRUE, stack |-> FALSE, worker |-> FALSE, cached |-> FALSE, limits |-> limits]

\* The device that is being attached
Device     == Last(filters)
Becomes(d) == filters' = [filters EXCEPT ![Len(filters)] = d]

CreateDevice ==
  /\ at = "create"
  /\ \/ at' = "stack" /\ filters' = Append(filters, New) /\ UNCHANGED <<blocks, held>>
     \/ Ignored /\ UNCHANGED filters
  /\ UNCHANGED <<caller, config, walk>>

\* QCacheCleanupDevice ends the worker, if there is one; IoDeleteDevice
Deleted(d) == [d EXCEPT !.worker = FALSE, !.exists = FALSE]

AttachToStack ==
  /\ at = "stack"
  /\ \/ at' = "direct" /\ Becomes([Device EXCEPT !.stack = TRUE]) /\ UNCHANGED <<blocks, held>>
     \/ Ignored /\ Becomes(Deleted(Device))
  /\ UNCHANGED <<caller, config, walk>>

Undone_StaysAttached(d) == Deleted(d)
\* IoDetachDevice first
Undone(d) == Deleted([d EXCEPT !.stack = FALSE])

\* DO_DIRECT_IO
TestDirectIo ==
  /\ at = "direct"
  /\ \/ at' = "thread" /\ UNCHANGED <<filters, blocks, held>>
     \/ Ignored /\ Becomes(Undone(Device))
  /\ UNCHANGED <<caller, config, walk>>

\* The one failure that is reported
StartWorker ==
  /\ at = "thread"
  /\ \/ /\ at' = IF caller = "pnp" THEN "loaded" ELSE "names"
        /\ Becomes([Device EXCEPT !.worker = TRUE, !.cached = TRUE])
        /\ UNCHANGED <<blocks, held>>
     \/ /\ Becomes(Undone(Device))
        /\ \/ caller = "entry" /\ Fail
           \/ caller = "pnp" /\ at' = "loaded" /\ UNCHANGED <<blocks, held>>
  /\ UNCHANGED <<caller, config, walk>>

\* QCacheRemoveDevice, which is WriteQueue's
RemoveDevice(i) ==
  /\ at \in {"loaded", "failed"} /\ filters[i].exists
  /\ filters' = [filters EXCEPT ![i] = Undone(@)]
  /\ UNCHANGED <<at, caller, blocks, held, config, walk>>

-----------------------------------------------------------------------------
Next ==
  \/ Load \/ OpenLowMemory \/ OpenHighMemory \/ MakeKeyPath \/ OpenKey \/ ReadLimits
  \/ ReadList \/ TryName \/ RunOver \/ EndOfNames
  \/ AddDevice \/ CreateDevice \/ AttachToStack \/ TestDirectIo \/ StartWorker
  \/ \E i \in DOMAIN filters : RemoveDevice(i)
  \/ UnloadDriver

Spec == Init /\ [][Next]_vars

-----------------------------------------------------------------------------
(* Properties                                                              *)

Attaching == {"create", "stack", "direct", "thread"}

\* Types; "wild" is where the code runs on undefined values, and is not followed.
LoadTypeOK ==
  /\ at \in {"absent", "low", "high", "path", "key", "limits", "list", "names",
             "loaded", "failed", "wild"} \cup Attaching
  /\ caller \in {"entry", "pnp"} /\ loads \in 0 .. MaxLoads /\ registry \in Registries
  /\ key \in BOOLEAN /\ lowMem \in BOOLEAN
  /\ {openKeys, lowRefs, highRefs} \subseteq Nat
  /\ blocks \subseteq {"descriptor", "path", "list"}
  /\ DOMAIN limits = Limits /\ \A v \in Limits : DOMAIN limits[v] = DOMAIN Default
  /\ rest \in 0 .. LengthMax /\ tried \in Seq(Disks) /\ Len(filters) <= MaxFilters

\* Whatever fails, a filter device is complete or gone: none is deleted while it is
\* on the stack or has a worker, and at rest each one that exists has its place in
\* the stack, its worker and its cache.  mainwdm.cpp 771-951, 428-464
NoHalfDevice == \A i \in DOMAIN filters :
  LET d == filters[i] IN
  IF d.exists THEN (at \in Attaching /\ i = Len(filters)) \/ (d.stack /\ d.worker /\ d.cached)
              ELSE ~d.stack /\ ~d.worker

\* A driver that is unloaded, or whose DriverEntry failed wherever, has closed its
\* key and dropped its reference to the low-memory event; while it is there the
\* kernel counts what its pointers say, and DriverEntry leaves no memory behind.
\* mainwdm.cpp 48-425, every return; 1536-1571, QCacheUnload
UnloadedHoldsNothing ==
  /\ openKeys = One(key) /\ lowRefs = One(lowMem)
  /\ at \in {"absent", "failed"} => openKeys = 0 /\ lowRefs = 0
  /\ at \in {"absent", "failed", "loaded"} => blocks = {}

\* The powers of the base, the numbers that the lowest bytes are, and what all are
Powers(n)   == LET power[k \in 0 .. n] == IF k = 0 THEN 1 ELSE Base * power[k - 1] IN power
Power(n)    == Powers(n)[n]
Lows(bytes) == LET low[k \in 0 .. Len(bytes)] ==
                     IF k = 0 THEN 0 ELSE low[k - 1] + Power(k - 1) * bytes[k]
               IN  low
Number(bytes) == Lows(bytes)[Len(bytes)]

\* What a limit should be: the low bytes of the value as a number, the default if
\* there is none or it is longer than the buffer
Asked(v) == LET value == registry.limit[v] IN
  IF registry.key /\ Fits(value) THEN Number(value) % Power(Len(Default)) ELSE Number(Default)

\* Every filter device has the limits that the registry asks for, also where the
\* value is shorter or longer than a LONGLONG.  mainwdm.cpp 263-312, 830-832
LimitsAsAsked ==
  \A i \in DOMAIN filters : \A v \in Limits : Number(filters[i].limits[v]) = Asked(v)

\* A list whose last name has its null, of names of two characters or more, that a
\* UNICODE_STRING can hold
WellFormed(list) ==
  /\ list.names # <<>> => list.tail >= 2
  /\ \A i \in DOMAIN list.names : NameBytes[list.names[i]] >= 4
  /\ ListBytes(list) <= LengthMax

\* A driver that is loaded has tried the disks of the list, in its order, to the last:
\* the length that is left never wraps, nor ends before the names do.
\* mainwdm.cpp 347-420
ListIsTried ==
  at = "loaded" /\ key /\ registry.list # Absent /\ WellFormed(registry.list) => tried = Names

\* The driver is configured as the registry asks: its limits, and the disks it is
\* attached to.  mainwdm.cpp 263-312, 347-420
ConfiguredAsAsked == LimitsAsAsked /\ ListIsTried
=============================================================================
