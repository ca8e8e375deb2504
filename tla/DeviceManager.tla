---------------------------- MODULE DeviceManager ----------------------------
(***************************************************************************)
(* BackendRegistry and DeviceManager (include/backend/backend.h) with the  *)
(* provider of the CPU (src/backend/cpu/backend_cpu.cpp).  Providers are   *)
(* registered by static initialisers, in any order, and by clients at any  *)
(* time; the list of devices is made by the first query.  Other providers  *)
(* are external: they number their devices and report no memory.  A null   *)
(* provider is registered like one that is not available.  Sizes are what  *)
(* pages and page size multiply to, below SizeValues.                      *)
(***************************************************************************)
EXTENDS Integers, Sequences, SequencesExt, FiniteSetsExt

CONSTANTS
  OtherProviders,    \* records of isAvailable, getDeviceCount, getBackendType
  SizeValues,        \* 2^w for a size_t of w bits
  Fallback,          \* stands for 8 GiB
  Reports,           \* what the system may report of its memory
  MaxRegistrations   \* bound on the providers ever registered

(* The branch of the platform ends in "return 8ULL << 30": no count of     *)
(* pages on Linux, a failing sysctl on Apple, any other system.  Windows   *)
(* never does, a failed call leaving any size, and Apple reports 0 bytes   *)
(* when no page is free.                                                   *)
Unknown == -1

ASSUME SizesFit ==
  /\ SizeValues \in Nat
  /\ Fallback \in 0 .. SizeValues - 1
  /\ Reports \subseteq {Unknown} \cup 0 .. SizeValues - 1

CpuProvider == [name |-> "CPU", available |-> TRUE, count |-> 1, device |-> "CPU"]
Providers   == OtherProviders \cup {CpuProvider}
Devices     == {"CPU", "UNKNOWN"}

(* getDeviceCount is an int. *)
ASSUME ProvidersAnswer ==
  \A p \in OtherProviders : p.available \in BOOLEAN /\ p.count \in Int /\ p.device \in Devices

VARIABLES
  providers,     \* BackendRegistry::providers
  initialized,   \* DeviceManager::initialized
  devices,       \* DeviceManager::devices
  reported,      \* the system's two reports, per device listed for the CPU
  answers        \* what getDevice and deviceCount ever returned

vars == <<providers, initialized, devices, reported, answers>>

Init ==
  /\ providers = <<>>
  /\ initialized = FALSE
  /\ devices = <<>>
  /\ reported = <<>>
  /\ answers = {}

(* Wrong: a provider is kept without asking whether it is available. *)
RegisterProviderAnyway(p) ==
  /\ Len(providers) < MaxRegistrations
  /\ providers' = Append(providers, p)
  /\ UNCHANGED <<initialized, devices, reported, answers>>

RegisterProvider(p) ==
  /\ Len(providers) < MaxRegistrations
  /\ providers' = IF p.available THEN Append(providers, p) ELSE providers
  /\ UNCHANGED <<initialized, devices, reported, answers>>

-----------------------------------------------------------------------------
SystemMemory(report) == IF report # Unknown THEN report ELSE Fallback

(* Wrong: stops at zero. *)
DifferenceAtLeastZero(a, b) == IF a >= b THEN a - b ELSE 0

(* a - b of type size_t. *)
Difference(a, b) == IF a >= b THEN a - b ELSE a - b + SizeValues

(* The provider of the CPU ignores the number of the device. *)
CpuInfo(report) ==
  LET total     == SystemMemory(report.total)
      available == SystemMemory(report.available)
  IN  [id |-> 0, device |-> "CPU",
       total_memory |-> total, used_memory |-> Difference(total, available)]

OtherInfo(p, device_id) ==
  [id |-> device_id, device |-> p.device, total_memory |-> 0, used_memory |-> 0]

AvailableMemory(info) == Difference(info.total_memory, info.used_memory)

(* The provider and number of every device, in the order of registration. *)
Listing ==
  FlattenSeq([k \in DOMAIN providers |->
                [i \in 1 .. providers[k].count |-> [of |-> providers[k], number |-> i - 1]]])

Detected(reports) ==
  [k \in DOMAIN Listing |->
     IF k \in DOMAIN reports THEN CpuInfo(reports[k])
     ELSE OtherInfo(Listing[k].of, Listing[k].number)]

(* The system is asked for each device of the CPU on its own; total and    *)
(* available are separate calls, either of which may fail.                 *)
SystemReports ==
  [{k \in DOMAIN Listing : Listing[k].of = CpuProvider} ->
     [total : Reports, available : Reports]]

(* Wrong: the list is made anew by every query. *)
GetDevicesAnew ==
  \E reports \in SystemReports :
    /\ devices' = Detected(reports)
    /\ reported' = reports
    /\ initialized' = TRUE

GetDevices ==
  IF initialized
  THEN UNCHANGED <<initialized, devices, reported>>
  ELSE \E reports \in SystemReports :
         /\ devices' = Detected(reports)
         /\ reported' = reports
         /\ initialized' = TRUE

(* The place of the first device of a kind with an id in a list; 0 is null. *)
Place(list, dev, id) ==
  LET found == {k \in DOMAIN list : list[k].device = dev /\ list[k].id = id}
  IN  IF found = {} THEN 0 ELSE CHOOSE k \in found : \A l \in found : k <= l

(* The pointer returned is a place in devices; shown is what it points to. *)
Answer(list, dev, id) ==
  [device |-> dev, id |-> id, count |-> Len(list), place |-> Place(list, dev, id),
   shown |-> IF Place(list, dev, id) = 0 THEN <<>> ELSE <<list[Place(list, dev, id)]>>]

GetDevice(dev, id) ==
  /\ GetDevices
  /\ answers' = answers \cup {Answer(devices', dev, id)}
  /\ UNCHANGED providers

Ids == 0 .. Max({p.count : p \in Providers})

Next ==
  \/ \E p \in Providers : RegisterProvider(p)
  \/ \E dev \in Devices, id \in Ids : GetDevice(dev, id)

Spec == Init /\ [][Next]_vars

-----------------------------------------------------------------------------
Size == 0 .. SizeValues - 1

IsInfo(info) ==
  /\ info.id \in Nat /\ info.device \in Devices
  /\ info.total_memory \in Size /\ info.used_memory \in Size

(* Types; only providers that are available are registered, and nothing is *)
(* listed before the first query.                                          *)
TypeOK ==
  /\ providers \in Seq({p \in Providers : p.available})
  /\ initialized \in BOOLEAN
  /\ DOMAIN reported \subseteq DOMAIN devices
  /\ \A k \in DOMAIN devices : IsInfo(devices[k])
  /\ ~initialized => devices = <<>> /\ answers = {}

(***************************************************************************)
(* Every answer stands for good: the same query, made at any time later    *)
(* and whatever was registered or the system reports since, returns the    *)
(* same pointer (null included) and count, and the pointer still shows     *)
(* what it showed.  detectDevices clears the vector that the pointers      *)
(* handed out lead into, so it must never run twice (backend.h:90-99,      *)
(* 139-157).                                                               *)
(***************************************************************************)
AnswersStand == \A a \in answers : a = Answer(devices, a.device, a.id)

(***************************************************************************)
(* The available memory of the CPU is what the system reported available   *)
(* (or the 8 GiB) although used_memory wraps around when the system        *)
(* reports more available than in total, as it may if only the total is    *)
(* unknown (backend_cpu.cpp:16, backend.h:25).                             *)
(***************************************************************************)
AvailableAsReported ==
  \A k \in DOMAIN reported :
    AvailableMemory(devices[k]) = SystemMemory(reported[k].available)

=============================================================================
