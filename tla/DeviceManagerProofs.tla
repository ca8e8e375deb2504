------------------------- MODULE DeviceManagerProofs -------------------------
(***************************************************************************)
(* Proofs about DeviceManager for any providers, sizes and reports.        *)
(***************************************************************************)
EXTENDS DeviceManager, SequenceTheorems, WellFoundedInduction, TLAPS

(* What the memory of a device of the CPU was computed from. *)
InfosOfReports ==
  \A k \in DOMAIN reported :
    /\ reported[k] \in [total : Reports, available : Reports]
    /\ devices[k] = CpuInfo(reported[k])

(* Nothing was answered while there is no list. *)
AnswersNeedAList == initialized \/ answers = {}

Inv == AnswersNeedAList /\ AnswersStand /\ InfosOfReports

-----------------------------------------------------------------------------
(* Both the reports of the system and what replaces them are sizes. *)
LEMMA SystemMemoryIsSize == \A r \in Reports : SystemMemory(r) \in Size
BY SizesFit DEF SystemMemory, Unknown, Size

(* Taking the used memory from the total gives the available, modulo 2^w. *)
LEMMA DifferenceTwice ==
  \A total, available \in Size : Difference(total, Difference(total, available)) = available
BY SizesFit DEF Difference, Size

(* The list of the first query is made from the reports. *)
LEMMA DetectedFromReports ==
  ASSUME NEW reports \in SystemReports, NEW k \in DOMAIN reports
  PROVE  /\ reports[k] \in [total : Reports, available : Reports]
         /\ Detected(reports)[k] = CpuInfo(reports[k])
<1>1. DOMAIN reports \subseteq DOMAIN Listing
  BY DEF SystemReports
<1> QED BY <1>1 DEF SystemReports, Detected

LEMMA InfosGiveAvailable == InfosOfReports => AvailableAsReported
<1> SUFFICES ASSUME InfosOfReports, NEW k \in DOMAIN reported
             PROVE  AvailableMemory(devices[k]) = SystemMemory(reported[k].available)
  BY DEF AvailableAsReported
<1> DEFINE r == reported[k]
<1>1. r.total \in Reports /\ r.available \in Reports /\ devices[k] = CpuInfo(r)
  BY DEF InfosOfReports
<1>2. SystemMemory(r.total) \in Size /\ SystemMemory(r.available) \in Size
  BY <1>1, SystemMemoryIsSize
<1>3. AvailableMemory(devices[k])
        = Difference(SystemMemory(r.total),
                     Difference(SystemMemory(r.total), SystemMemory(r.available)))
  BY <1>1 DEF AvailableMemory, CpuInfo
<1> QED BY <1>2, <1>3, DifferenceTwice

-----------------------------------------------------------------------------
LEMMA InvInitially == Init => Inv
BY DEF Init, Inv, AnswersNeedAList, AnswersStand, InfosOfReports

LEMMA InvKept == Inv /\ [Next]_vars => Inv'
<1> SUFFICES ASSUME Inv, [Next]_vars PROVE Inv'
  OBVIOUS
<1> USE DEF Inv
<1>1. ASSUME NEW p \in Providers, RegisterProvider(p) PROVE Inv'
  BY <1>1 DEF RegisterProvider, AnswersNeedAList, AnswersStand, InfosOfReports
<1>2. ASSUME NEW dev \in Devices, NEW id \in Ids, GetDevice(dev, id) PROVE Inv'
  <2> DEFINE new == Answer(devices', dev, id)
  <2>1. answers' = answers \cup {new} /\ new = Answer(devices', new.device, new.id)
    BY <1>2 DEF GetDevice, Answer
  <2>2. CASE initialized
    <3>1. UNCHANGED <<initialized, devices, reported>>
      BY <1>2, <2>2 DEF GetDevice, GetDevices
    <3> QED BY <2>1, <2>2, <3>1 DEF AnswersNeedAList, AnswersStand, InfosOfReports
  <2>3. CASE ~initialized
    <3>1. PICK reports \in SystemReports :
            devices' = Detected(reports) /\ reported' = reports /\ initialized' = TRUE
      BY <1>2, <2>3 DEF GetDevice, GetDevices
    <3>2. answers = {}
      BY <2>3 DEF AnswersNeedAList
    <3>3. InfosOfReports'
      BY <3>1, DetectedFromReports DEF InfosOfReports
    <3> QED BY <2>1, <3>1, <3>2, <3>3 DEF AnswersNeedAList, AnswersStand
  <2> QED BY <2>2, <2>3
<1>3. CASE UNCHANGED vars
  BY <1>3 DEF vars, AnswersNeedAList, AnswersStand, InfosOfReports
<1> QED BY <1>1, <1>2, <1>3 DEF Next

(***************************************************************************)
(* Whatever was registered since and whatever the system reports, no       *)
(* answer of the device manager is ever outdated by a later one, and no    *)
(* pointer it returned dangles.                                            *)
(***************************************************************************)
THEOREM DeviceAnswersStand == Spec => []AnswersStand
<1>1. Inv => AnswersStand
  BY DEF Inv
<1> QED BY InvInitially, InvKept, <1>1, PTL DEF Spec

(***************************************************************************)
(* For every width of size_t, whatever the system reports or fails to      *)
(* report: the available memory of a CPU device is right although the used *)
(* memory may have wrapped around.                                         *)
(***************************************************************************)
THEOREM DeviceAvailableAsReported == Spec => []AvailableAsReported
<1>1. Inv => AvailableAsReported
  BY InfosGiveAvailable DEF Inv
<1> QED BY InvInitially, InvKept, <1>1, PTL DEF Spec

-----------------------------------------------------------------------------
(* The list of devices.  What is flattened is built up list by list.       *)
LEMMA Induction ==
  ASSUME NEW T, 0 \in T, \A n \in Nat : n \in T => n + 1 \in T
  PROVE  \A n \in Nat : n \in T
<1> SUFFICES ASSUME Nat \ T # {} PROVE FALSE
  OBVIOUS
<1>1. IsWellFoundedOn(OpToRel(<, Nat), Nat)
  BY NatLessThanWellFounded
<1>2. PICK m \in Nat \ T : \A n \in Nat \ T : ~(<<n, m>> \in OpToRel(<, Nat))
  BY <1>1, WFMin
<1>3. \A n \in Nat \ T : ~(n < m)
  BY <1>2 DEF OpToRel
<1>4. m - 1 \in Nat /\ m - 1 \in T
  BY <1>3
<1> QED
  BY <1>4

LEMMA FlattenedType ==
  ASSUME NEW T, NEW seqs \in Seq(Seq(T))
  PROVE  FlattenSeq(seqs) \in Seq(T)
<1> DEFINE Step(q, n) == q \o seqs[n]
           IsFlat(f, N) ==
             f = [n \in 1 .. N |-> IF n = 1 THEN seqs[n] ELSE Step(f[n - 1], n)]
           Recursed == {N \in Nat : \E f : IsFlat(f, N)}
           flatten == CHOOSE f : IsFlat(f, Len(seqs))
           Good == {n \in Nat : n \in 1 .. Len(seqs) => flatten[n] \in Seq(T)}
<1>1. CASE Len(seqs) = 0
  <2>1. seqs = <<>>
    BY <1>1
  <2>2. FlattenSeq(seqs) = seqs
    BY <1>1 DEF FlattenSeq
  <2>3. seqs \in Seq(T)
    BY <2>1
  <2> QED
    BY <2>2, <2>3
<1>2. CASE Len(seqs) # 0
  <2>1. FlattenSeq(seqs) = flatten[Len(seqs)]
    BY <1>2 DEF FlattenSeq
  <2>2. Len(seqs) \in Nat \ {0} /\ \A n \in 1 .. Len(seqs) : seqs[n] \in Seq(T)
    BY <1>2
  <2>3. \A N \in Nat : N \in Recursed
    <3>1. 0 \in Recursed
      <4>1. IsFlat([n \in 1 .. 0 |-> <<>>], 0)
        OBVIOUS
      <4> QED
        BY <4>1
    <3>2. ASSUME NEW N \in Nat, N \in Recursed PROVE N + 1 \in Recursed
      <4> HIDE DEF Step
      <4>1. PICK f : IsFlat(f, N)
        BY <3>2
      <4> DEFINE g == [n \in 1 .. N + 1 |->
                         IF n = 1 THEN seqs[1]
                         ELSE IF n = N + 1 THEN Step(f[N], N + 1) ELSE f[n]]
      <4>2. g = [n \in 1 .. N + 1 |-> IF n = 1 THEN seqs[n] ELSE Step(g[n - 1], n)]
        <5> SUFFICES ASSUME NEW n \in 1 .. N + 1
                     PROVE  g[n] = IF n = 1 THEN seqs[n] ELSE Step(g[n - 1], n)
          OBVIOUS
        <5>1. CASE n = 1
          BY <5>1
        <5>2. CASE n # 1
          <6>1. n - 1 \in 1 .. N /\ n - 1 \in 1 .. N + 1
            BY <5>2
          <6>2. g[n - 1] = f[n - 1]
            BY <4>1, <6>1
          <6>3. CASE n = N + 1
            BY <5>2, <6>2, <6>3
          <6>4. CASE n # N + 1
            <7>1. n \in 1 .. N /\ g[n] = f[n]
              BY <5>2, <6>4
            <7> QED
              BY <4>1, <5>2, <6>2, <7>1
          <6> QED
            BY <6>3, <6>4
        <5> QED
          BY <5>1, <5>2
      <4>3. IsFlat(g, N + 1)
        BY <4>2
      <4> HIDE DEF IsFlat, g
      <4>4. \E h : IsFlat(h, N + 1)
        BY <4>3
      <4> QED
        BY <4>4
    <3> HIDE DEF Recursed
    <3> QED
      BY <3>1, <3>2, Induction
  <2>4. IsFlat(flatten, Len(seqs))
    <3>1. Len(seqs) \in Recursed
      BY <2>2, <2>3
    <3>2. \E f : IsFlat(f, Len(seqs))
      BY <3>1
    <3> QED
      BY <3>2
  <2> HIDE DEF flatten
  <2>5. flatten[1] = seqs[1]
    BY <2>2, <2>4
  <2>6. ASSUME NEW n \in 1 .. Len(seqs), n # 1 PROVE flatten[n] = Step(flatten[n - 1], n)
    <3> HIDE DEF Step
    <3> QED
      BY <2>4, <2>6
  <2>7. 0 \in Good
    OBVIOUS
  <2>8. ASSUME NEW n \in Nat, n \in Good PROVE n + 1 \in Good
    <3> SUFFICES ASSUME n + 1 \in 1 .. Len(seqs) PROVE flatten[n + 1] \in Seq(T)
      OBVIOUS
    <3>1. CASE n = 0
      BY <2>2, <2>5, <3>1
    <3>2. CASE n # 0
      <4>1. n \in 1 .. Len(seqs) /\ n + 1 # 1 /\ (n + 1) - 1 = n
        BY <2>2, <3>2
      <4>2. flatten[n] \in Seq(T)
        BY <2>8, <4>1
      <4>3. flatten[n + 1] = flatten[n] \o seqs[n + 1] /\ seqs[n + 1] \in Seq(T)
        BY <2>2, <2>6, <4>1
      <4> QED
        BY <4>2, <4>3
    <3> QED
      BY <3>1, <3>2
  <2>9. Len(seqs) \in Good
    <3> HIDE DEF Good
    <3> QED
      BY <2>2, <2>7, <2>8, Induction
  <2> QED
    BY <2>1, <2>2, <2>9
<1> QED
  BY <1>1, <1>2

Entries == [of : {p \in Providers : p.available}, number : Nat]

LEMMA ListingType ==
  ASSUME providers \in Seq({p \in Providers : p.available})
  PROVE  Listing \in Seq(Entries)
<1> DEFINE lists == [k \in DOMAIN providers |->
                       [i \in 1 .. providers[k].count |->
                          [of |-> providers[k], number |-> i - 1]]]
<1>1. ASSUME NEW k \in DOMAIN providers PROVE lists[k] \in Seq(Entries)
  <2>1. providers[k] \in {p \in Providers : p.available} /\ providers[k].count \in Int
    BY ProvidersAnswer DEF Providers, CpuProvider
  <2> DEFINE c == providers[k].count
  <2>2. lists[k] \in [1 .. c -> Entries]
    BY <2>1 DEF Entries
  <2>3. 1 .. c = IF c \in Nat THEN 1 .. c ELSE 1 .. 0
    BY <2>1
  <2> HIDE DEF lists, Entries, c
  <2>4. \E n \in Nat : lists[k] \in [1 .. n -> Entries]
    BY <2>2, <2>3
  <2> QED
    BY <2>4
<1>2. DOMAIN providers = 1 .. Len(providers) /\ Len(providers) \in Nat
  OBVIOUS
<1>3. lists \in Seq(Seq(Entries))
  <2>1. lists \in [1 .. Len(providers) -> Seq(Entries)]
    BY <1>1, <1>2
  <2> HIDE DEF lists
  <2> QED
    BY <1>2, <2>1
<1> QED
  BY <1>3, FlattenedType DEF Listing

(* What the first query lists is information on devices.                   *)
LEMMA DetectedType ==
  ASSUME providers \in Seq({p \in Providers : p.available}), NEW reports \in SystemReports
  PROVE  /\ DOMAIN reports \subseteq DOMAIN Detected(reports)
         /\ \A k \in DOMAIN Detected(reports) : IsInfo(Detected(reports)[k])
<1>1. DOMAIN Detected(reports) = DOMAIN Listing
  BY DEF Detected
<1>2. DOMAIN reports \subseteq DOMAIN Listing
  BY DEF SystemReports
<1>3. ASSUME NEW k \in DOMAIN reports PROVE IsInfo(CpuInfo(reports[k]))
  <2>1. reports[k] \in [total : Reports, available : Reports]
    BY <1>3, DetectedFromReports
  <2>2. /\ SystemMemory(reports[k].total) \in Size
        /\ SystemMemory(reports[k].available) \in Size
    BY <2>1, SystemMemoryIsSize
  <2>3. \A a, b \in Size : Difference(a, b) \in Size
    BY SizesFit DEF Difference, Size
  <2> QED
    BY <2>2, <2>3 DEF CpuInfo, IsInfo, Devices
<1>4. ASSUME NEW k \in DOMAIN Listing PROVE IsInfo(OtherInfo(Listing[k].of, Listing[k].number))
  <2>1. Listing[k] \in Entries
    BY <1>4, ListingType
  <2>2. Listing[k].of \in Providers /\ Listing[k].number \in Nat
    BY <2>1 DEF Entries
  <2>3. Listing[k].of.device \in Devices
    BY <2>2, ProvidersAnswer DEF Providers, CpuProvider, Devices
  <2>4. 0 \in Size
    BY SizesFit DEF Size
  <2> QED
    BY <2>2, <2>3, <2>4 DEF OtherInfo, IsInfo
<1> QED
  BY <1>1, <1>2, <1>3, <1>4 DEF Detected

LEMMA TypeKept == TypeOK /\ [Next]_vars => TypeOK'
<1> SUFFICES ASSUME TypeOK, [Next]_vars PROVE TypeOK'
  OBVIOUS
<1>1. ASSUME NEW p \in Providers, RegisterProvider(p) PROVE TypeOK'
  <2>1. providers' \in Seq({q \in Providers : q.available})
    BY <1>1 DEF TypeOK, RegisterProvider
  <2> QED
    BY <1>1, <2>1 DEF TypeOK, RegisterProvider
<1>2. ASSUME NEW dev \in Devices, NEW id \in Ids, GetDevice(dev, id) PROVE TypeOK'
  <2>1. CASE initialized
    BY <1>2, <2>1 DEF TypeOK, GetDevice, GetDevices
  <2>2. CASE ~initialized
    <3>1. PICK reports \in SystemReports :
            devices' = Detected(reports) /\ reported' = reports /\ initialized' = TRUE
      BY <1>2, <2>2 DEF GetDevice, GetDevices
    <3>2. providers' = providers /\ providers \in Seq({p \in Providers : p.available})
      BY <1>2 DEF GetDevice, TypeOK
    <3>3. /\ DOMAIN reported' \subseteq DOMAIN devices'
          /\ \A k \in DOMAIN devices' : IsInfo(devices'[k])
      BY <3>1, <3>2, DetectedType
    <3> QED
      BY <3>1, <3>2, <3>3 DEF TypeOK
  <2> QED
    BY <2>1, <2>2 DEF TypeOK
<1>3. CASE UNCHANGED vars
  BY <1>3 DEF vars, TypeOK
<1> QED
  BY <1>1, <1>2, <1>3 DEF Next

(***************************************************************************)
(* For any providers, of any number of devices: whatever is registered and *)
(* reported, every listed device has a number, and memory sizes that fit   *)
(* into size_t, and what is not available is not registered.               *)
(***************************************************************************)
THEOREM DeviceManagerType == Spec => []TypeOK
<1>1. DOMAIN <<>> = {} /\ <<>> \in Seq({p \in Providers : p.available})
  OBVIOUS
<1>2. Init => TypeOK
  BY <1>1 DEF Init, TypeOK
<1> QED
  BY <1>2, TypeKept, PTL DEF Spec

=============================================================================
