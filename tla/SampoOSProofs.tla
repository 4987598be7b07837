--------------------------- MODULE SampoOSProofs ---------------------------
(***************************************************************************)
(* The theorems about the whole boot: what Kickstart has built still holds *)
(* when the kernel's memory manager runs on it, and the manager takes      *)
(* nothing that is in use.                                                 *)
(***************************************************************************)
EXTENDS SampoOS, KickstartProofs

\* The kernel has not been entered.
Idle ==
  /\ ki = 1 /\ physmap = <<>> /\ busy = {}
  /\ combined_region_count = 0 /\ bitmap_bit_count = 0 /\ phys_manager_addr = 0
  /\ kernel_end = 0 /\ bitmap_addr = 0

\* What Kickstart hands over and no step of the kernel changes.
Handed ==
  /\ step = "entered"
  /\ Sound(memory_regions, Entries(Callers))
  /\ GoodTable(memory_regions)
  /\ Reservable(module)
  /\ {top_page_structure, i, segment_region, mapped} \subseteq Nat

BootDone ==
  IF kstep = "off" THEN BootInv /\ Idle ELSE Handed

PhysmapEntry ==
  [addr : Nat, len : Nat, alloc_map : Nat \cup {Kernel!NoBitmap},
   type : Kernel!PhysmemTypes]

\* The walk that fills the physmap enters at most one entry for each region.
Filled ==
  /\ physmap \in Seq(PhysmapEntry)
  /\ \A k \in DOMAIN physmap :
       physmap[k].type = "AVAILABLE" => physmap[k].alloc_map \in Nat
  /\ Len(physmap) <= Len(memory_regions)
  /\ kstep = "populate" => Len(physmap) < ki

\* The manager's pages are the beginning of an entry of available memory.
Placed ==
  \E k \in DOMAIN memory_regions :
    /\ memory_regions[k].type = "AVAILABLE"
    /\ phys_manager_addr = memory_regions[k].addr_start
    /\ phys_manager_addr >= LowMemory
    /\ Kernel!ManagerEnd <= memory_regions[k].addr_end

KernelTypes ==
  /\ kstep \in Kernel!Steps \cup {"off"}
  /\ ki \in Nat \ {0}
  /\ {combined_region_count, bitmap_bit_count, phys_manager_addr, kernel_end,
      bitmap_addr} \subseteq Nat
  /\ busy \subseteq Nat
  /\ kstep \in {"off", "count", "place", "map", "clear"} => physmap = <<>>
  /\ kstep = "clear" => ki = 1
  /\ kstep = "map" \/ Managing => Placed
  /\ Filled

\* Whatever the kernel writes, every table is one of those Kickstart built, with
\* all its entries, and every page of data one of a segment.
MemoryOwned ==
  kstep # "off" =>
    /\ DOMAIN tables \subseteq Nat /\ DOMAIN data \subseteq Nat
    /\ tables \in [DOMAIN tables -> [Index -> Slots]]
    /\ \A p \in DOMAIN tables : Owned(memory_regions, p, "ALLOCATED")
    /\ \A p \in DOMAIN data : Owned(memory_regions, p, "KERNEL")

SystemInv == BootDone /\ InputTypes /\ KernelTypes

------------------------------------------------------------------------------
LEMMA InitSystemInv == SystemInit => SystemInv
<1> SUFFICES ASSUME SystemInit PROVE SystemInv
  OBVIOUS
<1> USE DEF SystemInit
<1>1. BootInv /\ InputTypes
  BY InitBootInv, InitInputTypes
<1>2. Idle
  BY DEF Idle
<1>3. Filled
  <2>1. memory_regions = <<>>
    BY DEF Init
  <2> QED
    BY <2>1 DEF Filled
<1>4. KernelTypes
  BY <1>3 DEF KernelTypes, Managing, Kernel!Steps
<1> QED
  BY <1>1, <1>2, <1>4 DEF SystemInv, BootDone

(* While Kickstart runs the kernel's variables keep their first values.      *)
LEMMA BootKeeps ==
  ASSUME SystemInv, Boot \/ UNCHANGED system_vars, kstep = "off"
  PROVE  SystemInv'
<1>1. [Next]_vars /\ UNCHANGED kernel_vars
  BY DEF Boot, system_vars
<1>2. BootInv' /\ InputTypes'
  BY <1>1, StepKeepsBootInv, StepKeepsInputTypes DEF SystemInv, BootDone
<1>3. Idle' /\ kstep' = "off" /\ Idle
  BY <1>1 DEF SystemInv, BootDone, Idle, kernel_vars
<1>4. memory_regions' \in Seq(Regions)
  BY <1>2 DEF BootInv, BootTypes, GoodTable
<1>5. Filled'
  <2>1. physmap' = <<>> /\ Len(memory_regions') \in Nat
    BY <1>3, <1>4 DEF Idle
  <2> QED
    BY <1>3, <2>1 DEF Filled
<1>6. KernelTypes'
  BY <1>3, <1>5 DEF KernelTypes, Idle, Managing, Kernel!Steps
<1> QED
  BY <1>2, <1>3, <1>6 DEF SystemInv, BootDone

(* A step of the kernel leaves Kickstart's results alone.                    *)
LEMMA HandedKept ==
  ASSUME SystemInv, Handed, kstep' # "off",
         UNCHANGED <<step, tags, module, inputs, header, memory_regions,
                     top_page_structure, i, segment_region, mapped>>,
         Remains(data, data')
  PROVE  BootDone' /\ InputTypes'
<1>1. BootDone'
  BY DEF BootDone, Handed, Callers
<1>2. InputTypes'
  BY DEF SystemInv, InputTypes, inputs, Remains
<1> QED
  BY <1>1, <1>2

LEMMA SameData == UNCHANGED data => Remains(data, data')
BY DEF Remains

------------------------------------------------------------------------------
(* The helpers of the kernel's walks.                                        *)
LEMMA RunEndRange ==
  ASSUME NEW t \in Seq(Regions), NEW k \in DOMAIN t
  PROVE  Kernel!RunEnd(t, k) \in DOMAIN t /\ Kernel!NextRun(t, k) \in Nat
         /\ k < Kernel!NextRun(t, k)
<1> DEFINE S == {l \in k..Len(t) : \A m \in (k + 1)..l :
                   /\ Kernel!Combinable(t[m])
                   /\ t[m].addr_start = t[m - 1].addr_end}
<1>1. Len(t) \in Nat /\ k \in 1..Len(t) /\ DOMAIN t = 1..Len(t)
  OBVIOUS
<1>2. Kernel!RunEnd(t, k) = IF ~Kernel!Combinable(t[k]) THEN k ELSE Max(S)
  BY DEF Kernel!RunEnd, Kernel!Max, Max
<1>3. k \in S /\ S \in SUBSET (0..Len(t)) /\ S \in SUBSET (k..Len(t))
  BY <1>1
<1>4. Max(S) \in S
  <2> HIDE DEF S
  <2> QED
    BY <1>1, <1>3, MaxIsGreatest
<1> HIDE DEF S
<1>5. Kernel!RunEnd(t, k) \in k..Len(t)
  BY <1>1, <1>2, <1>3, <1>4
<1> QED
  BY <1>1, <1>5 DEF Kernel!NextRun

LEMMA RunSizeType ==
  ASSUME NEW t \in Seq(Regions), NEW k \in DOMAIN t
  PROVE  /\ t[k].addr_start \in Nat /\ t[k].addr_end \in Nat
         /\ t[k].type \in RegionTypes
         /\ Kernel!RunSize(t, k) \in Nat
<1>1. t[k] \in Regions /\ t[Kernel!RunEnd(t, k)] \in Regions
  BY RunEndRange
<1>2. /\ t[k].addr_start \in Nat /\ t[k].addr_end \in Nat
      /\ t[Kernel!RunEnd(t, k)].addr_end \in Nat /\ t[k].type \in RegionTypes
  BY <1>1 DEF Regions
<1>3. \A a, b \in Nat : (a - b) % SizeSpan \in Nat
  BY SampoOSAssumption
<1> QED
  BY <1>2, <1>3 DEF Kernel!RunSize

\* How many bits or bytes a region takes.
LEMMA BitsAreNumbers ==
  ASSUME NEW n \in Nat
  PROVE  /\ Kernel!BitsFor(n \div PageSize) \in Nat
         /\ (RoundUp(n) \div PageSize) \div BitsPerByte
              + (IF (RoundUp(n) \div PageSize) % BitsPerByte # 0 THEN 1 ELSE 0) \in Nat
<1>1. BitsPerByte \in Nat \ {0} /\ PageSize \in Nat \ {0}
  BY RegionTableAssumption, SampoOSAssumption
<1>2. n \div PageSize \in Nat
  BY <1>1, Divide
<1>3. (n \div PageSize) + BitsPerByte - 1 \in Nat
  BY <1>1, <1>2
<1>4. ((n \div PageSize) + BitsPerByte - 1) \div BitsPerByte \in Nat
  BY <1>1, <1>3, Divide
<1>5. RoundUp(n) \in Nat
  BY RegionTableAssumption, Rounding
<1>6. RoundUp(n) \div PageSize \in Nat
  BY <1>1, <1>5, Divide
<1>7. (RoundUp(n) \div PageSize) \div BitsPerByte \in Nat
  BY <1>1, <1>6, Divide
<1>8. Kernel!BitsFor(n \div PageSize) \in Nat
  <2> DEFINE bytes == ((n \div PageSize) + BitsPerByte - 1) \div BitsPerByte
  <2>1. Kernel!BitsFor(n \div PageSize) = bytes * BitsPerByte
    BY DEF Kernel!BitsFor
  <2>2. bytes \in Nat
    BY <1>4
  <2> HIDE DEF bytes
  <2> QED
    BY <1>1, <2>1, <2>2
<1> DEFINE m == RoundUp(n) \div PageSize
<1>9. m \div BitsPerByte \in Nat
  BY <1>7
<1> HIDE DEF m
<1>10. m \div BitsPerByte + (IF m % BitsPerByte # 0 THEN 1 ELSE 0) \in Nat
  BY <1>9
<1> QED
  BY <1>8, <1>10 DEF m

LEMMA ManagerPagesNumber ==
  ASSUME combined_region_count \in Nat, bitmap_bit_count \in Nat
  PROVE  Kernel!ManagerPages \in Nat \ {0}
<1>1. BitsPerByte \in Nat \ {0} /\ PageSize \in Nat \ {0} /\ EntrySize \in Nat \ {0}
  BY RegionTableAssumption, SampoOSAssumption
<1>2. bitmap_bit_count \div BitsPerByte \in Nat
  BY <1>1, Divide
<1>3. (bitmap_bit_count \div BitsPerByte) \div PageSize \in Nat
  BY <1>1, <1>2, Divide
<1>4. combined_region_count * EntrySize \in Nat
  BY <1>1
<1>5. (combined_region_count * EntrySize) \div PageSize \in Nat
  BY <1>1, <1>4, Divide
<1> QED
  BY <1>3, <1>5 DEF Kernel!ManagerPages, Kernel!BitmapPages, Kernel!PhysmapPages

(* What is marked is a bit of an entry of available memory.                  *)
LEMMA BitIsNumber ==
  ASSUME Filled, NEW page \in Nat
  PROVE  Kernel!BitOf(page) \subseteq Nat
<1> DEFINE S == Kernel!AtOrBelow(page)
<1> SUFFICES ASSUME S # {}, physmap[Min(S)].type = "AVAILABLE"
             PROVE  physmap[Min(S)].alloc_map * BitsPerByte
                      + (page - physmap[Min(S)].addr) \div PageSize \in Nat
  BY DEF Kernel!BitOf, Kernel!Min, Min
<1>1. S = {k \in DOMAIN physmap : physmap[k].addr <= page}
  BY DEF Kernel!AtOrBelow
<1>2. physmap \in Seq(PhysmapEntry)
  BY DEF Filled
<1>3. S \in SUBSET Nat
  BY <1>1, <1>2
<1>4. Min(S) \in S
  <2> HIDE DEF S
  <2> QED
    BY <1>3, MinIsLeast
<1>5. Min(S) \in DOMAIN physmap /\ physmap[Min(S)].addr <= page
  BY <1>1, <1>4
<1>6. physmap[Min(S)] \in PhysmapEntry /\ physmap[Min(S)].alloc_map \in Nat
  BY <1>2, <1>5 DEF Filled
<1> DEFINE e == physmap[Min(S)]
<1>7. e.addr \in Nat /\ e.addr <= page /\ e.alloc_map \in Nat
  BY <1>5, <1>6 DEF PhysmapEntry
<1> HIDE DEF e
<1>8. page - e.addr \in Nat
  BY <1>7
<1>9. (page - e.addr) \div PageSize \in Nat
  BY <1>8, RegionTableAssumption, Divide
<1>10. e.alloc_map * BitsPerByte \in Nat
  BY <1>7, SampoOSAssumption
<1> QED
  BY <1>9, <1>10 DEF e

------------------------------------------------------------------------------
(***************************************************************************)
(* The steps of the kernel keep the invariant.                             *)
(***************************************************************************)
\* What a step of the kernel that touches no page leaves unchanged.
OnlyWalks ==
  UNCHANGED <<step, tags, module, inputs, header, memory_regions,
              top_page_structure, tables, data, i, segment_region, mapped>>

LEMMA WalkChangesNothing == UNCHANGED vars <=> OnlyWalks
BY DEF vars, OnlyWalks

\* The kernel is running.
Running == SystemInv /\ Handed /\ kstep # "off"

LEMMA RunningMeans ==
  ASSUME SystemInv, kstep # "off"
  PROVE  Running /\ memory_regions \in Seq(Regions)
BY DEF SystemInv, BootDone, Running, Handed, GoodTable

LEMMA WalkKept ==
  ASSUME Running, OnlyWalks, kstep' # "off", KernelTypes'
  PROVE  SystemInv'
<1>1. Remains(data, data')
  BY SameData DEF OnlyWalks
<1>2. BootDone' /\ InputTypes'
  BY <1>1, HandedKept DEF OnlyWalks, Running
<1> QED
  BY <1>2 DEF SystemInv

LEMMA CountRegionKeeps ==
  ASSUME Running, OnlyWalks, Kernel!CountRegion
  PROVE  SystemInv'
<1> DEFINE t == memory_regions
<1>1. t \in Seq(Regions) /\ kstep = "count" /\ ki \in Nat \ {0} /\ physmap = <<>>
  BY RunningMeans DEF Running, SystemInv, KernelTypes, Kernel!CountRegion
<1>2. /\ memory_regions' = memory_regions
      /\ UNCHANGED <<phys_manager_addr, kernel_end, physmap, bitmap_addr, busy>>
  BY DEF Kernel!CountRegion
<1>3. /\ kstep' \in {"count", "place"} /\ ki' \in Nat \ {0}
      /\ combined_region_count' \in Nat /\ bitmap_bit_count' \in Nat
  <2>1. CASE ki > Len(t)
    BY <1>1, <2>1 DEF Kernel!CountRegion, Running, SystemInv, KernelTypes
  <2>2. CASE ~(ki > Len(t))
    <3>1. ki \in DOMAIN t
      BY <1>1, <2>2
    <3>2. Kernel!NextRun(t, ki) \in Nat \ {0}
      BY <1>1, <3>1, RunEndRange
    <3> DEFINE bits == IF Kernel!Combinable(t[ki])
                         THEN Kernel!BitsFor(Kernel!RunSize(t, ki) \div PageSize)
                         ELSE 0
    <3>3. bits \in Nat
      BY <1>1, <3>1, RunSizeType, BitsAreNumbers
    <3>4. /\ kstep' = "count" /\ ki' = Kernel!NextRun(t, ki)
          /\ combined_region_count' = combined_region_count + 1
          /\ bitmap_bit_count' = bitmap_bit_count + bits
      BY <1>1, <2>2 DEF Kernel!CountRegion
    <3>5. combined_region_count \in Nat /\ bitmap_bit_count \in Nat
      BY DEF Running, SystemInv, KernelTypes
    <3> HIDE DEF bits
    <3> QED
      BY <3>2, <3>3, <3>4, <3>5
  <2> QED
    BY <2>1, <2>2
<1>4. Filled'
  <2>1. Len(t) \in Nat /\ physmap' = <<>> /\ kstep' # "populate"
    BY <1>1, <1>2, <1>3
  <2> QED
    BY <1>2, <2>1 DEF Filled
<1>5. KernelTypes'
  BY <1>1, <1>2, <1>3, <1>4
  DEF KernelTypes, Running, SystemInv, Managing, Kernel!Steps
<1> QED
  BY <1>3, <1>5, WalkKept

LEMMA PlaceManagerKeeps ==
  ASSUME Running, OnlyWalks, Kernel!PlaceManager
  PROVE  SystemInv'
<1> DEFINE t == memory_regions
           R == Kernel!Roomy
<1>1. t \in Seq(Regions) /\ kstep = "place" /\ ki \in Nat \ {0} /\ physmap = <<>>
      /\ combined_region_count \in Nat /\ bitmap_bit_count \in Nat
  BY RunningMeans DEF Running, SystemInv, KernelTypes, Kernel!PlaceManager
<1>2. /\ memory_regions' = memory_regions
      /\ UNCHANGED <<ki, combined_region_count, bitmap_bit_count, kernel_end,
                     physmap, bitmap_addr, busy>>
  BY DEF Kernel!PlaceManager
<1>3. Kernel!ManagerPages' = Kernel!ManagerPages
  BY <1>2 DEF Kernel!ManagerPages, Kernel!BitmapPages, Kernel!PhysmapPages
<1>4. /\ kstep' \in {"map", "no_room"} /\ phys_manager_addr' \in Nat
      /\ kstep' = "map" => Placed'
  <2>1. CASE R = {}
    BY <2>1 DEF Kernel!PlaceManager, Running, SystemInv, KernelTypes
  <2>2. CASE R # {}
    <3>1. R \subseteq DOMAIN t
      BY DEF Kernel!Roomy
    <3>2. Min(R) \in R
      <4>1. R \in SUBSET Nat
        BY <1>1, <3>1
      <4> HIDE DEF R
      <4> QED
        BY <2>2, <4>1, MinIsLeast
    <3>3. kstep' = "map" /\ phys_manager_addr' = t[Min(R)].addr_start
      BY <2>2 DEF Kernel!PlaceManager, Kernel!Min, Min
    <3>4. /\ t[Min(R)].type = "AVAILABLE" /\ t[Min(R)].addr_start >= LowMemory
          /\ t[Min(R)].addr_end >= t[Min(R)].addr_start + Kernel!ManagerPages * PageSize
      BY <3>2 DEF Kernel!Roomy
    <3>5. Min(R) \in DOMAIN t /\ t[Min(R)].addr_start \in Nat /\ t[Min(R)].addr_end \in Nat
      BY <1>1, <3>1, <3>2, RunSizeType
    <3> HIDE DEF R
    <3>6. Kernel!ManagerEnd' = t[Min(R)].addr_start + Kernel!ManagerPages * PageSize
      BY <1>3, <3>3 DEF Kernel!ManagerEnd
    <3>7. Kernel!ManagerPages * PageSize \in Nat
      BY <1>1, ManagerPagesNumber, RegionTableAssumption
    <3>8. Placed'
      BY <1>2, <3>3, <3>4, <3>5, <3>6, <3>7 DEF Placed
    <3> QED
      BY <3>3, <3>5, <3>8
  <2> QED
    BY <2>1, <2>2
<1>5. Filled'
  <2>1. Len(t) \in Nat /\ physmap' = <<>> /\ kstep' # "populate"
    BY <1>1, <1>2, <1>4
  <2> QED
    BY <1>2, <2>1 DEF Filled
<1>6. KernelTypes'
  BY <1>1, <1>2, <1>4, <1>5
  DEF KernelTypes, Running, SystemInv, Managing, Kernel!Steps
<1> QED
  BY <1>4, <1>6, WalkKept

(* Nothing moves the manager once it is placed.                              *)
LEMMA PlacedKept ==
  ASSUME Placed, UNCHANGED <<memory_regions, phys_manager_addr,
                             combined_region_count, bitmap_bit_count>>
  PROVE  Placed'
<1>1. Kernel!ManagerEnd' = Kernel!ManagerEnd
  BY DEF Kernel!ManagerEnd, Kernel!ManagerPages, Kernel!BitmapPages,
         Kernel!PhysmapPages
<1> QED
  BY <1>1 DEF Placed

LEMMA EntryTypeTranslated ==
  ASSUME NEW type \in RegionTypes
  PROVE  /\ Kernel!PhysmemType(type) \in Kernel!PhysmemTypes
         /\ Kernel!PhysmemType(type) = "AVAILABLE" => type \in {"AVAILABLE", "ALLOCATED"}
<1>1. CASE type \in {"AVAILABLE", "ALLOCATED"}
  BY <1>1, Zenon DEF Kernel!PhysmemType, Kernel!PhysmemTypes
<1>2. CASE type = "RECLAIMABLE"
  BY <1>2 DEF Kernel!PhysmemType, Kernel!PhysmemTypes
<1>3. CASE type \in {"NVS", "BAD_MEM"}
  BY <1>3 DEF Kernel!PhysmemType, Kernel!PhysmemTypes
<1>4. CASE type \in {"RESERVED", "KERNEL"}
  BY <1>4 DEF Kernel!PhysmemType, Kernel!PhysmemTypes
<1> QED
  BY <1>1, <1>2, <1>3, <1>4 DEF RegionTypes, FirmwareTypes, OwnerTypes

LEMMA PopulateEntryKeeps ==
  ASSUME Running, OnlyWalks, Kernel!PopulateEntry
  PROVE  SystemInv'
<1> DEFINE t == memory_regions
<1>1. /\ t \in Seq(Regions) /\ kstep = "populate" /\ ki \in Nat \ {0}
      /\ bitmap_addr \in Nat /\ Placed /\ Filled
  BY RunningMeans
  DEF Running, SystemInv, KernelTypes, Managing, Kernel!Steps, Kernel!PopulateEntry
<1>2. /\ memory_regions' = memory_regions
      /\ UNCHANGED <<combined_region_count, bitmap_bit_count,
                     phys_manager_addr, kernel_end, busy>>
  BY DEF Kernel!PopulateEntry
<1>3. /\ physmap \in Seq(PhysmapEntry) /\ Len(physmap) \in Nat
      /\ Len(physmap) < ki /\ Len(physmap) <= Len(t) /\ Len(t) \in Nat
      /\ \A k \in DOMAIN physmap :
           physmap[k].type = "AVAILABLE" => physmap[k].alloc_map \in Nat
  BY <1>1 DEF Filled
<1>4. /\ kstep' \in {"populate", "mark_allocated"} /\ ki' \in Nat \ {0}
      /\ bitmap_addr' \in Nat /\ Filled'
  <2>1. CASE ki > Len(t)
    <3>1. kstep' = "mark_allocated" /\ ki' = 1 /\ UNCHANGED <<physmap, bitmap_addr>>
      BY <2>1 DEF Kernel!PopulateEntry
    <3> QED
      BY <1>1, <1>2, <3>1 DEF Filled
  <2>2. CASE ~(ki > Len(t))
    <3>1. ki \in DOMAIN t
      BY <1>1, <2>2
    <3> DEFINE entry == [addr |-> t[ki].addr_start,
                         len |-> (t[Kernel!RunEnd(t, ki)].addr_end
                                    - t[ki].addr_start) % SizeSpan,
                         alloc_map |-> IF Kernel!Combinable(t[ki])
                                         THEN bitmap_addr ELSE Kernel!NoBitmap,
                         type |-> Kernel!PhysmemType(t[ki].type)]
               bytes == IF Kernel!Combinable(t[ki])
                          THEN Kernel!BitmapBytes(t, ki) ELSE 0
    <3>2. /\ kstep' = "populate" /\ ki' = Kernel!NextRun(t, ki)
          /\ physmap' = Append(physmap, entry) /\ bitmap_addr' = bitmap_addr + bytes
      BY <1>1, <2>2 DEF Kernel!PopulateEntry
    <3>3. bytes \in Nat
      BY <1>1, <3>1, RunSizeType, BitsAreNumbers DEF Kernel!BitmapBytes, Kernel!RoundUp,
         Kernel!RoundDown, RoundUp, RoundDown
    <3>4. Kernel!NextRun(t, ki) \in Nat /\ ki < Kernel!NextRun(t, ki)
      BY <1>1, <3>1, RunEndRange
    <3>5. entry \in PhysmapEntry
      BY <1>1, <3>1, RunSizeType, EntryTypeTranslated
      DEF Kernel!RunSize, PhysmapEntry
    <3>6. entry.type = "AVAILABLE" => entry.alloc_map \in Nat
      BY <1>1, <3>1, RunSizeType, EntryTypeTranslated DEF Kernel!Combinable
    <3> HIDE DEF entry, bytes
    <3>7. /\ physmap' \in Seq(PhysmapEntry) /\ Len(physmap') = Len(physmap) + 1
          /\ \A k \in DOMAIN physmap' :
               (k \in DOMAIN physmap /\ physmap'[k] = physmap[k]) \/ physmap'[k] = entry
      BY <1>3, <3>2, <3>5
    <3>8. Len(physmap') < ki' /\ Len(physmap') <= Len(t)
      <4>1. ki \in 1..Len(t)
        BY <1>1, <3>1
      <4> QED
        BY <1>1, <1>3, <3>2, <3>4, <3>7, <4>1
    <3>9. Filled'
      BY <1>2, <1>3, <3>6, <3>7, <3>8 DEF Filled
    <3> QED
      BY <1>1, <3>2, <3>3, <3>4, <3>9
  <2> QED
    BY <2>1, <2>2
<1>5. Placed'
  BY <1>1, <1>2, PlacedKept
<1>6. KernelTypes'
  BY <1>1, <1>2, <1>4, <1>5
  DEF KernelTypes, Running, SystemInv, Managing, Kernel!Steps
<1> QED
  BY <1>4, <1>6, WalkKept

LEMMA PagesAreNat ==
  ASSUME NEW lo \in Nat, NEW hi
  PROVE  Kernel!PagesOf(lo, hi) \subseteq Nat
BY DEF Kernel!PagesOf

(* The marking steps set bits of physmap entries.                            *)
LEMMA MarkingKeeps ==
  ASSUME Running, OnlyWalks,
         kstep \in {"mark_allocated", "mark_manager"},
         kstep' \in {"mark_allocated", "mark_manager", "done"},
         ki' \in Nat \ {0}, busy' \subseteq Nat,
         UNCHANGED <<memory_regions, combined_region_count, bitmap_bit_count,
                     phys_manager_addr, kernel_end, physmap, bitmap_addr>>
  PROVE  SystemInv'
<1>1. Placed'
  BY PlacedKept DEF Running, SystemInv, KernelTypes, Managing, Kernel!Steps
<1>2. Filled'
  BY DEF Running, SystemInv, KernelTypes, Filled
<1>3. KernelTypes'
  BY <1>1, <1>2 DEF KernelTypes, Running, SystemInv, Managing, Kernel!Steps
<1> QED
  BY <1>3, WalkKept

LEMMA MarkAllocatedKeeps ==
  ASSUME Running, OnlyWalks, Kernel!MarkAllocated
  PROVE  SystemInv'
<1> DEFINE t == memory_regions
           lo == t[ki].addr_start
           hi == t[ki].addr_end
<1>1. /\ t \in Seq(Regions) /\ kstep = "mark_allocated" /\ ki \in Nat \ {0}
      /\ busy \subseteq Nat /\ Filled
  BY RunningMeans DEF Running, SystemInv, KernelTypes, Kernel!MarkAllocated
<1>2. UNCHANGED <<memory_regions, combined_region_count, bitmap_bit_count,
                  phys_manager_addr, kernel_end, physmap, bitmap_addr>>
  BY DEF Kernel!MarkAllocated
<1>3. /\ kstep' \in {"mark_allocated", "mark_manager"} /\ ki' \in Nat \ {0}
      /\ busy' \subseteq Nat
  <2>1. CASE ki > Len(t)
    <3>1. kstep' = "mark_manager" /\ ki' = 1 /\ busy' = busy
      BY <2>1, Zenon DEF Kernel!MarkAllocated
    <3> QED
      BY <1>1, <3>1
  <2>2. CASE ~(ki > Len(t))
    <3>1. ki \in DOMAIN t
      BY <1>1, <2>2
    <3>2. kstep' = "mark_allocated" /\ ki' = ki + 1
          /\ busy' = busy \cup IF t[ki].type # "ALLOCATED" THEN {}
                               ELSE UNION {Kernel!BitOf(page) : page \in
                                      Kernel!PagesOf(lo, hi)}
      BY <1>1, <2>2 DEF Kernel!MarkAllocated
    <3>3. lo \in Nat
      BY <1>1, <3>1, RunSizeType
    <3> HIDE DEF lo, hi
    <3>4. \A page \in Kernel!PagesOf(lo, hi) : Kernel!BitOf(page) \subseteq Nat
      BY <1>1, <3>3, PagesAreNat, BitIsNumber
    <3> DEFINE bits == UNION {Kernel!BitOf(page) : page \in Kernel!PagesOf(lo, hi)}
    <3>5. bits \subseteq Nat
      BY <3>4
    <3> HIDE DEF bits
    <3>6. busy' \subseteq busy \cup bits
      BY <3>2 DEF bits
    <3>7. busy' \subseteq Nat
      BY <1>1, <3>5, <3>6
    <3>8. ki' \in Nat \ {0}
      BY <1>1, <3>2
    <3> QED
      BY <3>2, <3>7, <3>8, Zenon
  <2> QED
    BY <2>1, <2>2
<1> QED
  BY <1>1, <1>2, <1>3, MarkingKeeps

LEMMA MarkManagerKeeps ==
  ASSUME Running, OnlyWalks, Kernel!MarkManager
  PROVE  SystemInv'
<1>1. /\ kstep = "mark_manager" /\ ki \in Nat \ {0} /\ busy \subseteq Nat /\ Filled
      /\ phys_manager_addr \in Nat
  BY DEF Running, SystemInv, KernelTypes, Kernel!MarkManager
<1>2. /\ UNCHANGED <<memory_regions, combined_region_count, bitmap_bit_count,
                     phys_manager_addr, kernel_end, physmap, bitmap_addr>>
      /\ kstep' = "done" /\ ki' = ki
      /\ busy' = busy \cup UNION {Kernel!BitOf(page) : page \in
                   Kernel!PagesOf(phys_manager_addr, Kernel!ManagerEnd)}
  BY DEF Kernel!MarkManager
<1>3. \A page \in Kernel!PagesOf(phys_manager_addr, Kernel!ManagerEnd) :
        Kernel!BitOf(page) \subseteq Nat
  BY <1>1, PagesAreNat, BitIsNumber
<1> QED
  BY <1>1, <1>2, <1>3, MarkingKeeps

LEMMA HangKeeps ==
  ASSUME Running, UNCHANGED system_vars
  PROVE  SystemInv'
<1>1. OnlyWalks /\ UNCHANGED kernel_vars
  BY WalkChangesNothing DEF system_vars
<1>2. Placed => Placed'
  BY <1>1, PlacedKept DEF OnlyWalks, kernel_vars
<1>3. Filled'
  BY <1>1 DEF Running, SystemInv, KernelTypes, Filled, OnlyWalks, kernel_vars
<1>4. KernelTypes'
  BY <1>1, <1>2, <1>3
  DEF KernelTypes, Running, SystemInv, Managing, Kernel!Steps, kernel_vars
<1>5. kstep' # "off"
  BY <1>1 DEF Running, kernel_vars
<1> QED
  BY <1>1, <1>4, <1>5, WalkKept

(* The image ends somewhere.                                                 *)
LEMMA KernelEndNumber ==
  ASSUME image \in Image
  PROVE  KernelEnd \in Nat
<1> DEFINE segs == image.segments
           n == Len(segs)
           Ends(s) == {v + 1 : v \in Spanned(s)}
           Bounded(s, b) == \A r \in 1..s : \A e \in Ends(r) : e \in 0..b
           P == {s \in 0..n : \E b \in Nat : Bounded(s, b)}
           S == {0} \cup {v + 1 : v \in UNION {Spanned(s) : s \in DOMAIN segs}}
<1>1. /\ n \in Nat /\ DOMAIN segs = 1..n
      /\ \A s \in 1..n : segs[s].vaddr \in Nat /\ segs[s].mem_len \in Nat
  <2>1. segs \in Seq(Segment)
    BY DEF Image
  <2> HIDE DEF segs
  <2>2. n \in Nat /\ DOMAIN segs = 1..n /\ \A s \in 1..n : segs[s] \in Segment
    BY <2>1
  <2> QED
    BY <2>2 DEF Segment
<1>2. ASSUME NEW s \in 1..n
      PROVE  \A e \in Ends(s) : e \in 0..(segs[s].vaddr + segs[s].mem_len + 1)
  <2> DEFINE lo == segs[s].vaddr
             len == segs[s].mem_len
  <2>1. lo \in Nat /\ len \in Nat
    BY <1>1
  <2>2. Spanned(s) \subseteq {(lo + k) \div PageSize : k \in 0..(len - 1)}
    BY DEF Spanned
  <2> HIDE DEF lo, len, segs
  <2>3. ASSUME NEW k \in 0..(len - 1)
        PROVE  (lo + k) \div PageSize + 1 \in 0..(lo + len + 1)
    <3>1. lo + k \in Nat /\ lo + k <= lo + len
      BY <2>1
    <3>2. (lo + k) \div PageSize \in Nat /\ (lo + k) \div PageSize <= lo + k
      BY <3>1, RegionTableAssumption, QuotientSmaller
    <3> QED
      BY <2>1, <3>1, <3>2
  <2>4. \A e \in Ends(s) : e \in 0..(lo + len + 1)
    BY <2>2, <2>3
  <2> QED
    BY <2>4 DEF lo, len
<1> HIDE DEF segs, n, Ends
<1>3. 0 \in P
  BY <1>1
<1>4. ASSUME NEW s \in (0 + 1)..n, s - 1 \in P PROVE s \in P
  <2>1. PICK b \in Nat : Bounded(s - 1, b)
    BY <1>4
  <2> DEFINE c == segs[s].vaddr + segs[s].mem_len + 1
             d == IF b < c THEN c ELSE b
  <2>2. s \in 1..n /\ s \in 0..n /\ c \in Nat
    BY <1>1
  <2>3. \A e \in Ends(s) : e \in 0..c
    BY <1>2, <2>2
  <2> HIDE DEF c
  <2>4. d \in Nat /\ b <= d /\ c <= d
    BY <2>2
  <2> HIDE DEF d
  <2>5. \A r \in 1..s : r = s \/ r \in 1..(s - 1)
    BY <2>2
  <2>6. ASSUME NEW r \in 1..s, NEW e \in Ends(r) PROVE e \in 0..d
    <3>1. e \in 0..b \/ e \in 0..c
      BY <2>1, <2>3, <2>5
    <3> QED
      BY <2>2, <2>4, <3>1
  <2>7. Bounded(s, d)
    BY <2>6
  <2> HIDE DEF Bounded
  <2> QED
    BY <2>2, <2>4, <2>7
<1>5. PICK b \in Nat : Bounded(n, b)
  <2>1. P \in SUBSET (0..n) /\ 0 \in Nat /\ 0 <= n /\ n \in 0..n
    BY <1>1
  <2>2. n \in P
    <3> HIDE DEF P
    <3>1. \A s \in 0..n : s \in P
      BY <1>1, <1>3, <1>4, <2>1, LoopInvariant, Zenon
    <3> QED
      BY <2>1, <3>1
  <2> HIDE DEF Bounded
  <2> QED
    BY <2>2
<1>6. S \in SUBSET (0..b) /\ S # {}
  BY <1>1, <1>5 DEF Ends
<1>7. Max(S) \in S
  <2> HIDE DEF S
  <2> QED
    BY <1>6, MaxIsGreatest
<1>8. KernelEnd = Max(S)
  BY DEF KernelEnd, segs
<1> QED
  BY <1>6, <1>7, <1>8

(* The kernel finds what Kickstart has left.                                 *)
LEMMA HandedOver ==
  ASSUME BootInv, step = "entered"
  PROVE  Handed /\ PagerReady
<1>1. Sound(memory_regions, Entries(Callers)) /\ Reservable(module)
  BY DEF BootInv, Reserved
<1> QED
  BY <1>1 DEF BootInv, BootTypes, PagerBuilt, Handed

\* The virtual page that has the PML4's physical address.
PmlShown == Translate(top_page_structure \div PageSize)

LEMMA StartKernelWrites ==
  ASSUME StartKernel
  PROVE  LET self == Entry(top_page_structure, TRUE, FALSE)
         IN  \/ /\ ~PmlShown.present /\ kstep' = "fault"
                /\ UNCHANGED <<tables, data>>
             \/ /\ PmlShown.present /\ kstep' = "count"
                /\ tables' = Written(tables, PmlShown.addr, FractalIndex, self)
                /\ data' = Drop(data, {PmlShown.addr})
<1>1. CASE PmlShown.present
  BY <1>1, Zenon DEF StartKernel, PmlShown, Written
<1>2. CASE ~PmlShown.present
  BY <1>2, Zenon DEF StartKernel, PmlShown
<1> QED
  BY <1>1, <1>2

LEMMA StartKernelKeeps ==
  ASSUME SystemInv, StartKernel
  PROVE  SystemInv'
<1>1. /\ step = "entered" /\ kstep = "off" /\ BootInv /\ Idle
  BY DEF StartKernel, SystemInv, BootDone
<1>2. /\ kernel_end' = KernelEnd
      /\ UNCHANGED <<step, tags, module, inputs, header, memory_regions,
                     top_page_structure, i, segment_region, mapped, ki,
                     combined_region_count, bitmap_bit_count,
                     phys_manager_addr, physmap, bitmap_addr, busy>>
  BY DEF StartKernel
<1>3. kstep' \in {"count", "fault"} /\ Remains(data, data')
  BY StartKernelWrites DEF Remains, Drop
<1>4. KernelEnd \in Nat
  BY KernelEndNumber DEF SystemInv, InputTypes
<1>5. Handed
  BY <1>1, HandedOver
<1>6. Filled'
  BY <1>1, <1>2, <1>3 DEF SystemInv, KernelTypes, Filled
<1>7. KernelTypes'
  BY <1>1, <1>2, <1>4, <1>6, <1>3 DEF SystemInv, KernelTypes, Managing, Kernel!Steps
<1>8. BootDone' /\ InputTypes'
  BY <1>2, <1>5, <1>3, HandedKept
<1> QED
  BY <1>7, <1>8 DEF SystemInv

LEMMA Outcomes ==
  LET pml4 == Translate(FractalPage(kernel_end, 0))
      pt   == Translate(FractalPage(kernel_end, Levels - 1))
  IN  \/ Outcome = "fault" /\ (~pml4.present \/ ~pt.present)
      \/ Outcome = "null" /\ ~SeenEntry(kernel_end, 0).present
      \/ Outcome = "null" /\ pt.present /\ SeenEntry(kernel_end, Levels - 1).present
      \/ Outcome = "map" /\ pt.present /\ ~SeenEntry(kernel_end, Levels - 1).present
BY DEF Outcome

\* The three ways a turn of the mapping loop goes.
LEMMA MapTurn ==
  ASSUME KernelMapPage, ki \in Nat, Kernel!ManagerPages \in Nat
  PROVE  LET pt == Translate(FractalPage(kernel_end, Levels - 1))
         IN  \/ /\ ki > Kernel!ManagerPages /\ kstep' = "clear" /\ ki' = 1
                /\ UNCHANGED <<tables, kernel_end>>
             \/ /\ ki <= Kernel!ManagerPages /\ Outcome # "map"
                /\ kstep' = Outcome /\ kstep' \in {"fault", "null"}
                /\ UNCHANGED <<ki, tables, kernel_end>>
             \/ /\ ki <= Kernel!ManagerPages /\ Outcome = "map" /\ pt.present
                /\ kstep' = kstep /\ kernel_end' = kernel_end + 1 /\ ki' = ki + 1
                /\ tables' = Written(tables, pt.addr,
                     TableIndex(kernel_end, Levels - 1), Entry(Kernel!Pte, TRUE, FALSE))
<1> DEFINE pt == Translate(FractalPage(kernel_end, Levels - 1))
<1>1. Outcome \in {"fault", "null", "map"} /\ (Outcome = "map" => pt.present)
  BY Outcomes
<1>2. CASE ki > Kernel!ManagerPages
  <2>1. ~(ki <= Kernel!ManagerPages /\ Outcome # "map")
    BY <1>2
  <2> QED
    BY <1>2, <2>1, Zenon DEF KernelMapPage
<1>3. CASE ki <= Kernel!ManagerPages /\ Outcome # "map"
  <2>1. ~(ki > Kernel!ManagerPages)
    BY <1>3
  <2>2. kstep' = Outcome /\ UNCHANGED <<ki, tables, kernel_end>>
    BY <1>3, <2>1, Zenon DEF KernelMapPage
  <2> QED
    BY <1>1, <1>3, <2>2
<1>4. CASE ki <= Kernel!ManagerPages /\ Outcome = "map"
  <2>1. ~(ki > Kernel!ManagerPages) /\ ~(ki <= Kernel!ManagerPages /\ Outcome # "map")
    BY <1>4
  <2> QED
    BY <1>1, <1>4, <2>1, Zenon DEF KernelMapPage, Written
<1>5. ki > Kernel!ManagerPages \/ ki <= Kernel!ManagerPages
  OBVIOUS
<1> HIDE DEF pt
<1> QED
  BY <1>2, <1>3, <1>4, <1>5, Zenon DEF pt

LEMMA KernelMapPageKeeps ==
  ASSUME SystemInv, KernelMapPage
  PROVE  SystemInv'
<1>1. Running /\ kstep = "map" /\ physmap = <<>> /\ Placed /\ ki \in Nat \ {0}
      /\ kernel_end \in Nat
  BY RunningMeans DEF KernelMapPage, SystemInv, KernelTypes
<1>2. UNCHANGED <<step, tags, module, inputs, header, memory_regions,
                  top_page_structure, data, i, segment_region, mapped,
                  combined_region_count, bitmap_bit_count,
                  phys_manager_addr, physmap, bitmap_addr, busy>>
  BY DEF KernelMapPage
<1>3. /\ kstep' \in {"map", "clear", "fault", "null"} /\ ki' \in Nat \ {0}
      /\ kernel_end' \in Nat
      /\ kstep' = "clear" => ki' = 1
  <2>1. ki \in Nat /\ Kernel!ManagerPages \in Nat
    BY <1>1, ManagerPagesNumber DEF SystemInv, KernelTypes
  <2>2. \/ kstep' = "clear" /\ ki' = 1 /\ UNCHANGED kernel_end
        \/ kstep' \in {"fault", "null"} /\ UNCHANGED <<ki, kernel_end>>
        \/ kstep' = kstep /\ kernel_end' = kernel_end + 1 /\ ki' = ki + 1
    BY <2>1, MapTurn, Zenon
  <2> QED
    BY <1>1, <2>2
<1>4. Placed'
  BY <1>1, <1>2, PlacedKept
<1>5. Filled'
  BY <1>1, <1>2, <1>3 DEF SystemInv, KernelTypes, Filled
<1>6. KernelTypes'
  BY <1>1, <1>2, <1>3, <1>4, <1>5
  DEF SystemInv, KernelTypes, Managing, Kernel!Steps
<1>7. BootDone' /\ InputTypes'
  BY <1>1, <1>2, <1>3, HandedKept, SameData DEF Running
<1> QED
  BY <1>6, <1>7 DEF SystemInv

LEMMA KernelClearPagesKeeps ==
  ASSUME SystemInv, KernelClearPages
  PROVE  SystemInv'
<1>1. Running /\ kstep = "clear" /\ physmap = <<>> /\ Placed /\ ki = 1
  BY RunningMeans
  DEF KernelClearPages, Kernel!ClearPages, SystemInv, KernelTypes, Managing, Kernel!Steps
<1>2. UNCHANGED <<step, tags, module, inputs, header, memory_regions,
                  top_page_structure, i, segment_region, mapped>>
  BY DEF KernelClearPages
<1>3. /\ kstep' = "populate" /\ busy' = {}
      /\ UNCHANGED <<ki, combined_region_count, bitmap_bit_count,
                     phys_manager_addr, kernel_end, physmap, bitmap_addr>>
  BY DEF KernelClearPages, Kernel!ClearPages
<1>4. Remains(data, data')
  BY DEF KernelClearPages, Remains, Drop
<1>5. Placed'
  BY <1>1, <1>2, <1>3, PlacedKept
<1>6. Filled'
  <2>1. Len(physmap) = 0
    BY <1>1
  <2> QED
    BY <1>1, <1>2, <1>3, <2>1 DEF SystemInv, KernelTypes, Filled
<1>7. KernelTypes'
  BY <1>1, <1>2, <1>3, <1>5, <1>6
  DEF SystemInv, KernelTypes, Managing, Kernel!Steps
<1>8. BootDone' /\ InputTypes'
  BY <1>1, <1>2, <1>3, <1>4, HandedKept DEF Running
<1> QED
  BY <1>7, <1>8 DEF SystemInv

LEMMA KernelWalkKeeps ==
  ASSUME SystemInv, KernelWalk
  PROVE  SystemInv'
<1>1. OnlyWalks
  BY WalkChangesNothing DEF KernelWalk
<1>2. kstep # "off"
  BY DEF KernelWalk, Kernel!CountRegion, Kernel!PlaceManager,
     Kernel!PopulateEntry, Kernel!MarkAllocated, Kernel!MarkManager, Kernel!Hang, Kernel!Ends
<1>3. Running
  BY <1>2, RunningMeans
<1>4. CASE Kernel!CountRegion
  BY <1>1, <1>3, <1>4, CountRegionKeeps
<1>5. CASE Kernel!PlaceManager
  BY <1>1, <1>3, <1>5, PlaceManagerKeeps
<1>6. CASE Kernel!PopulateEntry
  BY <1>1, <1>3, <1>6, PopulateEntryKeeps
<1>7. CASE Kernel!MarkAllocated
  BY <1>1, <1>3, <1>7, MarkAllocatedKeeps
<1>8. CASE Kernel!MarkManager
  BY <1>1, <1>3, <1>8, MarkManagerKeeps
<1>9. CASE Kernel!Hang
  <2>1. UNCHANGED <<kstep, ki, combined_region_count, bitmap_bit_count,
                    phys_manager_addr, kernel_end, physmap, bitmap_addr, busy>>
    BY <1>9 DEF Kernel!Hang, Kernel!vars
  <2>2. UNCHANGED system_vars
    BY <2>1 DEF KernelWalk, system_vars, kernel_vars
  <2> QED
    BY <1>3, <2>2, HangKeeps
<1> QED
  BY <1>4, <1>5, <1>6, <1>7, <1>8, <1>9 DEF KernelWalk

LEMMA StepKeepsSystemInv ==
  ASSUME SystemInv, [SystemNext]_system_vars
  PROVE  SystemInv'
<1>1. CASE UNCHANGED system_vars
  BY <1>1, BootKeeps, HangKeeps, RunningMeans
<1>2. CASE Boot
  <2>1. kstep = "off"
    BY <1>2 DEF Boot, SystemInv, BootDone, Handed
  <2> QED
    BY <1>2, <2>1, BootKeeps
<1>3. CASE StartKernel
  BY <1>3, StartKernelKeeps
<1>4. CASE KernelMapPage
  BY <1>4, KernelMapPageKeeps
<1>5. CASE KernelClearPages
  BY <1>5, KernelClearPagesKeeps
<1>6. CASE KernelWalk
  BY <1>6, KernelWalkKeeps
<1> QED
  BY <1>1, <1>2, <1>3, <1>4, <1>5, <1>6 DEF SystemNext

------------------------------------------------------------------------------
(***************************************************************************)
(* What lies in memory keeps its owner while the kernel runs.              *)
(***************************************************************************)
(* Writing an entry of a table leaves the tables and their shape.            *)
LEMMA WriteTyped ==
  ASSUME NEW tb, tb \in [DOMAIN tb -> [Index -> Slots]], NEW p, NEW n \in Index,
         NEW entry \in Slots
  PROVE  /\ DOMAIN Written(tb, p, n, entry) = DOMAIN tb
         /\ Written(tb, p, n, entry) \in [DOMAIN tb -> [Index -> Slots]]
<1> DEFINE row == [tb[p] EXCEPT ![n] = entry]
           tc  == [tb EXCEPT ![p] = row]
<1>1. p \in DOMAIN tb => row \in [Index -> Slots]
  OBVIOUS
<1> HIDE DEF row
<1>2. DOMAIN tc = DOMAIN tb /\ tc \in [DOMAIN tb -> [Index -> Slots]]
  BY <1>1
<1> QED
  BY <1>2 DEF row, Written

LEMMA SystemStepKeepsOwned ==
  ASSUME SystemInv, MemoryOwned, RoomForTables, [SystemNext]_system_vars
  PROVE  MemoryOwned'
<1>1. ASSUME UNCHANGED <<kstep, memory_regions, tables, data>> PROVE MemoryOwned'
  BY <1>1 DEF MemoryOwned
<1>2. CASE UNCHANGED system_vars
  BY <1>1, <1>2 DEF system_vars, kernel_vars, vars
<1>3. CASE Boot
  <2>1. kstep = "off" /\ kstep' = kstep
    BY <1>3 DEF Boot, kernel_vars, SystemInv, BootDone, Handed
  <2> QED
    BY <2>1 DEF MemoryOwned
<1>4. CASE StartKernel
  <2> DEFINE top == top_page_structure
             self == Entry(top, TRUE, FALSE)
  <2>1. step = "entered" /\ BootInv /\ UNCHANGED memory_regions
    BY <1>4 DEF StartKernel, SystemInv, BootDone
  <2>2. PICK lev : Tree(memory_regions, tables, data, top, lev)
    BY <2>1, HandedOver DEF BootInv, PagerBuilt
  <2>3. /\ DOMAIN tables \subseteq Nat /\ DOMAIN data \subseteq Nat
        /\ tables \in [DOMAIN tables -> [Index -> Slots]]
        /\ \A p \in DOMAIN tables : Owned(memory_regions, p, "ALLOCATED")
        /\ \A p \in DOMAIN data : Owned(memory_regions, p, "KERNEL")
    BY <2>2 DEF Tree
  <2>4. /\ tables' \in {tables, Written(tables, PmlShown.addr, FractalIndex, self)}
        /\ DOMAIN data' \subseteq DOMAIN data
    BY <1>4, StartKernelWrites DEF Drop
  <2>5. FractalIndex \in Index /\ self \in Slots
    BY <2>1, SampoOSAssumption DEF Index, Slots, Entry, BootInv, BootTypes
  <2> HIDE DEF top, self
  <2>6. DOMAIN tables' = DOMAIN tables /\ tables' \in [DOMAIN tables -> [Index -> Slots]]
    <3> DEFINE tc == Written(tables, PmlShown.addr, FractalIndex, self)
    <3>1. DOMAIN tc = DOMAIN tables /\ tc \in [DOMAIN tables -> [Index -> Slots]]
      BY <2>3, <2>5, WriteTyped, Zenon
    <3> QED
      BY <3>1, <2>3, <2>4
  <2> QED
    BY <2>1, <2>3, <2>4, <2>6 DEF MemoryOwned
<1>5. CASE KernelMapPage
  <2> DEFINE pt == Translate(FractalPage(kernel_end, Levels - 1))
             n  == TableIndex(kernel_end, Levels - 1)
             entry == Entry(Kernel!Pte, TRUE, FALSE)
  <2>1. /\ kstep # "off" /\ UNCHANGED <<memory_regions, data>>
        /\ kernel_end \in Nat /\ phys_manager_addr \in Nat /\ ki \in Nat \ {0}
    BY <1>5 DEF KernelMapPage, SystemInv, KernelTypes
  <2>2. tables' \in {tables, Written(tables, pt.addr, n, entry)}
    <3>1. ki \in Nat /\ Kernel!ManagerPages \in Nat
      BY ManagerPagesNumber DEF SystemInv, KernelTypes
    <3> QED
      BY <1>5, <3>1, MapTurn
  <2>3. n \in Index
    BY <2>1, KickstartAssumption, TableIndexRange DEF Last
  <2>4. entry \in Slots
    <3>1. Kernel!Pte \in Nat
      BY <2>1, RegionTableAssumption DEF Kernel!Pte
    <3> QED
      BY <3>1 DEF Slots, Entry
  <2> HIDE DEF pt, n, entry
  <2>5. tables \in [DOMAIN tables -> [Index -> Slots]]
    BY <2>1 DEF MemoryOwned
  <2>6. DOMAIN tables' = DOMAIN tables /\ tables' \in [DOMAIN tables -> [Index -> Slots]]
    <3>1. /\ DOMAIN Written(tables, pt.addr, n, entry) = DOMAIN tables
          /\ Written(tables, pt.addr, n, entry) \in [DOMAIN tables -> [Index -> Slots]]
      BY <2>3, <2>4, <2>5, WriteTyped, Zenon
    <3> QED
      BY <3>1, <2>2, <2>5
  <2> QED
    BY <2>1, <2>6 DEF MemoryOwned
<1>6. CASE KernelClearPages
  <2> DEFINE pages == {Translate(kernel_end - n).addr : n \in 1..Kernel!ManagerPages}
  <2>1. /\ kstep # "off" /\ memory_regions' = memory_regions
        /\ tables' = Drop(tables, pages) /\ data' = Drop(data, pages)
    BY <1>6 DEF KernelClearPages, Kernel!ClearPages
  <2> HIDE DEF pages
  <2>2. /\ DOMAIN tables' \subseteq DOMAIN tables /\ DOMAIN data' \subseteq DOMAIN data
        /\ tables' = [p \in DOMAIN tables' |-> tables[p]]
    BY <2>1 DEF Drop
  <2>3. tables' \in [DOMAIN tables' -> [Index -> Slots]]
    <3>1. \A p \in DOMAIN tables' : tables[p] \in [Index -> Slots]
      BY <2>1, <2>2 DEF MemoryOwned
    <3> QED
      BY <2>2, <3>1
  <2> QED
    BY <2>1, <2>2, <2>3 DEF MemoryOwned
<1>7. CASE KernelWalk
  <2>1. UNCHANGED <<memory_regions, tables, data>>
    BY <1>7 DEF KernelWalk, vars
  <2>2. kstep # "off"
    BY <1>7 DEF KernelWalk, Kernel!CountRegion, Kernel!PlaceManager,
       Kernel!PopulateEntry, Kernel!MarkAllocated, Kernel!MarkManager, Kernel!Hang, Kernel!Ends
  <2> QED
    BY <2>1, <2>2 DEF MemoryOwned
<1> QED
  BY <1>2, <1>3, <1>4, <1>5, <1>6, <1>7 DEF SystemNext

------------------------------------------------------------------------------
(***************************************************************************)
(* The theorems.                                                           *)
(***************************************************************************)
(* Kickstart's invariant holds until the kernel is entered, and what it hands *)
(* over, its table of regions first, is never touched again; the kernel's     *)
(* counters and its physmap stay in their types (main.c:71-197,               *)
(* memory-manager.c:110-330).                                                 *)
THEOREM SystemInvariance == SystemSpec => []SystemInv
<1>1. SystemInit => SystemInv
  BY InitSystemInv
<1>2. SystemInv /\ [SystemNext]_system_vars => SystemInv'
  BY StepKeepsSystemInv
<1> QED
  BY <1>1, <1>2, PTL DEF SystemSpec

(* The kernel's memory manager, which goes on reading Kickstart's table, never *)
(* finds Kickstart or the kernel's file in available memory (main.c:148-151).  *)
THEOREM InUseNeverAvailableToKernel == SystemSpec => []InUseNotAvailable
<1>1. SystemInv => InUseNotAvailable
  <2> SUFFICES ASSUME SystemInv, step \notin {"start", "tags", "reserve", "halted"},
                      NEW k \in DOMAIN memory_regions,
                      memory_regions[k].type = "AVAILABLE"
               PROVE  /\ Apart(memory_regions[k], KickstartBlock)
                      /\ Apart(memory_regions[k], module)
    BY DEF InUseNotAvailable
  <2>1. /\ Sound(memory_regions, Entries(Callers)) /\ Reservable(module)
        /\ Reservable(KickstartBlock)
    BY KickstartProofAssumption DEF SystemInv, BootDone, Handed, BootInv, Reserved
  <2>2. memory_regions[k] \in Regions /\ \A g \in Callers : Apart(memory_regions[k], g)
    BY <2>1 DEF Sound, Entries, OwnerTypes
  <2> QED
    BY <2>1, <2>2, BlockApart DEF Callers
<1> QED
  BY <1>1, SystemInvariance, PTL

(* The boot as a whole cannot go round in circles before the kernel is entered *)
(* (main.c:71-197, elf.c:245-331).                                             *)
THEOREM SystemAdvances == SystemSpec => Advances
<1>1. ASSUME SystemInv, [SystemNext]_system_vars, ~UNCHANGED vars PROVE GoesOn
  <2>1. CASE kstep = "off" /\ Boot
    BY <1>1, <2>1, StepAdvances DEF SystemInv, BootDone, Boot
  <2>2. CASE kstep # "off"
    <3>1. step = "entered"
      BY <1>1, <2>2 DEF SystemInv, BootDone, Handed
    <3> QED
      BY <3>1 DEF GoesOn
  <2>3. CASE StartKernel
    BY <2>3 DEF StartKernel, GoesOn
  <2>4. kstep # "off" \/ Boot \/ StartKernel
    BY <1>1 DEF SystemNext, system_vars, KernelMapPage, KernelClearPages, KernelWalk,
       Kernel!ClearPages
  <2> QED
    BY <2>1, <2>2, <2>3, <2>4
<1>2. SystemInv /\ [SystemNext]_system_vars => [GoesOn]_vars
  BY <1>1
<1>3. SystemSpec => [][GoesOn]_vars
  BY <1>2, SystemInvariance, PTL DEF SystemSpec
<1> QED
  BY <1>3 DEF Advances, GoesOn

(* As long as every page table has found room, page tables stay in allocated   *)
(* memory and segments in the kernel's, also while the kernel writes to the    *)
(* tables and clears its pages (memory-manager.c:79-84, 205-211, 389-461).     *)
THEOREM MemoryStaysOwned == SystemSpec /\ []RoomForTables => []MemoryOwned
<1>1. SystemInit => MemoryOwned
  BY DEF SystemInit, MemoryOwned
<1>2. SystemInv /\ RoomForTables /\ MemoryOwned /\ [SystemNext]_system_vars => MemoryOwned'
  BY SystemStepKeepsOwned
<1> QED
  BY <1>1, <1>2, SystemInvariance, PTL DEF SystemSpec

\* An address in a page-sized step from a block's first page on lies in what
\* Kickstart reserved for the block.
LEMMA PagesInReserved ==
  ASSUME NEW b, Reservable(b), NEW p \in PagesIn(b)
  PROVE  /\ p \in Nat /\ ReservedRange(b).addr_start \in Nat
         /\ ReservedRange(b).addr_end \in Nat
         /\ ReservedRange(b).addr_start <= p /\ p < ReservedRange(b).addr_end
<1> DEFINE q == ReservedRange(b)
<1>1. /\ b.addr_start \in Nat /\ b.addr_end \in Nat /\ b.addr_start < b.addr_end
      /\ b \in [addr_start : Nat, addr_end : Nat] /\ RoundUp(b.addr_end) < PtrSpan
  BY DEF Reservable, Block
<1>2. q \in Regions /\ b.addr_end <= q.addr_end
  BY <1>1, ReservedRangeType
<1>3. q.addr_start = RoundDown(b.addr_start)
  BY DEF ReservedRange, Region
<1>4. p \in RoundDown(b.addr_start)..(b.addr_end - 1) /\ RoundDown(b.addr_start) \in Nat
  BY <1>1, Rounding DEF PagesIn
<1> HIDE DEF q
<1>5. q.addr_start \in Nat /\ q.addr_end \in Nat
  BY <1>2 DEF Regions
<1>6. p \in Nat /\ q.addr_start \in Nat /\ q.addr_end \in Nat
      /\ q.addr_start <= p /\ p < q.addr_end
  BY <1>1, <1>2, <1>3, <1>4, <1>5
<1> QED
  BY <1>6 DEF q

(* The manager's pages are free memory when it takes them: they lie over no   *)
(* page table and no segment, and not over Kickstart, the boot information or *)
(* the kernel's file (memory-manager.c:176-195, 205).                         *)
LEMMA ManagerTakesNothing ==
  ASSUME SystemInv, MemoryOwned, Managing
  PROVE  ManagerUnshared
<1> SUFFICES ASSUME NEW p \in ManagerPageSet, p \in BootPages
             PROVE  FALSE
  BY DEF ManagerUnshared
<1> DEFINE t == memory_regions
           lo == phys_manager_addr
           hi == Kernel!ManagerEnd
<1>1. /\ Handed /\ Placed /\ kstep # "off" /\ lo \in Nat
      /\ combined_region_count \in Nat /\ bitmap_bit_count \in Nat
  BY DEF SystemInv, BootDone, KernelTypes, Managing, Kernel!Steps
<1>2. PICK k \in DOMAIN t : /\ t[k].type = "AVAILABLE" /\ lo = t[k].addr_start
                            /\ hi <= t[k].addr_end
  BY <1>1 DEF Placed
<1>3. hi \in Nat
  BY <1>1, ManagerPagesNumber, RegionTableAssumption DEF Kernel!ManagerEnd
<1>4. p \in Nat /\ lo <= p /\ p < hi
  <2> HIDE DEF lo, hi
  <2>1. p \in lo..(hi - 1)
    BY DEF ManagerPageSet, Kernel!PagesOf, lo, hi
  <2> QED
    BY <1>1, <1>3, <2>1
<1>5. /\ t \in Seq(Regions) /\ Sound(t, Entries(Callers)) /\ Sound(t, Regions)
      /\ t[k] \in Regions /\ t[k].addr_start \in Nat /\ t[k].addr_end \in Nat
  <2>1. t \in Seq(Regions) /\ Sound(t, Regions)
    BY <1>1, SoundIsRegions DEF Handed, GoodTable
  <2> QED
    BY <1>1, <1>2, <2>1, RunSizeType DEF Handed
<1> HIDE DEF lo, hi
<1>6. t[k].addr_start <= p /\ p < t[k].addr_end
  BY <1>2, <1>3, <1>4, <1>5
<1>7. ASSUME NEW type, type # "AVAILABLE", Owned(t, p, type) PROVE FALSE
  <2>1. PICK l \in DOMAIN t :
          t[l].type = type /\ t[l].addr_start <= p /\ p + PageSize <= t[l].addr_end
    BY <1>7 DEF Owned, InEntry
  <2>2. k # l /\ Apart(t[k], t[l]) /\ t[l].addr_start \in Nat /\ t[l].addr_end \in Nat
    BY <1>2, <1>5, <1>7, <2>1, RunSizeType DEF Sound
  <2> QED
    BY <1>4, <1>5, <1>6, <2>1, <2>2, RegionTableAssumption DEF Apart
<1>8. ASSUME NEW b, Reservable(b), p \in PagesIn(b), ReservedRange(b) \in Callers
      PROVE  FALSE
  <2> DEFINE q == ReservedRange(b)
  <2>1. /\ q.addr_start \in Nat /\ q.addr_end \in Nat
        /\ q.addr_start <= p /\ p < q.addr_end
    BY <1>8, PagesInReserved
  <2>2. Apart(t[k], q)
    BY <1>2, <1>5, <1>8 DEF Sound, Entries, OwnerTypes
  <2> HIDE DEF q
  <2> QED
    BY <1>4, <1>5, <1>6, <2>1, <2>2 DEF Apart
<1>9. p \notin DOMAIN tables /\ p \notin DOMAIN data
  BY <1>1, <1>7 DEF MemoryOwned
<1>10. p \notin PagesIn(KickstartBlock) /\ p \notin PagesIn(module)
  BY <1>1, <1>8, KickstartProofAssumption DEF Handed, Callers
<1> QED
  BY <1>9, <1>10 DEF BootPages

(* Every variable of the boot and of the kernel has its type, and every page   *)
(* table all its entries (main.c, pager.c, elf.c, memory-manager.c).           *)
THEOREM SystemTypeCorrect == SystemSpec /\ []RoomForTables => []SystemTypeOK
<1>1. SystemInv /\ MemoryOwned /\ RoomForTables => SystemTypeOK
  <2> SUFFICES ASSUME SystemInv, MemoryOwned, RoomForTables PROVE SystemTypeOK
    OBVIOUS
  <2>1. TypeOK
    <3>1. CASE kstep = "off"
      BY <3>1, TypesTogether DEF SystemInv, BootDone
    <3>2. CASE kstep # "off"
      <4>1. \A p \in DOMAIN tables : tables[p] \in
              [0..(TableEntries - 1) -> [present : BOOLEAN, addr : Nat,
                                         writable : BOOLEAN, executable : BOOLEAN]]
        <5>1. tables \in [DOMAIN tables -> [Index -> Slots]]
          BY <3>2 DEF MemoryOwned
        <5> QED
          BY <5>1 DEF Index, Slots
      <4>2. /\ memory_regions \in Seq(Regions)
            /\ {top_page_structure, i, segment_region, mapped} \subseteq Nat
        BY <3>2 DEF SystemInv, BootDone, Handed, GoodTable
      <4> QED
        BY <4>1, <4>2 DEF TypeOK, SystemInv, InputTypes
    <3> QED
      BY <3>1, <3>2
  <2> QED
    BY <2>1 DEF SystemTypeOK, SystemInv, KernelTypes, Filled
<1> QED
  BY <1>1, SystemInvariance, MemoryStaysOwned, PTL

------------------------------------------------------------------------------
(***************************************************************************)
(* The fractal map: the indices of the page at which the code looks for a  *)
(* table are the PML4's own entry, once for each level that is to be       *)
(* skipped, and then those of the page whose table it is.                  *)
(***************************************************************************)
(* One walk through the PML4's own entry adds one term to the base.          *)
LEMMA BaseSteps ==
  /\ FractalBase(Levels) = 0
  /\ \A w \in 1..Levels : /\ FractalBase(Levels - w) \in Nat
                          /\ FractalBase(Levels - (w - 1)) \in Nat
                          /\ FractalBase(Levels - w) = FractalBase(Levels - (w - 1))
                               + FractalIndex * Power(TableEntries, Levels - w)
<1> DEFINE Term(w) == FractalIndex * Power(TableEntries, Levels - w)
           B == [w \in 1..Levels |-> [x \in Nat |-> x + Term(w)]]
           base == CHOOSE f : f = [w \in 0..Levels |->
                     IF w = 0 THEN 0 ELSE f[w - 1] + Term(w)]
<1>1. Levels \in Nat /\ TableEntries \in Nat \ {0} /\ FractalIndex \in Nat
  BY KickstartAssumption, SampoOSAssumption
<1>2. ASSUME NEW w \in 1..Levels PROVE Term(w) \in Nat
  <2>1. Levels - w \in Nat
    BY <1>1
  <2>2. Power(TableEntries, Levels - w) \in Nat
    BY <1>1, <2>1, PowerSteps
  <2> QED
    BY <1>1, <2>2
<1> HIDE DEF Term
<1>3. PICK f \in [0..Levels -> Nat] : RunOf(f, 0, Levels, 0, B)
  <2>1. B \in [(0 + 1)..Levels -> [Nat -> Nat]] /\ 0 \in Nat /\ 0 <= Levels
    BY <1>1, <1>2
  <2> HIDE DEF B
  <2> QED
    BY <1>1, <2>1, LoopRuns
<1>4. f = [w \in 0..Levels |-> IF w = 0 THEN 0 ELSE f[w - 1] + Term(w)]
  <2>1. \A w \in 0..Levels : w # 0 => B[w][f[w - 1]] = f[w - 1] + Term(w)
    BY <1>1, <1>3
  <2> HIDE DEF B
  <2> QED
    BY <1>3, <2>1 DEF RunOf
<1>5. base = [w \in 0..Levels |-> IF w = 0 THEN 0 ELSE base[w - 1] + Term(w)]
  BY <1>4, Zenon
<1>6. \A level : FractalBase(level) = base[Levels - level]
  BY Zenon DEF FractalBase, Term
<1> HIDE DEF base
<1> DEFINE P == {w \in 0..Levels : base[w] \in Nat}
<1>7. \A w \in 0..Levels : w \in P
  <2>1. 0 \in P
    BY <1>1, <1>5
  <2>2. ASSUME NEW w \in (0 + 1)..Levels, w - 1 \in P PROVE w \in P
    <3>1. base[w] = base[w - 1] + Term(w)
      BY <1>1, <1>5
    <3> QED
      BY <1>1, <1>2, <2>2, <3>1
  <2>3. P \in SUBSET (0..Levels) /\ 0 \in Nat /\ 0 <= Levels
    BY <1>1
  <2> HIDE DEF P
  <2> QED
    BY <1>1, <2>1, <2>2, <2>3, LoopInvariant, Zenon
<1>8. Levels - Levels = 0 /\ base[0] = 0
  BY <1>1, <1>5
<1>9. ASSUME NEW w \in 1..Levels
      PROVE  /\ FractalBase(Levels - w) \in Nat
             /\ FractalBase(Levels - (w - 1)) \in Nat
             /\ FractalBase(Levels - w) = FractalBase(Levels - (w - 1)) + Term(w)
  <2>1. Levels - (Levels - w) = w /\ Levels - (Levels - (w - 1)) = w - 1
        /\ w \in 0..Levels /\ w - 1 \in 0..Levels
    BY <1>1
  <2>2. base[w] = base[w - 1] + Term(w)
    BY <1>1, <1>5, <2>1
  <2> QED
    BY <1>6, <1>7, <2>1, <2>2
<1> QED
  BY <1>6, <1>8, <1>9 DEF Term

(* A base is a number of tables of its level, and each index in it is the    *)
(* PML4's own entry.                                                         *)
LEMMA BaseDigits ==
  ASSUME NEW w \in 0..Levels
  PROVE  \E g \in Nat :
           /\ FractalBase(Levels - w) = Power(TableEntries, Levels - w) * g
           /\ \A m \in 1..w :
                (g \div Power(TableEntries, w - m)) % TableEntries = FractalIndex
<1> DEFINE T == TableEntries
           F == FractalIndex
           Good(v, g) ==
             /\ FractalBase(Levels - v) = Power(T, Levels - v) * g
             /\ \A m \in 1..v : (g \div Power(T, v - m)) % T = F
           P == {v \in 0..Levels : \E g \in Nat : Good(v, g)}
<1>1. Levels \in Nat /\ T \in Nat \ {0} /\ F \in 0..(T - 1)
  BY KickstartAssumption, SampoOSAssumption
<1>2. 0 \in P
  <2>1. Power(T, Levels) \in Nat /\ Levels - 0 = Levels
    BY <1>1, PowerSteps
  <2>2. Good(0, 0)
    BY <2>1, BaseSteps
  <2> QED
    BY <1>1, <2>2
<1>3. ASSUME NEW v \in (0 + 1)..Levels, v - 1 \in P PROVE v \in P
  <2>1. v \in 1..Levels /\ v - 1 \in Nat /\ v \in Nat /\ Levels - v \in Nat
        /\ (Levels - v) + 1 = Levels - (v - 1)
    BY <1>1
  <2>2. PICK g \in Nat : Good(v - 1, g)
    BY <1>3
  <2> DEFINE h == T * g + F
             p == Power(T, Levels - v)
  <2>3. h \in Nat /\ h \div T = g /\ h % T = F
    BY <1>1, Quotient
  <2> HIDE DEF h
  <2>4. p \in Nat /\ Power(T, Levels - (v - 1)) = T * p
    BY <1>1, <2>1, PowerSteps
  <2>5. FractalBase(Levels - v) = p * h
    <3>1. FractalBase(Levels - v) = (T * p) * g + F * p
      BY <2>1, <2>2, <2>4, BaseSteps
    <3>2. \A a, b, c, d \in Nat : (a * b) * c + d * b = b * (a * c + d)
      OBVIOUS
    <3> HIDE DEF p
    <3>3. (T * p) * g + F * p = p * (T * g + F)
      BY <1>1, <2>4, <3>2
    <3> QED
      BY <3>1, <3>3 DEF h
  <2>6. ASSUME NEW m \in 1..v PROVE (h \div Power(T, v - m)) % T = F
    <3>1. CASE m = v
      <4>1. v - m = 0 /\ Power(T, 0) = 1 /\ h \div 1 = h
        BY <1>1, <2>1, <2>3, <3>1, PowerSteps
      <4> QED
        BY <2>3, <4>1
    <3>2. CASE m # v
      <4> DEFINE e == (v - 1) - m
      <4>1. e \in Nat /\ e + 1 = v - m /\ m \in 1..(v - 1)
        BY <1>1, <2>1, <3>2
      <4>2. Power(T, e) \in Nat \ {0} /\ Power(T, v - m) = T * Power(T, e)
        BY <1>1, <4>1, PowerSteps
      <4>3. (h \div T) \div Power(T, e) = h \div (T * Power(T, e))
        BY <1>1, <2>3, <4>2, DivideTwice
      <4>4. (g \div Power(T, e)) % T = F
        BY <2>2, <4>1
      <4> QED
        BY <2>3, <4>2, <4>3, <4>4
    <3> QED
      BY <3>1, <3>2
  <2>7. Good(v, h)
    BY <2>5, <2>6
  <2> QED
    BY <1>1, <2>1, <2>3, <2>7
<1>4. P \in SUBSET (0..Levels) /\ 0 \in Nat /\ 0 <= Levels
  BY <1>1
<1> HIDE DEF P
<1>5. w \in P
  BY <1>1, <1>2, <1>3, <1>4, LoopInvariant
<1> QED
  BY <1>5 DEF P

(* Virtual pages: their indices, and the table a page's table is in.         *)
LEMMA QuotientBelow ==
  ASSUME NEW x \in Nat, NEW a \in Nat \ {0}, NEW b \in Nat \ {0}, x < a * b
  PROVE  x \div a \in Nat /\ x \div a < b
<1>1. a * b \in Nat \ {0}
  OBVIOUS
<1>2. x \div (a * b) = 0
  BY <1>1, DivideSmall
<1>3. x \div a \in Nat /\ (x \div a) \div b = 0
  BY <1>2, Divide, DivideTwice
<1> QED
  BY <1>3, DivideSmall

LEMMA AddMultiple ==
  ASSUME NEW d \in Nat \ {0}, NEW a \in Nat, NEW x \in Nat
  PROVE  (d * a + x) \div d = a + (x \div d) /\ (d * a + x) % d = x % d
<1> DEFINE q == x \div d
           r == x % d
<1>1. q \in Nat /\ r \in 0..(d - 1) /\ x = d * q + r
  BY Divide
<1> HIDE DEF q, r
<1>2. d * a + x = d * (a + q) + r
  BY <1>1
<1>3. (d * (a + q) + r) \div d = a + q /\ (d * (a + q) + r) % d = r
  BY <1>1, Quotient
<1> QED
  BY <1>2, <1>3 DEF q, r

(* At the page where the code looks for a table, the walk goes through the   *)
(* PML4's own entry as often as there are levels below the table, and then   *)
(* takes the way to the table (memory-manager.c:26-62).                      *)
LEMMA FractalDigits ==
  ASSUME NEW vpage \in VirtualPages, NEW level \in 0..Last
  PROVE  /\ FractalPage(vpage, level) \in Nat
         /\ \A j \in 0..(Last - level) :
              TableIndex(FractalPage(vpage, level), j) = FractalIndex
         /\ \A k \in 1..level :
              TableIndex(FractalPage(vpage, level), (Last - level) + k)
                = TableIndex(vpage, k - 1)
<1> DEFINE T == TableEntries
           F == FractalIndex
           w == Levels - level
           P(n) == Power(T, n)
           q == vpage \div P(w)
           fp == FractalPage(vpage, level)
<1>1. /\ Levels \in Nat \ {0} /\ T \in Nat \ {0} /\ F \in Nat /\ Last = Levels - 1
      /\ w \in 1..Levels /\ level \in Nat /\ Levels - w = level /\ w + level = Levels
      /\ w \in Nat /\ Last - level = w - 1 /\ w \in 0..Levels
  BY KickstartAssumption, SampoOSAssumption DEF Last
<1>2. \A n \in Nat : P(n) \in Nat \ {0}
  BY <1>1, PowerSteps
<1>3. \A m, n \in Nat : P(m + n) = P(m) * P(n)
  BY <1>1, PowerSum
<1>4. vpage \in Nat /\ vpage < P(w) * P(level)
  <2>1. P(Levels) = P(w) * P(level) /\ P(Levels) \in Nat
    BY <1>1, <1>2, <1>3
  <2> QED
    BY <2>1 DEF VirtualPages
<1>5. q \in Nat /\ q < P(level)
  BY <1>1, <1>2, <1>4, QuotientBelow
<1>6. PICK g \in Nat :
        /\ FractalBase(Levels - w) = P(Levels - w) * g
        /\ \A m \in 1..w : (g \div P(w - m)) % T = F
  BY <1>1, BaseDigits
<1>7. fp = P(level) * g + q
  BY <1>1, <1>6 DEF FractalPage
<1>8. fp \in Nat
  BY <1>1, <1>2, <1>5, <1>7
<1> HIDE DEF fp, P, q
<1>9. ASSUME NEW j \in 0..(Last - level) PROVE TableIndex(fp, j) = F
  <2> DEFINE e == w - (j + 1)
  <2>1. /\ e \in Nat /\ j + 1 \in 1..w /\ Levels - 1 - j = level + e
    BY <1>1
  <2>2. P(level + e) = P(level) * P(e) /\ P(level) \in Nat \ {0} /\ P(e) \in Nat \ {0}
    BY <1>1, <1>2, <1>3, <2>1
  <2>3. fp \div (P(level) * P(e)) = (fp \div P(level)) \div P(e)
    BY <1>8, <2>2, DivideTwice
  <2>4. fp \div P(level) = g
    <3>1. q \in 0..(P(level) - 1)
      BY <1>5, <2>2
    <3> QED
      BY <1>6, <1>7, <2>2, <3>1, Quotient
  <2>5. (g \div P(e)) % T = F
    BY <1>6, <2>1
  <2>6. TableIndex(fp, j) = (fp \div P(level + e)) % T
    BY <2>1 DEF TableIndex, P
  <2> QED
    BY <2>2, <2>3, <2>4, <2>5, <2>6
<1>10. ASSUME NEW k \in 1..level
       PROVE  TableIndex(fp, (Last - level) + k) = TableIndex(vpage, k - 1)
  <2> DEFINE e == level - k
             d == P(e)
             c == P(k - 1)
             x == q \div d
  <2>1. /\ e \in Nat /\ k - 1 \in Nat /\ (k - 1) + 1 = k /\ level = e + k
        /\ Levels - 1 - ((Last - level) + k) = e
        /\ Levels - 1 - (k - 1) = w + e
    BY <1>1
  <2>2. d \in Nat \ {0} /\ c \in Nat \ {0} /\ P(w) \in Nat \ {0}
    BY <1>1, <1>2, <2>1
  <2>3. P(k) = T * c
    BY <1>1, <2>1, PowerSteps DEF P
  <2>4. P(level) = d * (T * c) /\ P(w + e) = P(w) * d
    <3> HIDE DEF e
    <3>1. P(e + k) = P(e) * P(k) /\ P(w + e) = P(w) * P(e)
      BY <1>1, <1>3, <2>1
    <3> QED
      BY <2>1, <2>3, <3>1
  <2>5. x \in Nat
    BY <1>5, <2>2, Divide
  <2>6. TableIndex(fp, (Last - level) + k) = (fp \div d) % T
    BY <2>1 DEF TableIndex, P
  <2>7. TableIndex(vpage, k - 1) = x % T
    <3>1. TableIndex(vpage, k - 1) = (vpage \div P(w + e)) % T
      BY <2>1 DEF TableIndex, P
    <3>2. vpage \div (P(w) * d) = (vpage \div P(w)) \div d
      BY <1>4, <2>2, DivideTwice
    <3> QED
      BY <2>4, <3>1, <3>2 DEF q
  <2> HIDE DEF d, c, e
  <2>8. fp \div d = T * (c * g) + x
    <3> DEFINE y == T * (c * g)
    <3>1. y \in Nat
      BY <1>1, <1>6, <2>2
    <3>2. fp = d * y + q
      <4>1. \A a, b, f, h \in Nat : (a * (b * f)) * h = a * (b * (f * h))
        OBVIOUS
      <4>2. (d * (T * c)) * g = d * (T * (c * g))
        BY <1>1, <1>6, <2>2, <4>1
      <4> QED
        BY <1>7, <2>4, <4>2
    <3> HIDE DEF y
    <3>3. (d * y + q) \div d = y + (q \div d)
      BY <1>5, <2>2, <3>1, AddMultiple
    <3> QED
      BY <3>2, <3>3 DEF y
  <2> HIDE DEF x
  <2>9. (T * (c * g) + x) % T = x % T
    <3>1. c * g \in Nat
      BY <1>6, <2>2
    <3> QED
      BY <1>1, <2>5, <3>1, AddMultiple
  <2> QED
    BY <2>6, <2>7, <2>8, <2>9
<1> QED
  BY <1>8, <1>9, <1>10 DEF fp

(* A virtual page has no other page's indices.                               *)
LEMMA IndicesDetermine ==
  ASSUME NEW u \in VirtualPages, NEW v \in VirtualPages,
         \A j \in 0..Last : TableIndex(u, j) = TableIndex(v, j)
  PROVE  u = v
<1> DEFINE T == TableEntries
           P(n) == Power(T, n)
           S == {j \in 0..Levels : u \div P(Levels - j) = v \div P(Levels - j)}
<1>1. Levels \in Nat \ {0} /\ T \in Nat \ {0} /\ Last = Levels - 1
  BY KickstartAssumption DEF Last
<1>2. \A n \in Nat : P(n) \in Nat \ {0} /\ P(n + 1) = T * P(n)
  BY <1>1, PowerSteps
<1>3. P(0) = 1
  BY <1>1, PowerSteps
<1>4. u \in Nat /\ v \in Nat /\ u < P(Levels) /\ v < P(Levels)
  BY <1>1, <1>2 DEF VirtualPages
<1> HIDE DEF P
<1>5. 0 \in S
  <2>1. Levels - 0 = Levels
    BY <1>1
  <2>2. u \div P(Levels) = 0 /\ v \div P(Levels) = 0
    BY <1>1, <1>2, <1>4, DivideSmall
  <2> QED
    BY <1>1, <2>1, <2>2
<1>6. ASSUME NEW j \in (0 + 1)..Levels, j - 1 \in S PROVE j \in S
  <2> DEFINE e == Levels - j
             a == u \div P(e)
             b == v \div P(e)
  <2>1. e \in Nat /\ e + 1 = Levels - (j - 1) /\ e = Levels - 1 - (j - 1)
        /\ j - 1 \in 0..Last
    BY <1>1
  <2>2. P(e) \in Nat \ {0} /\ P(e + 1) = T * P(e)
    BY <1>2, <2>1
  <2>3. a \in Nat /\ b \in Nat
    BY <1>4, <2>2, Divide
  <2>4. a \div T = b \div T
    <3>1. a \div T = u \div (P(e) * T) /\ b \div T = v \div (P(e) * T)
      BY <1>1, <1>4, <2>2, DivideTwice
    <3>2. P(e) * T = P(e + 1)
      BY <1>1, <2>2
    <3>3. u \div P(e + 1) = v \div P(e + 1)
      BY <1>6, <2>1
    <3> QED
      BY <3>1, <3>2, <3>3
  <2>5. a % T = b % T
    <3>1. TableIndex(u, j - 1) = a % T /\ TableIndex(v, j - 1) = b % T
      BY <2>1 DEF TableIndex, P
    <3> QED
      BY <2>1, <3>1
  <2> HIDE DEF a, b
  <2>6. a = T * (a \div T) + (a % T) /\ b = T * (b \div T) + (b % T)
    BY <1>1, <2>3, Divide
  <2>7. a = b
    BY <2>4, <2>5, <2>6
  <2> QED
    BY <2>7, <1>1 DEF a, b
<1>7. S \in SUBSET (0..Levels) /\ 0 \in Nat /\ 0 <= Levels /\ Levels \in 0..Levels
      /\ Levels - Levels = 0
  BY <1>1
<1> HIDE DEF S
<1>8. Levels \in S
  BY <1>1, <1>5, <1>6, <1>7, LoopInvariant
<1>9. u \div 1 = v \div 1
  BY <1>3, <1>7, <1>8 DEF S
<1>10. u = 1 * (u \div 1) + (u % 1) /\ v = 1 * (v \div 1) + (v % 1)
       /\ u % 1 \in 0..(1 - 1) /\ v % 1 \in 0..(1 - 1)
       /\ u \div 1 \in Nat /\ v \div 1 \in Nat
  BY <1>4
<1> QED
  BY <1>9, <1>10

------------------------------------------------------------------------------
(***************************************************************************)
(* The walk of the processor once the PML4 has its entry for itself.       *)
(***************************************************************************)
TypedTables(tb) == tb \in [DOMAIN tb -> [Index -> Slots]] /\ DOMAIN tb \subseteq Nat

LEMMA PathSteps ==
  ASSUME NEW tb, TypedTables(tb), NEW top \in Nat, NEW vpage \in Nat
  PROVE  /\ PathAt(tb, top, vpage, 0) = Link(top)
         /\ \A l \in 1..Levels :
              PathAt(tb, top, vpage, l)
                = Hop(tb, PathAt(tb, top, vpage, l - 1), TableIndex(vpage, l - 1))
         /\ \A l \in 0..Levels : PathAt(tb, top, vpage, l) \in Slots
<1>1. PICK f \in [0..Levels -> Slots] :
        /\ f[0] = Link(top)
        /\ \A l \in 1..Levels : f[l] = Hop(tb, f[l - 1], TableIndex(vpage, l - 1))
        /\ \A l \in 0..Levels : PathAt(tb, top, vpage, l) = f[l]
  <2>1. tb \in [DOMAIN tb -> [Index -> Slots]]
    BY DEF TypedTables
  <2> QED
    BY <2>1, LookupSteps
<1>2. Levels \in Nat /\ \A l \in 1..Levels : l \in 0..Levels /\ l - 1 \in 0..Levels
  BY KickstartAssumption
<1>3. 0 \in 0..Levels
  BY <1>2
<1> QED
  BY <1>1, <1>2, <1>3

(* An entry that is found was in a table that was found.                     *)
LEMMA PathDown ==
  ASSUME NEW tb, TypedTables(tb), NEW top \in Nat, NEW vpage \in Nat,
         NEW l \in 1..Levels, PathAt(tb, top, vpage, l).present
  PROVE  LET above == PathAt(tb, top, vpage, l - 1)
         IN  /\ above.present /\ above.addr \in DOMAIN tb
             /\ TableIndex(vpage, l - 1) \in Index
             /\ PathAt(tb, top, vpage, l) = tb[above.addr][TableIndex(vpage, l - 1)]
<1>1. PathAt(tb, top, vpage, l)
        = Hop(tb, PathAt(tb, top, vpage, l - 1), TableIndex(vpage, l - 1))
  BY PathSteps
<1>2. l - 1 \in 0..Last
  BY KickstartAssumption DEF Last
<1> QED
  BY <1>1, <1>2, TableIndexRange DEF Hop, ZeroEntry

(* The fractal map shows a table where the code looks for it.                *)
LEMMA TableSeen ==
  ASSUME NEW tb, TypedTables(tb), NEW top \in DOMAIN tb,
         tb[top][FractalIndex] = Entry(top, TRUE, FALSE),
         NEW vpage \in VirtualPages, NEW level \in 0..Last
  PROVE  LET seen  == PathAt(tb, top, FractalPage(vpage, level), Levels)
             table == PathAt(tb, top, vpage, level)
         IN  seen.present = table.present /\ seen.addr = table.addr
<1> DEFINE fp == FractalPage(vpage, level)
           g(j) == PathAt(tb, top, fp, j)
           h(j) == PathAt(tb, top, vpage, j)
           w == Levels - level
           Same(j) == g(w + j).present = h(j).present /\ g(w + j).addr = h(j).addr
           Stays(j) == g(j).present = TRUE /\ g(j).addr = top
<1>1. /\ Levels \in Nat \ {0} /\ Last = Levels - 1 /\ level \in Nat /\ w \in 1..Levels
      /\ w + level = Levels /\ w - 1 = Last - level
  BY KickstartAssumption DEF Last
<1>2. top \in Nat /\ vpage \in Nat
  <2>1. Power(TableEntries, Levels) \in Nat
    BY <1>1, KickstartAssumption, PowerSteps
  <2> QED
    BY <2>1 DEF TypedTables, VirtualPages
<1>3. /\ fp \in Nat
      /\ \A j \in 0..(w - 1) : TableIndex(fp, j) = FractalIndex
      /\ \A k \in 1..level : TableIndex(fp, (w - 1) + k) = TableIndex(vpage, k - 1)
  <2>1. /\ fp \in Nat
        /\ \A j \in 0..(Last - level) : TableIndex(fp, j) = FractalIndex
        /\ \A k \in 1..level :
             TableIndex(fp, (Last - level) + k) = TableIndex(vpage, k - 1)
    BY FractalDigits
  <2>2. w - 1 = Last - level
    BY <1>1
  <2> HIDE DEF fp, w
  <2> QED
    BY <2>1, <2>2
<1>4. /\ g(0) = Link(top)
      /\ \A l \in 1..Levels : g(l) = Hop(tb, g(l - 1), TableIndex(fp, l - 1))
  BY <1>2, <1>3, PathSteps
<1>5. /\ h(0) = Link(top)
      /\ \A l \in 1..Levels : h(l) = Hop(tb, h(l - 1), TableIndex(vpage, l - 1))
  BY <1>2, PathSteps
<1> HIDE DEF g, h, fp
<1>6. \A j \in 0..w : Stays(j)
  <2> DEFINE P == {j \in 0..w : Stays(j)}
  <2>1. 0 \in P
    BY <1>1, <1>4 DEF Link, Entry
  <2>2. ASSUME NEW j \in (0 + 1)..w, j - 1 \in P PROVE j \in P
    <3>1. j \in 1..Levels /\ j - 1 \in 0..(w - 1)
      BY <1>1
    <3>2. g(j) = Hop(tb, g(j - 1), FractalIndex)
      BY <1>3, <1>4, <3>1
    <3>3. g(j) = tb[top][FractalIndex]
      BY <2>2, <3>2 DEF Hop
    <3> QED
      BY <1>1, <3>3 DEF Entry
  <2>3. P \in SUBSET (0..w) /\ 0 \in Nat /\ w \in Nat /\ 0 <= w
    BY <1>1
  <2> HIDE DEF P
  <2>4. \A j \in 0..w : j \in P
    BY <2>1, <2>2, <2>3, LoopInvariant, Zenon
  <2> QED
    BY <2>4 DEF P
<1>7. \A j \in 0..level : Same(j)
  <2> DEFINE P == {j \in 0..level : Same(j)}
  <2>1. 0 \in P
    <3>1. Stays(w) /\ w + 0 = w
      BY <1>1, <1>6
    <3>2. h(0).present = TRUE /\ h(0).addr = top
      BY <1>5 DEF Link, Entry
    <3>3. Same(0)
      BY <3>1, <3>2
    <3> QED
      BY <1>1, <3>3
  <2>2. ASSUME NEW j \in (0 + 1)..level, j - 1 \in P PROVE j \in P
    <3>1. /\ w + j \in 1..Levels /\ (w + j) - 1 = (w - 1) + j /\ j \in 1..level
          /\ (w + j) - 1 = w + (j - 1) /\ j \in 1..Levels
      BY <1>1
    <3>2. g(w + j) = Hop(tb, g(w + (j - 1)), TableIndex(vpage, j - 1))
      BY <1>3, <1>4, <3>1
    <3>3. h(j) = Hop(tb, h(j - 1), TableIndex(vpage, j - 1))
      BY <1>5, <3>1
    <3>4. Same(j - 1)
      BY <2>2
    <3>5. g(w + j) = h(j)
      BY <3>2, <3>3, <3>4 DEF Hop
    <3> QED
      BY <1>1, <3>5
  <2>3. P \in SUBSET (0..level) /\ 0 \in Nat /\ level \in Nat /\ 0 <= level
    BY <1>1
  <2> HIDE DEF P
  <2>4. \A j \in 0..level : j \in P
    BY <2>1, <2>2, <2>3, LoopInvariant, Zenon
  <2> QED
    BY <2>4 DEF P
<1>8. Same(level)
  BY <1>1, <1>7
<1> QED
  BY <1>1, <1>8 DEF g, h, fp

\* Slot n of table p is a link to a table, and not the PML4's to itself.
Linking(tb, top, lev, p, n) ==
  tb[p][n].present /\ lev[p] < Last /\ ~(p = top /\ n = FractalIndex)

\* What is left of Kickstart's tree when the kernel writes its own entries: the
\* tables that are found from the PML4 without its entry for itself.
Skeleton(tb, top, lev) ==
  /\ TypedTables(tb)
  /\ lev \in [DOMAIN tb -> 0..Last]
  /\ top \in DOMAIN tb /\ lev[top] = 0
  /\ tb[top][FractalIndex] = Entry(top, TRUE, FALSE)
  /\ \A p \in DOMAIN tb, n \in Index : Linking(tb, top, lev, p, n) =>
       tb[p][n].addr \in DOMAIN tb /\ lev[tb[p][n].addr] = lev[p] + 1
  /\ \A p, r \in DOMAIN tb, m, n \in Index :
       /\ Linking(tb, top, lev, p, m) /\ Linking(tb, top, lev, r, n)
       /\ tb[p][m].addr = tb[r][n].addr
       => p = r /\ m = n

(* The kernel's first write makes a skeleton of the tree: whatever was linked*)
(* where the PML4's entry for itself is now is not found any more.           *)
LEMMA TreeSkeleton ==
  ASSUME NEW t, NEW tb, NEW da, NEW top, NEW lev, Tree(t, tb, da, top, lev)
  PROVE  Skeleton(Written(tb, top, FractalIndex, Entry(top, TRUE, FALSE)), top, lev)
<1> DEFINE self == Entry(top, TRUE, FALSE)
           tc == Written(tb, top, FractalIndex, self)
<1>1. /\ tb \in [DOMAIN tb -> [Index -> Slots]] /\ DOMAIN tb \subseteq Nat
      /\ lev \in [DOMAIN tb -> 0..Last] /\ top \in DOMAIN tb /\ lev[top] = 0
      /\ \A p \in DOMAIN tb, n \in Index : tb[p][n].present /\ lev[p] < Last =>
           tb[p][n].addr \in DOMAIN tb /\ lev[tb[p][n].addr] = lev[p] + 1
      /\ \A p, q, r \in DOMAIN tb, m, n \in Index :
           LinksTable(tb, lev, p, m, q) /\ LinksTable(tb, lev, r, n, q)
             => p = r /\ m = n
  BY DEF Tree
<1>2. FractalIndex \in Index /\ self \in Slots
  BY <1>1, SampoOSAssumption, KickstartAssumption DEF Index, Slots, Entry
<1> HIDE DEF self
<1>3. DOMAIN tc = DOMAIN tb /\ tc \in [DOMAIN tb -> [Index -> Slots]]
  BY <1>1, <1>2, WriteTyped, Zenon
<1>4. /\ tc[top][FractalIndex] = self
      /\ \A p \in DOMAIN tb, n \in Index :
           ~(p = top /\ n = FractalIndex) => tc[p][n] = tb[p][n]
  BY <1>1, <1>2 DEF Written
<1> HIDE DEF tc
<1>5. \A p \in DOMAIN tb, n \in Index : Linking(tc, top, lev, p, n) =>
        /\ tc[p][n] = tb[p][n] /\ tb[p][n].present /\ lev[p] < Last
        /\ tb[p][n].addr \in DOMAIN tb /\ lev[tb[p][n].addr] = lev[p] + 1
  BY <1>1, <1>4 DEF Linking
<1>6. \A p, r \in DOMAIN tb, m, n \in Index :
        /\ Linking(tc, top, lev, p, m) /\ Linking(tc, top, lev, r, n)
        /\ tc[p][m].addr = tc[r][n].addr
        => p = r /\ m = n
  <2> SUFFICES ASSUME NEW p \in DOMAIN tb, NEW r \in DOMAIN tb,
                      NEW m \in Index, NEW n \in Index,
                      Linking(tc, top, lev, p, m), Linking(tc, top, lev, r, n),
                      tc[p][m].addr = tc[r][n].addr
               PROVE  p = r /\ m = n
    OBVIOUS
  <2> DEFINE q == tb[p][m].addr
  <2>1. q \in DOMAIN tb /\ LinksTable(tb, lev, p, m, q) /\ LinksTable(tb, lev, r, n, q)
    BY <1>5 DEF LinksTable
  <2> HIDE DEF q
  <2> QED
    BY <1>1, <2>1
<1>7. TypedTables(tc) /\ top \in DOMAIN tc /\ lev \in [DOMAIN tc -> 0..Last]
  BY <1>1, <1>3 DEF TypedTables
<1>8. \A p \in DOMAIN tc, n \in Index : Linking(tc, top, lev, p, n) =>
        tc[p][n].addr \in DOMAIN tc /\ lev[tc[p][n].addr] = lev[p] + 1
  BY <1>3, <1>5
<1>9. \A p, r \in DOMAIN tc, m, n \in Index :
        /\ Linking(tc, top, lev, p, m) /\ Linking(tc, top, lev, r, n)
        /\ tc[p][m].addr = tc[r][n].addr
        => p = r /\ m = n
  BY <1>3, <1>6
<1> HIDE DEF self
<1>10. Skeleton(tc, top, lev)
  BY <1>1, <1>4, <1>7, <1>8, <1>9 DEF Skeleton, self
<1> QED
  BY <1>10 DEF tc, self

LEMMA VirtualPagesAreNumbers == VirtualPages \subseteq Nat
<1>1. Power(TableEntries, Levels) \in Nat
  BY KickstartAssumption, PowerSteps
<1> QED
  BY <1>1 DEF VirtualPages

LEMMA LevelsOfPaths == Levels \in Nat /\ Last \in Nat \ {0} /\ Last + 1 = Levels
BY KickstartAssumption DEF Last

(* Outside the fractal map the walk goes down one level with each link.      *)
LEMMA PathLevel ==
  ASSUME NEW tb, NEW top, NEW lev, Skeleton(tb, top, lev),
         NEW vpage \in Nat, ~InFractalMap(vpage)
  PROVE  /\ \A l \in 0..Last :
              LET found == PathAt(tb, top, vpage, l)
              IN  found.present => found.addr \in DOMAIN tb /\ lev[found.addr] = l
         /\ \A l \in 1..Last :
              LET found == PathAt(tb, top, vpage, l)
                  above == PathAt(tb, top, vpage, l - 1)
                  n     == TableIndex(vpage, l - 1)
              IN  found.present =>
                    /\ above.present /\ above.addr \in DOMAIN tb /\ n \in Index
                    /\ Linking(tb, top, lev, above.addr, n)
                    /\ found = tb[above.addr][n]
<1> DEFINE h(l) == PathAt(tb, top, vpage, l)
           n(l) == TableIndex(vpage, l)
           Here(l) == h(l).present => h(l).addr \in DOMAIN tb /\ lev[h(l).addr] = l
           Linked(l) == h(l).present =>
             /\ h(l - 1).present /\ h(l - 1).addr \in DOMAIN tb /\ n(l - 1) \in Index
             /\ Linking(tb, top, lev, h(l - 1).addr, n(l - 1))
             /\ h(l) = tb[h(l - 1).addr][n(l - 1)]
<1>1. /\ TypedTables(tb) /\ lev \in [DOMAIN tb -> 0..Last]
      /\ top \in DOMAIN tb /\ lev[top] = 0 /\ top \in Nat
      /\ \A p \in DOMAIN tb, m \in Index : Linking(tb, top, lev, p, m) =>
           tb[p][m].addr \in DOMAIN tb /\ lev[tb[p][m].addr] = lev[p] + 1
  BY DEF Skeleton, TypedTables
<1>2. Levels \in Nat /\ Last \in Nat \ {0} /\ Last + 1 = Levels
  BY LevelsOfPaths
<1>3. h(0) = Link(top)
  BY <1>1, PathSteps
<1>4. ASSUME NEW l \in 1..Levels, h(l).present
      PROVE  /\ h(l - 1).present /\ h(l - 1).addr \in DOMAIN tb /\ n(l - 1) \in Index
             /\ h(l) = tb[h(l - 1).addr][n(l - 1)]
  BY <1>1, <1>4, PathDown
<1>5. n(0) # FractalIndex
  BY DEF InFractalMap
<1> HIDE DEF h, n
<1>6. ASSUME NEW l \in 1..Last, Here(l - 1) PROVE Linked(l)
  <2> SUFFICES ASSUME h(l).present PROVE Linked(l)
    OBVIOUS
  <2>1. l \in 1..Levels
    BY <1>2
  <2>2. /\ h(l - 1).present /\ h(l - 1).addr \in DOMAIN tb /\ n(l - 1) \in Index
        /\ h(l) = tb[h(l - 1).addr][n(l - 1)]
    BY <1>4, <2>1
  <2>3. lev[h(l - 1).addr] = l - 1
    BY <1>6, <2>2
  <2>4. ~(h(l - 1).addr = top /\ n(l - 1) = FractalIndex)
    <3>1. CASE l - 1 = 0
      BY <1>5, <3>1
    <3>2. CASE l - 1 # 0
      BY <1>1, <2>3, <3>2
    <3> QED
      BY <3>1, <3>2
  <2>5. Linking(tb, top, lev, h(l - 1).addr, n(l - 1))
    BY <1>2, <2>2, <2>3, <2>4 DEF Linking
  <2> QED
    BY <2>2, <2>5
<1>7. \A l \in 0..Last : Here(l)
  <2> DEFINE P == {l \in 0..Last : Here(l)}
  <2>1. 0 \in P
    BY <1>1, <1>2, <1>3 DEF Link, Entry
  <2>2. ASSUME NEW l \in (0 + 1)..Last, l - 1 \in P PROVE l \in P
    <3>1. Here(l - 1) /\ l \in 1..Last
      BY <2>2
    <3>2. Linked(l)
      BY <1>6, <3>1
    <3>3. ASSUME h(l).present PROVE h(l).addr \in DOMAIN tb /\ lev[h(l).addr] = l
      <4>1. lev[h(l - 1).addr] = l - 1
        BY <3>1, <3>2, <3>3
      <4>2. h(l).addr \in DOMAIN tb /\ lev[h(l).addr] = lev[h(l - 1).addr] + 1
        BY <1>1, <3>2, <3>3
      <4> QED
        BY <4>1, <4>2
    <3> QED
      BY <1>2, <3>3
  <2>3. P \in SUBSET (0..Last) /\ 0 \in Nat /\ 0 <= Last
    BY <1>2
  <2> HIDE DEF P
  <2>4. \A l \in 0..Last : l \in P
    BY <1>2, <2>1, <2>2, <2>3, LoopInvariant, Zenon
  <2> QED
    BY <2>4 DEF P
<1>8. \A l \in 1..Last : Linked(l)
  <2> SUFFICES ASSUME NEW l \in 1..Last PROVE Linked(l)
    OBVIOUS
  <2>1. l - 1 \in 0..Last
    BY <1>2
  <2>2. Here(l - 1)
    BY <1>7, <2>1
  <2> QED
    BY <1>6, <2>2
<1> QED
  BY <1>7, <1>8 DEF h, n

(* Pages outside the fractal map with the same table of the last level have  *)
(* all their indices but the last in common: each table is linked once.      *)
LEMMA SameTable ==
  ASSUME NEW tb, NEW top, NEW lev, Skeleton(tb, top, lev),
         NEW u \in Nat, ~InFractalMap(u), NEW v \in Nat, ~InFractalMap(v),
         PathAt(tb, top, u, Last).present, PathAt(tb, top, v, Last).present,
         PathAt(tb, top, u, Last).addr = PathAt(tb, top, v, Last).addr
  PROVE  \A j \in 0..(Last - 1) : TableIndex(u, j) = TableIndex(v, j)
<1> DEFINE g(l) == PathAt(tb, top, u, l)
           h(l) == PathAt(tb, top, v, l)
           m(l) == TableIndex(u, l)
           n(l) == TableIndex(v, l)
           Met(l) == g(l).present /\ h(l).present /\ g(l).addr = h(l).addr
           P == {d \in 0..Last : Met(Last - d) /\ (d # 0 => m(Last - d) = n(Last - d))}
<1>1. Last \in Nat \ {0} /\ Last - 0 = Last
  BY LevelsOfPaths
<1>2. \A p, r \in DOMAIN tb, x, y \in Index :
        /\ Linking(tb, top, lev, p, x) /\ Linking(tb, top, lev, r, y)
        /\ tb[p][x].addr = tb[r][y].addr
        => p = r /\ x = y
  BY DEF Skeleton
<1>3. \A l \in 1..Last : g(l).present =>
        /\ g(l - 1).present /\ g(l - 1).addr \in DOMAIN tb /\ m(l - 1) \in Index
        /\ Linking(tb, top, lev, g(l - 1).addr, m(l - 1))
        /\ g(l) = tb[g(l - 1).addr][m(l - 1)]
  BY PathLevel
<1>4. \A l \in 1..Last : h(l).present =>
        /\ h(l - 1).present /\ h(l - 1).addr \in DOMAIN tb /\ n(l - 1) \in Index
        /\ Linking(tb, top, lev, h(l - 1).addr, n(l - 1))
        /\ h(l) = tb[h(l - 1).addr][n(l - 1)]
  BY PathLevel
<1>5. Met(Last)
  OBVIOUS
<1> HIDE DEF g, h, m, n
<1>6. 0 \in P
  BY <1>1, <1>5
<1>7. ASSUME NEW d \in (0 + 1)..Last, d - 1 \in P PROVE d \in P
  <2> DEFINE l == Last - (d - 1)
  <2>1. l \in 1..Last /\ l - 1 = Last - d
    BY <1>1
  <2>2. Met(l)
    BY <1>7
  <2> HIDE DEF l
  <2>3. g(l - 1).addr = h(l - 1).addr /\ m(l - 1) = n(l - 1)
    BY <1>2, <1>3, <1>4, <2>1, <2>2
  <2>4. Met(l - 1)
    BY <1>3, <1>4, <2>1, <2>2, <2>3
  <2> QED
    BY <1>1, <2>1, <2>3, <2>4
<1>8. P \in SUBSET (0..Last) /\ 0 \in Nat /\ 0 <= Last
  BY <1>1
<1>9. \A d \in 0..Last : d \in P
  <2> HIDE DEF P
  <2> QED
    BY <1>1, <1>6, <1>7, <1>8, LoopInvariant, Zenon
<1> SUFFICES ASSUME NEW j \in 0..(Last - 1) PROVE m(j) = n(j)
  BY DEF m, n
<1>10. Last - j \in 0..Last /\ Last - j # 0 /\ Last - (Last - j) = j
  BY <1>1
<1> QED
  BY <1>9, <1>10

(* Writing an entry of a table of the last level changes the translation of  *)
(* its page and of no other page outside the fractal map.                    *)
LEMMA LeafWrite ==
  ASSUME NEW tb, NEW top, NEW lev, Skeleton(tb, top, lev),
         NEW v \in VirtualPages, ~InFractalMap(v),
         PathAt(tb, top, v, Last).present, NEW entry \in Slots
  PROVE  LET tc == Written(tb, PathAt(tb, top, v, Last).addr, TableIndex(v, Last), entry)
         IN  /\ Skeleton(tc, top, lev) /\ DOMAIN tc = DOMAIN tb
             /\ \A u \in VirtualPages : ~InFractalMap(u) =>
                  /\ PathAt(tc, top, u, Last) = PathAt(tb, top, u, Last)
                  /\ Lookup(tc, top, u) =
                       IF u = v THEN entry ELSE Lookup(tb, top, u)
<1> DEFINE pt == PathAt(tb, top, v, Last).addr
           index == TableIndex(v, Last)
           tc == Written(tb, pt, index, entry)
<1>1. /\ TypedTables(tb) /\ lev \in [DOMAIN tb -> 0..Last]
      /\ top \in DOMAIN tb /\ lev[top] = 0 /\ top \in Nat
      /\ tb[top][FractalIndex] = Entry(top, TRUE, FALSE)
      /\ tb \in [DOMAIN tb -> [Index -> Slots]] /\ DOMAIN tb \subseteq Nat
  BY DEF Skeleton, TypedTables
<1>2. /\ \A p \in DOMAIN tb, n \in Index : Linking(tb, top, lev, p, n) =>
           tb[p][n].addr \in DOMAIN tb /\ lev[tb[p][n].addr] = lev[p] + 1
      /\ \A p, r \in DOMAIN tb, m, n \in Index :
           /\ Linking(tb, top, lev, p, m) /\ Linking(tb, top, lev, r, n)
           /\ tb[p][m].addr = tb[r][n].addr
           => p = r /\ m = n
  BY DEF Skeleton
<1>3. Levels \in Nat /\ Last \in Nat \ {0} /\ Last + 1 = Levels /\ Levels - 1 = Last
      /\ Last \in 0..Last /\ Last \in 0..Levels /\ Levels \in 1..Levels
  BY LevelsOfPaths
<1>4. v \in Nat /\ index \in Index
  BY <1>3, VirtualPagesAreNumbers, TableIndexRange
<1>5. pt \in DOMAIN tb /\ lev[pt] = Last /\ pt # top
  <2>1. pt \in DOMAIN tb /\ lev[pt] = Last
    BY <1>3, <1>4, PathLevel
  <2> QED
    BY <1>1, <1>3, <2>1
<1> HIDE DEF pt, index
<1>6. DOMAIN tc = DOMAIN tb /\ tc \in [DOMAIN tb -> [Index -> Slots]]
  BY <1>1, <1>4, WriteTyped, Zenon
<1>7. /\ tc[pt][index] = entry
      /\ \A p \in DOMAIN tb, n \in Index : ~(p = pt /\ n = index) => tc[p][n] = tb[p][n]
  BY <1>1, <1>4, <1>5 DEF Written
<1> HIDE DEF tc
<1>8. \A p \in DOMAIN tb, n \in Index : lev[p] < Last => tc[p][n] = tb[p][n]
  BY <1>1, <1>3, <1>5, <1>7
<1>9. Skeleton(tc, top, lev)
  <2>1. TypedTables(tc) /\ top \in DOMAIN tc /\ lev \in [DOMAIN tc -> 0..Last]
    BY <1>1, <1>6 DEF TypedTables
  <2>2. \A p \in DOMAIN tb, n \in Index : Linking(tc, top, lev, p, n) =>
          Linking(tb, top, lev, p, n) /\ tc[p][n] = tb[p][n]
    BY <1>8 DEF Linking
  <2>3. FractalIndex \in Index
    BY SampoOSAssumption, KickstartAssumption DEF Index
  <2>4. tc[top][FractalIndex] = Entry(top, TRUE, FALSE)
    BY <1>1, <1>5, <1>7, <2>3
  <2>5. \A p \in DOMAIN tc, n \in Index : Linking(tc, top, lev, p, n) =>
          tc[p][n].addr \in DOMAIN tc /\ lev[tc[p][n].addr] = lev[p] + 1
    BY <1>2, <1>6, <2>2
  <2>6. \A p, r \in DOMAIN tc, m, n \in Index :
          /\ Linking(tc, top, lev, p, m) /\ Linking(tc, top, lev, r, n)
          /\ tc[p][m].addr = tc[r][n].addr
          => p = r /\ m = n
    BY <1>2, <1>6, <2>2
  <2> QED
    BY <1>1, <2>1, <2>4, <2>5, <2>6 DEF Skeleton
<1>10. ASSUME NEW u \in VirtualPages, ~InFractalMap(u)
       PROVE  /\ PathAt(tc, top, u, Last) = PathAt(tb, top, u, Last)
              /\ Lookup(tc, top, u) = IF u = v THEN entry ELSE Lookup(tb, top, u)
  <2> DEFINE g(l) == PathAt(tb, top, u, l)
             h(l) == PathAt(tc, top, u, l)
             n(l) == TableIndex(u, l)
             P == {l \in 0..Last : h(l) = g(l)}
  <2>1. u \in Nat
    BY VirtualPagesAreNumbers
  <2>2. g(0) = Link(top) /\ \A l \in 1..Levels : g(l) = Hop(tb, g(l - 1), n(l - 1))
    BY <1>1, <2>1, PathSteps
  <2>3. h(0) = Link(top) /\ \A l \in 1..Levels : h(l) = Hop(tc, h(l - 1), n(l - 1))
    BY <1>1, <1>9, <2>1, PathSteps DEF Skeleton
  <2>4. \A l \in 0..Last : g(l).present => g(l).addr \in DOMAIN tb /\ lev[g(l).addr] = l
    BY <1>10, <2>1, PathLevel
  <2>5. \A l \in 0..Last : n(l) \in Index
    BY <2>1, TableIndexRange
  <2>6. n(Last) = index /\ g(Last).present /\ g(Last).addr = pt => u = v
    <3> SUFFICES ASSUME n(Last) = index, g(Last).present, g(Last).addr = pt
                 PROVE  u = v
      OBVIOUS
    <3>1. \A j \in 0..(Last - 1) : TableIndex(u, j) = TableIndex(v, j)
      BY <1>4, <1>10, <2>1, SameTable DEF pt
    <3>2. TableIndex(u, Last) = TableIndex(v, Last)
      BY DEF index
    <3>3. \A j \in 0..Last : TableIndex(u, j) = TableIndex(v, j)
      <4> SUFFICES ASSUME NEW j \in 0..Last PROVE TableIndex(u, j) = TableIndex(v, j)
        OBVIOUS
      <4>1. j = Last \/ j \in 0..(Last - 1)
        BY <1>3
      <4> QED
        BY <3>1, <3>2, <4>1
    <3> QED
      BY <3>3, IndicesDetermine
  <2>7. u = v => n(Last) = index /\ g(Last).present /\ g(Last).addr = pt
    BY DEF index, pt
  <2>8. Lookup(tb, top, u) = g(Levels) /\ Lookup(tc, top, u) = h(Levels)
    BY DEF Lookup
  <2> HIDE DEF g, h, n
  <2>9. 0 \in P
    BY <1>3, <2>2, <2>3
  <2>10. ASSUME NEW l \in (0 + 1)..Last, l - 1 \in P PROVE l \in P
    <3>1. l \in 1..Levels /\ l - 1 \in 0..Last /\ l - 1 < Last
      BY <1>3
    <3>2. g(l) = Hop(tb, g(l - 1), n(l - 1)) /\ h(l) = Hop(tc, g(l - 1), n(l - 1))
      BY <2>2, <2>3, <2>10, <3>1
    <3>3. g(l - 1).present => g(l - 1).addr \in DOMAIN tb /\ lev[g(l - 1).addr] = l - 1
      BY <2>4, <3>1
    <3>4. n(l - 1) \in Index
      BY <2>5, <3>1
    <3>5. h(l) = g(l)
      BY <1>6, <1>8, <3>1, <3>2, <3>3, <3>4 DEF Hop
    <3> QED
      BY <3>5
  <2>11. P \in SUBSET (0..Last) /\ 0 \in Nat /\ 0 <= Last
    BY <1>3
  <2>12. \A l \in 0..Last : l \in P
    <3> HIDE DEF P
    <3> QED
      BY <1>3, <2>9, <2>10, <2>11, LoopInvariant, Zenon
  <2>13. h(Last) = g(Last)
    BY <1>3, <2>12
  <2>14. g(Levels) = Hop(tb, g(Last), n(Last)) /\ h(Levels) = Hop(tc, g(Last), n(Last))
    BY <1>3, <2>2, <2>3, <2>13
  <2>15. h(Levels) = IF u = v THEN entry ELSE g(Levels)
    <3>1. CASE u = v
      BY <1>5, <1>6, <1>7, <2>7, <2>14, <3>1 DEF Hop
    <3>2. CASE u # v
      <4>1. g(Last).present => g(Last).addr \in DOMAIN tb /\ n(Last) \in Index
                                /\ ~(g(Last).addr = pt /\ n(Last) = index)
        BY <1>3, <2>4, <2>5, <2>6, <3>2
      <4> QED
        BY <1>6, <1>7, <2>14, <3>2, <4>1 DEF Hop
    <3> QED
      BY <3>1, <3>2
  <2> QED
    BY <2>8, <2>13, <2>15 DEF g, h
<1> QED
  BY <1>6, <1>9, <1>10 DEF tc, pt, index
------------------------------------------------------------------------------
(***************************************************************************)
(* The kernel sees every table in the fractal map, and maps its manager's  *)
(* pages there.                                                            *)
(***************************************************************************)
\* No other page is mapped where the kernel looks for the PML4.  And the pages it
\* is about to map behind itself are in the address space, and not where the
\* fractal map is: the image is linked into the last slot of the PML4, with room
\* behind it.
KernelInPlace ==
  /\ step = "entered" /\ kstep = "off" /\ PmlShown.present =>
       PmlShown.addr = top_page_structure
  /\ kstep = "map" /\ ki <= Kernel!ManagerPages =>
       kernel_end \in VirtualPages /\ ~InFractalMap(kernel_end)

\* How many of the manager's pages are mapped.
Shown ==
  IF kstep = "map" THEN ki - 1 ELSE IF Managing THEN Kernel!ManagerPages ELSE 0

\* The pages before `end' show the first `count' pages of memory from lo on.
MappedBehind(tb, top, end, lo, count) ==
  \A n \in 1..count :
    /\ end - n \in VirtualPages /\ ~InFractalMap(end - n)
    /\ Lookup(tb, top, end - n) = Entry(lo + (count - n) * PageSize, TRUE, FALSE)

KernelMaps ==
  kstep \notin {"off", "fault"} =>
    /\ kstep = "place" => ki = 1
    /\ kstep = "map" => ki - 1 <= Kernel!ManagerPages
    /\ \E lev : Skeleton(tables, top_page_structure, lev)
    /\ MappedBehind(tables, top_page_structure, kernel_end, phys_manager_addr, Shown)

LEMMA TranslateIsLookup ==
  \A v : Translate(v) = Lookup(tables, top_page_structure, v)
BY DEF Translate, EntryAt, Lookup, PathAt

LEMMA EntryIsPath ==
  \A v, l : EntryAt(v, l) = PathAt(tables, top_page_structure, v, l)
BY DEF EntryAt, PathAt

(* Where the kernel looks for the table that maps a page is that table.      *)
LEMMA KernelSeesTable ==
  ASSUME NEW lev, Skeleton(tables, top_page_structure, lev),
         NEW vpage \in VirtualPages, NEW level \in 0..Last
  PROVE  LET seen  == Translate(FractalPage(vpage, level))
             table == EntryAt(vpage, level)
         IN  seen.present = table.present /\ seen.addr = table.addr
<1> DEFINE tb  == tables
           top == top_page_structure
<1>1. TypedTables(tb) /\ top \in DOMAIN tb /\ tb[top][FractalIndex] = Entry(top, TRUE, FALSE)
  BY DEF Skeleton
<1> HIDE DEF tb, top
<1>2. LET seen  == PathAt(tb, top, FractalPage(vpage, level), Levels)
          table == PathAt(tb, top, vpage, level)
      IN  seen.present = table.present /\ seen.addr = table.addr
  BY <1>1, TableSeen
<1>3. /\ Translate(FractalPage(vpage, level)) = PathAt(tb, top, FractalPage(vpage, level), Levels)
      /\ EntryAt(vpage, level) = PathAt(tb, top, vpage, level)
  BY TranslateIsLookup, EntryIsPath, Zenon DEF Lookup, tb, top
<1> QED
  BY <1>2, <1>3

LEMMA StartKernelShows ==
  ASSUME SystemInv, RoomForTables, KernelInPlace, StartKernel
  PROVE  KernelMaps'
<1> DEFINE top  == top_page_structure
           self == Entry(top, TRUE, FALSE)
           tc   == Written(tables, top, FractalIndex, self)
<1>1. step = "entered" /\ BootInv /\ top_page_structure' = top
  BY DEF StartKernel, SystemInv, BootDone
<1>2. PICK lev : Tree(memory_regions, tables, data, top, lev)
  BY <1>1, HandedOver DEF BootInv, PagerBuilt
<1>3. Skeleton(tc, top, lev)
  BY <1>2, TreeSkeleton
<1>4. kstep' = "fault" \/ (kstep' = "count" /\ tables' = tc)
  <2>1. step = "entered" /\ kstep = "off"
    BY DEF StartKernel
  <2> QED
    BY <2>1, StartKernelWrites DEF KernelInPlace
<1> HIDE DEF tc
<1>5. kstep' = "count" => Shown' = 0
  BY DEF Shown, Managing, Kernel!Steps
<1>6. \A tb, end, lo : MappedBehind(tb, top, end, lo, 0)
  BY DEF MappedBehind
<1>7. CASE kstep' = "count" /\ tables' = tc
  BY <1>1, <1>3, <1>5, <1>6, <1>7 DEF KernelMaps
<1> QED
  BY <1>4, <1>7 DEF KernelMaps

(* One more page is shown, and the others as before.                         *)
LEMMA OneMoreBehind ==
  ASSUME NEW tb, NEW tc, NEW top, NEW end \in VirtualPages, ~InFractalMap(end),
         NEW lo \in Nat, NEW count \in Nat, NEW entry,
         entry = Entry(lo + count * PageSize, TRUE, FALSE),
         MappedBehind(tb, top, end, lo, count),
         \A u \in VirtualPages : ~InFractalMap(u) =>
           Lookup(tc, top, u) = IF u = end THEN entry ELSE Lookup(tb, top, u)
  PROVE  MappedBehind(tc, top, end + 1, lo, count + 1)
<1>1. end \in Nat
  BY VirtualPagesAreNumbers
<1> SUFFICES ASSUME NEW n \in 1..(count + 1)
             PROVE  /\ (end + 1) - n \in VirtualPages /\ ~InFractalMap((end + 1) - n)
                    /\ Lookup(tc, top, (end + 1) - n)
                         = Entry(lo + ((count + 1) - n) * PageSize, TRUE, FALSE)
  BY DEF MappedBehind
<1>2. CASE n = 1
  <2>1. (end + 1) - n = end /\ (count + 1) - n = count
    BY <1>1, <1>2
  <2> QED
    BY <2>1
<1>3. CASE n # 1
  <2> DEFINE m == n - 1
  <2>1. m \in 1..count /\ (end + 1) - n = end - m /\ (count + 1) - n = count - m
        /\ end - m # end
    BY <1>1, <1>3
  <2> HIDE DEF m
  <2>2. /\ end - m \in VirtualPages /\ ~InFractalMap(end - m)
        /\ Lookup(tb, top, end - m) = Entry(lo + (count - m) * PageSize, TRUE, FALSE)
    BY <2>1 DEF MappedBehind
  <2>3. Lookup(tc, top, end - m) = Lookup(tb, top, end - m)
    BY <2>1, <2>2
  <2> QED
    BY <2>1, <2>2, <2>3
<1> QED
  BY <1>2, <1>3

LEMMA PteIsSlot ==
  ASSUME SystemInv
  PROVE  Entry(Kernel!Pte, TRUE, FALSE) \in Slots
<1>1. ki \in Nat \ {0} /\ phys_manager_addr \in Nat
  BY DEF SystemInv, KernelTypes
<1>2. Kernel!Pte \in Nat
  BY <1>1, RegionTableAssumption DEF Kernel!Pte
<1> QED
  BY <1>2 DEF Slots, Entry

(* The kernel's write, where it has found a table.                           *)
LEMMA KernelWrites ==
  ASSUME SystemInv, NEW lev, Skeleton(tables, top_page_structure, lev),
         kernel_end \in VirtualPages, ~InFractalMap(kernel_end),
         KernelMapPage, ki <= Kernel!ManagerPages, Outcome = "map"
  PROVE  LET top == top_page_structure
             entry == Entry(Kernel!Pte, TRUE, FALSE)
         IN  /\ PathAt(tables, top, kernel_end, Last).present
             /\ kernel_end' = kernel_end + 1 /\ ki' = ki + 1 /\ kstep' = kstep
             /\ Skeleton(tables', top, lev)
             /\ \A u \in VirtualPages : ~InFractalMap(u) =>
                  /\ PathAt(tables', top, u, Last) = PathAt(tables, top, u, Last)
                  /\ Lookup(tables', top, u) =
                       IF u = kernel_end THEN entry ELSE Lookup(tables, top, u)
<1> DEFINE top   == top_page_structure
           pt    == Translate(FractalPage(kernel_end, Levels - 1))
           index == TableIndex(kernel_end, Levels - 1)
           entry == Entry(Kernel!Pte, TRUE, FALSE)
           table == PathAt(tables, top, kernel_end, Last)
<1>1. ki \in Nat /\ Kernel!ManagerPages \in Nat
  BY ManagerPagesNumber DEF SystemInv, KernelTypes
<1>2. ~(ki > Kernel!ManagerPages)
  BY <1>1
<1>3. pt.present
  BY Outcomes
<1>4. /\ tables' = Written(tables, pt.addr, index, entry)
      /\ kernel_end' = kernel_end + 1 /\ ki' = ki + 1 /\ kstep' = kstep
  BY <1>1, <1>2, MapTurn
<1>5. Last \in 0..Last /\ Levels - 1 = Last
  BY LevelsOfPaths
<1>6. pt.present = table.present /\ pt.addr = table.addr
  BY <1>5, KernelSeesTable, EntryIsPath
<1>7. table.present /\ tables' = Written(tables, table.addr, TableIndex(kernel_end, Last), entry)
  BY <1>3, <1>4, <1>5, <1>6
<1>8. entry \in Slots
  BY PteIsSlot
<1> HIDE DEF entry, top, pt
<1>9. /\ Skeleton(tables', top, lev)
      /\ \A u \in VirtualPages : ~InFractalMap(u) =>
           /\ PathAt(tables', top, u, Last) = PathAt(tables, top, u, Last)
           /\ Lookup(tables', top, u) =
                IF u = kernel_end THEN entry ELSE Lookup(tables, top, u)
  BY <1>7, <1>8, LeafWrite DEF top
<1> QED
  BY <1>4, <1>7, <1>9 DEF top, entry

LEMMA KernelMapPageShows ==
  ASSUME SystemInv, KernelMaps, KernelInPlace, KernelMapPage
  PROVE  KernelMaps'
<1> DEFINE top == top_page_structure
<1>1. /\ kstep = "map" /\ ki \in Nat \ {0} /\ Kernel!ManagerPages \in Nat
      /\ phys_manager_addr \in Nat /\ ki - 1 <= Kernel!ManagerPages /\ Shown = ki - 1
  BY ManagerPagesNumber DEF KernelMapPage, SystemInv, KernelTypes, KernelMaps, Shown
<1>2. /\ MappedBehind(tables, top, kernel_end, phys_manager_addr, ki - 1)
      /\ UNCHANGED <<top_page_structure, phys_manager_addr,
                     combined_region_count, bitmap_bit_count>>
  BY <1>1 DEF KernelMaps, KernelMapPage
<1>3. PICK lev : Skeleton(tables, top, lev)
  BY <1>1 DEF KernelMaps
<1>4. Kernel!ManagerPages' = Kernel!ManagerPages
  BY <1>2 DEF Kernel!ManagerPages, Kernel!BitmapPages, Kernel!PhysmapPages
<1>5. CASE ki > Kernel!ManagerPages
  <2>1. kstep' = "clear" /\ ki' = 1 /\ UNCHANGED <<tables, kernel_end>>
    <3>1. ~(ki <= Kernel!ManagerPages)
      BY <1>1, <1>5
    <3> QED
      BY <1>1, <3>1, MapTurn
  <2>2. Shown' = Kernel!ManagerPages /\ ki - 1 = Kernel!ManagerPages
    BY <1>1, <1>4, <1>5, <2>1 DEF Shown, Managing, Kernel!Steps
  <2> QED
    BY <1>2, <1>3, <2>1, <2>2 DEF KernelMaps
<1>6. CASE ki <= Kernel!ManagerPages /\ Outcome = "map"
  <2>1. kernel_end \in VirtualPages /\ ~InFractalMap(kernel_end)
    BY <1>1, <1>6 DEF KernelInPlace
  <2>2. /\ kernel_end' = kernel_end + 1 /\ ki' = ki + 1 /\ kstep' = kstep
        /\ Skeleton(tables', top, lev)
        /\ \A u \in VirtualPages : ~InFractalMap(u) =>
             Lookup(tables', top, u) =
               IF u = kernel_end THEN Entry(Kernel!Pte, TRUE, FALSE)
               ELSE Lookup(tables, top, u)
    BY <1>3, <1>6, <2>1, KernelWrites
  <2>3. ki - 1 \in Nat /\ (ki - 1) + 1 = ki /\ Kernel!Pte = phys_manager_addr + (ki - 1) * PageSize
    BY <1>1 DEF Kernel!Pte
  <2>4. MappedBehind(tables', top, kernel_end + 1, phys_manager_addr, ki)
    <3> DEFINE c == ki - 1
    <3>1. c \in Nat /\ c + 1 = ki /\ Kernel!Pte = phys_manager_addr + c * PageSize
          /\ MappedBehind(tables, top, kernel_end, phys_manager_addr, c)
      BY <1>2, <2>3
    <3> HIDE DEF c, top
    <3>2. MappedBehind(tables', top, kernel_end + 1, phys_manager_addr, c + 1)
      BY <1>1, <2>1, <2>2, <3>1, OneMoreBehind DEF top
    <3> QED
      BY <3>1, <3>2
  <2>5. Shown' = ki /\ ki' - 1 <= Kernel!ManagerPages'
    BY <1>1, <1>4, <1>6, <2>2 DEF Shown
  <2> QED
    BY <1>1, <1>2, <2>2, <2>4, <2>5 DEF KernelMaps
<1>7. CASE ki <= Kernel!ManagerPages /\ Outcome # "map"
  <2>1. kstep' \in {"fault", "null"} /\ UNCHANGED tables
    <3>1. ki \in Nat /\ ~(ki > Kernel!ManagerPages)
      BY <1>1, <1>7
    <3> QED
      BY <1>1, <1>7, <3>1, MapTurn, Zenon
  <2>2. Shown' = 0
    BY <2>1 DEF Shown, Managing, Kernel!Steps
  <2>3. \A tb, end, lo : MappedBehind(tb, top, end, lo, 0)
    BY DEF MappedBehind
  <2> QED
    BY <1>2, <1>3, <2>1, <2>2, <2>3 DEF KernelMaps
<1> QED
  BY <1>1, <1>5, <1>6, <1>7

(* Every page that is cleared is one of the manager's.                       *)
LEMMA ClearedAreManagers ==
  ASSUME SystemInv, KernelMaps, Managing
  PROVE  \A n \in 1..Kernel!ManagerPages :
           /\ Translate(kernel_end - n)
                = Entry(Kernel!ManagerEnd - n * PageSize, TRUE, FALSE)
           /\ Translate(kernel_end - n).addr \in ManagerPageSet
<1> DEFINE c  == Kernel!ManagerPages
           lo == phys_manager_addr
<1>1. /\ c \in Nat /\ lo \in Nat /\ kstep \notin {"off", "fault", "map"}
      /\ PageSize \in Nat \ {0} /\ Shown = c
  BY ManagerPagesNumber, RegionTableAssumption
  DEF SystemInv, KernelTypes, Managing, Kernel!Steps, Shown
<1>2. MappedBehind(tables, top_page_structure, kernel_end, lo, c)
  BY <1>1 DEF KernelMaps
<1> SUFFICES ASSUME NEW n \in 1..c
             PROVE  /\ Translate(kernel_end - n)
                         = Entry(Kernel!ManagerEnd - n * PageSize, TRUE, FALSE)
                    /\ Translate(kernel_end - n).addr \in ManagerPageSet
  OBVIOUS
<1>3. Translate(kernel_end - n) = Entry(lo + (c - n) * PageSize, TRUE, FALSE)
  BY <1>2, TranslateIsLookup DEF MappedBehind
<1>4. Kernel!ManagerEnd = lo + c * PageSize
  BY DEF Kernel!ManagerEnd
<1> HIDE DEF c, lo
<1> DEFINE m == c - n
<1>5. m \in Nat /\ m + n = c /\ n \in Nat \ {0}
  BY <1>1
<1>6. /\ m * PageSize \in Nat /\ n * PageSize \in Nat \ {0}
      /\ m * PageSize + n * PageSize = c * PageSize
      /\ (m * PageSize) % PageSize = 0
  <2>1. m * PageSize + n * PageSize = (m + n) * PageSize
    BY <1>1, <1>5
  <2>2. \A a \in Nat : (a * PageSize) % PageSize = 0
    <3>1. \A a \in Nat : (PageSize * a + 0) % PageSize = 0 % PageSize
      BY <1>1, AddMultiple
    <3>2. 0 % PageSize = 0
      BY <1>1
    <3>3. \A a \in Nat : PageSize * a + 0 = a * PageSize
      BY <1>1
    <3> QED
      BY <3>1, <3>2, <3>3
  <2>3. m * PageSize \in Nat /\ n * PageSize \in Nat \ {0}
    BY <1>1, <1>5
  <2> QED
    BY <1>5, <2>1, <2>2, <2>3
<1>7. lo + m * PageSize = Kernel!ManagerEnd - n * PageSize
  BY <1>1, <1>4, <1>6
<1>8. lo + m * PageSize \in lo..(Kernel!ManagerEnd - 1)
      /\ (lo + m * PageSize) - lo = m * PageSize
  BY <1>1, <1>4, <1>6
<1>9. lo + m * PageSize \in ManagerPageSet
  BY <1>6, <1>8 DEF ManagerPageSet, Kernel!PagesOf, lo
<1> DEFINE a == lo + m * PageSize
<1>10. Translate(kernel_end - n) = Entry(a, TRUE, FALSE)
  BY <1>3
<1>11. a = Kernel!ManagerEnd - n * PageSize /\ a \in ManagerPageSet
  BY <1>7, <1>9
<1> HIDE DEF a, m
<1>12. Translate(kernel_end - n).addr = a
  BY <1>10 DEF Entry
<1> QED
  BY <1>10, <1>11, <1>12

LEMMA KernelClearPagesShows ==
  ASSUME SystemInv, MemoryOwned, KernelMaps, KernelClearPages
  PROVE  KernelMaps' /\ UNCHANGED tables
<1> DEFINE pages == {Translate(kernel_end - n).addr : n \in 1..Kernel!ManagerPages}
<1>1. /\ kstep = "clear" /\ kstep' = "populate" /\ Managing /\ Managing'
      /\ UNCHANGED <<top_page_structure, phys_manager_addr, kernel_end, ki,
                     combined_region_count, bitmap_bit_count>>
      /\ tables' = Drop(tables, pages)
  BY DEF KernelClearPages, Kernel!ClearPages, Managing, Kernel!Steps
<1>2. pages \subseteq ManagerPageSet
  BY <1>1, ClearedAreManagers
<1>3. pages \cap DOMAIN tables = {}
  BY <1>1, <1>2, ManagerTakesNothing DEF ManagerUnshared, BootPages
<1>4. tables' = tables
  <2>1. tables \in [DOMAIN tables -> [Index -> Slots]]
    BY <1>1 DEF MemoryOwned
  <2> HIDE DEF pages
  <2>2. DOMAIN tables \ pages = DOMAIN tables
    BY <1>3
  <2> QED
    BY <1>1, <2>1, <2>2 DEF Drop
<1>5. Shown' = Shown
  BY <1>1 DEF Shown, Kernel!ManagerPages, Kernel!BitmapPages, Kernel!PhysmapPages
<1> QED
  BY <1>1, <1>4, <1>5 DEF KernelMaps

LEMMA KernelWalkShows ==
  ASSUME SystemInv, KernelMaps, KernelWalk
  PROVE  KernelMaps'
<1> DEFINE top == top_page_structure
<1>1. UNCHANGED <<tables, top_page_structure>>
  BY DEF KernelWalk, vars
<1>2. \A tb, end, lo : MappedBehind(tb, top, end, lo, 0)
  BY DEF MappedBehind
<1>3. CASE Kernel!CountRegion
  <2>1. kstep = "count" /\ (kstep' = "count" \/ (kstep' = "place" /\ ki' = 1))
    BY <1>3 DEF Kernel!CountRegion
  <2>2. Shown' = 0
    BY <2>1 DEF Shown, Managing, Kernel!Steps
  <2> QED
    BY <1>1, <1>2, <2>1, <2>2 DEF KernelMaps
<1>4. CASE Kernel!PlaceManager
  <2>1. /\ kstep = "place" /\ ki = 1 /\ ki' = 1 /\ kstep' \in {"map", "no_room"}
        /\ UNCHANGED <<combined_region_count, bitmap_bit_count>>
    BY <1>4 DEF Kernel!PlaceManager, KernelMaps
  <2>2. Kernel!ManagerPages' \in Nat
    BY <2>1, ManagerPagesNumber DEF SystemInv, KernelTypes,
       Kernel!ManagerPages, Kernel!BitmapPages, Kernel!PhysmapPages
  <2>3. Shown' = 0
    BY <2>1 DEF Shown, Managing, Kernel!Steps
  <2> QED
    BY <1>1, <1>2, <2>1, <2>2, <2>3 DEF KernelMaps
<1>5. CASE Kernel!PopulateEntry \/ Kernel!MarkAllocated \/ Kernel!MarkManager
             \/ Kernel!Hang
  <2>1. UNCHANGED <<phys_manager_addr, kernel_end, combined_region_count,
                    bitmap_bit_count>>
    BY <1>5 DEF Kernel!PopulateEntry, Kernel!MarkAllocated, Kernel!MarkManager,
       Kernel!Hang, Kernel!vars
  <2>2. /\ kstep \notin {"off", "map", "place"} /\ kstep' \notin {"off", "map", "place"}
        /\ Managing' = Managing /\ (kstep' = "fault" <=> kstep = "fault")
    BY <1>5 DEF Kernel!PopulateEntry, Kernel!MarkAllocated, Kernel!MarkManager,
       Kernel!Hang, Kernel!Ends, Kernel!vars, Managing, Kernel!Steps
  <2>3. Shown' = Shown
    BY <2>1, <2>2 DEF Shown, Kernel!ManagerPages, Kernel!BitmapPages, Kernel!PhysmapPages
  <2> QED
    BY <1>1, <2>1, <2>2, <2>3 DEF KernelMaps
<1> QED
  BY <1>3, <1>4, <1>5 DEF KernelWalk

LEMMA SystemStepShows ==
  ASSUME SystemInv, MemoryOwned, RoomForTables, KernelInPlace, KernelMaps,
         [SystemNext]_system_vars
  PROVE  KernelMaps'
<1>1. CASE UNCHANGED system_vars
  <2>1. UNCHANGED <<kstep, ki, tables, top_page_structure, kernel_end,
                    phys_manager_addr, combined_region_count, bitmap_bit_count>>
    BY <1>1 DEF system_vars, kernel_vars, vars
  <2>2. Shown' = Shown /\ Kernel!ManagerPages' = Kernel!ManagerPages
    BY <2>1 DEF Shown, Managing, Kernel!ManagerPages, Kernel!BitmapPages,
       Kernel!PhysmapPages
  <2> QED
    BY <2>1, <2>2 DEF KernelMaps
<1>2. CASE Boot
  <2>1. kstep' = "off"
    BY <1>2 DEF Boot, kernel_vars, SystemInv, BootDone, Handed
  <2> QED
    BY <2>1 DEF KernelMaps
<1>3. CASE StartKernel
  BY <1>3, StartKernelShows
<1>4. CASE KernelMapPage
  BY <1>4, KernelMapPageShows
<1>5. CASE KernelClearPages
  BY <1>5, KernelClearPagesShows
<1>6. CASE KernelWalk
  BY <1>6, KernelWalkShows
<1> QED
  BY <1>1, <1>2, <1>3, <1>4, <1>5, <1>6 DEF SystemNext

(* What the kernel finds of Kickstart's tree, and the pages it adds to it, are *)
(* in place at each of its steps (memory-manager.c:26-62, 79-84, 389-461).     *)
THEOREM KernelMapsRight ==
  SystemSpec /\ []RoomForTables /\ []KernelInPlace => []KernelMaps
<1>1. SystemInit => KernelMaps
  BY DEF SystemInit, KernelMaps
<1>2. /\ SystemInv /\ MemoryOwned /\ RoomForTables /\ KernelInPlace /\ KernelMaps
      /\ [SystemNext]_system_vars
      => KernelMaps'
  BY SystemStepShows
<1> QED
  BY <1>1, <1>2, SystemInvariance, MemoryStaysOwned, PTL DEF SystemSpec

(* At the page the code computes for it, the fractal map shows each table on   *)
(* the way to any virtual page, whatever the number of levels and of entries,  *)
(* and nothing where there is no table (memory-manager.c:26-62).               *)
THEOREM FractalMapShowsTables ==
  SystemSpec /\ []RoomForTables /\ []KernelInPlace => []TablesVisible
<1>1. KernelMaps => TablesVisible
  <2> SUFFICES ASSUME KernelMaps, kstep \notin {"off", "fault"},
                      NEW vpage \in VirtualPages, NEW level \in 0..(Levels - 1)
               PROVE  LET seen  == Translate(FractalPage(vpage, level))
                          table == EntryAt(vpage, level)
                      IN  seen.present = table.present /\ seen.addr = table.addr
    BY DEF TablesVisible
  <2>1. PICK lev : Skeleton(tables, top_page_structure, lev)
    BY DEF KernelMaps
  <2>2. level \in 0..Last
    BY DEF Last
  <2> QED
    BY <2>1, <2>2, KernelSeesTable
<1> QED
  BY <1>1, KernelMapsRight, PTL

(* Once its pages are mapped the manager has them behind the kernel, in order  *)
(* and to itself: they lie over no page table and no segment, and not over     *)
(* Kickstart, the boot information or the kernel's file                        *)
(* (memory-manager.c:176-195, 205, 398-461).                                   *)
THEOREM ManagerHasItsPages ==
  SystemSpec /\ []RoomForTables /\ []KernelInPlace => []ManagerApart
<1>1. SystemInv /\ MemoryOwned /\ KernelMaps => ManagerApart
  BY ClearedAreManagers, ManagerTakesNothing DEF ManagerApart, ManagerShown
<1> QED
  BY <1>1, KernelMapsRight, SystemInvariance, MemoryStaysOwned, PTL

------------------------------------------------------------------------------
(***************************************************************************)
(* What the kernel does to the tables is what its memory manager does to   *)
(* the mappings.                                                           *)
(***************************************************************************)
LEMMA SystemStepUses ==
  ASSUME SystemInv, Used(tables), [SystemNext]_system_vars
  PROVE  Used(tables')
<1>1. CASE UNCHANGED tables
  BY <1>1
<1>2. CASE Boot
  <2>1. BootInv /\ [Next]_vars
    BY <1>2 DEF Boot, SystemInv, BootDone, Handed
  <2> QED
    BY <2>1, StepUses
<1>3. CASE StartKernel
  <2> DEFINE top  == top_page_structure
             self == Entry(top, TRUE, FALSE)
  <2>1. tables' = tables \/ tables' = Written(tables, PmlShown.addr, FractalIndex, self)
    BY <1>3, StartKernelWrites
  <2>2. FractalIndex \in Index /\ self.present
    BY SampoOSAssumption, KickstartAssumption DEF Index, Entry
  <2> HIDE DEF top, self
  <2> QED
    BY <2>1, <2>2, WrittenUsed, UsedIsUsedBut
<1>4. CASE KernelMapPage
  <2> DEFINE pt    == Translate(FractalPage(kernel_end, Levels - 1))
             n     == TableIndex(kernel_end, Levels - 1)
             entry == Entry(Kernel!Pte, TRUE, FALSE)
  <2>1. tables' = tables \/ tables' = Written(tables, pt.addr, n, entry)
    <3>1. ki \in Nat /\ Kernel!ManagerPages \in Nat
      BY ManagerPagesNumber DEF SystemInv, KernelTypes
    <3> QED
      BY <1>4, <3>1, MapTurn
  <2>2. kernel_end \in Nat /\ Levels - 1 \in 0..Last
    BY LevelsOfPaths DEF SystemInv, KernelTypes
  <2>3. n \in Index /\ entry.present
    BY <2>2, TableIndexRange DEF Entry
  <2> HIDE DEF pt, n, entry
  <2> QED
    BY <2>1, <2>3, WrittenUsed, UsedIsUsedBut
<1>5. CASE KernelClearPages
  <2> DEFINE pages == {Translate(kernel_end - n).addr : n \in 1..Kernel!ManagerPages}
  <2>1. tables' = Drop(tables, pages)
    BY <1>5 DEF KernelClearPages
  <2> HIDE DEF pages
  <2> QED
    BY <2>1, DroppedUsed
<1> QED
  BY <1>1, <1>2, <1>3, <1>4, <1>5 DEF SystemNext, KernelWalk, vars, system_vars

(* Pages with the same quotient have the same table of the last level.       *)
LEMMA SameQuotient ==
  ASSUME NEW tb, TypedTables(tb), NEW top \in Nat, NEW u \in Nat, NEW v \in Nat,
         u \div TableEntries = v \div TableEntries
  PROVE  /\ TableIndex(u, 0) = TableIndex(v, 0)
         /\ PathAt(tb, top, u, Last) = PathAt(tb, top, v, Last)
<1> DEFINE T == TableEntries
           g(l) == PathAt(tb, top, u, l)
           h(l) == PathAt(tb, top, v, l)
           P == {l \in 0..Last : g(l) = h(l)}
<1>1. Levels \in Nat /\ Last \in Nat \ {0} /\ Last + 1 = Levels /\ T \in Nat \ {0}
  BY LevelsOfPaths, KickstartAssumption
<1>2. ASSUME NEW j \in 0..(Last - 1) PROVE TableIndex(u, j) = TableIndex(v, j)
  <2> DEFINE k == Last - j - 1
             d == Power(T, k)
  <2>1. k \in Nat /\ Levels - 1 - j = k + 1
    BY <1>1
  <2> HIDE DEF k
  <2>2. d \in Nat \ {0} /\ Power(T, k + 1) = T * d
    BY <1>1, <2>1, PowerSteps
  <2> HIDE DEF d
  <2>3. u \div (T * d) = (u \div T) \div d /\ v \div (T * d) = (v \div T) \div d
    BY <1>1, <2>2, DivideTwice
  <2> QED
    BY <2>1, <2>2, <2>3 DEF TableIndex
<1>3. /\ g(0) = h(0)
      /\ \A l \in 1..Levels : /\ g(l) = Hop(tb, g(l - 1), TableIndex(u, l - 1))
                              /\ h(l) = Hop(tb, h(l - 1), TableIndex(v, l - 1))
  BY PathSteps
<1> HIDE DEF g, h
<1>4. 0 \in P
  BY <1>1, <1>3
<1>5. ASSUME NEW l \in (0 + 1)..Last, l - 1 \in P PROVE l \in P
  <2>1. l \in 1..Levels /\ l - 1 \in 0..(Last - 1)
    BY <1>1
  <2> QED
    BY <1>2, <1>3, <1>5, <2>1
<1>6. P \in SUBSET (0..Last) /\ 0 \in Nat /\ 0 <= Last
  BY <1>1
<1>7. g(Last) = h(Last)
  <2> HIDE DEF P
  <2>1. \A l \in 0..Last : l \in P
    BY <1>1, <1>4, <1>5, <1>6, LoopInvariant, Zenon
  <2>2. Last \in P
    BY <1>1, <2>1
  <2> QED
    BY <2>2 DEF P
<1>8. TableIndex(u, 0) = TableIndex(v, 0)
  BY <1>1, <1>2
<1> QED
  BY <1>7, <1>8 DEF g, h

(* The page whose entry is in slot n of the table that maps v.               *)
LEMMA PageOfSlot ==
  ASSUME NEW v \in VirtualPages, NEW n \in Index
  PROVE  LET u == TableEntries * (v \div TableEntries) + n
         IN  /\ u \in VirtualPages /\ u \div TableEntries = v \div TableEntries
             /\ TableIndex(u, Last) = n
<1> DEFINE T == TableEntries
           q == v \div T
           u == T * q + n
           d == Power(T, Last)
<1>1. Levels \in Nat /\ Last \in Nat \ {0} /\ Last + 1 = Levels /\ T \in Nat \ {0}
      /\ Levels - 1 - Last = 0
  BY LevelsOfPaths, KickstartAssumption
<1>2. d \in Nat \ {0} /\ Power(T, Levels) = T * d /\ Power(T, 0) = 1
  BY <1>1, PowerSteps
<1>3. v \in Nat /\ v < T * d /\ n \in 0..(T - 1)
  BY <1>1, <1>2 DEF VirtualPages, Index
<1>4. q \in Nat /\ q < d
  BY <1>1, <1>2, <1>3, QuotientBelow
<1> HIDE DEF q, d
<1>5. u \in Nat /\ u \div T = q + (n \div T) /\ u % T = n % T
  <2>1. n \in Nat /\ q \in Nat /\ T * q \in Nat
    BY <1>1, <1>3, <1>4
  <2>2. (T * q + n) \div T = q + (n \div T) /\ (T * q + n) % T = n % T
    BY <1>1, <2>1, AddMultiple
  <2> QED
    BY <2>1, <2>2
<1>6. n \div T = 0 /\ n % T = n
  BY <1>1, <1>3
<1>7. u < T * d
  <2>1. q + 1 <= d
    BY <1>2, <1>4
  <2>2. T * (q + 1) <= T * d
    BY <1>1, <1>2, <1>4, <2>1
  <2>3. T * (q + 1) = T * q + T
    BY <1>1, <1>4
  <2> QED
    BY <1>1, <1>2, <1>3, <1>4, <2>2, <2>3
<1>8. u \in VirtualPages
  BY <1>1, <1>2, <1>5, <1>7 DEF VirtualPages
<1>9. TableIndex(u, Last) = n
  <2>1. TableIndex(u, Last) = (u \div 1) % T
    BY <1>1, <1>2 DEF TableIndex
  <2> HIDE DEF u
  <2>2. u \div 1 = u
    BY <1>5
  <2> QED
    BY <1>5, <1>6, <2>1, <2>2
<1> QED
  BY <1>4, <1>5, <1>6, <1>8, <1>9 DEF q

\* KernelPtes for given tables.
PtesOf(tb, top) ==
  LET present == {v \in VirtualPages : ~InFractalMap(v) /\ Lookup(tb, top, v).present}
  IN  [v \in present |-> Lookup(tb, top, v).addr]

LEMMA KernelPtesAre ==
  /\ KernelPtes = PtesOf(tables, top_page_structure)
  /\ KernelPtes' = PtesOf(tables', top_page_structure')
<1>1. \A v : Translate(v) = Lookup(tables, top_page_structure, v)
  BY TranslateIsLookup
<1>2. \A v : Translate(v)' = Lookup(tables', top_page_structure', v)
  BY DEF Translate, EntryAt, Lookup, PathAt
<1>3. KernelPtes = PtesOf(tables, top_page_structure)
  BY <1>1 DEF KernelPtes, PtesOf
<1>4. KernelPtes' = PtesOf(tables', top_page_structure')
  BY <1>2 DEF KernelPtes, PtesOf
<1> QED
  BY <1>3, <1>4

(* A page's table is found where another page it maps is present.            *)
LEMMA TablePresentMeans ==
  ASSUME NEW tb, NEW top, NEW lev, Skeleton(tb, top, lev), Used(tb),
         NEW v \in VirtualPages, ~InFractalMap(v)
  PROVE  (\E u \in DOMAIN PtesOf(tb, top) :
            u \div TableEntries = v \div TableEntries)
           <=> PathAt(tb, top, v, Last).present
<1> DEFINE T == TableEntries
           table(x) == PathAt(tb, top, x, Last)
           D == DOMAIN PtesOf(tb, top)
<1>1. TypedTables(tb) /\ top \in DOMAIN tb /\ top \in Nat
  BY DEF Skeleton, TypedTables
<1>2. D = {u \in VirtualPages : ~InFractalMap(u) /\ Lookup(tb, top, u).present}
  BY DEF PtesOf
<1>3. Levels \in 1..Levels /\ Levels - 1 = Last /\ Last \in 0..Last
  BY LevelsOfPaths
<1>4. \A u \in VirtualPages : u \in Nat
  BY VirtualPagesAreNumbers
<1>5. \A u \in VirtualPages :
        Lookup(tb, top, u) = Hop(tb, table(u), TableIndex(u, Last))
  BY <1>1, <1>3, <1>4, PathSteps DEF Lookup
<1>6. \A u \in VirtualPages : u \div T = v \div T =>
        TableIndex(u, 0) = TableIndex(v, 0) /\ table(u) = table(v)
  BY <1>1, <1>4, SameQuotient
<1>7. table(v).present => table(v).addr \in DOMAIN tb
  BY <1>3, <1>4, PathLevel
<1> HIDE DEF table
<1>8. ASSUME NEW u \in D, u \div T = v \div T PROVE table(v).present
  BY <1>2, <1>5, <1>6, <1>8 DEF Hop, ZeroEntry
<1>9. ASSUME table(v).present PROVE \E u \in D : u \div T = v \div T
  <2>1. PICK n \in Index : tb[table(v).addr][n].present
    BY <1>7, <1>9 DEF Used
  <2> DEFINE u == T * (v \div T) + n
  <2>2. u \in VirtualPages /\ u \div T = v \div T /\ TableIndex(u, Last) = n
    BY PageOfSlot
  <2> HIDE DEF u
  <2>3. Lookup(tb, top, u).present
    BY <1>5, <1>6, <1>7, <1>9, <2>1, <2>2 DEF Hop
  <2>4. ~InFractalMap(u)
    BY <1>6, <2>2 DEF InFractalMap
  <2> QED
    BY <1>2, <2>2, <2>3, <2>4
<1> QED
  BY <1>8, <1>9 DEF table

\* One more page is mapped, or one is mapped elsewhere.
MappedTo(ptes, v, a) ==
  [u \in DOMAIN ptes \cup {v} |-> IF u = v THEN a ELSE ptes[u]]

LEMMA PtesWritten ==
  ASSUME NEW tb, NEW tc, NEW top, NEW v \in VirtualPages, ~InFractalMap(v),
         NEW entry, entry.present,
         \A u \in VirtualPages : ~InFractalMap(u) =>
           Lookup(tc, top, u) = IF u = v THEN entry ELSE Lookup(tb, top, u)
  PROVE  PtesOf(tc, top) = MappedTo(PtesOf(tb, top), v, entry.addr)
<1> DEFINE D(x) == {u \in VirtualPages : ~InFractalMap(u) /\ Lookup(x, top, u).present}
<1>1. \A x : PtesOf(x, top) = [u \in D(x) |-> Lookup(x, top, u).addr]
  BY DEF PtesOf
<1>2. D(tc) = D(tb) \cup {v}
  OBVIOUS
<1>3. \A u \in D(tc) : Lookup(tc, top, u).addr
                         = IF u = v THEN entry.addr ELSE Lookup(tb, top, u).addr
  OBVIOUS
<1>4. \A u \in D(tc) : u # v => u \in D(tb)
  BY <1>2
<1> HIDE DEF D
<1>5. PtesOf(tc, top) = [u \in D(tb) \cup {v} |-> Lookup(tc, top, u).addr]
  BY <1>1, <1>2
<1>6. DOMAIN PtesOf(tb, top) = D(tb)
      /\ \A u \in D(tb) : PtesOf(tb, top)[u] = Lookup(tb, top, u).addr
  BY <1>1
<1>7. \A u \in D(tb) \cup {v} :
        Lookup(tc, top, u).addr = IF u = v THEN entry.addr ELSE PtesOf(tb, top)[u]
  BY <1>2, <1>3, <1>4, <1>6
<1> QED
  BY <1>5, <1>6, <1>7 DEF MappedTo

(* What the kernel reads in a table that is there is the next step of the walk. *)
LEMMA SeenIsNext ==
  ASSUME NEW lev, Skeleton(tables, top_page_structure, lev),
         NEW v \in VirtualPages, ~InFractalMap(v), NEW level \in 0..Last
  PROVE  LET table == PathAt(tables, top_page_structure, v, level)
         IN  /\ Translate(FractalPage(v, level)).present = table.present
             /\ table.present =>
                  SeenEntry(v, level)
                    = PathAt(tables, top_page_structure, v, level + 1)
<1> DEFINE top   == top_page_structure
           table == PathAt(tables, top, v, level)
           page  == Translate(FractalPage(v, level))
<1>1. page.present = table.present /\ page.addr = table.addr
  BY KernelSeesTable, EntryIsPath
<1>2. TypedTables(tables) /\ top \in Nat /\ v \in Nat
  BY VirtualPagesAreNumbers DEF Skeleton, TypedTables
<1>3. level + 1 \in 1..Levels /\ (level + 1) - 1 = level
  BY LevelsOfPaths
<1>4. PathAt(tables, top, v, level + 1) = Hop(tables, table, TableIndex(v, level))
  BY <1>2, <1>3, PathSteps
<1>5. table.present => table.addr \in DOMAIN tables
  BY <1>2, PathLevel
<1>6. SeenEntry(v, level) = IF page.addr \notin DOMAIN tables THEN ZeroEntry
                            ELSE tables[page.addr][TableIndex(v, level)]
  BY DEF SeenEntry
<1> HIDE DEF table, page, top
<1>7. table.present =>
        SeenEntry(v, level) = PathAt(tables, top, v, level + 1)
  BY <1>1, <1>4, <1>5, <1>6 DEF Hop
<1> QED
  BY <1>1, <1>7 DEF table, page, top

(* Without an entry in the top table there is no page table.                 *)
LEMMA NothingBelow ==
  ASSUME NEW tb, TypedTables(tb), NEW top \in Nat, NEW v \in Nat,
         ~PathAt(tb, top, v, 1).present
  PROVE  ~PathAt(tb, top, v, Last).present
<1> DEFINE P == {l \in 1..Last : ~PathAt(tb, top, v, l).present}
<1>1. Last \in Nat \ {0} /\ Last + 1 = Levels /\ Levels \in Nat
  BY LevelsOfPaths
<1>2. 1 \in P /\ P \in SUBSET (1..Last) /\ 1 \in Nat /\ 1 <= Last
  BY <1>1
<1>3. ASSUME NEW l \in (1 + 1)..Last, l - 1 \in P PROVE l \in P
  <2>1. l \in 1..Levels /\ l \in 1..Last
    BY <1>1
  <2> QED
    BY <1>3, <2>1, PathDown
<1>4. Last \in P
  <2> HIDE DEF P
  <2>1. \A l \in 1..Last : l \in P
    BY <1>1, <1>2, <1>3, LoopInvariant, Zenon
  <2> QED
    BY <1>1, <2>1
<1> QED
  BY <1>4

(* The outcome, told by the walk to the page behind the kernel.              *)
LEMMA OutcomeMeans ==
  ASSUME NEW lev, Skeleton(tables, top_page_structure, lev),
         kernel_end \in VirtualPages, ~InFractalMap(kernel_end)
  PROVE  LET table == PathAt(tables, top_page_structure, kernel_end, Last)
             page  == Lookup(tables, top_page_structure, kernel_end)
         IN  \/ Outcome \in {"fault", "null"} /\ ~table.present
             \/ Outcome = "null" /\ table.present /\ page.present
             \/ Outcome = "map" /\ table.present /\ ~page.present
<1> DEFINE top   == top_page_structure
           table == PathAt(tables, top, kernel_end, Last)
           page  == Lookup(tables, top, kernel_end)
           first == PathAt(tables, top, kernel_end, 1)
<1>1. TypedTables(tables) /\ top \in Nat /\ kernel_end \in Nat
  BY VirtualPagesAreNumbers DEF Skeleton, TypedTables
<1>2. /\ 0 \in 0..Last /\ 0 + 1 = 1 /\ Last \in 0..Last
      /\ Last + 1 = Levels /\ Levels - 1 = Last
  BY LevelsOfPaths
<1>3. PathAt(tables, top, kernel_end, 0).present
  BY <1>1, PathSteps DEF Link, Entry
<1>4. /\ Translate(FractalPage(kernel_end, 0)).present
      /\ SeenEntry(kernel_end, 0) = first
  BY <1>2, <1>3, SeenIsNext
<1>5. /\ Translate(FractalPage(kernel_end, Levels - 1)).present = table.present
      /\ table.present => SeenEntry(kernel_end, Levels - 1) = page
  BY <1>2, SeenIsNext DEF Lookup
<1>6. ~first.present => ~table.present
  BY <1>1, NothingBelow
<1> HIDE DEF table, page, first, top
<1>7. \/ Outcome \in {"fault", "null"} /\ ~table.present
      \/ Outcome = "null" /\ table.present /\ page.present
      \/ Outcome = "map" /\ table.present /\ ~page.present
  BY <1>4, <1>5, <1>6, Outcomes
<1> QED
  BY <1>7 DEF table, page, top

LEMMA KernelMapPageImplements ==
  ASSUME SystemInv, KernelMaps, KernelInPlace, Used(tables), KernelMapPage
  PROVE  Kernel!MapPage
<1> DEFINE top   == top_page_structure
           pages == Kernel!ManagerPages
<1>1. kstep = "map" /\ ki \in Nat /\ pages \in Nat
  BY ManagerPagesNumber DEF KernelMapPage, SystemInv, KernelTypes
<1>2. UNCHANGED <<memory_regions, combined_region_count, bitmap_bit_count,
                  phys_manager_addr, physmap, bitmap_addr, busy, top_page_structure>>
  BY DEF KernelMapPage
<1>3. PICK lev : Skeleton(tables, top, lev)
  BY <1>1 DEF KernelMaps
<1>4. UNCHANGED tables => UNCHANGED KernelPtes
  BY <1>2, KernelPtesAre
<1>5. CASE ki > pages
  <2>1. ~(ki <= pages)
    BY <1>1, <1>5
  <2>2. kstep' = "clear" /\ ki' = 1 /\ UNCHANGED <<tables, kernel_end>>
    BY <1>5, <2>1, Zenon DEF KernelMapPage
  <2> QED
    BY <1>1, <1>2, <1>4, <1>5, <2>2 DEF Kernel!MapPage
<1>6. CASE ki <= pages
  <2> DEFINE table == PathAt(tables, top, kernel_end, Last)
             page  == Lookup(tables, top, kernel_end)
  <2>1. ~(ki > pages)
    BY <1>1, <1>6
  <2>2. kernel_end \in VirtualPages /\ ~InFractalMap(kernel_end)
    BY <1>1, <1>6 DEF KernelInPlace
  <2>3. /\ Kernel!TablePresent(kernel_end) <=> table.present
        /\ kernel_end \in DOMAIN KernelPtes <=> page.present
    <3>1. Kernel!TablePresent(kernel_end) <=> table.present
      BY <1>3, <2>2, TablePresentMeans, KernelPtesAre DEF Kernel!TablePresent
    <3>2. DOMAIN KernelPtes
            = {u \in VirtualPages : ~InFractalMap(u) /\ Lookup(tables, top, u).present}
      BY KernelPtesAre DEF PtesOf
    <3> QED
      BY <2>2, <3>1, <3>2
  <2>4. \/ Outcome \in {"fault", "null"} /\ ~table.present
        \/ Outcome = "null" /\ table.present /\ page.present
        \/ Outcome = "map" /\ table.present /\ ~page.present
    BY <1>3, <2>2, OutcomeMeans
  <2> HIDE DEF table, page
  <2>5. CASE Outcome = "map"
    <3>1. Kernel!TablePresent(kernel_end) /\ kernel_end \notin DOMAIN KernelPtes
      BY <2>3, <2>4, <2>5
    <3>2. LET entry == Entry(Kernel!Pte, TRUE, FALSE)
          IN  /\ kernel_end' = kernel_end + 1 /\ ki' = ki + 1 /\ kstep' = kstep
              /\ \A u \in VirtualPages : ~InFractalMap(u) =>
                   Lookup(tables', top, u) =
                     IF u = kernel_end THEN entry ELSE Lookup(tables, top, u)
      BY <1>3, <1>6, <2>2, <2>5, KernelWrites
    <3>3. KernelPtes' = [v \in DOMAIN KernelPtes \cup {kernel_end} |->
                           IF v = kernel_end THEN Kernel!Pte ELSE KernelPtes[v]]
      <4> DEFINE entry == Entry(Kernel!Pte, TRUE, FALSE)
      <4>1. entry.present /\ entry.addr = Kernel!Pte
        BY DEF Entry
      <4>2. \A u \in VirtualPages : ~InFractalMap(u) =>
              Lookup(tables', top, u) =
                IF u = kernel_end THEN entry ELSE Lookup(tables, top, u)
        BY <3>2
      <4> DEFINE tb == tables
                 tc == tables'
                 end == kernel_end
      <4> HIDE DEF entry, top, tb, tc, end
      <4>3. /\ end \in VirtualPages /\ ~InFractalMap(end)
            /\ \A u \in VirtualPages : ~InFractalMap(u) =>
                 Lookup(tc, top, u) = IF u = end THEN entry ELSE Lookup(tb, top, u)
        BY <2>2, <4>2 DEF tb, tc, end
      <4>4. PtesOf(tc, top) = MappedTo(PtesOf(tb, top), end, entry.addr)
        BY <4>1, <4>3, PtesWritten
      <4> QED
        BY <1>2, <4>1, <4>4, KernelPtesAre DEF top, tb, tc, end, MappedTo
    <3> QED
      BY <1>1, <1>2, <2>1, <3>1, <3>2, <3>3, Zenon DEF Kernel!MapPage
  <2>6. CASE Outcome # "map"
    <3>1. kstep' = Outcome /\ UNCHANGED <<ki, tables, kernel_end>>
      BY <1>6, <2>1, <2>6, Zenon DEF KernelMapPage
    <3>2. UNCHANGED <<ki, kernel_end, KernelPtes>>
      BY <1>4, <3>1
    <3>3. CASE ~table.present
      <4>1. ~Kernel!TablePresent(kernel_end) /\ kstep' \in {"fault", "null"}
        BY <2>3, <2>4, <3>1, <3>3
      <4> QED
        BY <1>1, <1>2, <2>1, <3>2, <4>1, Zenon DEF Kernel!MapPage
    <3>4. CASE table.present
      <4>1. /\ Kernel!TablePresent(kernel_end) /\ kernel_end \in DOMAIN KernelPtes
            /\ kstep' = "null"
        BY <2>3, <2>4, <2>6, <3>1, <3>4
      <4> QED
        BY <1>1, <1>2, <2>1, <3>2, <4>1, Zenon DEF Kernel!MapPage
    <3> QED
      BY <3>3, <3>4
  <2> QED
    BY <2>5, <2>6
<1> QED
  BY <1>1, <1>5, <1>6

LEMMA SystemStepImplements ==
  ASSUME SystemInv, KernelMaps, KernelInPlace, Used(tables), SystemNext,
         kstep # "off"
  PROVE  Kernel!Next
<1>1. ~Boot /\ ~StartKernel
  BY DEF SystemInv, BootDone, Handed, Boot, StartKernel
<1>2. CASE KernelMapPage
  BY <1>2, KernelMapPageImplements DEF Kernel!Next
<1>3. CASE KernelClearPages
  BY <1>3 DEF KernelClearPages, Kernel!Next
<1>4. CASE KernelWalk
  BY <1>4 DEF KernelWalk, Kernel!Next
<1> QED
  BY <1>1, <1>2, <1>3, <1>4 DEF SystemNext

(* Kickstart leaves no table without an entry, and the kernel empties none     *)
(* (pager.c:86-135, memory-manager.c:389-461).                                 *)
THEOREM TablesAlwaysUsed == SystemSpec => []Used(tables)
<1>1. SystemInit => Used(tables)
  BY DEF SystemInit, Init, Used
<1>2. SystemInv /\ Used(tables) /\ [SystemNext]_system_vars => Used(tables)'
  BY SystemStepUses
<1> QED
  BY <1>1, <1>2, SystemInvariance, PTL DEF SystemSpec

\* What ImplementsManager says of a step.
ManagerStep == kstep # "off" => Kernel!Next

(* What the kernel does to the page tables through the fractal map is what its *)
(* memory manager means to do to its mappings: one page is added behind the    *)
(* kernel for each step of the loop, a missing table is a fault, and no other  *)
(* step changes a mapping (memory-manager.c:389-461).                          *)
THEOREM SystemImplementsManager ==
  SystemSpec /\ []RoomForTables /\ []KernelInPlace => ImplementsManager
<1>1. SystemInv /\ KernelMaps /\ KernelInPlace /\ Used(tables)
        /\ [SystemNext]_system_vars => [ManagerStep]_system_vars
  BY SystemStepImplements DEF ManagerStep
<1>2. SystemSpec /\ []RoomForTables /\ []KernelInPlace
        => [][ManagerStep]_system_vars
  BY <1>1, KernelMapsRight, SystemInvariance, TablesAlwaysUsed, PTL DEF SystemSpec
<1> QED
  BY <1>2 DEF ImplementsManager, ManagerStep
==============================================================================
