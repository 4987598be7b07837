---------------------------- MODULE MemoryManager ----------------------------
(***************************************************************************)
(* The kernel's init_memory_manager.  It reads the region table Kickstart  *)
(* left in bootinfo twice -- once to count how many bits of bitmap and how *)
(* many physmap entries it needs, once to fill them in -- and in between   *)
(* finds physical pages for both and maps them after the kernel's end.     *)
(* Last, it marks in the bitmap the pages that are in use.                 *)
(*                                                                         *)
(* One iteration of each loop over the table is one step.  The code runs   *)
(* alone, with interrupts off, so no step is observed half done.           *)
(*                                                                         *)
(* A bit set beyond the bitmap's pages would land in the physmap array or  *)
(* beyond; `busy' keeps such a bit, but not what it does to that memory.   *)
(* Operators named Mistaken... are as in RegionTable.                      *)
(***************************************************************************)
EXTENDS RegionTable

CONSTANTS
  BitsPerByte,      \* 8
  EntrySize,        \* sizeof(struct physmem_region)
  SizeSpan,         \* number of values of the 64-bit size_t
  EntriesPerTable,  \* pages one page table maps (512)
  BootTables,       \* the region tables Kickstart may hand over
  KernelEnds,       \* the first virtual page after the kernel image
  LeftoverBits      \* the bits set in fresh physical pages, before clearing

ASSUME MemoryManagerAssumption ==
  /\ {BitsPerByte, EntrySize, SizeSpan, EntriesPerTable} \subseteq Nat \ {0}
  /\ BootTables \subseteq Seq(Regions)
  /\ KernelEnds \subseteq Nat \ {0}
  /\ LeftoverBits \subseteq SUBSET Nat

VARIABLES
  step,                   \* where init_memory_manager is
  regions,                \* bootinfo->memory_map; never written
  i,                      \* the index of the current loop, from 1
  combined_region_count,
  bitmap_bit_count,
  phys_manager_addr,
  kernel_end,             \* kernel_end_addr, as a page number
  ptes,                   \* the present page table entries: page -> address
  physmap,                \* the first physmem_len entries
  bitmap_addr,            \* next free byte of the bitmap, from its start
  busy                    \* the bits that are set, from the bitmap's start

vars == <<step, regions, i, combined_region_count, bitmap_bit_count,
          phys_manager_addr, kernel_end, ptes, physmap, bitmap_addr, busy>>

Steps == {"count", "place", "map", "clear", "populate",
          "mark_allocated", "mark_manager", "done", "no_room", "fault",
          "null"}

NoBitmap == -1  \* alloc_map of an entry that needs no bitmap (NULL)

PhysmemTypes == {"AVAILABLE", "RESERVED", "ACPI_RECLAIM", "NVS", "BAD_MEM"}

------------------------------------------------------------------------------
(* Combined regions: a run of available and allocated entries, each         *)
(* beginning where the one before it ends.                                  *)

\* The kernel's segments are combined with free memory too.
MistakenCombinable(r) == r.type \in {"AVAILABLE", "ALLOCATED", "KERNEL"}

Combinable(r) == r.type \in {"AVAILABLE", "ALLOCATED"}

\* The last entry of the combined region that begins with entry k.
RunEnd(t, k) ==
  IF ~Combinable(t[k]) THEN k
  ELSE Max({l \in k..Len(t) : \A m \in (k + 1)..l :
              Combinable(t[m]) /\ t[m].addr_start = t[m - 1].addr_end})

\* The entries of the combined region are visited again.
MistakenNextRun(t, k) == k + 1

NextRun(t, k) == RunEnd(t, k) + 1

\* size_t subtraction and division, and rounding up to whole bytes of bits.
RunSize(t, k) == (t[RunEnd(t, k)].addr_end - t[k].addr_start) % SizeSpan

\* Rounded down to whole bytes.
MistakenBitsFor(pages) == (pages \div BitsPerByte) * BitsPerByte

BitsFor(pages) == ((pages + BitsPerByte - 1) \div BitsPerByte) * BitsPerByte

\* The last, partly used page is not counted.
MistakenBitmapPages == (bitmap_bit_count \div BitsPerByte) \div PageSize

BitmapPages  == (bitmap_bit_count \div BitsPerByte) \div PageSize + 1
PhysmapPages == (combined_region_count * EntrySize) \div PageSize + 1
ManagerPages == BitmapPages + PhysmapPages

\* The pages [addr, addr + n pages) as the addresses the marking loops visit.
PagesOf(addr, end) == {a \in addr..(end - 1) : (a - addr) % PageSize = 0}
ManagerEnd == phys_manager_addr + ManagerPages * PageSize

------------------------------------------------------------------------------
\* The PML4's entry for itself is written before the first walk, which makes
\* every page table reachable; `ptes' stands for all of them.
Init ==
  /\ step = "count"
  /\ regions \in BootTables
  /\ i = 1
  /\ combined_region_count = 0
  /\ bitmap_bit_count = 0
  /\ phys_manager_addr = 0
  /\ kernel_end \in KernelEnds
  /\ ptes = [v \in 0..(kernel_end - 1) |-> v * PageSize]
  /\ physmap = <<>>
  /\ bitmap_addr = 0
  /\ busy \in LeftoverBits

\* An iteration counts one combined region; only combinable ones need bits.
CountRegion ==
  /\ step = "count"
  /\ IF i > Len(regions)
       THEN /\ step' = "place"
            /\ i' = 1
            /\ UNCHANGED <<combined_region_count, bitmap_bit_count>>
       ELSE /\ combined_region_count' = combined_region_count + 1
            /\ bitmap_bit_count' = bitmap_bit_count +
                 IF Combinable(regions[i])
                   THEN BitsFor(RunSize(regions, i) \div PageSize) ELSE 0
            /\ i' = NextRun(regions, i)
            /\ UNCHANGED step
  /\ UNCHANGED <<regions, phys_manager_addr, kernel_end, ptes, physmap,
                 bitmap_addr, busy>>

\* Allocated memory is searched too, though page tables may lie there.
MistakenRoomy ==
  {k \in DOMAIN regions :
     /\ Combinable(regions[k])
     /\ regions[k].addr_start >= LowMemory
     /\ regions[k].addr_end >= regions[k].addr_start + ManagerPages * PageSize}

Roomy ==
  {k \in DOMAIN regions :
     /\ regions[k].type = "AVAILABLE"
     /\ regions[k].addr_start >= LowMemory
     /\ regions[k].addr_end >= regions[k].addr_start + ManagerPages * PageSize}

\* First fit for the manager's own pages; without room it returns early.
PlaceManager ==
  /\ step = "place"
  /\ IF Roomy = {}
       THEN step' = "no_room" /\ UNCHANGED phys_manager_addr
       ELSE /\ phys_manager_addr' = regions[Min(Roomy)].addr_start
            /\ step' = "map"
  /\ UNCHANGED <<regions, i, combined_region_count, bitmap_bit_count,
                 kernel_end, ptes, physmap, bitmap_addr, busy>>

\* virt_map_pages_kernel_end, one page at a time.  Without a page table it returns
\* NULL if the PML4's entry is missing, which ptes does not tell, and faults if
\* something below is: the code only notes that it should be allocated.  A page
\* that is mapped already also makes it return NULL.  The caller does not test
\* for that and writes through NULL: what it does from there on is undefined.
TablePresent(v) ==
  \E u \in DOMAIN ptes : u \div EntriesPerTable = v \div EntriesPerTable

Pte == phys_manager_addr + (i - 1) * PageSize

MapPage ==
  /\ step = "map"
  /\ IF i > ManagerPages
       THEN /\ step' = "clear"
            /\ i' = 1
            /\ UNCHANGED <<kernel_end, ptes>>
       ELSE IF ~TablePresent(kernel_end)
       THEN step' \in {"fault", "null"} /\ UNCHANGED <<i, kernel_end, ptes>>
       ELSE IF kernel_end \in DOMAIN ptes
       THEN step' = "null" /\ UNCHANGED <<i, kernel_end, ptes>>
       ELSE /\ ptes' = [v \in DOMAIN ptes \cup {kernel_end} |->
                          IF v = kernel_end THEN Pte ELSE ptes[v]]
            /\ kernel_end' = kernel_end + 1
            /\ i' = i + 1
            /\ UNCHANGED step
  /\ UNCHANGED <<regions, combined_region_count, bitmap_bit_count,
                 phys_manager_addr, physmap, bitmap_addr, busy>>

\* The areas just mapped keep what was in them.
MistakenClearPages ==
  /\ step = "clear"
  /\ step' = "populate"
  /\ UNCHANGED <<regions, i, combined_region_count, bitmap_bit_count,
                 phys_manager_addr, kernel_end, ptes, physmap, bitmap_addr,
                 busy>>

ClearPages ==
  /\ step = "clear"
  /\ busy' = {}
  /\ step' = "populate"
  /\ UNCHANGED <<regions, i, combined_region_count, bitmap_bit_count,
                 phys_manager_addr, kernel_end, ptes, physmap, bitmap_addr>>

\* Only allocated memory is translated.
MistakenPhysmemType(type) == IF type = "ALLOCATED" THEN "AVAILABLE" ELSE type

PhysmemType(type) ==
  CASE type \in {"AVAILABLE", "ALLOCATED"} -> "AVAILABLE"
    [] type = "RECLAIMABLE" -> "ACPI_RECLAIM"
    [] type \in {"NVS", "BAD_MEM"} -> type
    [] OTHER -> "RESERVED"

\* The last, partly used byte is not counted.
MistakenBitmapBytes(t, k) ==
  (RoundUp(RunSize(t, k)) \div PageSize) \div BitsPerByte

\* Here the size is rounded up to pages before it is divided.
BitmapBytes(t, k) ==
  LET pages == RoundUp(RunSize(t, k)) \div PageSize
  IN  pages \div BitsPerByte + IF pages % BitsPerByte # 0 THEN 1 ELSE 0

PopulateEntry ==
  /\ step = "populate"
  /\ IF i > Len(regions)
       THEN /\ step' = "mark_allocated"
            /\ i' = 1
            /\ UNCHANGED <<physmap, bitmap_addr>>
       ELSE /\ physmap' = Append(physmap,
                 [addr |-> regions[i].addr_start,
                  len |-> (regions[RunEnd(regions, i)].addr_end
                             - regions[i].addr_start) % SizeSpan,
                  alloc_map |-> IF Combinable(regions[i])
                                  THEN bitmap_addr ELSE NoBitmap,
                  type |-> PhysmemType(regions[i].type)])
            /\ bitmap_addr' = bitmap_addr +
                 IF Combinable(regions[i]) THEN BitmapBytes(regions, i) ELSE 0
            /\ i' = NextRun(regions, i)
            /\ UNCHANGED step
  /\ UNCHANGED <<regions, combined_region_count, bitmap_bit_count,
                 phys_manager_addr, kernel_end, ptes, busy>>

\* The bit pmm_mark_page_busy sets for a page: the first entry that does not
\* begin above the page decides, and only if it is available memory.
AtOrBelow(page) == {k \in DOMAIN physmap : physmap[k].addr <= page}

BitOf(page) ==
  LET entry == physmap[Min(AtOrBelow(page))]
  IN  IF AtOrBelow(page) = {} \/ entry.type # "AVAILABLE" THEN {}
      ELSE {entry.alloc_map * BitsPerByte + (page - entry.addr) \div PageSize}

\* Skipping an entry does not move on to the next.
MistakenMarkAllocated ==
  /\ step = "mark_allocated"
  /\ IF i > Len(regions)
       THEN step' = "mark_manager" /\ i' = 1 /\ UNCHANGED busy
       ELSE /\ regions[i].type = "ALLOCATED"
            /\ busy' = busy \cup UNION {BitOf(page) : page \in
                 PagesOf(regions[i].addr_start, regions[i].addr_end)}
            /\ i' = i + 1
            /\ UNCHANGED step
  /\ UNCHANGED <<regions, combined_region_count, bitmap_bit_count,
                 phys_manager_addr, kernel_end, ptes, physmap, bitmap_addr>>

MarkAllocated ==
  /\ step = "mark_allocated"
  /\ IF i > Len(regions)
       THEN step' = "mark_manager" /\ i' = 1 /\ UNCHANGED busy
       ELSE /\ busy' = busy \cup
                 IF regions[i].type # "ALLOCATED" THEN {}
                 ELSE UNION {BitOf(page) : page \in
                        PagesOf(regions[i].addr_start, regions[i].addr_end)}
            /\ i' = i + 1
            /\ UNCHANGED step
  /\ UNCHANGED <<regions, combined_region_count, bitmap_bit_count,
                 phys_manager_addr, kernel_end, ptes, physmap, bitmap_addr>>

MarkManager ==
  /\ step = "mark_manager"
  /\ busy' = busy \cup
       UNION {BitOf(page) : page \in PagesOf(phys_manager_addr, ManagerEnd)}
  /\ step' = "done"
  /\ UNCHANGED <<regions, i, combined_region_count, bitmap_bit_count,
                 phys_manager_addr, kernel_end, ptes, physmap, bitmap_addr>>

\* The kernel has nothing more to do: _start halts for good.  Of what follows a
\* fault or a write through NULL nothing is said.
Ends == {"done", "no_room", "fault", "null"}

Hang ==
  /\ step \in Ends
  /\ UNCHANGED vars

Next ==
  \/ CountRegion
  \/ PlaceManager
  \/ MapPage
  \/ ClearPages
  \/ PopulateEntry
  \/ MarkAllocated
  \/ MarkManager
  \/ Hang

\* Nothing else runs, so the processor keeps executing this code.
Spec == Init /\ [][Next]_vars /\ WF_vars(Next)

------------------------------------------------------------------------------
\* Every variable has its type.
TypeOK ==
  /\ step \in Steps
  /\ regions \in Seq(Regions)
  /\ i \in 1..(Len(regions) + ManagerPages + 1)
  /\ {combined_region_count, bitmap_bit_count, phys_manager_addr, kernel_end,
      bitmap_addr} \subseteq Nat
  /\ DOMAIN ptes = 0..(kernel_end - 1)
  /\ physmap \in Seq([addr : Nat, len : Nat, alloc_map : Nat \cup {NoBitmap},
                      type : PhysmemTypes])
  /\ busy \subseteq Nat

Counted   == step \in Steps \ {"count"}
Populated == step \in {"mark_allocated", "mark_manager", "done"}

\* The pages of available and allocated memory.
MemoryPages ==
  UNION {PagesOf(regions[k].addr_start, regions[k].addr_end) :
           k \in {l \in DOMAIN regions : Combinable(regions[l])}}

\* The counting walk asks for at least one bit for every page of available and
\* allocated memory, and wastes less than a byte of bits for each region
\* (memory-manager.c:141-153).
BitmapSized ==
  Counted => /\ Cardinality(MemoryPages) <= bitmap_bit_count
             /\ bitmap_bit_count <= Cardinality(MemoryPages)
                                      + (BitsPerByte - 1) * Len(regions)

\* What the filling walk writes stays inside the pages the counting walk sized:
\* the bitmap never runs into the physmap array behind it, and the array never
\* runs out of its pages (memory-manager.c:161-167 against 216-301).
FillingFits ==
  /\ bitmap_addr <= BitmapPages * PageSize
  /\ Len(physmap) * EntrySize <= PhysmapPages * PageSize

\* The bytes of the bitmap that hold the bits of an entry's pages.
Slice(k) ==
  {physmap[k].alloc_map + b : b \in
     0..(((physmap[k].len \div PageSize) - 1) \div BitsPerByte)}

\* Two regions never share a byte of the bitmap, and each has a bit for each of
\* its pages: "every region will begin from the beginning of its own byte"
\* (memory-manager.c:148-151).
SlicesApart ==
  \A k, l \in DOMAIN physmap :
    (/\ physmap[k].alloc_map # NoBitmap /\ physmap[l].alloc_map # NoBitmap
     /\ k # l)
    => /\ Slice(k) \cap Slice(l) = {}
       /\ \A b \in Slice(k) : b < bitmap_addr

\* The entry stands for all of region r.
Holds(entry, r) ==
  /\ entry.addr <= r.addr_start
  /\ r.addr_end <= entry.addr + entry.len
  /\ entry.type = PhysmemType(r.type)

\* Merging regions loses nothing and invents nothing: once filled, each entry
\* of the boot table lies in exactly one physmap entry, of its kind, and no
\* address is in two physmap entries.
PhysmapCovers ==
  Populated =>
    /\ \A k \in DOMAIN regions :
         Cardinality({l \in DOMAIN physmap : Holds(physmap[l], regions[k])}) = 1
    /\ \A l, m \in DOMAIN physmap : l < m =>
         physmap[l].addr + physmap[l].len <= physmap[m].addr

\* The manager's own pages are free memory of the boot table at or above
\* LowMemory: they hold no page table, no boot information, no kernel image.
ManagerPlaced ==
  phys_manager_addr # 0 =>
    /\ phys_manager_addr >= LowMemory
    /\ \A k \in DOMAIN regions : regions[k].type # "AVAILABLE" =>
         Apart(regions[k], Region(phys_manager_addr, ManagerEnd, "AVAILABLE"))

\* After mapping, the pages behind the kernel's old end are the manager's, each
\* once and in order, and every mapping of the kernel is as it was.
ManagerMapped ==
  step \in {"clear", "populate"} \/ Populated =>
    LET first == kernel_end - ManagerPages
    IN  /\ \A n \in 0..(ManagerPages - 1) :
             ptes[first + n] = phys_manager_addr + n * PageSize
        /\ \A v \in 0..(first - 1) : ptes[v] = v * PageSize

\* The bits that should be set when the manager is ready: one for each page of
\* an allocated region and each page of the manager's own, in the slice of the
\* region the page belongs to.
InUse ==
  PagesOf(phys_manager_addr, ManagerEnd) \cup
  UNION {PagesOf(regions[k].addr_start, regions[k].addr_end) :
           k \in {l \in DOMAIN regions : regions[l].type = "ALLOCATED"}}

OwnBit(page) ==
  LET k == CHOOSE l \in DOMAIN physmap :
             /\ physmap[l].addr <= page
             /\ page < physmap[l].addr + physmap[l].len
  IN  physmap[k].alloc_map * BitsPerByte
        + (page - physmap[k].addr) \div PageSize

OwnBits == {OwnBit(page) : page \in InUse}

InFirstRegion ==
  \A page \in InUse :
    physmap[1].addr <= page /\ page < physmap[1].addr + physmap[1].len

\* Where the first physmap entry is available memory that holds every page in
\* use, exactly those pages are marked.
MarkedExactly == step = "done" /\ InFirstRegion => busy = OwnBits

\* Every page in use is marked in its own region's bitmap, and so is never
\* taken for a free one ("We must mark all ALLOCATED regions as used in the
\* bitmap", memory-manager.c:303-306).
InUseMarked == step = "done" => OwnBits \subseteq busy

\* Initialisation ends: both walks advance past every combined region.
Finishes == <>(step \in Ends)
==============================================================================
