------------------------------- MODULE SampoOS -------------------------------
(***************************************************************************)
(* The whole boot on one physical memory: Kickstart, then the kernel's     *)
(* memory manager in the address space Kickstart has built.                *)
(*                                                                         *)
(* The kernel reaches page tables through the fractal map: an entry of the *)
(* PML4 that points at the PML4 itself, so that a walk through it ends one *)
(* level early, at a table instead of a page.  Its steps here read and     *)
(* write the tables in memory; MemoryManager, whose other variables they   *)
(* share, says what a step means to the mappings.                          *)
(***************************************************************************)
EXTENDS Kickstart

CONSTANTS
  FractalIndex,  \* the PML4's entry for itself (510)
  BitsPerByte, EntrySize, SizeSpan  \* as in MemoryManager

ASSUME SampoOSAssumption ==
  /\ FractalIndex \in 1..(TableEntries - 1)
  /\ {BitsPerByte, EntrySize, SizeSpan} \subseteq Nat \ {0}

VARIABLES
  kstep,  \* where init_memory_manager is; "off" before the kernel is entered
  ki,     \* the index of its current loop
  combined_region_count, bitmap_bit_count, phys_manager_addr, kernel_end,
  physmap, bitmap_addr, busy

kernel_vars == <<kstep, ki, combined_region_count, bitmap_bit_count,
                 phys_manager_addr, kernel_end, physmap, bitmap_addr, busy>>

system_vars == <<vars, kernel_vars>>

------------------------------------------------------------------------------
(* The fractal map.                                                         *)

\* Each base is that of the page tables with one more walk in it, not one more
\* than the level below.
MistakenFractalBase(level) ==
  FractalIndex * (Power(TableEntries, Levels - 1) + Power(TableEntries, level))

\* KERN_PT_BASE, KERN_PD_BASE, KERN_PDP_BASE and KERN_PML4_BASE: each base adds
\* one more walk through the PML4's own entry.
FractalBase(level) ==
  LET base[walks \in 0..Levels] ==
        IF walks = 0 THEN 0
        ELSE base[walks - 1] + FractalIndex * Power(TableEntries, Levels - walks)
  IN  base[Levels - level]

\* The index of the table is not scaled to the level.
MistakenFractalPage(vpage, level) ==
  FractalBase(level) + vpage \div Power(TableEntries, Levels - 1 - level)

\* get_pml4_from_addr (level 0) to get_pt_from_addr (level Levels - 1): the
\* virtual page at which the table on the way to vpage can be read and written.
FractalPage(vpage, level) ==
  FractalBase(level) + vpage \div Power(TableEntries, Levels - level)

\* The virtual pages the kernel's own code and data are mapped at.
InFractalMap(vpage) == TableIndex(vpage, 0) = FractalIndex

\* What MemoryManager calls ptes: the pages that are mapped, and where to.
KernelPtes ==
  LET present == {v \in VirtualPages : ~InFractalMap(v) /\ Translate(v).present}
  IN  [v \in present |-> Translate(v).addr]

Kernel == INSTANCE MemoryManager WITH
  step <- kstep, regions <- memory_regions, i <- ki, ptes <- KernelPtes,
  EntriesPerTable <- TableEntries,
  BootTables <- {}, KernelEnds <- {}, LeftoverBits <- {}

------------------------------------------------------------------------------
\* kern_end is not rounded up to the next page.
MistakenKernelEnd ==
  LET loaded == {s \in DOMAIN image.segments : image.segments[s].load}
  IN  Max({0} \cup {(image.segments[s].vaddr + image.segments[s].mem_len)
                      \div PageSize : s \in loaded})

\* kernel_end_addr: the image's sections end in the last page of its last
\* segment, and the kernel rounds kern_end up to the end of that page.
KernelEnd ==
  Max({0} \cup {v + 1 : v \in UNION {Spanned(s) : s \in DOMAIN image.segments}})

SystemInit ==
  /\ Init
  /\ kstep = "off"
  /\ ki = 1
  /\ combined_region_count = 0
  /\ bitmap_bit_count = 0
  /\ phys_manager_addr = 0
  /\ kernel_end = 0
  /\ physmap = <<>>
  /\ bitmap_addr = 0
  /\ busy = {}

\* Kickstart runs until it has jumped to the kernel or halted.
Boot ==
  /\ step # "entered"
  /\ Next
  /\ UNCHANGED kernel_vars

\* The PML4's entry is written with the PML4's physical address as a virtual
\* one: into whatever page is mapped there, which only the identity map makes
\* the PML4.
StartKernel ==
  LET pml4 == Translate(top_page_structure \div PageSize)
      self == Entry(top_page_structure, TRUE, FALSE)
  IN  /\ step = "entered"
      /\ kstep = "off"
      /\ kernel_end' = KernelEnd
      /\ IF pml4.present
           THEN /\ kstep' = "count"
                /\ tables' = [tables EXCEPT ![pml4.addr][FractalIndex] = self]
                /\ data' = Drop(data, {pml4.addr})
           ELSE /\ kstep' = "fault"
                /\ UNCHANGED <<tables, data>>
      /\ UNCHANGED <<step, tags, module, inputs, header, memory_regions,
                     top_page_structure, i, segment_region, mapped, ki,
                     combined_region_count, bitmap_bit_count,
                     phys_manager_addr, physmap, bitmap_addr, busy>>

\* The entry for vpage in the table of a level, read where the fractal map shows
\* that table.  A page that is not a table has no entries.
SeenEntry(vpage, level) ==
  LET page == Translate(FractalPage(vpage, level))
  IN  IF page.addr \notin DOMAIN tables THEN ZeroEntry
      ELSE tables[page.addr][TableIndex(vpage, level)]

\* What virt_map_pages_kernel_end meets at the page behind the kernel: a fault
\* where the PML4 or the page table is not shown, an early return of NULL where
\* the PML4 has no entry or the page has one, or room to map it.
Outcome ==
  LET pml4 == Translate(FractalPage(kernel_end, 0))
      pt   == Translate(FractalPage(kernel_end, Levels - 1))
  IN  IF ~pml4.present THEN "fault"
      ELSE IF ~SeenEntry(kernel_end, 0).present THEN "null"
      ELSE IF ~pt.present THEN "fault"
      ELSE IF SeenEntry(kernel_end, Levels - 1).present THEN "null" ELSE "map"

\* One turn of its loop: the page table is written where the fractal map shows it.
KernelMapPage ==
  LET pt    == Translate(FractalPage(kernel_end, Levels - 1))
      index == TableIndex(kernel_end, Levels - 1)
  IN  /\ kstep = "map"
      /\ CASE ki > Kernel!ManagerPages ->
                /\ kstep' = "clear"
                /\ ki' = 1
                /\ UNCHANGED <<tables, kernel_end>>
           [] ki <= Kernel!ManagerPages /\ Outcome # "map" ->
                /\ kstep' = Outcome
                /\ UNCHANGED <<ki, tables, kernel_end>>
           [] OTHER ->
                /\ tables' = [tables EXCEPT
                     ![pt.addr][index] = Entry(Kernel!Pte, TRUE, FALSE)]
                /\ kernel_end' = kernel_end + 1
                /\ ki' = ki + 1
                /\ UNCHANGED kstep
      /\ UNCHANGED <<step, tags, module, inputs, header, memory_regions,
                     top_page_structure, data, i, segment_region, mapped,
                     combined_region_count, bitmap_bit_count,
                     phys_manager_addr, physmap, bitmap_addr, busy>>

\* What was in the physical pages behind the kernel is gone.
KernelClearPages ==
  LET pages == {Translate(kernel_end - n).addr : n \in 1..Kernel!ManagerPages}
  IN  /\ tables' = Drop(tables, pages)
      /\ data' = Drop(data, pages)
      /\ UNCHANGED <<step, tags, module, inputs, header, memory_regions,
                     top_page_structure, i, segment_region, mapped>>
      /\ Kernel!ClearPages

\* The other steps touch no page the model looks at.
KernelWalk ==
  /\ UNCHANGED vars
  /\ \/ Kernel!CountRegion
     \/ Kernel!PlaceManager
     \/ Kernel!PopulateEntry
     \/ Kernel!MarkAllocated
     \/ Kernel!MarkManager
     \/ Kernel!Hang

SystemNext ==
  \/ Boot
  \/ StartKernel
  \/ KernelMapPage
  \/ KernelClearPages
  \/ KernelWalk

SystemSpec == SystemInit /\ [][SystemNext]_system_vars

------------------------------------------------------------------------------
\* The kernel's variables have their types, before and after it starts.
SystemTypeOK ==
  /\ TypeOK
  /\ kstep \in Kernel!Steps \cup {"off"}
  /\ {ki, combined_region_count, bitmap_bit_count, phys_manager_addr,
      kernel_end, bitmap_addr} \subseteq Nat
  /\ Len(physmap) <= Len(memory_regions)
  /\ busy \subseteq Nat

\* What the kernel does to the page tables through the fractal map is what its
\* memory manager is meant to do to its mappings: one page is added behind the
\* kernel for each step of the loop, a missing table is a fault, and no other
\* step changes a mapping (memory-manager.c:389-461).
ImplementsManager == [][kstep # "off" => Kernel!Next]_system_vars

\* From the kernel's start on no page behind its end is mapped, and the PML4 has
\* the entry for it, so that mapping its manager's pages never gives up half way
\* with a NULL that the caller clears memory through: "We are trying to allocate
\* over something else. Shouldn't happen!" (memory-manager.c:76, 411-439).
NothingBehind ==
  /\ kstep # "null"
  /\ kstep # "off" =>
       \A v \in VirtualPages : v >= kernel_end => ~Translate(v).present

\* The fractal map shows, at the page the code computes for it, each table on
\* the way to any virtual page, and nothing where there is no table
\* (memory-manager.c:26-62).
TablesVisible ==
  kstep \notin {"off", "fault"} =>
    \A vpage \in VirtualPages, level \in 0..(Levels - 1) :
      LET seen  == Translate(FractalPage(vpage, level))
          table == EntryAt(vpage, level)
      IN  seen.present = table.present /\ seen.addr = table.addr

PagesIn(block) ==
  {p \in RoundDown(block.addr_start)..(block.addr_end - 1) : p % PageSize = 0}

ManagerPageSet == Kernel!PagesOf(phys_manager_addr, Kernel!ManagerEnd)

\* Physical pages that something relies on when the kernel is entered.
BootPages ==
  DOMAIN tables \cup DOMAIN data \cup PagesIn(KickstartBlock) \cup PagesIn(module)

Managing ==
  kstep \in Kernel!Steps \ {"count", "place", "map", "no_room", "fault", "null"}

\* The pages behind the kernel's image are the manager's, in order, writable and
\* not executable.
ManagerShown ==
  \A n \in 1..Kernel!ManagerPages :
    Translate(kernel_end - n) = Entry(Kernel!ManagerEnd - n * PageSize, TRUE, FALSE)

\* They lie over nothing the kernel still needs: no page table, no segment, not
\* Kickstart with the boot information, not the kernel's file.
ManagerUnshared == ManagerPageSet \cap BootPages = {}

\* Once its pages are mapped the manager has them to itself, where it looks for
\* them (memory-manager.c:176-195, 205, 398-461).
ManagerApart == Managing => ManagerShown /\ ManagerUnshared

\* Once the kernel's manager is ready, a page that is in use is in memory it
\* does not call available, or is one of those it means to mark; and where its
\* marking works (all of them in the first entry), the page's bit is set.
UsedNotFree ==
  kstep = "done" =>
    \A p \in BootPages \cup ManagerPageSet : \A k \in DOMAIN physmap :
      (/\ physmap[k].type = "AVAILABLE"
       /\ physmap[k].addr <= p /\ p < physmap[k].addr + physmap[k].len)
      => /\ p \in Kernel!InUse
         /\ Kernel!InFirstRegion => Kernel!OwnBit(p) \in busy
==============================================================================
