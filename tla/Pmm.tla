--------------------------------- MODULE Pmm ---------------------------------
(***************************************************************************)
(* Kickstart's physical memory manager and its callers.  First the         *)
(* firmware's memory map is entered, one entry per call; then the blocks   *)
(* that hold Kickstart and the kernel image are reserved; from the first   *)
(* allocation or deallocation on, callers allocate and free in any order.  *)
(* This is the order of kickstart_main; it is sequential code, so each     *)
(* call is one step.                                                       *)
(***************************************************************************)
EXTENDS RegionTable

CONSTANTS
  FirmwareMaps,  \* the memory maps the firmware may report, in its order
  Blocks,        \* the blocks of memory in use before Kickstart manages it
  PageCounts,    \* the sizes callers ask for, in pages
  FreeAddrs,     \* the addresses callers pass to pmm_deallocate
  Addresses      \* the addresses PhysMem speaks of

ASSUME PmmAssumption ==
  /\ FirmwareMaps \subseteq Seq(FirmwareRegions)
  /\ Blocks \subseteq [addr_start : Nat, addr_end : Nat]
  /\ PageCounts \subseteq Nat
  /\ FreeAddrs \subseteq Nat
  /\ Addresses \subseteq Nat

VARIABLES
  memory_regions,  \* the first memory_region_count entries of the array
  mmap,            \* the firmware entries not yet entered
  reserved,        \* the blocks the boot code has asked to be reserved
  granted,         \* what each holder of an allocation takes to be its own
  serving          \* an allocation or deallocation has been made

vars == <<memory_regions, mmap, reserved, granted, serving>>

Init ==
  /\ memory_regions = <<>>
  /\ mmap \in FirmwareMaps
  /\ reserved = {}
  /\ granted = <<>>
  /\ serving = FALSE

pmm_add_region ==
  /\ mmap # <<>>
  /\ memory_regions' = add_region(memory_regions, Head(mmap))
  /\ mmap' = Tail(mmap)
  /\ UNCHANGED <<reserved, granted, serving>>

\* The call returns nothing: the boot code cannot see whether it took effect.
pmm_reserve_memory_region(b) ==
  /\ mmap = <<>>
  /\ ~serving
  /\ b \notin reserved
  /\ memory_regions' = reserve_memory_region(memory_regions, b)
  /\ reserved' = reserved \cup {b}
  /\ UNCHANGED <<mmap, granted, serving>>

\* A caller that gets a non-NULL pointer owns the bytes it asked for from there.
pmm_allocate_region_with_type(pages, type) ==
  LET call == allocate_region(memory_regions, pages, type)
  IN  /\ mmap = <<>>
      /\ memory_regions' = call.table
      /\ granted' = IF call.ret = 0 THEN granted
                    ELSE Append(granted,
                           Region(call.ret, call.ret + pages * PageSize, type))
      /\ serving' = TRUE
      /\ UNCHANGED <<mmap, reserved>>

\* What callers hold after one of them gives up what it holds at a page.
StillHeld(held, page) ==
  LET kept[k \in 0..Len(held)] ==
        IF k = 0 THEN <<>>
        ELSE IF held[k].addr_start = page THEN kept[k - 1]
             ELSE Append(kept[k - 1], held[k])
  IN  kept[Len(held)]

\* The caller gives up what it held at that address, whatever the table says.
pmm_deallocate(addr) ==
  /\ mmap = <<>>
  /\ memory_regions' = deallocate(memory_regions, addr)
  /\ granted' = StillHeld(granted, RoundDown(addr))
  /\ serving' = TRUE
  /\ UNCHANGED <<mmap, reserved>>

Next ==
  \/ pmm_add_region
  \/ \E b \in Blocks : pmm_reserve_memory_region(b)
  \/ \E pages \in PageCounts, type \in OwnerTypes :
       pmm_allocate_region_with_type(pages, type)
  \/ \E addr \in FreeAddrs : pmm_deallocate(addr)

Spec == Init /\ [][Next]_vars

------------------------------------------------------------------------------
\* Every variable has its type; the table holds well-formed entries.
TypeOK ==
  /\ memory_regions \in Seq(Regions)
  /\ mmap \in Seq(FirmwareRegions)
  /\ reserved \subseteq Blocks
  /\ granted \in Seq(Regions)
  /\ serving \in BOOLEAN

\* No address is in two entries of the table: carving, allocating, freeing and
\* merging leave every address with one type (pmm.c:105-132, 177-186, 236-273).
TableApart ==
  \A i, j \in DOMAIN memory_regions :
    i # j => Apart(memory_regions[i], memory_regions[j])

\* The table is in ascending order and holds no zero-length entry.  First fit,
\* the early return of pmm_deallocate ("because these are sorted", pmm.c:219)
\* and the merging of neighbours all rest on this.
TableInOrder ==
  /\ \A i \in DOMAIN memory_regions : ~Empty(memory_regions[i])
  /\ \A i, j \in DOMAIN memory_regions :
       i < j => memory_regions[i].addr_start <= memory_regions[j].addr_start

\* No two allocations that are still held share a byte, however allocations
\* and deallocations were ordered.
GrantsExclusive ==
  \A k, l \in DOMAIN granted : k # l => Apart(granted[k], granted[l])

\* Memory in use before pmm existed -- Kickstart, the kernel image -- is never
\* handed out once the boot code has asked to reserve it (main.c:148-151).
ReservedProtected ==
  \A b \in reserved : \A k \in DOMAIN granted :
    Apart(b, granted[k])

\* A held allocation is whole pages of available memory at or above LowMemory,
\* and the table says so: there is an entry with exactly its bounds and type.
GrantsRecorded ==
  \A k \in DOMAIN granted :
    /\ granted[k].addr_start >= LowMemory
    /\ \E i \in DOMAIN memory_regions : memory_regions[i] = granted[k]

\* Two available entries touch.
FreeTouches(t) ==
  \E i, j \in DOMAIN t :
    /\ t[i].type = "AVAILABLE" /\ t[j].type = "AVAILABLE"
    /\ t[i].addr_start < t[i].addr_end
    /\ t[i].addr_end = t[j].addr_start

\* After a deallocation that changed the table no two available entries touch
\* (pmm.c:236-237, "we must coalesce any adjacent available regions together").
FreeingCoalesces ==
  [][(\E addr \in FreeAddrs : pmm_deallocate(addr))
       /\ memory_regions' # memory_regions
     => ~FreeTouches(memory_regions')]_vars

\* Entering one more firmware entry keeps every entry there was, even while the
\* sort drops zero-length ones by shortening the table (pmm.c:302, 318).
ReportsKept ==
  [][pmm_add_region
     => \A i \in DOMAIN memory_regions : \E j \in DOMAIN memory_regions' :
          memory_regions'[j] = memory_regions[i]]_vars

\* What the table calls allocated, somebody holds: a caller that has not freed
\* it, or the boot code's reservation.  Otherwise the memory is lost for good.
NothingLeaked ==
  \A i \in DOMAIN memory_regions : memory_regions[i].type \in OwnerTypes =>
    \/ \E k \in DOMAIN granted : granted[k] = memory_regions[i]
    \/ \E b \in reserved : ReservedRange(b) = memory_regions[i]

\* What the table says of an address: the type of the first entry that covers it.
Covering(a) ==
  {i \in DOMAIN memory_regions :
     memory_regions[i].addr_start <= a /\ a < memory_regions[i].addr_end}

OwnerOf(a) ==
  IF Covering(a) = {} THEN "HOLE" ELSE memory_regions[Min(Covering(a))].type

Physical ==
  INSTANCE PhysMem WITH owner <- [a \in Addresses |-> OwnerOf(a)]

\* Every entry the firmware reported and every byte of it stays accounted for:
\* the table implements the page-ownership specification, in which memory only
\* changes hands and is never lost or owned twice.
RefinesPhysMem == Physical!Spec
==============================================================================
