----------------------------- MODULE RegionTable -----------------------------
(***************************************************************************)
(* The table of physical memory regions Kickstart keeps, and every         *)
(* function of Kickstart/Multiboot/pmm.c as an operator on that table.     *)
(*                                                                         *)
(* The C code keeps an array memory_regions[] and a count; here the table  *)
(* is the sequence of the first `count' entries.  Entries are half-open    *)
(* address ranges.  An operator takes the table before a call and returns  *)
(* the table after it, the trailing pmm_sort_regions included.             *)
(***************************************************************************)
EXTENDS Integers, Sequences, FiniteSets, FiniteSetsExt

CONSTANTS
  PageSize,   \* bytes in a page (0x1000)
  LowMemory,  \* allocations never come from below this address (0x100000)
  PtrSpan     \* number of values of the 32-bit uintptr_t and size_t (2^32)

ASSUME RegionTableAssumption ==
  /\ PageSize \in Nat \ {0}
  /\ LowMemory \in Nat \ {0}
  /\ PtrSpan \in Nat \ {0}

(***************************************************************************)
(* enum sampo_bootinfo_memory_region_type: the types a firmware entry can  *)
(* have, and the two that only Kickstart's own calls create.               *)
(***************************************************************************)
FirmwareTypes == {"AVAILABLE", "RESERVED", "RECLAIMABLE", "NVS", "BAD_MEM"}
OwnerTypes    == {"ALLOCATED", "KERNEL"}
RegionTypes   == FirmwareTypes \cup OwnerTypes

Regions == [addr_start : Nat, addr_end : Nat, type : RegionTypes]

\* What the firmware reports.
FirmwareRegions == [addr_start : Nat, addr_end : Nat, type : FirmwareTypes]

Region(start, end, type) ==
  [addr_start |-> start, addr_end |-> end, type |-> type]

\* A zero-length ("invalid") entry.
Empty(r) == r.addr_start = r.addr_end

\* No address is in both ranges.  A range whose end is not above its start
\* holds no address at all.
Apart(r, q) ==
  \/ r.addr_end <= q.addr_start
  \/ q.addr_end <= r.addr_start
  \/ r.addr_end <= r.addr_start
  \/ q.addr_end <= q.addr_start

RoundDown(a) == a - (a % PageSize)
RoundUp(a)   == RoundDown(a + PageSize - 1)

(***************************************************************************)
(* The operators named Mistaken... are variants of the definition they     *)
(* precede with one plausible slip each.  No specification uses them; they *)
(* document which slip each property of Pmm tells from the code.           *)
(***************************************************************************)
------------------------------------------------------------------------------
(***************************************************************************)
(* pmm_sort_regions: a bubble sort on addr_start that carries the empty    *)
(* entries towards the end, then drops as many trailing entries as there   *)
(* were empty ones.                                                        *)
(***************************************************************************)
Swap(t, j) == [t EXCEPT ![j] = t[j + 1], ![j + 1] = t[j]]

\* Zero-length entries are sorted like the others.
MistakenCompareExchange(t, j) ==
  IF t[j].addr_start > t[j + 1].addr_start THEN Swap(t, j) ELSE t

CompareExchange(t, j) ==
  IF Empty(t[j]) \/ t[j].addr_start > t[j + 1].addr_start
    THEN Swap(t, j) ELSE t

\* Pass i of the inner loop, over the first Len(t) - i neighbouring pairs.
BubblePass(t, i) ==
  LET m == Len(t) - i
      pass[j \in 0..m] ==
        IF j = 0 THEN t ELSE CompareExchange(pass[j - 1], j)
  IN  pass[m]

BubbleSort(t) ==
  LET sorted[i \in 0..Len(t)] ==
        IF i = 0 THEN t ELSE BubblePass(sorted[i - 1], i)
  IN  sorted[Len(t)]

\* Also counts entries of negative length, which the sort does not carry.
MistakenEmptyEntries(t) == {i \in DOMAIN t : t[i].addr_end <= t[i].addr_start}

EmptyEntries(t) == {i \in DOMAIN t : Empty(t[i])}

sort_regions(t) ==
  SubSeq(BubbleSort(t), 1, Len(t) - Cardinality(EmptyEntries(t)))

------------------------------------------------------------------------------
\* Reserved memory that begins with a page grows by the page below it.
MistakenPageRounded(r) ==
  CASE r.type = "AVAILABLE" ->
         Region(RoundUp(r.addr_start), RoundDown(r.addr_end), r.type)
    [] r.type = "RESERVED" ->
         Region(RoundDown(r.addr_start - 1), RoundUp(r.addr_end), r.type)
    [] OTHER -> r

(***************************************************************************)
(* pmm_add_region: available memory shrinks to whole pages, reserved       *)
(* memory grows to whole pages, every other type is kept as reported.      *)
(***************************************************************************)
PageRounded(r) ==
  CASE r.type = "AVAILABLE" ->
         Region(RoundUp(r.addr_start), RoundDown(r.addr_end), r.type)
    [] r.type = "RESERVED" ->
         Region(RoundDown(r.addr_start), RoundUp(r.addr_end), r.type)
    [] OTHER -> r

add_region(t, r) == sort_regions(Append(t, PageRounded(r)))

(***************************************************************************)
(* pmm_reserve_memory_region: carve the page-rounded block out of the      *)
(* first available entry that contains all of it; without such an entry    *)
(* the call returns and changes nothing.                                   *)
(***************************************************************************)
ReservedRange(b) ==
  Region(RoundDown(b.addr_start), RoundUp(b.addr_end) % PtrSpan, "ALLOCATED")

\* A block that reaches the end of its entry is not seen as contained.
MistakenContaining(t, r) ==
  {i \in DOMAIN t : /\ t[i].addr_start <= r.addr_start
                    /\ t[i].addr_end > r.addr_end
                    /\ t[i].type = "AVAILABLE"}

Containing(t, r) ==
  {i \in DOMAIN t : /\ t[i].addr_start <= r.addr_start
                    /\ t[i].addr_end >= r.addr_end
                    /\ t[i].type = "AVAILABLE"}

\* The entry that is split keeps its old end.
MistakenCarveOut(t, i, r) ==
  LET whole == t[i]
  IN  CASE r.addr_start = whole.addr_start ->
             Append([t EXCEPT ![i].addr_start = r.addr_end], r)
        [] r.addr_start # whole.addr_start /\ r.addr_end = whole.addr_end ->
             Append([t EXCEPT ![i].addr_end = r.addr_start], r)
        [] OTHER -> t \o <<r, Region(r.addr_end, whole.addr_end, whole.type)>>

\* Entry i gives up range r: from its start, from its end, or from its middle,
\* where what is left above r becomes an entry of its own.
CarveOut(t, i, r) ==
  LET whole == t[i]
  IN  CASE r.addr_start = whole.addr_start ->
             Append([t EXCEPT ![i].addr_start = r.addr_end], r)
        [] r.addr_start # whole.addr_start /\ r.addr_end = whole.addr_end ->
             Append([t EXCEPT ![i].addr_end = r.addr_start], r)
        [] OTHER ->
             [t EXCEPT ![i].addr_end = r.addr_start]
               \o <<r, Region(r.addr_end, whole.addr_end, whole.type)>>

reserve_memory_region(t, b) ==
  LET r == ReservedRange(b)
  IN  IF Containing(t, r) = {} THEN t
      ELSE sort_regions(CarveOut(t, Min(Containing(t, r)), r))

(***************************************************************************)
(* pmm_allocate_region_with_type: first fit above LowMemory.  The length   *)
(* is a 32-bit product and the returned pointer keeps the low 32 bits of   *)
(* the address; the table is sorted only if that pointer is not NULL (0).  *)
(***************************************************************************)
AllocationLength(pages) == (pages * PageSize) % PtrSpan

\* Memory below 1 MiB is handed out too.
MistakenFitting(t, len) ==
  {i \in DOMAIN t : /\ t[i].type = "AVAILABLE"
                    /\ t[i].addr_start + len <= t[i].addr_end}

Fitting(t, len) ==
  {i \in DOMAIN t : /\ t[i].addr_start >= LowMemory
                    /\ t[i].type = "AVAILABLE"
                    /\ t[i].addr_start + len <= t[i].addr_end}

\* The entry allocated from is not made shorter.
MistakenTakeFront(t, i, len, type) ==
  Append(t, Region(t[i].addr_start, t[i].addr_start + len, type))

TakeFront(t, i, len, type) ==
  Append([t EXCEPT ![i].addr_start = t[i].addr_start + len],
         Region(t[i].addr_start, t[i].addr_start + len, type))

allocate_region(t, pages, type) ==
  LET len  == AllocationLength(pages)
      i    == Min(Fitting(t, len))
      ret  == t[i].addr_start % PtrSpan
      used == TakeFront(t, i, len, type)
  IN  IF pages = 0 \/ Fitting(t, len) = {} THEN [table |-> t, ret |-> 0]
      ELSE [table |-> IF ret # 0 THEN sort_regions(used) ELSE used,
            ret   |-> ret]

------------------------------------------------------------------------------
(***************************************************************************)
(* pmm_deallocate: find the first entry at or above the page; give up if   *)
(* it is not at the page or not RESERVED; otherwise make it AVAILABLE.     *)
(* Then merge every run of touching available entries into its first one   *)
(* and let the sort drop the emptied ones.  If no entry starts at or above *)
(* the page, the merging still happens.                                    *)
(***************************************************************************)
\* The body of the inner merging loop, for head entry i and current entry j.
\* `open' turns FALSE where the code breaks out of the loop.
MergeStep(st, i, j) ==
  LET head    == st.tab[i]
      current == st.tab[j]
      stops   == \/ current.type # "AVAILABLE"
                 \/ ~Empty(current) /\ head.addr_end # current.addr_start
  IN  IF st.open /\ ~stops /\ ~Empty(current)
        THEN [st EXCEPT !.tab = [@ EXCEPT
                 ![i].addr_end   = current.addr_end,
                 ![j].addr_start = current.addr_end]]
        ELSE [st EXCEPT !.open = @ /\ ~stops]

MergeRun(t, i) ==
  LET run[j \in i..Len(t)] ==
        IF j = i THEN [tab |-> t, open |-> TRUE]
        ELSE MergeStep(run[j - 1], i, j)
  IN  run[Len(t)].tab

\* Freed memory is not merged with its neighbours.
MistakenCoalesce(t) == t

Coalesce(t) ==
  LET merged[i \in 0..Len(t)] ==
        IF i = 0 THEN t
        ELSE LET u == merged[i - 1]
             IN  IF u[i].type = "AVAILABLE" /\ ~Empty(u[i])
                   THEN MergeRun(u, i) ELSE u
  IN  merged[Len(t)]

AtOrAbove(t, page) == {i \in DOMAIN t : t[i].addr_start >= page}

\* Whatever is at the page is freed, not only RESERVED entries.
MistakenDeallocate(t, addr) ==
  LET page  == RoundDown(addr)
      above == AtOrAbove(t, page)
      i     == Min(above)
  IN  CASE above = {} -> sort_regions(Coalesce(t))
        [] above # {} /\ t[i].addr_start = page ->
             sort_regions(Coalesce([t EXCEPT ![i].type = "AVAILABLE"]))
        [] OTHER -> t

deallocate(t, addr) ==
  LET page  == RoundDown(addr)
      above == AtOrAbove(t, page)
      i     == Min(above)
  IN  CASE above = {} -> sort_regions(Coalesce(t))
        [] above # {} /\ t[i].addr_start = page /\ t[i].type = "RESERVED" ->
             sort_regions(Coalesce([t EXCEPT ![i].type = "AVAILABLE"]))
        [] OTHER -> t
==============================================================================
