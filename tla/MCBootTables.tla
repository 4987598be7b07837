----------------------------- MODULE MCBootTables -----------------------------
(***************************************************************************)
(* Region tables as Kickstart's own operations produce them from a memory  *)
(* map, for the instances of MemoryManager.                                *)
(***************************************************************************)
EXTENDS RegionTable
LOCAL INSTANCE SequencesExt

A(lo, hi) == Region(lo, hi, "AVAILABLE")
R(lo, hi) == Region(lo, hi, "RESERVED")

\* The table after entering a map, reserving the blocks, and allocating the
\* page tables and then the kernel's segments.
Enter(map) == FoldLeft(add_region, <<>>, map)
Reserve(t, blocks) == FoldLeft(reserve_memory_region, t, blocks)
Allocate(t, pages, type) == allocate_region(t, pages, type).table
Boot(map, blocks, tables, segment) ==
  Allocate(Allocate(Reserve(Enter(map), blocks), tables, "ALLOCATED"),
           segment, "KERNEL")

Block(lo, hi) == [addr_start |-> lo, addr_end |-> hi]

MC_LeftoverBits == {{}, {0, 3, 17}}
==============================================================================
