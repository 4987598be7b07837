----------------------------- MODULE MCKickstart -----------------------------
(***************************************************************************)
(* Instances of Kickstart for TLC: pages of 4 bytes, page tables of 4      *)
(* entries in 3 levels (64 virtual pages, the first 4 mapped to            *)
(* themselves); "1 MiB" is address 4, where Kickstart itself begins.       *)
(***************************************************************************)
EXTENDS Kickstart

\* An entry of a memory map: where, how long, and its Multiboot type code.
E(addr, len, type) == [addr |-> addr, len |-> len, type |-> type]
Map(entries)       == [type |-> "MMAP", entries |-> entries]
Mod(lo, hi, name)  == [type |-> "MODULE", cmdline |-> name,
                       block |-> [addr_start |-> lo, addr_end |-> hi]]
KernelAt(lo, hi)   == Mod(lo, hi, KernelName)

MC_Magic == <<15, 4, 12, 6>>

Kernel10 ==
  [load |-> TRUE, vaddr |-> 49 * PageSize, mem_len |-> 10, file_len |-> 10,
   f_off |-> 128, writable |-> FALSE, executable |-> TRUE]
OneImage ==
  {[ident |-> MC_Magic \o <<CLASS_64, LITTLE, 1>>, type |-> ET_EXEC,
    machine |-> EM_X86_64, entry |-> 196, phoff |-> 64, phentsize |-> 56,
    segments |-> <<Kernel10>>]}

MC_Kickstart == [addr_start |-> 4, addr_end |-> 7]

\* The kernel's file fills the rest of the identity-mapped memory.
LongModule ==
  {<<Map(<<E(0, 3, 1), E(3, 1, 2), E(4, 116, 1)>>), KernelAt(8, 15)>>}
==============================================================================
