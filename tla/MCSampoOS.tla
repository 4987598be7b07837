------------------------------ MODULE MCSampoOS ------------------------------
(***************************************************************************)
(* An instance of SampoOS for TLC: pages of 4 bytes, page tables of 8      *)
(* entries in 3 levels.  Of the 512 virtual pages the first 8 are mapped   *)
(* to themselves; the last slot of the PML4, from page 448, is the         *)
(* kernel's, and the one before it the fractal map's.                      *)
(***************************************************************************)
EXTENDS SampoOSProofs

\* An entry of a memory map: where, how long, and its Multiboot type code.
E(addr, len, type) == [addr |-> addr, len |-> len, type |-> type]
Map(entries)       == [type |-> "MMAP", entries |-> entries]
Mod(lo, hi, name)  == [type |-> "MODULE", cmdline |-> name,
                       block |-> [addr_start |-> lo, addr_end |-> hi]]
KernelAt(lo, hi)   == Mod(lo, hi, KernelName)
Framebuffer        == [type |-> "FRAMEBUFFER"]

Ordered   == Map(<<E(0, 3, 1), E(3, 1, 2), E(4, 116, 1)>>)
Shuffled  == Map(<<E(40, 85, 1), E(36, 4, 7), E(0, 34, 1), E(126, 8, 3)>>)
OneRegion == Map(<<E(4, 116, 1), E(120, 3, 4), E(124, 4, 5)>>)
Small     == Map(<<E(0, 24, 1), E(24, 2, 2)>>)

\* The PML4 is in the identity map in the first, third and fourth; above it in
\* the second.  In the third the tables and the manager fit below a large
\* segment, so that all the memory in use is in the first region; a later
\* module is the kernel; and another module is not.  Then too little memory,
\* no memory map, and no kernel.
MC_TagLists == {
  <<Ordered, KernelAt(20, 26)>>,
  <<KernelAt(12, 30), Framebuffer, Ordered>>,
  <<KernelAt(88, 96), KernelAt(48, 52), OneRegion, Mod(100, 104, "initrd")>>,
  <<Shuffled, KernelAt(20, 26)>>,
  <<Small, KernelAt(20, 22)>>,
  <<KernelAt(20, 26)>>,
  <<Ordered, Mod(20, 26, "initrd")>> }

MC_Kickstart == [addr_start |-> 4, addr_end |-> 7]

MC_Magic == <<15, 4, 12, 6>>

\* A segment that begins with a page, and a file that has its segments' headers
\* behind its own and their bytes, page-aligned, somewhere behind those.
Seg(load, vpage, mem, len, f_off, w, x) ==
  [load |-> load, vaddr |-> vpage * PageSize, mem_len |-> mem, file_len |-> len,
   f_off |-> f_off, writable |-> w, executable |-> x]
Exe(class, endianness, machine, segments) ==
  [ident |-> MC_Magic \o <<class, endianness, 1>>, type |-> ET_EXEC,
   machine |-> machine, entry |-> 1809, phoff |-> 68, phentsize |-> 56,
   segments |-> segments]
Image64(endianness, segments) == Exe(CLASS_64, endianness, EM_X86_64, segments)
I386(endianness) ==
  [Exe(CLASS_32, endianness, EM_386, <<>>) EXCEPT !.phoff = 64, !.phentsize = 32]
Tiny == Image64(LITTLE, <<>>)

\* Three kernels proper: with two page tables; with a header that is not
\* loaded, segments that share a page and one in the identity map; with a large
\* segment.  One that fills its last page table and one with an empty segment.
\* Then those Kickstart refuses: for another processor, and not executables.
MC_Images == {
  Image64(LITTLE, <<Seg(TRUE, 453, 7, 7, 304, FALSE, TRUE),
                    Seg(TRUE, 456, 4, 3, 512, TRUE, FALSE)>>),
  Image64(BIG, <<Seg(FALSE, 460, 4, 0, 68, FALSE, FALSE),
                 Seg(TRUE, 448, 5, 5, 320, FALSE, TRUE),
                 Seg(TRUE, 449, 4, 4, 328, TRUE, FALSE),
                 Seg(TRUE, 3, 4, 1, 332, TRUE, TRUE)>>),
  Image64(LITTLE, <<Seg(TRUE, 460, 31, 25, 256, FALSE, TRUE)>>),
  Image64(LITTLE, <<Seg(TRUE, 451, 14, 14, 256, TRUE, TRUE)>>),
  Image64(BIG, <<Seg(TRUE, 448, 4, 4, 256, FALSE, TRUE),
                 Seg(TRUE, 449, 0, 0, 260, TRUE, FALSE)>>),
  I386(LITTLE), I386(BIG),
  [Tiny EXCEPT !.ident[4] = 7], [Tiny EXCEPT !.ident[5] = 3],
  [Tiny EXCEPT !.ident[6] = 0], [Tiny EXCEPT !.type = 3],
  [Tiny EXCEPT !.machine = 40] }
==============================================================================
