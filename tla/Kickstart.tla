------------------------------ MODULE Kickstart ------------------------------
(***************************************************************************)
(* The boot of the kernel: kickstart_main with the pager and the ELF       *)
(* loader.  It reads the boot loader's tags, enters the firmware's memory  *)
(* map, finds the kernel's file, reserves the memory it runs in and the    *)
(* file, builds the page tables, loads and maps the kernel's segments, and *)
(* enters the kernel; or it halts.                                         *)
(*                                                                         *)
(* Physical addresses are byte addresses, virtual ones are page numbers.   *)
(* `tables' and `data' are what lies in physical memory: a write to a page *)
(* through one of them ends what the other says of that page.              *)
(***************************************************************************)
EXTENDS RegionTable, Elf, Powers

CONSTANTS
  TableEntries,     \* entries of a page table of any level (512)
  Levels,           \* levels of page tables (4)
  TagLists,         \* the lists of tags the boot loader may pass
  KickstartBlock,   \* the memory Kickstart itself occupies
  KernelImages      \* the kernels that may have been linked

Block    == [addr_start : Nat, addr_end : Nat]
NoModule == [addr_start |-> 0, addr_end |-> 0]

(***************************************************************************)
(* The boot loader's tags, up to the one that ends the list.  An entry of  *)
(* a memory map has the type code of the Multiboot 2 specification; other  *)
(* tags, the framebuffer's among them, are at most printed.                *)
(***************************************************************************)
KernelName == "sampo-x86_64.bin"

MapEntry  == [addr : Nat, len : Nat, type : Nat]
MapTag    == [type : {"MMAP"}, entries : Seq(MapEntry)]
ModuleTag == [type : {"MODULE"}, block : Block, cmdline : STRING]
OtherTag  == [type : {"FRAMEBUFFER", "OTHER"}]
Tag       == MapTag \cup ModuleTag \cup OtherTag

ASSUME KickstartAssumption ==
  /\ {TableEntries, Levels} \subseteq Nat \ {0, 1}
  /\ KickstartBlock \in Block
  /\ KernelImages \subseteq Image
  /\ TagLists \subseteq Seq(Tag)

VARIABLES
  step,                \* where kickstart_main is
  tags,                \* the tags not yet read
  module,              \* where the kernel's file is
  image, file,         \* the kernel, and the bytes of its file; never written
  header,              \* what elf_initialize has read
  longmode,            \* whether the processor has 64-bit mode
  memory_regions,
  top_page_structure,  \* the PML4; 0 is NULL
  tables,              \* page address -> [index -> entry]
  data,                \* page address -> the offset in the file of what it holds
  i,                   \* the program header being loaded, from 1
  segment_region,      \* where the current segment is loaded; 0 between segments
  mapped               \* the pages of the current segment already mapped

inputs == <<image, file, longmode>>

vars == <<step, tags, module, inputs, header, memory_regions,
          top_page_structure, tables, data, i, segment_region, mapped>>

Steps == {"start", "tags", "reserve", "parse", "pager", "expand", "entered", "halted"}

\* Every entry that is written has its present bit; one never written is zero.
Entry(p, writable, executable) ==
  [present |-> TRUE, addr |-> p, writable |-> writable,
   executable |-> executable]
ZeroEntry == [present |-> FALSE, addr |-> 0, writable |-> FALSE,
              executable |-> FALSE]
Link(p)   == Entry(p, TRUE, TRUE)

\* The last entry of a new table is not cleared.
MistakenZeroTable == [n \in 0..(TableEntries - 2) |-> ZeroEntry]

ZeroTable == [n \in 0..(TableEntries - 1) |-> ZeroEntry]

IdentityPages == TableEntries  \* the first 2 MiB

------------------------------------------------------------------------------
(***************************************************************************)
(* map_page: walk down from the PML4, allocating each table that is        *)
(* missing, and write the last level's entry unless there is one already.  *)
(* A failed allocation is not noticed: the table is put at address 0.      *)
(***************************************************************************)
TableIndex(vpage, level) ==
  (vpage \div Power(TableEntries, Levels - 1 - level)) % TableEntries

Put(f, a, b) == [x \in DOMAIN f \cup {a} |-> IF x = a THEN b ELSE f[x]]
Drop(f, pages) == [x \in DOMAIN f \ pages |-> f[x]]

\* The page for a new table is not taken out of the free memory.
MistakenDescend(w, index) ==
  LET ret     == allocate_region(w.regions, 1, "ALLOCATED").ret
      cleared == Put(w.tables, ret, ZeroTable)
  IN  IF w.tables[w.at][index].present
        THEN [w EXCEPT !.at = w.tables[w.at][index].addr]
        ELSE [w EXCEPT !.at = ret, !.data = Drop(w.data, {ret}),
                       !.tables = [cleared EXCEPT ![w.at][index] = Link(ret)]]

\* One level down: w is the memory and the table the walk has reached.
Descend(w, index) ==
  LET call    == allocate_region(w.regions, 1, "ALLOCATED")
      cleared == Put(w.tables, call.ret, ZeroTable)
  IN  IF w.tables[w.at][index].present
        THEN [w EXCEPT !.at = w.tables[w.at][index].addr]
        ELSE [regions |-> call.table,
              at      |-> call.ret,
              data    |-> Drop(w.data, {call.ret}),
              tables  |-> [cleared EXCEPT ![w.at][index] = Link(call.ret)]]

Walk(w, vpage) ==
  LET level[l \in 0..(Levels - 1)] ==
        IF l = 0 THEN [w EXCEPT !.at = top_page_structure]
        ELSE Descend(level[l - 1], TableIndex(vpage, l - 1))
  IN  level[Levels - 1]

\* An entry that is there already is replaced.
MistakenMapPage(w, phys, vpage, writable, executable) ==
  LET last  == Walk(w, vpage)
      index == TableIndex(vpage, Levels - 1)
      entry == Entry(phys, writable, executable)
  IN  [last EXCEPT !.tables[last.at][index] = entry]

map_page(w, phys, vpage, writable, executable) ==
  LET last  == Walk(w, vpage)
      index == TableIndex(vpage, Levels - 1)
      entry == Entry(phys, writable, executable)
  IN  IF last.tables[last.at][index].present THEN last
      ELSE [last EXCEPT !.tables[last.at][index] = entry]

Memory == [regions |-> memory_regions, tables |-> tables, data |-> data,
           at |-> 0]

SetMemory(w) ==
  /\ memory_regions' = w.regions
  /\ tables' = w.tables
  /\ data' = w.data

------------------------------------------------------------------------------
Init ==
  /\ step = "start"
  /\ tags \in TagLists
  /\ module = NoModule
  /\ image \in KernelImages
  /\ file = Encoded(image)
  /\ header = NoHeader
  /\ longmode \in BOOLEAN
  /\ memory_regions = <<>>
  /\ top_page_structure = 0
  /\ tables = <<>>
  /\ data = <<>>
  /\ i = 1
  /\ segment_region = 0
  /\ mapped = 0

\* The boot loader's magic number and the serial port's self-test: either may
\* be wrong, and then Kickstart returns.
Start ==
  /\ step = "start"
  /\ step' \in {"tags", "halted"}
  /\ UNCHANGED <<tags, module, inputs, header, memory_regions,
                 top_page_structure, tables, data, i, segment_region, mapped>>

\* The switch on an entry's type: a code that is not known is reserved memory.
RegionTypeOf(code) ==
  CASE code = 1 -> "AVAILABLE"
    [] code = 3 -> "RECLAIMABLE"
    [] code = 4 -> "NVS"
    [] code = 5 -> "BAD_MEM"
    [] OTHER    -> "RESERVED"

FirmwareRegion(entry) ==
  Region(entry.addr, entry.addr + entry.len, RegionTypeOf(entry.type))

\* The loop over the entries of a memory map.
Entered(t, entries) ==
  LET table[e \in 0..Len(entries)] ==
        IF e = 0 THEN t ELSE add_region(table[e - 1], FirmwareRegion(entries[e]))
  IN  table[Len(entries)]

\* The loop over the tags.
ReadTag ==
  /\ step = "tags"
  /\ tags # <<>>
  /\ tags' = Tail(tags)

EnterMap ==
  /\ ReadTag
  /\ Head(tags).type = "MMAP"
  /\ memory_regions' = Entered(memory_regions, Head(tags).entries)
  /\ UNCHANGED <<step, module, inputs, header, top_page_structure, tables,
                 data, i, segment_region, mapped>>

\* The module named as the kernel; of several the last.
FindKernel ==
  /\ ReadTag
  /\ Head(tags).type = "MODULE"
  /\ module' = IF Head(tags).cmdline = KernelName
                 THEN Head(tags).block ELSE module
  /\ UNCHANGED <<step, inputs, header, memory_regions, top_page_structure,
                 tables, data, i, segment_region, mapped>>

SkipTag ==
  /\ ReadTag
  /\ Head(tags).type \notin {"MMAP", "MODULE"}
  /\ UNCHANGED <<step, module, inputs, header, memory_regions,
                 top_page_structure, tables, data, i, segment_region, mapped>>

CheckTags ==
  /\ step = "tags"
  /\ tags = <<>>
  /\ step' = IF module = NoModule \/ memory_regions = <<>>
               THEN "halted" ELSE "reserve"
  /\ UNCHANGED <<tags, module, inputs, header, memory_regions,
                 top_page_structure, tables, data, i, segment_region, mapped>>

\* Kickstart's memory is reserved, the kernel's file is not.
MistakenReserveBlocks ==
  /\ step = "reserve"
  /\ memory_regions' = reserve_memory_region(memory_regions, KickstartBlock)
  /\ step' = "parse"
  /\ UNCHANGED <<tags, module, inputs, header, top_page_structure, tables,
                 data, i, segment_region, mapped>>

ReserveBlocks ==
  /\ step = "reserve"
  /\ memory_regions' =
       reserve_memory_region(
         reserve_memory_region(memory_regions, KickstartBlock), module)
  /\ step' = "parse"
  /\ UNCHANGED <<tags, module, inputs, header, top_page_structure, tables,
                 data, i, segment_region, mapped>>

\* elf_initialize and the test for a 64-bit processor.
ParseKernel ==
  /\ step = "parse"
  /\ header' = elf_initialize(file)
  /\ step' = IF ~header'.valid \/ (header'.arch = "AMD64" /\ ~longmode)
               THEN "halted" ELSE "pager"
  /\ UNCHANGED <<tags, module, inputs, memory_regions, top_page_structure,
                 tables, data, i, segment_region, mapped>>

\* initialize_pager: one allocation holds a table of each level, linked from
\* the PML4 down; the last maps the first pages of memory to themselves.
BootstrapTables(pml4) ==
  LET level(p) == (p - pml4) \div PageSize
  IN  [p \in {pml4 + l * PageSize : l \in 0..(Levels - 1)} |->
         IF level(p) = Levels - 1
           THEN [n \in 0..(TableEntries - 1) |-> Link(n * PageSize)]
           ELSE [ZeroTable EXCEPT ![0] = Link(p + PageSize)]]

InitializePager ==
  LET call == allocate_region(memory_regions, Levels, "ALLOCATED")
  IN  /\ step = "pager"
      /\ IF header.arch = "X86"
           THEN /\ step' = "halted"
                /\ UNCHANGED <<memory_regions, top_page_structure, tables>>
           ELSE /\ memory_regions' = call.table
                /\ top_page_structure' = call.ret
                /\ tables' = IF call.ret = 0 THEN tables
                             ELSE BootstrapTables(call.ret)
                /\ step' = IF call.ret = 0 THEN "halted" ELSE "expand"
      /\ UNCHANGED <<tags, module, inputs, header, data, i, segment_region,
                     mapped>>

\* elf_expand, for one program header: allocate and clear, then map page by
\* page, then copy what the file holds.
segment == program_header(file, header, i - 1)

pages_needed ==
  (segment.mem_len \div PageSize + IF segment.mem_len % PageSize # 0 THEN 1 ELSE 0)
    % PtrSpan

\* The same program header is read again.
MistakenNextHeader == i

NextHeader == i + 1

Loading ==
  /\ step = "expand"
  /\ i <= header.prog_header_count

SkipSegment ==
  /\ Loading
  /\ ~segment.load
  /\ i' = NextHeader
  /\ UNCHANGED <<step, tags, module, inputs, header, memory_regions,
                 top_page_structure, tables, data, segment_region, mapped>>

AllocateSegment ==
  LET call  == allocate_region(memory_regions, pages_needed, "KERNEL")
      pages == {call.ret + k * PageSize : k \in 0..(pages_needed - 1)}
  IN  /\ Loading
      /\ segment.load
      /\ segment_region = 0
      /\ memory_regions' = call.table
      /\ segment_region' = call.ret
      /\ IF call.ret = 0
           THEN step' = "halted" /\ UNCHANGED <<tables, data>>
           ELSE /\ tables' = Drop(tables, pages)
                /\ data' = Drop(data, pages)
                /\ UNCHANGED step
      /\ UNCHANGED <<tags, module, inputs, header, top_page_structure, i,
                     mapped>>

MapSegmentPage ==
  /\ Loading
  /\ segment_region # 0
  /\ mapped < pages_needed
  /\ SetMemory(map_page(Memory, segment_region + mapped * PageSize,
                        segment.vaddr \div PageSize + mapped, segment.writable,
                        segment.executable))
  /\ mapped' = mapped + 1
  /\ UNCHANGED <<step, tags, module, inputs, header, top_page_structure, i,
                 segment_region>>

\* Only whole pages of the file are copied.
MistakenFilePages == 0..(segment.file_len \div PageSize - 1)

\* The pages of the segment that hold bytes of the file.
FilePages == 0..((segment.file_len + PageSize - 1) \div PageSize - 1)

CopySegment ==
  LET pages == {segment_region + k * PageSize : k \in FilePages}
  IN  /\ Loading
      /\ segment_region # 0
      /\ mapped = pages_needed
      /\ data' = [p \in DOMAIN data \cup pages |->
                    IF p \in pages THEN segment.f_off + (p - segment_region)
                    ELSE data[p]]
      /\ tables' = Drop(tables, pages)
      /\ i' = NextHeader
      /\ segment_region' = 0
      /\ mapped' = 0
      /\ UNCHANGED <<step, tags, module, inputs, header, memory_regions,
                     top_page_structure>>

\* Fill bootinfo, switch to 64-bit mode and jump.  Only the table and the
\* PML4's address are handed over; the switch itself is assembly.
EnterKernel ==
  /\ step = "expand"
  /\ i > header.prog_header_count
  /\ step' = "entered"
  /\ UNCHANGED <<tags, module, inputs, header, memory_regions,
                 top_page_structure, tables, data, i, segment_region, mapped>>

\* The kernel runs, or the processor is halted for good.
Stopped ==
  /\ step \in {"entered", "halted"}
  /\ UNCHANGED vars

Next ==
  \/ Start
  \/ EnterMap
  \/ FindKernel
  \/ SkipTag
  \/ CheckTags
  \/ ReserveBlocks
  \/ ParseKernel
  \/ InitializePager
  \/ SkipSegment
  \/ AllocateSegment
  \/ MapSegmentPage
  \/ CopySegment
  \/ EnterKernel
  \/ Stopped

Spec == Init /\ [][Next]_vars

------------------------------------------------------------------------------
\* Every variable has its type; every page table has all its entries.
TypeOK ==
  /\ step \in Steps
  /\ tags \in Seq(Tag)
  /\ module \in Block /\ image \in Image /\ longmode \in BOOLEAN
  /\ header.valid \in BOOLEAN
  /\ memory_regions \in Seq(Regions)
  /\ {top_page_structure, i, segment_region, mapped} \subseteq Nat
  /\ \A p \in DOMAIN tables : tables[p] \in
       [0..(TableEntries - 1) -> [present : BOOLEAN, addr : Nat,
                                  writable : BOOLEAN, executable : BOOLEAN]]
  /\ \A p \in DOMAIN data : data[p] \in Nat

PagerReady == top_page_structure # 0

\* The entry the processor finds for a virtual page in the table at a level,
\* or, for level Levels, the one that maps the page.  A page that is not a
\* table has no entries.
EntryAt(vpage, level) ==
  LET entry[l \in 0..Levels] ==
        IF l = 0 THEN Link(top_page_structure)
        ELSE IF ~entry[l - 1].present \/ entry[l - 1].addr \notin DOMAIN tables
               THEN ZeroEntry
        ELSE tables[entry[l - 1].addr][TableIndex(vpage, l - 1)]
  IN  entry[level]

Translate(vpage) == EntryAt(vpage, Levels)

VirtualPages == 0..(Power(TableEntries, Levels) - 1)

\* Segment s of the kernel occupies these virtual pages.
Spanned(s) ==
  LET seg == image.segments[s]
  IN  IF ~seg.load THEN {}
      ELSE {(seg.vaddr + n) \div PageSize : n \in 0..(seg.mem_len - 1)}

\* What is read of an executable is what was linked: of either class and byte
\* order the header's fields, and of a 64-bit one every program header; and no
\* other file is taken for one (elf.c:133-220, 245-280).
FileUnderstood ==
  header.valid =>
    /\ image.type = ET_EXEC
    /\ \A k \in 1..4 : image.ident[k] = ElfMagic[k]
    /\ (header.arch = "AMD64") = (image.machine = EM_X86_64)
    /\ header.entry_point = image.entry
    /\ header.prog_header_offset = image.phoff
    /\ header.prog_header_len = image.phentsize
    /\ header.prog_header_count = Len(image.segments)
    /\ header.class = CLASS_64 =>
         \A s \in DOMAIN image.segments :
           program_header(file, header, s - 1) = image.segments[s]

\* A virtual page is mapped to the memory its place in segment s asks for.
ShowsSegment(vpage, s) ==
  LET seg   == image.segments[s]
      entry == Translate(vpage)
      at    == vpage * PageSize - seg.vaddr
  IN  /\ entry.present
      /\ entry.writable = seg.writable /\ entry.executable = seg.executable
      /\ entry.addr \notin DOMAIN tables
      /\ IF at < seg.file_len
           THEN entry.addr \in DOMAIN data /\ data[entry.addr] = seg.f_off + at
           ELSE entry.addr \notin DOMAIN data

\* The kernel is entered in the address space its file asks for, on top of the
\* identity map of low memory.  A virtual page belongs to the first segment
\* that spans it, and shows the file's bytes where there are any and a cleared
\* page elsewhere, with the segment's permissions (elf.c:286-318).
AddressSpace ==
  step = "entered" =>
    /\ \A v \in 0..(IdentityPages - 1) : Translate(v) = Link(v * PageSize)
    /\ \A s \in DOMAIN image.segments : \A v \in Spanned(s) :
         v < IdentityPages \/ (\E r \in 1..(s - 1) : v \in Spanned(r))
           \/ ShowsSegment(v, s)

\* The page at p is inside an entry of that type.
Within(p, type) ==
  \E k \in DOMAIN memory_regions :
    /\ memory_regions[k].type = type
    /\ memory_regions[k].addr_start <= p
    /\ p + PageSize <= memory_regions[k].addr_end

IdentityTable == top_page_structure + (Levels - 1) * PageSize

LinksTo(p) ==
  {link \in (DOMAIN tables \ {IdentityTable}) \X (0..(TableEntries - 1)) :
     /\ tables[link[1]][link[2]].present
     /\ tables[link[1]][link[2]].addr = p}

\* Page tables lie in memory the table of regions calls allocated and segments
\* in memory it calls the kernel's; no page holds both; every table is linked
\* from one entry of another, and the PML4 at most from itself.
TablesOwned ==
  /\ DOMAIN tables \cap DOMAIN data = {}
  /\ \A p \in DOMAIN data : Within(p, "KERNEL")
  /\ \A p \in DOMAIN tables :
       /\ Within(p, "ALLOCATED")
       /\ IF p = top_page_structure
            THEN \A link \in LinksTo(p) : link[1] = p
            ELSE Cardinality(LinksTo(p)) = 1

\* From the reservation on, no byte of Kickstart or of the kernel's file is in
\* available memory: page tables, segments and, later, the kernel's own pages
\* never lie over them (main.c:148-151).
InUseNotAvailable ==
  step \notin {"start", "tags", "reserve", "halted"} =>
    \A k \in DOMAIN memory_regions :
      memory_regions[k].type = "AVAILABLE" =>
        Apart(memory_regions[k], KickstartBlock) /\ Apart(memory_regions[k], module)

\* A page that is mapped stays mapped to the same memory, whatever is loaded
\* after it (pager.c:126-135).
MappingsStay ==
  [][PagerReady => \A v \in VirtualPages :
       Translate(v).present => Translate(v)' = Translate(v)]_vars

\* How far the boot has come.
Stage == CASE step = "start"  -> 0 [] step = "tags"    -> 1
           [] step = "reserve" -> 2 [] step = "parse"  -> 3
           [] step = "pager"  -> 4 [] step = "expand"  -> 5
           [] OTHER           -> 6

\* The boot cannot go round in circles: each step enters a later stage, or reads
\* a tag, or moves on to the next program header, or allocates or
\* maps more of the current one, which is finite.  As the boot only stops where
\* the kernel is entered or Kickstart halts, it ends there; what changes memory
\* from then on is the kernel.
Advances ==
  [][\/ step = "entered"
     \/ Stage' > Stage
     \/ Stage' = Stage /\ Len(tags') < Len(tags)
     \/ i < i' /\ i' <= header.prog_header_count + 1
     \/ i' = i /\ segment_region = 0 /\ segment_region' # 0
     \/ i' = i /\ mapped < mapped' /\ mapped' <= pages_needed]_vars

\* The kernel reads and extends the PML4 through the identity map of the first
\* 2 MiB (memory-manager.c:79-84), so that is where it has to be.
PmlReachable ==
  step = "entered" => top_page_structure < IdentityPages * PageSize
==============================================================================
