# A verification project for SampoOS

SampoOS boots in two programs.  *Kickstart* (`Kickstart/Multiboot/`, 32-bit) is
started by a Multiboot 2 boot loader, takes stock of physical memory, builds
page tables, loads the kernel's ELF file and jumps to it in 64-bit mode.  The
*kernel* (`Kernel/`, x86-64) at this commit sets up its memory manager and
halts.  Both are sequential: no interrupt, thread or callback runs, and nothing
is persistent.  The only thing beside the processor is the serial port's
controller.  What makes the programs hard is a table of memory regions, kept by
hand in one array, that every later stage trusts; two walks over that table that
have to agree; page tables that one program builds and the other edits through
themselves; and calls whose failure is silent.

Paths below are relative to `src/`; `pmm.c`, `main.c`, `pager.c`, `elf.c`,
`serial.c` and `util.h` are in `Kickstart/Multiboot/`, `memory-manager.c` is in
`Kernel/Arch/x86_64/`; `string.c` is in both programs.

## 1. Inventory

| Part | State | Operations | What makes it correct |
|---|---|---|---|
| Kickstart's physical memory manager (`pmm.c`) | `memory_regions[]`, `memory_region_count` | add a firmware entry, reserve a block, allocate, deallocate; each sorts and drops empty entries | no address has two types; allocations that are held are disjoint, recorded and above 1 MiB; memory in use is never handed out; the table stays sorted and without empty entries, since first fit, freeing and merging rest on it |
| Pager (`pager.c`) | the PML4 and the tables below it, in physical memory | build the bootstrap tables with the identity map of 2 MiB; map a page, allocating missing tables | tables lie in memory of their own, each linked once; a mapping once made stays |
| ELF loader (`elf.c`) | the parsed header; the segments in physical memory | parse the header; allocate, clear, map and copy each loadable segment | the kernel finds the bytes, zeros and permissions its file asks for |
| Boot sequence (`main.c`) | which stage it is in; where the kernel's file is | loop over the boot loader's tags, checks, reservations, then the parts above in order | reservations before allocations; it ends in the kernel or halted |
| Boot information (`bootinfo.h`) | pointers to the table and the PML4 | filled once, read by the kernel | the kernel can reach what it points to |
| Kernel memory manager (`memory-manager.c`) | `physmap[]`, the bitmap, `kernel_end_addr`, the fractal map of the page tables | count, place, map, clear, fill, mark | the two walks agree; slices of the bitmap are disjoint; the pages it takes are free; every page in use is marked |
| Entry code (`boot.asm`, `enter_64bit.asm`, `start.asm`) | registers | mode switch, halt loops | - |
| Serial console (`serial.c`) | the controller's registers and buffers | set up and self-test; put a character; write a string; formatted printing | what is printed reaches the line, all of it, in order, in the right format; the test byte does not |
| String functions (`string.c`), readers (`util.h`) | none | write, compare, measure memory; read numbers of either byte order | they do what their names promise, inside the bytes they are given |

The parts interact by direct calls and by shared memory.  `kickstart_main` calls
the memory manager for each firmware entry and each reservation; the pager and
the loader allocate from it, and the loader calls the pager for each page.  The
kernel reads Kickstart's table and PML4 in place, through the identity map, and
the page tables through an entry of the PML4 that points at the PML4.

The hard behaviours, each with its line and the properties that would catch it,
are the `hazards` of `PROJECT.json`.  Most are of four kinds: sequences of legal
calls on the table (carve, allocate, free, merge, sort); checks that do not hold
when they are used (containment in *one* entry, the first physmap entry, a NULL
that is an address); partial failure that nobody notices; boundary values of
rounding and of 32-bit arithmetic.  The console adds the one interleaving, of the
processor with the controller.

## 2. Modules

| Module | Models | |
|---|---|---|
| `RegionTable` | every function of `pmm.c` as an operator from table to table | pure; used by all others |
| `Pmm` | the memory manager with its callers as a state machine | one action for each function |
| `PhysMem` | what a physical memory manager promises, with no table | abstract specification; `Pmm` implements it |
| `Elf` | the readers of `util.h`, the parsing half of `elf.c`; the layout of an ELF file | pure; used by `Kickstart` |
| `Kickstart` | `main.c`, `pager.c`, the loading half of `elf.c` | one action for each tag, stage, table page and segment step |
| `MemoryManager` | `init_memory_manager` and what it calls | one action for each loop iteration |
| `SampoOS` | both programs, one after the other, on one physical memory | extends `Kickstart`; implements `MemoryManager` |
| `Strings` | `string.c` | one action for each byte a function handles |
| `Console` | `serial.c` and the controller | the processor's and the controller's actions interleave |
| `Powers` | powers of a base, as a recursive function | pure; used by `Console`, `Kickstart` and `SampoOS` |
| `LoopProofs` | lemmas on loops, least elements and induction, without operator parameters | section 5 |
| `RegionTableProofs` | what `RegionTable`'s operators keep of a table: entries apart; order and contents | section 5 |
| `PmmProofs` | theorems about `Pmm`: who holds what; order, contents, the refinement of `PhysMem` | section 5 |
| `KickstartProofs` | theorems about `Kickstart`: the table, the page tables and the mappings during the boot | section 5 |
| `SampoOSProofs` | theorems about `SampoOS`: what the kernel's manager finds, takes and leaves | section 5 |
| `MemoryManagerProofs`, `StringsProofs` | theorems about `MemoryManager` and `Strings` | section 5 |
| `ConsoleProofs` | theorems about `Console`: the controller's set-up, the self-test, formats and numbers, the line | section 5 |
| `MCPmm`, `MCMemoryManager`, `MCSampoOS`, `MCStrings`, `MCConsole` | instances for TLC; all but `MCStrings` extend the proof modules, so that TLC evaluates what the proofs assume | section 3 |
| `MCPmmGaps`, `MCKickstart`, `MCMemoryManagerGaps` | instances on which the code does not do what its comments say | section 3 |
| `MCBootTables` | Kickstart's operations applied to a memory map, for the instances of `MemoryManager` | section 3 |

**RegionTable.**  The array and its count are a sequence; an entry is a record
with the C fields.  The bubble sort is written as the code does it, pass by pass,
because what it does with empty entries is not what a sort does.  `reserve`,
`allocate` and `deallocate` include their early returns and the trailing
`pmm_sort_regions`.  32-bit values are taken modulo `PtrSpan` where the code
truncates (`pmm.c:64`, `153`, `184`); addresses that are 64 bits wide in the code
are natural numbers.  Loops are recursive functions over their index, so that
they can be reasoned about.

**Pmm.**  `memory_regions` is the table, `mmap` the firmware entries still to be
entered.  Three variables are not in the code and record what the callers may
assume: `reserved` (blocks the boot code has reserved), `granted` (what
each holder of an allocation believes it owns: the pointer it got and the size it
asked for), `serving` (reservations come before the first allocation, as in
`kickstart_main`).  At this commit no caller frees memory; `pmm_deallocate` is
nevertheless part of the interface `pmm.h` offers, and is an action.

**PhysMem.**  Each address has one owner.  Memory may be reported, claimed from
available memory, or released from reserved to available memory; nothing else.
`Pmm!RefinesPhysMem` maps an address to the type of the entry that covers it.

**Elf.**  A file is a function from offsets to bytes.  `elf_initialize` and
`program_header` read each field at the offset the widths of the reads before it
add up to, as the code's `offset` does.  Beside them, `Encoded` lays a linked
image out by the ELF specification, field by field at fixed offsets; it is what
the files of the instances are made with, and is not derived from the reader.

**Kickstart.**  The boot loader's tags are a sequence; the loop reads one at a
step, and a memory map with all its entries.  Physical memory is two functions
from page addresses: `tables` (the page tables) and `data` (which offset of the
file a page's bytes are from).  Writing a page one way ends what the other says of
it, so a table that lands in a segment is seen.  `image` is what was linked and
`file` its bytes; the actions look at `file` and `header` only, the properties
compare with `image`.  `Levels` and `TableEntries` stand for 4 and 512.
The walk of `map_page` is the same step repeated, `Descend`, which allocates and
clears a missing table and does not look at whether it got one.

**MemoryManager.**  `regions` is the table in `bootinfo`; `i` the index of the
current loop, counted from 1, which the inner loop of the code moves as well
(`NextRun`).  `ptes` is what the kernel sees through the fractal map, by virtual
page; `busy` the bits that are set, by their distance from the bitmap's start;
`physmap` the array.  A fault is a state of its own, and so is the NULL that
`virt_map_pages_kernel_end` returns (`memory-manager.c:412-416, 434-439`) and its
caller does not test: the caller goes on to clear memory through it, of which
nothing is said.  With a missing page table either may come, since `ptes` does not
tell at which level the table is missing.

**SampoOS.**  `Boot` is a step of `Kickstart`; when the kernel has been entered,
`StartKernel` writes the PML4's entry for itself, into whatever page is mapped at the
PML4's physical address (a fault if none is), and from then on the kernel's
steps read and write Kickstart's `tables` where a translation of the fractal map's
addresses leads them (`FractalBase` and `FractalPage` are the four bases and the
four shifts of `memory-manager.c:26-62`); `Outcome` is what the tests of a turn of the
mapping loop come to: a fault, NULL, or room.  `Kernel` is an instance of
`MemoryManager` in which `ptes` is not a variable but what the page tables say
outside the fractal map (`KernelPtes`), and the boot table is the one Kickstart
has left.  The steps that do not touch page tables are `MemoryManager`'s own; for
the others `ImplementsManager` says that they come to the same.

**Strings.**  `memory` is all the memory there is, pointers are indices into it.
`call` is the call in progress, `i` its index, `before` a copy of the memory from
when it was called, which only the properties read.  `Legal` is what the C
standard asks of a caller: arrays of `count` bytes, `memcpy`'s apart, strings with
an end.

**Console.**  `uart` holds the controller's registers, its two buffers, the
register a byte is shifted out of, and, as a record for the properties, `line`.
`outb` tells what a write to each port does, the banking of ports 0 and 1 by the
divisor's access bit included.  `SetUp` is a write of `serial_init` for each step;
the self-test reads the receiver once, with or without an answer in it; the wait
in `serial_putchar` is its guard.  A call is given as the pieces its caller means
to print: `FormatOf` and `ArgsOf` turn them into the format and the arguments the
code sees, `Says` into the text that should come out.  `itoa` is the loop of
`serial.c:55-101` as a function on the number of digits printed; it ends within
`MaxDigits`, twice the hexadecimal digits of an int, and `Numeral`, which `Says` is
made with, gives each digit by its place and does not follow the loop.  `Ours` says
which of the line's bytes may be the program's: all, or all behind the one byte
the boot loader may have left to be sent.

Operators named `Mistaken...` stand before the definition they vary by one
plausible slip.  No specification uses them; they document which slip each
property tells from the code.

## 3. Runs and bounds

Five runs check the system and must find nothing; seven show where the code does
something else than its comments say.

`pmm_boot` (`MCPmm`): pages of 4 bytes, "1 MiB" at 8, 64 pointer values.  Three
memory maps: in order, out of order, and with fragments that round to entries of
no or of negative length.  Two blocks, one at the start of an entry and one in
its middle; requests of 0, 1 and 2 pages; deallocation at an allocation, at
available memory, at a reserved entry, and at an address that is not aligned and
above all entries.  An entry is carved in each of the three ways, exhausted,
freed and merged, and requests fail for lack of room.  Nothing bounds the number
of calls: memory runs out.  The properties:

- `TableApart`, `TableInOrder`: no address in two entries; ascending, none empty.
- `GrantsExclusive`, `GrantsRecorded`, `ReservedProtected`: what callers hold is
  disjoint, is in the table with their bounds, and is not memory in use.
- `ReportsKept`: entering a firmware entry loses none that was there.
- `FreeingCoalesces`: after a deallocation that changed something no two
  available entries touch.
- `RefinesPhysMem`: every step is one of `PhysMem` or changes no owner.
- `PmmInv`: the inductive invariant of section 5, `IInv` and `OrderInv` together.

`memman` (`MCMemoryManager`): pages of 4 bytes, 4 bits in a byte, so that a page
of bitmap stands for 16 pages; bitmaps of two and of three pages occur, and so do
the endings without room, in a fault and with a NULL.  The
boot tables are *computed* with Kickstart's operators from five maps (holes,
adjacent entries, unaligned reclaimable memory, low memory) with different
reservations, page tables and segment sizes.  The properties relate the walks:
`BitmapSized` (the first walk counts a bit for each page, and wastes less than a
byte for each region), `FillingFits` and `SlicesApart` (the second stays in what
the first sized), `PhysmapCovers` (no entry lost, split or duplicated),
`ManagerPlaced` (the pages it takes are free; that they appear in order behind the
kernel is proved, and in `boot` part of `ManagerApart`), `MarkedExactly` (the bits of the pages in use, and no
other), `Finishes`.  `MarkedExactly` is stated for tables whose pages in use all lie
in the first physmap entry; what happens otherwise is the run `memman_marks`.

`boot` (`MCSampoOS`): both programs.  Page tables of 8 entries in 3 levels, 512
virtual pages of 4 bytes of which 8 are identity-mapped; slot 6 of the PML4 is
the fractal map's and slot 7 the kernel's.  Seven lists of tags: the map before
and after the kernel's module, out of order, with too little memory, with no map,
with no kernel, with two modules named as the kernel, with a framebuffer.  Twelve
files: kernels of both byte orders with two page tables, with segments that share
a page, reach into the identity map, are not loaded, have a cleared tail, fill
their last page table, or are empty; 32-bit files; and files with a wrong magic
number, class, byte order, type or machine.  With and without 64-bit mode.  Every
ending occurs: Kickstart halting at each of its tests, the kernel's manager done,
the PML4 out of the identity map (`StartKernel` faults), a missing page table
(`KernelMapPage` faults).  The NULL is the one ending that does not occur,
which is what `NothingBehind` says.

- `FileUnderstood`: what the parser makes of a file is what was linked.
- `AddressSpace` is the loader's promise as a whole; `TablesOwned`,
  `InUseNotAvailable` and `MappingsStay` say that memory is not used twice on the
  way, by the kernel's manager either.
- `NothingBehind`: from the kernel's start on no page behind its end is mapped, and the
  PML4 has the entry for it, so that mapping the manager's pages never ends in the NULL
  that is not tested for.
- `TablesVisible`: the fractal map shows every page table at the address the code
  computes for it, and nothing where there is none.
- `ImplementsManager`: the composition's kernel steps are `MemoryManager`'s.
- `ManagerApart`: once they are mapped, the pages behind the kernel's image are the
  manager's, in order (`ManagerShown`), and hold nothing that is still needed
  (`ManagerUnshared`).
- `UsedNotFree`: what is needed is not called free when the manager has finished, as
  far as its marking works (see `memman_marks`).
- `Advances`: each step of Kickstart makes progress, so that the boot ends.

`strings` (`MCStrings`): five bytes of three values, all memories and all legal
calls: every overlap of arrays up to five bytes in both directions, every pair of
strings, -1 as the byte to set.  `WritesExactly` compares the whole memory
afterwards, `ComparesExactly` results, `ReadsInside` each index on the way, and
`Returns` says that calls end.  One call from every memory is every sequence of
calls, as nothing else is kept.  `ComparesExactly` leaves out one case
(`EndsEarly`): `strncmp` on equal, non-empty strings that end before `count`, which
goes on behind their ends because `string.c:103` looks at the first character.

`console` (`MCConsole`): ints of two hexadecimal digits, buffers of two bytes; the
divisor's access, the loopback and the divisor in either state at the start, with
or without a byte the boot loader left to be sent and one received.  Five scripts
cover every conversion, the numbers at the ends of their types, 64-bit numbers
with zeros in front of the low word, `%%`, unknown conversions, a format ending in
`%`, empty strings and text with `%` given to `serial_write`.  `LineSays` and
`AllSaid` are about what arrives, `TestByteConsumed` about the race of the
self-test, `Configured` about the order of the set-up.  `%u` is used below 2^31,
as by the callers; above, it prints a negative number.

| Violation run | Shows |
|---|---|
| `pmm_fragment` | a fragment reported after a higher region makes the table lose a valid entry |
| `pmm_split` | a block across two adjacent available entries is not reserved, and is handed out |
| `pmm_pointer` | at 4 GiB the returned pointer is NULL, and the table is left changed and unsorted |
| `pmm_free` | memory that was allocated is not freed by `pmm_deallocate` |
| `memman_marks` | unless all memory in use is in the first entry, pages in use are not marked |
| `memman_fragment` | an entry of negative length makes the bitmap's size wrap around |
| `boot_identity` | the PML4 may lie outside the memory that is identity-mapped for the kernel |

Each is on an instance of its own, so that the passing runs keep checking the
property where the code does what its comment says.  `PROJECT.json` quotes the
comments.

*Why these bounds are enough.*  Sizes are scaled, not cut: a page has several
bytes, so alignment matters; an entry has several pages; a page of bitmap covers
fewer pages than the memory has.  Five or six entries are enough for every case of carving
and merging, which look at one entry and its neighbours; for tables of every
length there are the proofs.

## 4. Fairness

`MemoryManager` assumes weak fairness of its whole next-state relation: the
processor keeps executing the one program there is, and no step waits for
anything.  `Strings` assumes it of the function that is called, for the same
reason, and nothing of callers.  `Console` assumes it of the processor and, apart,
of the controller's transmitter, which sends whatever it holds without asking
anyone (the code sets no flow control); receiving is not fair, nothing obliges
the other side.  `serial_putchar` has no time limit, so `AllSaid` needs the
transmitter's fairness.  `Pmm` states no liveness: nothing obliges callers to call.
For `Kickstart` termination is checked as `Advances`, an action property that needs
no fairness, together with the absence of deadlock: every step but the final
stutter moves forward in a finite order.

## 5. Proofs

Every theorem holds for tables of every length and for all values of the
constants that meet the assumptions named with it.  The names in parentheses are
the properties, as the runs check them.

### The physical memory manager: who holds what (`PmmProofs`)

- `Invariance`: `Spec => []IInv`.
- `TypeCorrect`, `TableAlwaysApart`, `AllocationsExclusive` (`TypeOK`,
  `TableApart`, `GrantsExclusive`).

*Assumptions.*  `RegionTableAssumption` and `PmmAssumption` give the constants
their types.  `PmmProofAssumption` states what Kickstart relies on without
checking it: firmware entries do not overlap once rounded (`pmm.c:51` leaves
overlap to do) and end at or below 4 GiB; blocks end below the last page of that
range (otherwise `pmm.c:64` wraps); a request is less than 4 GiB (`pmm.c:153`).
They are needed.  With overlapping entries `TableApart` is false at once.  Above
4 GiB the caller's pointer is not the address in the table, and what two callers
take to be theirs can coincide; `pmm_pointer` shows the boundary case.

*The invariant.*  Neither `TableApart` nor `GrantsExclusive` is inductive.  A
firmware entry yet to come could overlap the table: `PendingClear` says it does
not.  An available entry could overlap an allocation that is held, and be handed
out next: `HeldClear` says that entries *without an owner* keep clear of what
callers hold.  Entries with an owner need not: the allocation has one of its own.

*The argument.*  A table is `Sound(t, U)` if its entries are pairwise apart and
all in `U`; for callers holding `G`, `U` is `Entries(G)`, the entries that end in
range and, if they have no owner, are apart from everything in `G`.  Both facts
of the invariant are then one.  `RegionTableProofs` shows that each operation
keeps tables sound: an exchange in the sort permutes entries; shortening drops
some; carving and allocating replace an entry by parts of it; merging is the one
step that makes an entry grow, into a neighbour it also empties (`JoinSound`).
The loops are functions on the loop index; `LoopProofs` derives from natural
number induction, used in a form without operator parameters, that such a
function exists and that what each iteration keeps, the loop keeps.

### The physical memory manager: order and contents (`PmmProofs`)

- `OrderInvariance`: `Spec => []PmmInv`, with `PmmInv == IInv /\ OrderInv`.
- `TableAlwaysInOrder`, `AllocationsRecorded`, `ReservedAlwaysProtected`,
  `ReportsAlwaysKept` (`TableInOrder`, `GrantsRecorded`, `ReservedProtected`,
  `ReportsKept`).
- `ImplementsPhysMem` (`RefinesPhysMem`): `Pmm` implements `PhysMem`.

*Assumptions.*  `PmmOrderAssumption` adds what the sort, the merging and the
carving rely on.  A firmware entry that rounds to *no* length comes after no entry
that starts above it: the sort moves an entry past an empty one that starts below
it, the empty one then lies inside the array, and the shortening drops a valid
entry in its place (`pmm_fragment`).  Where an entry of *negative* length starts,
no other entry ends and no block begins: the merging would take it for a
neighbour and cut an entry short.  Blocks are not empty and share no page, and
each lies in one available entry or apart from all (`pmm_split`).  All of it is
about what the boot loader reports and where it puts things, and none of it is
tested by the code.

*The invariant.*  `TableInOrder` is not inductive: the next firmware entry may be
one that the sort mislays (`PendingInPlace`).  Nor is `GrantsRecorded`: freeing
next to a fragment would shrink an entry (`FragmentsClear`).  Nor is
`ReservedProtected`: a block that was not found available when it was reserved
could be merged into or reported later (`BlocksSheltered`, `ReservedClear`), and a
reservation after the first allocation could carve what a caller holds
(`CallsInOrder`).

*The argument.*  `RegionTableProofs` follows the bubble sort: within a pass, the
entry carried along is not below any entry before it, except empty ones in their
place; behind the pass's limit everything is settled.  So the sort sorts, the
empty entries end up last, and the shortening drops exactly them
(`SortRegionsOrders`).  On that rest `AddRegionOrders`, `ReserveOrders`,
`AllocateOrders` and `DeallocateOrders`, which say how `Content(t)`, the set of a
table's entries, changes: an entry is added; one available entry is replaced by
its parts; one reserved entry is released and what touches it merged, no byte of
other memory moving.  The refinement is proved step by step from the same facts:
entering an entry is `PhysMem`'s `Report`, reserving and allocating a `Claim`,
freeing a `Release`, every other step a stutter; `FirstOwner` and `OneOwner` turn a
statement on contents into one on the owner of each address (`Becomes`).

### The boot (`KickstartProofs`)

- `BootInvariance`: `Spec => []BootInv`.
- `InUseNeverAvailable`, `BootAdvances` (`InUseNotAvailable`, `Advances`).
- `TablesAlwaysOwned`: `Spec => [](RoomForTables => TablesOwned)`.
- `MappingsAlwaysStay`: `Spec /\ []RoomForTables => MappingsStay`.

The theorems are about Kickstart's own steps, for page tables of every depth and
width, every list of tags and every kernel; the run `boot` checks the same four
properties with the kernel's steps behind them.

*Assumptions.*  `KickstartProofAssumption`.  About the memory map what
`PmmProofAssumption` and `PmmOrderAssumption` ask, without the part on entries of
negative length, because Kickstart never frees memory; and that there is one map,
as Multiboot has it.  Kickstart and the kernel's file share no page, each is in
one available entry or apart from all, and ends below the last page of the 32-bit
range.  The bootstrap tables are less than that range.  A segment's file bytes fit
in its memory, and its pages in 32 bits (`elf.c:286`).  Nothing is assumed of
where segments are mapped: they may share pages, also with the identity map.

*`RoomForTables`* is a hypothesis, not an assumption on constants, since it depends
on what has been allocated before.  `map_page` does not look at whether the page
for a new table could be had (`pager.c:73-116`); if not, it clears and links the
memory at address 0.  Then two slots may link the same table, which is nobody's,
and both properties can fail: a page mapped through one slot appears, or
replaces another, under the other.  The hypothesis says that no table has been put at 0;
once false it stays false.  It is needed: a table at address 0 is in no memory
that is called allocated, so where it fails `TablesOwned` does too.  On the
instance of `boot` memory for tables suffices, and the properties are checked there
as they stand; a map that ends behind the kernel's segment is enough to break them.

*The invariant.*  `BootInv` says how much of the list has been read and that the
table holds the map it came from (`Reading`); that the blocks can be reserved
(`Reserving`) and, once they are, that no entry without an owner touches them
(`Reserved`); that the header is the file's (`Parsed`); that a segment's pages lie
in one entry of the kernel's (`SegmentPlaced`); and `PagerBuilt`.  This last one is
what `TablesOwned` lacks to be inductive: that the tables are a *tree*.  With a
level for each table as a witness, a table above the last level links to tables
one level down, each but the PML4 is linked once, those of the last level map
pages of the kernel's segments, tables lie in allocated memory and segments in the
kernel's.  Without levels a table could link itself, and a write to a slot of the
last level could change the path to another page.

*The argument.*  `EnteredOrders`: the loop over the map's entries leaves a table
that is in order and has exactly the entries that are not empty, by
`AddRegionOrders` and induction on the loop.  `AllocateKeeps`: an allocation takes
memory that was available, so that what is owned stays owned, and the page it
yields is in no table and no segment.  `TreeGrows`: linking a fresh, cleared table
in an empty slot leaves a tree.  `WalkKeeps` repeats this for each level of
`map_page`, by induction on the levels: the walk ends at a table of the last level.
`TreeMaps`: writing the final slot, which was empty, leaves a tree.
`MapKeeps` puts these together, `PagerTree` shows that the bootstrap tables are a
tree at the start, and `SegmentPages` that clearing and copying stay in the
segment's entry, so that no table is overwritten.  `LookupExtends` follows a
translation level by level and finds that adding tables and filling empty slots
changes none there was.

### The whole boot (`SampoOSProofs`)

- `SystemInvariance`: `SystemSpec => []SystemInv`.
- `InUseNeverAvailableToKernel` (`InUseNotAvailable`), `SystemAdvances` (`Advances`):
  as for Kickstart alone, with the kernel's steps.
- `TablesAlwaysUsed`: `SystemSpec => []Used(tables)`.
- `MemoryStaysOwned`, `SystemTypeCorrect` (`SystemTypeOK`): under `[]RoomForTables`.
- `KernelMapsRight`, `FractalMapShowsTables` (`TablesVisible`), `ManagerHasItsPages`
  (`ManagerApart`), `SystemImplementsManager` (`ImplementsManager`): under
  `[]RoomForTables /\ []KernelInPlace`.

*Assumptions.*  Those of `KickstartProofs`, of which the loader's file offsets being
numbers is used here first.  Two hypotheses are about the behaviour.
`[]RoomForTables` is the one of the section before: nothing is claimed of the page
tables after an allocation for them has failed.  `KernelInPlace` says two things.  When
the kernel starts, no other page than the PML4 is mapped at the PML4's physical address;
else the kernel would write its entry into that page.  Such a page would be a segment
linked at that address, below 4 GiB.  And while the
kernel maps pages behind itself, the page it maps next is a page of the address
space, and not in the fractal map's slot.  The kernel tests neither; it is
linked at -2 GiB (`linker.ld`), in the last slot of the PML4 and not in the fractal
map's, with 2 GiB behind it but for the image.  Where it is violated, the kernel would
replace page tables by pages.  Both hold on the instance.

*The invariant.*  `SystemInv` is `KickstartProofs`' `BootInv` until the kernel is
entered; from then on what the kernel relies on and never writes (`Handed`: the
table is sorted, without overlap, and clear of Kickstart's and the file's blocks),
and where the kernel's walks are (`KernelTypes`): the walk that fills `physmap`
enters at most one entry for each region, and the manager's pages are the
beginning of an entry of available memory (`Placed`).  `MemoryOwned` says who owns
each page that holds a page table or a segment; it is separate because it needs
`[]RoomForTables`.  `KernelMaps` is about the page tables: they are a `Skeleton`, which is
what is left of Kickstart's tree when the PML4's entry for itself has been written
(links of all other entries lead one level down, to a table that nothing else
links), and the pages behind the image are as many of the manager's as have been
mapped, in order.

*The argument.*  Kickstart's steps keep `BootInv` by `KickstartProofs`, and the
kernel's variables stay as they are.  The kernel writes one entry of a table at a
time and its `memset` only makes pages lose their contents, so tables and
segments stay within what was owned when the kernel was entered (`TreeOwned`).
Entries of the table do not overlap; the manager's pages lie in an available one,
everything in use in one of another type or in a reserved block: they are apart.

The fractal map is a matter of digits.  In base `TableEntries` a virtual page's digits
are its indices; `FractalDigits` shows that the page `FractalPage` computes, with its
sum of bases and its shift, has the fractal map's index for its first digits and then
the first digits of the page looked for.  So the walk stays at the PML4 for as many
levels and then takes the other page's path (`TableSeen`), for any number of levels
and entries.  Outside the fractal map a walk goes down one level with each link
(`PathLevel`), pages with one last table have all digits but the last in common
(`SameTable`), and digits determine the page (`IndicesDetermine`): a write to a last
table changes one translation (`LeafWrite`).  `TreeSkeleton` shows that the kernel's
first write leaves a skeleton, whatever the slot held before.

The refinement needs one thing more: `MemoryManager` finds a page table where some page
is mapped through it, the code where a link is present.  These are the same because
no page table is ever empty (`TablesAlwaysUsed`): each is made on the way to an entry
that is then written.  `PageOfSlot` gives the page whose mapping a slot is.  What the
kernel reads in a table it sees is the next step of the walk (`SeenIsNext`), so that
the outcome of its tests says which table is missing or that the page is taken
(`OutcomeMeans`).

### The kernel's memory manager (`MemoryManagerProofs`)

- `Invariance`: `Spec => []IInv`.
- `TypeCorrect`, `EnoughBitsCounted`, `WhatIsFilledFits`, `RegionsOwnTheirBytes`,
  `NothingLostInCombining`, `ManagerInFreeMemory`, `ManagerMappedInOrder`,
  `ExactlyTheUsedPagesMarked` (`TypeOK`, `BitmapSized`, `FillingFits`,
  `SlicesApart`, `PhysmapCovers`, `ManagerPlaced`, `ManagerMapped`,
  `MarkedExactly`): all the safety properties of the run `memman`, and
  `ManagerMapped`, of which `ManagerApart` shows the outcome in `boot`.

*Assumptions.*  `MemoryManagerProofAssumption`: the boot table's entries are not
empty, in ascending order and apart, end within 64 bits, and available and
allocated memory is in whole pages, as `memory-manager.c:141-142` says.  The
first two are what `PmmProofs` shows of Kickstart's table except for entries
of negative length; with one of these `memman_fragment` shows the size of a
region wrap around.

*The invariant.*  `FillingFits` is not inductive: what has been filled may fit
and the rest not.  Both walks are therefore compared with a third, `Walk(t)`: where
a walk over table `t` is after `n` combined regions, and how many bytes of bitmap
these take.  `Counting` and `Filling` say that each is where `Walk` says;
`Placing`, `Mapping` and `Marking` say how far the later loops are.

*The argument.*  The walk goes forward and ends (`NextRun` skips to a later
entry), so both walks visit the same regions.  A region's bits, rounded up to
bytes, begin where those of the regions before it end; hence slices are apart
and the last one ends where the count did.  A physmap entry is a run of adjacent
entries of one kind, so no address is lost or claimed twice.  The first
available region that is large enough, cut at `LowMemory`, has the manager's
pages, and each mapping goes to a slot of `ptes` of its own.  Marking is exact
because the bit of a page is the page's distance from the region's start.

### The string functions (`StringsProofs`)

- `Invariance`: `Spec => []IInv`.
- `TypeCorrect`, `WritesAreExact`, `AnswersAreExact`, `ReadsStayInside` (`TypeOK`,
  `WritesExactly`, `ComparesExactly`, `ReadsInside`).

No assumption beyond the types of the constants: memory and bytes of any size.
`IInv` adds to the types and to `ComparesExactly` that calls are legal
(`CallsLegal`), which bytes have been written so far and what they hold
(`WritesSoFar`: with overlapping arrays, a byte still to be read has not been
overwritten, because the copy goes away from the overlap), and that what has been
compared so far was equal and not the end (`ReadsSoFar`).  The one case left out
is `EndsEarly`, as in the run.

### The console (`ConsoleProofs`)

- `Invariance`: `Spec => []Inv`, with `Inv == PortInv /\ TextInv`.
- `TypeCorrect`, `AlwaysConfigured`, `TestByteNeverSent`, `PrintsWhatIsMeant`
  (`TypeOK`, `Configured`, `TestByteConsumed`, `LineSays`): all the safety
  properties of the run `console`, for ints and buffers of every size and for
  every script of calls the assumption allows.

*Assumptions.*  `ConsoleAssumption` gives the constants their types, and says that
neither the byte left by the boot loader nor what the other side sends is the test
byte.  `ConsoleProofAssumption` is about the callers: a conversion gets an argument
it is made for, numbers in the range of their types, strings of characters; `%u`
gets less than half the unsigned range (above, the code prints a negative number);
what is printed as text in a format has no `%`; a lone `%` only ends a format,
since elsewhere it would swallow the character behind it; and the text printed does
not have the character of the test byte, which `TestByteConsumed` would otherwise
take for it.  The calls in `main.c`, `elf.c` and `pager.c` are of this kind.

*The invariant.*  `PortInv` is about the controller: `Fits`, no buffer holds more
than it can; `SetSoFar`, what the first `k - 1` writes of `serial_init` have set,
whatever was set before, until the last write opens the line; `Received`, what is
where.  In the set-up that is `OnlyLeftover` (at most the boot loader's byte is on
its way, and the reset of the buffers catches it unless it has been shifted out
before), in the self-test `TestByteLast` (the test byte is behind every other,
in one place, unless a full receiver has lost it); afterwards the receiver's bytes
are not the test byte.  `Configured` and `TestByteConsumed` are not inductive
without it: they speak of the end of the set-up only.

`TextInv` is about what is printed: what the line has carried, the byte being
shifted out, the buffer, the text still to be put, and a *rest* make up `Meant`.
The rest is what `Pending` takes the unread format, the unread arguments and the
calls not begun to say: `Unread` splits the format into the end of a piece that has
been read in part (plain text, or the second `%x` of a 64-bit number, `PartRead`)
and whole pieces.  `LineSays` alone is not inductive, as it tells nothing of formats
not read yet.

*The argument.*  `OutbEffect` gives the effect of a write register by register, and
each step keeps `PortInv` by it.  `PowerSteps` and `PowerSum` are about powers;
`ItoaIsNumeral` shows by induction on the loop that what `itoa` prints until
`ShouldQuit` is the numeral of the number, in as many digits as it says, and
`TwoWords` that two words printed side by side are the numeral of the 64-bit number:
the low word keeps its zeros.  `FlattenConcat` and `InRowConcat` put concatenations
of pieces together, so that what several calls say can be cut anywhere.  Reading a
character (`PlainRead`) or a conversion (`ConversionRead`) moves its text from the
rest to `text`; pieces without text are skipped to the next with something to read
(`ToNextPiece`).  `MovingKeepsText`: from `text` to the line bytes only move, in
order, because `serial_putchar` finds the buffer empty and therefore loses nothing.

### How the proofs are checked against the model

`pmm_boot` checks `PmmInv` on its instance.  The instances of `pmm_boot`,
`memman`, `boot` and `console` extend the proof modules, so that TLC evaluates the
assumptions of the proofs: the instances, fragments included, meet them.
(`StringsProofs` assumes nothing that `Strings` does not.)  The instances that show
gaps extend the models alone: those of the two managers violate one of the
assumptions, and what `boot_identity` shows is not claimed by a theorem.

*Only model-checked.*  Of `Pmm`, `FreeingCoalesces`: it is not true of every table
(an entry of negative length between two available ones keeps them apart).  Of `Kickstart`,
`AddressSpace` and `FileUnderstood`, which rest on what `Elf`'s readers make of bytes
laid out by `Encoded`, for every file: induction over data.  All of `Elf`.  Of `SampoOS`,
`UsedNotFree`; `NothingBehind`, which depends on where the image is linked; and `TablesOwned` and `MappingsStay`, which are proved of Kickstart's
steps alone, while the run checks them with the kernel's.  Liveness (`Finishes`,
`Returns`, `AllSaid`) is beyond the prover, and so is what `Elf`'s folds compute for files of every
length.

## 6. Not modelled

- The texts Kickstart prints, and the console as part of the boot: `Kickstart`'s
  `Start` stands for the self-test's outcome, and nothing depends on the rest.
- Interrupts, line errors and flow control of the serial controller.  Its
  interrupt mask is written at `serial.c:10` before the divisor's access is known to
  be closed; no interrupt is taken in Kickstart.
- A byte 0xAE that arrives from outside while the self-test waits for its own, and
  would be taken for it.
- ELF files of class 32 for x86-64, which the parser accepts and whose program
  headers it reads in the 64-bit order; and segments whose file length exceeds
  their memory length.
- `multiboot2.h` (declarations), `arch-utils.h` (used by nothing), the word and long
  port instructions of `util.h` (likewise), build and link scripts.
- Instruction-level state: descriptor tables, control registers, TLB.
- The capacity of `memory_regions` (1024), and 64-bit overflow of firmware
  addresses.
- Images with segments that are not page-aligned: `elf.c:282` excludes them, and
  the linker script aligns sections.  The actions would load them as the code does.
- `pmm_free_page` of the kernel: static and never called.
- What a bit set beyond the bitmap does to the memory there: `busy` records it.

## 7. Plan

Done: every module above with its runs, and the theorems of section 5.  Left, in
this order:

1. *`SampoOS`*: that no segment is in the fractal map's slot, carried through
   Kickstart; then `TablesOwned` and `MappingsStay` of the kernel's steps from
   `Skeleton`, and `UsedNotFree` from the invariant of `MemoryManagerProofs`.
2. *`AddressSpace`* for segments that share no page, from `PagerBuilt` and a record
   of the pages mapped so far, taking the program headers as the parser returns
   them.
3. *Weaker assumptions*: `TableApart` without the 4 GiB bound, which only what
   callers hold needs; `FreeingCoalesces` for maps without fragments.
4. *The kernel's `pmm_free_page`* as the inverse of marking, once it has a caller,
   and an abstract page allocator that `MemoryManager` implements.
