--------------------------------- MODULE Elf ---------------------------------
(***************************************************************************)
(* The kernel's file as Kickstart reads it: the byte-wise readers of       *)
(* util.h, the header fields elf_initialize goes through and the program   *)
(* headers elf_expand goes through, each at the offset the reads before it *)
(* have left; and, for comparison, how a file is laid out.                 *)
(*                                                                         *)
(* A file is a function from offsets to bytes.  A byte has ByteSpan values *)
(* (256); a number of n bytes has ByteSpan^n.                              *)
(***************************************************************************)
EXTENDS Integers, Sequences, FiniteSetsExt

CONSTANTS
  ByteSpan,  \* values of a byte (256)
  ElfMagic   \* the four bytes a file begins with (0x7F, E, L, F)

CLASS_32 == 1
CLASS_64 == 2
LITTLE   == 1
BIG      == 2
ET_EXEC    == 2
EM_386     == 3
EM_X86_64  == 62
PT_LOAD    == 1

ASSUME ElfAssumption ==
  /\ ByteSpan \in Nat /\ ByteSpan > 7
  /\ ElfMagic \in Seq(0..(ByteSpan - 1)) /\ Len(ElfMagic) = 4

(***************************************************************************)
(* read_u16_le to read_u64_be, and the elf_read_* functions that choose    *)
(* between them by the file's endianness.                                  *)
(***************************************************************************)
read_le(file, at, n) ==
  MapThenSumSet(LAMBDA k : file[at + k] * ByteSpan ^ k, 0..(n - 1))

read_be(file, at, n) ==
  MapThenSumSet(LAMBDA k : file[at + k] * ByteSpan ^ (n - 1 - k), 0..(n - 1))

elf_read(file, at, n, endianness) ==
  IF endianness = LITTLE THEN read_le(file, at, n) ELSE read_be(file, at, n)

\* Addresses and offsets are as wide as in a 64-bit file.
MistakenWidth(kind, class) ==
  CASE kind = "half" -> 2
    [] kind = "word" -> 4
    [] OTHER         -> 8

\* How far a read of that kind moves the offset.
Width(kind, class) ==
  CASE kind = "half" -> 2
    [] kind = "word" -> 4
    [] kind \in {"addr", "off"} /\ class = CLASS_32 -> 4
    [] OTHER -> 8

\* The k-th of a list of reads that begin at `base'.
FieldAt(file, base, reads, k, class, endianness) ==
  LET skipped == MapThenSumSet(LAMBDA j : Width(reads[j], class), 1..(k - 1))
  IN  elf_read(file, base + skipped, Width(reads[k], class), endianness)

------------------------------------------------------------------------------
(* elf_initialize: e_ident, then the fields up to the number of program     *)
(* headers.                                                                 *)

\* e_type, e_machine, e_version, e_entry, e_phoff, e_shoff, e_flags, e_ehsize,
\* e_phentsize, e_phnum.
HeaderReads ==
  <<"half", "half", "word", "addr", "off", "off", "word", "half", "half", "half">>

NoHeader == [valid |-> FALSE]

elf_initialize(file) ==
  LET class      == file[4]
      endianness == file[5]
      field(k)   == FieldAt(file, 16, HeaderReads, k, class, endianness)
  IN  IF \/ \E k \in 0..3 : file[k] # ElfMagic[k + 1]
         \/ class \notin {CLASS_32, CLASS_64}
         \/ endianness \notin {LITTLE, BIG}
         \/ field(1) # ET_EXEC
         \/ field(2) \notin {EM_386, EM_X86_64}
        THEN NoHeader
        ELSE [valid |-> TRUE, class |-> class, endianness |-> endianness,
              arch  |-> IF field(2) = EM_386 THEN "X86" ELSE "AMD64",
              entry_point |-> field(4), prog_header_offset |-> field(5),
              prog_header_len |-> field(9), prog_header_count |-> field(10)]

(***************************************************************************)
(* What elf_expand reads of program header i (counted from 0): p_type,     *)
(* p_flags, p_offset, p_vaddr, p_paddr, p_filesz, p_memsz.  The order is   *)
(* that of a 64-bit file, whatever the class.                              *)
(***************************************************************************)
ProgramReads == <<"word", "word", "off", "addr", "addr", "u64", "u64">>

program_header(file, header, i) ==
  LET base     == header.prog_header_offset + header.prog_header_len * i
      field(k) == FieldAt(file, base, ProgramReads, k, header.class, header.endianness)
      flags    == field(2)
  IN  [load |-> field(1) = PT_LOAD,
       writable |-> (flags \div 2) % 2 = 1, executable |-> flags % 2 = 1,
       f_off |-> field(3), vaddr |-> field(4),
       file_len |-> field(6), mem_len |-> field(7)]

------------------------------------------------------------------------------
(***************************************************************************)
(* The layout of a 64-bit ELF file and, up to the program headers, of a    *)
(* 32-bit one: the position, width and value of every field that is not    *)
(* padding, by the ELF specification.  An image is what was linked.        *)
(***************************************************************************)
Segment ==
  [load : BOOLEAN, writable : BOOLEAN, executable : BOOLEAN, f_off : Nat,
   vaddr : Nat, file_len : Nat, mem_len : Nat]

Image ==
  [ident : Seq(Nat), type : Nat, machine : Nat, entry : Nat, phoff : Nat,
   phentsize : Nat, segments : Seq(Segment)]

HeaderFields(image) ==
  {<<16, 2, image.type>>, <<18, 2, image.machine>>, <<20, 4, 1>>} \cup
  IF image.ident[5] = CLASS_32
    THEN {<<24, 4, image.entry>>, <<28, 4, image.phoff>>, <<32, 4, 9>>,
          <<36, 4, 7>>, <<40, 2, 52>>, <<42, 2, image.phentsize>>,
          <<44, 2, Len(image.segments)>>}
    ELSE {<<24, 8, image.entry>>, <<32, 8, image.phoff>>, <<40, 8, 9>>,
          <<48, 4, 7>>, <<52, 2, 64>>, <<54, 2, image.phentsize>>,
          <<56, 2, Len(image.segments)>>}

ProgramFields(segment, base) ==
  LET flags == 4 + (IF segment.writable THEN 2 ELSE 0)
                 + (IF segment.executable THEN 1 ELSE 0)
  IN  {<<base, 4, IF segment.load THEN PT_LOAD ELSE 4>>, <<base + 4, 4, flags>>,
       <<base + 8, 8, segment.f_off>>, <<base + 16, 8, segment.vaddr>>,
       <<base + 24, 8, 3>>, <<base + 32, 8, segment.file_len>>,
       <<base + 40, 8, segment.mem_len>>, <<base + 48, 8, 2>>}

\* The bytes of the file up to the segments' contents.
Encoded(image) ==
  LET fields == HeaderFields(image) \cup UNION
        {ProgramFields(image.segments[k], image.phoff + image.phentsize * (k - 1)) :
           k \in DOMAIN image.segments}
      digit(f, at) ==
        LET place == IF image.ident[6] = BIG THEN f[2] - 1 - (at - f[1]) ELSE at - f[1]
        IN  (f[3] \div ByteSpan ^ place) % ByteSpan
      covering(at) == {f \in fields : f[1] <= at /\ at < f[1] + f[2]}
  IN  [at \in 0..(image.phoff + image.phentsize * Len(image.segments) - 1) |->
         IF at < Len(image.ident) THEN image.ident[at + 1]
         ELSE IF covering(at) = {} THEN 0
         ELSE digit(CHOOSE f \in covering(at) : TRUE, at)]
==============================================================================
