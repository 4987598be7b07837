------------------------ MODULE MemoryManagerProofs ------------------------
(***************************************************************************)
(* The theorems about MemoryManager: for every page size, every number of  *)
(* bits in a byte, every size of a physmap entry and every boot table that *)
(* meets the assumption below, of any length, whatever bits were set in    *)
(* the fresh pages and wherever the kernel ends.                           *)
(***************************************************************************)
EXTENDS MemoryManager, LoopProofs, FiniteSetTheorems

(***************************************************************************)
(* What Kickstart's table is when the kernel gets it, and what the walks   *)
(* rely on: entries in ascending order that do not overlap and are not     *)
(* empty, available and allocated memory in whole pages ("all the regions  *)
(* are guaranteed to be multiples of PAGE_SIZE by Kickstart",              *)
(* memory-manager.c:141-142), and addresses of 64 bits.  An entry of       *)
(* negative length, which Kickstart can leave in the table, is excluded:   *)
(* with one, the size of a region wraps around.                            *)
(***************************************************************************)
ASSUME MemoryManagerProofAssumption ==
  \A t \in BootTables :
    /\ \A k \in DOMAIN t :
         /\ t[k].addr_start < t[k].addr_end
         /\ t[k].addr_end < SizeSpan
         /\ Combinable(t[k]) => /\ t[k].addr_start % PageSize = 0
                                /\ t[k].addr_end % PageSize = 0
    /\ \A k, l \in DOMAIN t : k < l => t[k].addr_end <= t[l].addr_start

(***************************************************************************)
(* Both walks over the table visit the same regions.  Where they are after *)
(* n combined regions, and how many bytes of bitmap these take.            *)
(***************************************************************************)
BytesAt(t, k) == IF Combinable(t[k]) THEN BitmapBytes(t, k) ELSE 0

Walk(t) ==
  LET w[n \in 0..Len(t)] ==
        IF n = 0 THEN [next |-> 1, bytes |-> 0]
        ELSE IF w[n - 1].next > Len(t) THEN w[n - 1]
        ELSE [next  |-> NextRun(t, w[n - 1].next),
              bytes |-> w[n - 1].bytes + BytesAt(t, w[n - 1].next)]
  IN  w

\* The physmap entry of the combined region that begins with entry k, when
\* the regions before it take `bytes' bytes.
EntryOf(t, k, bytes) ==
  [addr      |-> t[k].addr_start,
   len       |-> (t[RunEnd(t, k)].addr_end - t[k].addr_start) % SizeSpan,
   alloc_map |-> IF Combinable(t[k]) THEN bytes ELSE NoBitmap,
   type      |-> PhysmemType(t[k].type)]

\* The counting walk is where its counters say.
Counting ==
  LET w == Walk(regions)
      n == combined_region_count
  IN  /\ n \in 0..Len(regions)
      /\ \A j \in 0..(n - 1) : w[j].next <= Len(regions)
      /\ bitmap_bit_count = BitsPerByte * w[n].bytes
      /\ IF step = "count" THEN i = w[n].next ELSE w[n].next > Len(regions)

\* The filling walk follows it, and has entered one physmap entry per region.
Filling ==
  LET w == Walk(regions)
      n == Len(physmap)
  IN  /\ n <= combined_region_count
      /\ bitmap_addr = w[n].bytes
      /\ \A k \in 1..n :
           physmap[k] = EntryOf(regions, w[k - 1].next, w[k - 1].bytes)
      /\ IF step = "populate" THEN i = w[n].next
         ELSE IF Populated THEN w[n].next > Len(regions)
         ELSE n = 0

\* The manager's pages are the beginning of a region of available memory.
Chosen ==
  \E k \in DOMAIN regions :
    /\ regions[k].type = "AVAILABLE"
    /\ phys_manager_addr = regions[k].addr_start
    /\ phys_manager_addr >= LowMemory
    /\ ManagerEnd <= regions[k].addr_end

Placing ==
  IF step \in {"count", "place", "no_room"}
    THEN phys_manager_addr = 0
    ELSE Chosen

\* So many of the manager's pages are mapped, and nothing else has moved.
MappedUpTo(n) ==
  /\ n < kernel_end
  /\ \A m \in 0..(n - 1) :
       ptes[kernel_end - n + m] = phys_manager_addr + m * PageSize
  /\ \A v \in 0..(kernel_end - n - 1) : ptes[v] = v * PageSize

Mapping ==
  CASE step \in {"count", "place", "no_room"} -> MappedUpTo(0)
    [] step \in {"map", "fault", "null"} ->
         i - 1 \in 0..ManagerPages /\ MappedUpTo(i - 1)
    [] OTHER -> MappedUpTo(ManagerPages)

\* The pages of allocated regions among the first n entries.
AllocatedPages(n) ==
  UNION {PagesOf(regions[k].addr_start, regions[k].addr_end) :
           k \in {l \in 1..n : regions[l].type = "ALLOCATED"}}

Marked(pages) == UNION {BitOf(page) : page \in pages}

Marking ==
  CASE step = "populate"       -> busy = {}
    [] step = "mark_allocated" -> i - 1 \in 0..Len(regions)
                                  /\ busy = Marked(AllocatedPages(i - 1))
    [] step = "mark_manager"   -> busy = Marked(AllocatedPages(Len(regions)))
    [] step = "done"           -> busy = Marked(InUse)
    [] OTHER                   -> TRUE

\* The inductive invariant.  FillingFits alone is not inductive: what is still
\* to be filled has to fit as well, which is known only by following the walk
\* that sized the bitmap.
IInv ==
  /\ TypeOK
  /\ regions \in BootTables
  /\ step \in {"place", "clear"} => i = 1
  /\ Counting
  /\ Filling
  /\ Placing
  /\ Mapping
  /\ Marking
------------------------------------------------------------------------------
(* The distance of two page-aligned addresses is a number of pages.          *)
LEMMA AlignedDistance ==
  ASSUME NEW a \in Nat, NEW b \in Nat, a <= b,
         a % PageSize = 0, b % PageSize = 0
  PROVE  \E q \in Nat : b - a = PageSize * q
<1>1. PageSize \in Nat \ {0}
  BY RegionTableAssumption
<1> DEFINE p == a \div PageSize
           q == b \div PageSize
<1>2. p \in Nat /\ q \in Nat /\ a = PageSize * p /\ b = PageSize * q
  BY <1>1, Divide
<1> HIDE DEF p, q
<1>3. p <= q /\ b - a = PageSize * (q - p)
  BY <1>1, <1>2
<1> QED
  BY <1>2, <1>3

(* What is a number of pages is not changed by rounding up.                  *)
LEMMA RoundUpPages ==
  ASSUME NEW q \in Nat
  PROVE  /\ RoundUp(PageSize * q) = PageSize * q
         /\ (PageSize * q) \div PageSize = q
<1>1. PageSize \in Nat \ {0} /\ 0 \in 0..(PageSize - 1)
      /\ PageSize - 1 \in 0..(PageSize - 1)
  BY RegionTableAssumption
<1>2. (PageSize * q + 0) \div PageSize = q
  BY <1>1, Quotient
<1>3. (PageSize * q + (PageSize - 1)) % PageSize = PageSize - 1
  BY <1>1, Quotient
<1>4. PageSize * q \in Nat
  BY <1>1
<1> DEFINE x == PageSize * q
<1>5. x \in Nat /\ (x + (PageSize - 1)) % PageSize = PageSize - 1 /\ x + 0 = x
  BY <1>3, <1>4
<1> HIDE DEF x
<1>6. RoundUp(x) = x
  <2>1. x + PageSize - 1 = x + (PageSize - 1)
    BY <1>1, <1>5
  <2> QED
    BY <1>1, <1>5, <2>1 DEF RoundUp, RoundDown
<1> QED
  BY <1>2, <1>4, <1>6 DEF x

(* The bits that the first walk counts for a number of pages are the bytes   *)
(* that the second walk takes (memory-manager.c:143-153 and 262-270).        *)
BytesFor(p) == p \div BitsPerByte + IF p % BitsPerByte # 0 THEN 1 ELSE 0

LEMMA BitsAreBytes ==
  ASSUME NEW p \in Nat
  PROVE  /\ BytesFor(p) \in Nat
         /\ BitsFor(p) = BitsPerByte * BytesFor(p)
         /\ BitsFor(p) \in p..(p + (BitsPerByte - 1))
         /\ p # 0 => (p - 1) \div BitsPerByte = BytesFor(p) - 1
<1>1. BitsPerByte \in Nat \ {0}
  BY MemoryManagerAssumption
<1> DEFINE q == p \div BitsPerByte
           r == p % BitsPerByte
<1>2. q \in Nat /\ r \in 0..(BitsPerByte - 1) /\ p = BitsPerByte * q + r
  BY <1>1, Divide
<1> HIDE DEF q, r
<1>3. CASE r = 0
  <2>1. p + BitsPerByte - 1 = BitsPerByte * q + (BitsPerByte - 1)
        /\ BitsPerByte - 1 \in 0..(BitsPerByte - 1)
    BY <1>1, <1>2, <1>3
  <2>2. (p + BitsPerByte - 1) \div BitsPerByte = q
    BY <1>1, <1>2, <2>1, Quotient
  <2>3. p # 0 => (p - 1) \div BitsPerByte = q - 1
    <3>1. p # 0 => q - 1 \in Nat
                   /\ p - 1 = BitsPerByte * (q - 1) + (BitsPerByte - 1)
      BY <1>1, <1>2, <1>3
    <3> QED
      BY <1>1, <2>1, <3>1, Quotient
  <2>4. BitsFor(p) = q * BitsPerByte
    BY <2>2 DEF BitsFor
  <2>5. BytesFor(p) = q
    BY <1>2, <1>3 DEF BytesFor, q, r
  <2>6. BitsFor(p) \in p..(p + (BitsPerByte - 1))
    BY <1>1, <1>2, <1>3, <2>4
  <2> QED
    BY <1>1, <1>2, <2>3, <2>4, <2>5, <2>6
<1>4. CASE r # 0
  <2>1. p + BitsPerByte - 1 = BitsPerByte * (q + 1) + (r - 1)
        /\ r - 1 \in 0..(BitsPerByte - 1) /\ q + 1 \in Nat
        /\ p - 1 = BitsPerByte * q + (r - 1)
    BY <1>1, <1>2, <1>4
  <2>2. (p + BitsPerByte - 1) \div BitsPerByte = q + 1
        /\ (p - 1) \div BitsPerByte = q
    BY <1>1, <1>2, <2>1, Quotient
  <2>3. BitsFor(p) = (q + 1) * BitsPerByte
    BY <2>2 DEF BitsFor
  <2>4. BytesFor(p) = q + 1
    BY <1>2, <1>4 DEF BytesFor, q, r
  <2>5. BitsFor(p) \in p..(p + (BitsPerByte - 1))
    BY <1>1, <1>2, <1>4, <2>3
  <2> QED
    BY <1>1, <1>2, <2>2, <2>3, <2>4, <2>5
<1> QED
  BY <1>3, <1>4

------------------------------------------------------------------------------
(* The boot table the kernel gets.                                           *)
LEMMA BootTable ==
  ASSUME NEW t \in BootTables
  PROVE  /\ t \in Seq(Regions) /\ Len(t) \in Nat /\ DOMAIN t = 1..Len(t)
         /\ \A k \in 1..Len(t) :
              /\ t[k] \in Regions
              /\ t[k].addr_start \in Nat /\ t[k].addr_end \in Nat
              /\ t[k].addr_start < t[k].addr_end
              /\ t[k].addr_end < SizeSpan
         /\ \A k, l \in 1..Len(t) : k < l => t[k].addr_end <= t[l].addr_start
<1>1. t \in Seq(Regions)
  BY MemoryManagerAssumption
<1>2. Len(t) \in Nat /\ DOMAIN t = 1..Len(t)
      /\ \A k \in 1..Len(t) : t[k] \in Regions
  BY <1>1
<1>3. \A r \in Regions : r.addr_start \in Nat /\ r.addr_end \in Nat
  BY DEF Regions
<1> QED
  BY <1>1, <1>2, <1>3, MemoryManagerProofAssumption

(* A combined region: its entries follow one another without a gap, so its   *)
(* size is a number of pages, neither zero nor wrapped around.               *)
LEMMA RunFacts ==
  ASSUME NEW t \in BootTables, NEW k \in DOMAIN t
  PROVE  /\ RunEnd(t, k) \in k..Len(t)
         /\ \A m \in k..RunEnd(t, k) : m # k =>
              /\ Combinable(t[k]) /\ Combinable(t[m])
              /\ t[m].addr_start = t[m - 1].addr_end
<1>1. t \in Seq(Regions) /\ Len(t) \in Nat /\ k \in 1..Len(t)
  BY MemoryManagerAssumption
<1> DEFINE S == {l \in k..Len(t) : \A m \in (k + 1)..l :
                   Combinable(t[m]) /\ t[m].addr_start = t[m - 1].addr_end}
<1>2. CASE ~Combinable(t[k])
  <2>1. RunEnd(t, k) = k
    BY <1>2 DEF RunEnd
  <2> QED
    BY <1>1, <2>1
<1>3. CASE Combinable(t[k])
  <2>1. RunEnd(t, k) = Max(S)
    BY <1>3 DEF RunEnd
  <2>2. k \in S /\ S \in SUBSET (0..Len(t))
    BY <1>1
  <2>3. Max(S) \in S
    <3> HIDE DEF S
    <3> QED
      BY <1>1, <2>2, MaxIsGreatest
  <2> QED
    BY <1>1, <1>3, <2>1, <2>3
<1> QED
  BY <1>2, <1>3

(* Its size is a number of pages, neither zero nor wrapped around.           *)
LEMMA RunPages ==
  ASSUME NEW t \in BootTables, NEW k \in DOMAIN t
  PROVE  /\ RunSize(t, k) \in Nat \ {0}
         /\ RunSize(t, k) = t[RunEnd(t, k)].addr_end - t[k].addr_start
         /\ \A m \in k..RunEnd(t, k) :
              /\ t[k].addr_start <= t[m].addr_start
              /\ t[m].addr_end <= t[RunEnd(t, k)].addr_end
         /\ Combinable(t[k]) =>
              /\ RunSize(t, k) \div PageSize \in Nat \ {0}
              /\ BitsFor(RunSize(t, k) \div PageSize)
                   = BitsPerByte * BitmapBytes(t, k)
              /\ BitmapBytes(t, k) \in Nat
              /\ ((RunSize(t, k) \div PageSize) - 1) \div BitsPerByte
                   = BitmapBytes(t, k) - 1
<1> DEFINE e == RunEnd(t, k)
<1>1. /\ Len(t) \in Nat /\ k \in 1..Len(t) /\ DOMAIN t = 1..Len(t)
      /\ \A m \in 1..Len(t) : t[m].addr_start \in Nat /\ t[m].addr_end \in Nat
  BY BootTable
<1>2. e \in k..Len(t) /\ (e # k => Combinable(t[k]) /\ Combinable(t[e]))
  BY <1>1, RunFacts
<1>3. RunSize(t, k) = (t[e].addr_end - t[k].addr_start) % SizeSpan
  BY DEF RunSize
<1> HIDE DEF e
<1>4. \A m, l \in 1..Len(t) : /\ m < l => t[m].addr_end <= t[l].addr_start
                             /\ t[m].addr_start < t[m].addr_end
                             /\ t[m].addr_end < SizeSpan
  BY BootTable
<1>5. \A m \in k..e : /\ t[k].addr_start <= t[m].addr_start
                      /\ t[m].addr_end <= t[e].addr_end
  <2> SUFFICES ASSUME NEW m \in k..e
               PROVE  /\ t[k].addr_start <= t[m].addr_start
                      /\ t[m].addr_end <= t[e].addr_end
    OBVIOUS
  <2>1. m \in 1..Len(t) /\ e \in 1..Len(t) /\ (k < m \/ k = m) /\ (m < e \/ m = e)
    BY <1>1, <1>2
  <2>2. /\ t[k].addr_start \in Nat /\ t[k].addr_end \in Nat
        /\ t[m].addr_start \in Nat /\ t[m].addr_end \in Nat
        /\ t[e].addr_start \in Nat /\ t[e].addr_end \in Nat
    BY <1>1, <2>1
  <2>3. /\ t[k].addr_start < t[k].addr_end /\ t[m].addr_start < t[m].addr_end
        /\ t[e].addr_start < t[e].addr_end
    BY <1>1, <1>4, <2>1
  <2>4. t[k].addr_start <= t[m].addr_start
    <3>1. k < m => t[k].addr_end <= t[m].addr_start
      BY <1>1, <1>4, <2>1
    <3> QED
      BY <2>1, <2>2, <2>3, <3>1
  <2>5. t[m].addr_end <= t[e].addr_end
    <3>1. m < e => t[m].addr_end <= t[e].addr_start
      BY <1>4, <2>1
    <3> QED
      BY <2>1, <2>2, <2>3, <3>1
  <2> QED
    BY <2>4, <2>5
<1>6. t[e].addr_end - t[k].addr_start \in 1..(SizeSpan - 1)
  <2>1. e \in 1..Len(t) /\ k \in k..e
    BY <1>1, <1>2
  <2> QED
    BY <1>1, <1>4, <1>5, <2>1, MemoryManagerAssumption
<1>7. RunSize(t, k) = t[e].addr_end - t[k].addr_start
  <2> DEFINE x == t[e].addr_end - t[k].addr_start
  <2>1. x \in 0..(SizeSpan - 1) /\ SizeSpan \in Nat \ {0}
    BY <1>6, MemoryManagerAssumption
  <2> HIDE DEF x
  <2>2. x % SizeSpan = x
    BY <2>1
  <2> QED
    BY <1>3, <2>2 DEF x
<1>8. ASSUME Combinable(t[k])
      PROVE  /\ RunSize(t, k) \div PageSize \in Nat \ {0}
             /\ BitsFor(RunSize(t, k) \div PageSize)
                  = BitsPerByte * BitmapBytes(t, k)
             /\ BitmapBytes(t, k) \in Nat
             /\ ((RunSize(t, k) \div PageSize) - 1) \div BitsPerByte
                  = BitmapBytes(t, k) - 1
  <2>1. PICK q \in Nat : RunSize(t, k) = PageSize * q
    <3>1. t[k].addr_start % PageSize = 0 /\ t[e].addr_end % PageSize = 0
      BY <1>1, <1>2, <1>8, MemoryManagerProofAssumption
    <3>2. t[k].addr_start \in Nat /\ t[e].addr_end \in Nat
          /\ t[k].addr_start <= t[e].addr_end
      BY <1>1, <1>2, <1>6
    <3> QED
      BY <1>7, <3>1, <3>2, AlignedDistance
  <2>2. q # 0
    BY <1>6, <1>7, <2>1, RegionTableAssumption
  <2>3. RoundUp(RunSize(t, k)) = RunSize(t, k) /\ RunSize(t, k) \div PageSize = q
    BY <2>1, RoundUpPages
  <2>4. BitmapBytes(t, k) = BytesFor(q)
    BY <2>3 DEF BitmapBytes, BytesFor
  <2> QED
    BY <2>2, <2>3, <2>4, BitsAreBytes
<1> QED
  BY <1>2, <1>5, <1>6, <1>7, <1>8 DEF e

------------------------------------------------------------------------------
(* The walk visits the table from its first entry, run by run.               *)
Places(n) == [next : 1..(n + 1), bytes : Nat]

Onward(t, p) ==
  IF p.next > Len(t) THEN p
  ELSE [next  |-> NextRun(t, p.next), bytes |-> p.bytes + BytesAt(t, p.next)]

LEMMA OnwardType ==
  ASSUME NEW t \in BootTables, NEW p \in Places(Len(t))
  PROVE  /\ Onward(t, p) \in Places(Len(t))
         /\ p.next <= Onward(t, p).next /\ p.bytes <= Onward(t, p).bytes
         /\ p.next <= Len(t) => p.next < Onward(t, p).next
<1>1. Len(t) \in Nat /\ DOMAIN t = 1..Len(t)
  BY BootTable
<1>2. p \in [next : 1..(Len(t) + 1), bytes : Nat]
  BY DEF Places
<1>3. CASE p.next > Len(t)
  BY <1>1, <1>2, <1>3 DEF Onward, Places
<1>4. CASE ~(p.next > Len(t))
  <2>1. p.next \in DOMAIN t
    BY <1>1, <1>2, <1>4
  <2>2. RunEnd(t, p.next) \in p.next..Len(t)
    BY <2>1, RunFacts
  <2>3. BytesAt(t, p.next) \in Nat
    BY <2>1, RunPages DEF BytesAt
  <2>4. NextRun(t, p.next) \in (p.next + 1)..(Len(t) + 1)
    BY <1>1, <1>2, <2>2 DEF NextRun
  <2>5. Onward(t, p) = [next  |-> NextRun(t, p.next),
                        bytes |-> p.bytes + BytesAt(t, p.next)]
    BY <1>4 DEF Onward
  <2> QED
    BY <1>1, <1>2, <2>3, <2>4, <2>5 DEF Places
<1> QED
  BY <1>3, <1>4

LEMMA WalkRuns ==
  ASSUME NEW t \in BootTables
  PROVE  /\ Walk(t) \in [0..Len(t) -> Places(Len(t))]
         /\ Walk(t)[0] = [next |-> 1, bytes |-> 0]
         /\ \A j \in 1..Len(t) : Walk(t)[j] = Onward(t, Walk(t)[j - 1])
<1> DEFINE n == Len(t)
           S == Places(n)
           b == [next |-> 1, bytes |-> 0]
           G == [j \in 1..n |-> [p \in S |-> Onward(t, p)]]
           w == CHOOSE f : f = [j \in 0..n |->
                  IF j = 0 THEN [next |-> 1, bytes |-> 0]
                  ELSE IF f[j - 1].next > n THEN f[j - 1]
                  ELSE [next  |-> NextRun(t, f[j - 1].next),
                        bytes |-> f[j - 1].bytes + BytesAt(t, f[j - 1].next)]]
<1>1. n \in Nat
  BY BootTable
<1>2. \A p \in S : Onward(t, p) \in S
  BY OnwardType
<1>3. b \in S
  BY <1>1 DEF Places
<1>4. Walk(t) = w
  BY Zenon DEF Walk
<1> HIDE DEF n
<1>5. \E f \in [0..n -> S] :
        f = [j \in 0..n |-> IF j = 0 THEN b ELSE Onward(t, f[j - 1])]
  <2>1. G \in [(0 + 1)..n -> [S -> S]] /\ 0 \in Nat /\ 0 <= n
    <3> HIDE DEF S
    <3> QED
      BY <1>1, <1>2
  <2>2. PICK f \in [0..n -> S] : RunOf(f, 0, n, b, G)
    <3> HIDE DEF G, S, b
    <3> QED
      BY <1>1, <1>3, <2>1, LoopRuns
  <2>3. \A j \in 0..n : j # 0 => G[j][f[j - 1]] = Onward(t, f[j - 1])
    <3> HIDE DEF S
    <3> QED
      BY <1>1
  <2> HIDE DEF G, S, b
  <2>4. f = [j \in 0..n |-> IF j = 0 THEN b ELSE Onward(t, f[j - 1])]
    BY <2>2, <2>3 DEF RunOf
  <2> QED
    BY <2>4
<1>6. w = [j \in 0..n |-> IF j = 0 THEN b ELSE Onward(t, w[j - 1])]
  <2>1. \E f : f = [j \in 0..n |->
                  IF j = 0 THEN [next |-> 1, bytes |-> 0]
                  ELSE IF f[j - 1].next > n THEN f[j - 1]
                  ELSE [next  |-> NextRun(t, f[j - 1].next),
                        bytes |-> f[j - 1].bytes + BytesAt(t, f[j - 1].next)]]
    <3> HIDE DEF S
    <3> QED
      BY <1>5, Zenon DEF Onward, n
  <2> QED
    BY <2>1, Zenon DEF Onward, n
<1> HIDE DEF w
<1>7. w[0] = b /\ \A j \in 1..n : w[j] = Onward(t, w[j - 1])
  <2> HIDE DEF b
  <2> QED
    BY <1>1, <1>6
<1>8. \A j \in 0..n : w[j] \in S
  <2> DEFINE P == {j \in 0..n : w[j] \in S}
  <2> HIDE DEF S, b
  <2>1. P \in SUBSET (0..n) /\ 0 \in P /\ 0 \in Nat /\ 0 <= n
    BY <1>1, <1>3, <1>7
  <2>2. \A j \in (0 + 1)..n : j - 1 \in P => j \in P
    BY <1>1, <1>2, <1>7
  <2> HIDE DEF P
  <2>3. \A j \in 0..n : j \in P
    BY <1>1, <2>1, <2>2, LoopInvariant, Zenon
  <2> QED
    BY <2>3 DEF P
<1>9. w \in [0..n -> S]
  <2>1. w = [j \in 0..n |-> w[j]]
    <3> HIDE DEF b
    <3> QED
      BY <1>6
  <2> HIDE DEF S
  <2> QED
    BY <1>8, <2>1
<1> QED
  BY <1>4, <1>7, <1>9 DEF n

(* It never goes back, and it ends behind the table.                         *)
LEMMA WalkForward ==
  ASSUME NEW t \in BootTables
  PROVE  /\ \A j, l \in 0..Len(t) : j <= l =>
              /\ Walk(t)[j].next <= Walk(t)[l].next
              /\ Walk(t)[j].bytes <= Walk(t)[l].bytes
         /\ Walk(t)[Len(t)].next = Len(t) + 1
<1> DEFINE n == Len(t)
           w == Walk(t)
<1>1. n \in Nat /\ (\A j \in 0..n : w[j] \in Places(n))
      /\ w[0] = [next |-> 1, bytes |-> 0]
      /\ \A j \in 1..n : w[j] = Onward(t, w[j - 1])
  BY BootTable, WalkRuns
<1>2. \A j \in 0..n : w[j].next \in 1..(n + 1) /\ w[j].bytes \in Nat
  BY <1>1 DEF Places
<1>3. \A j \in 1..n : /\ w[j - 1].next <= w[j].next
                      /\ w[j - 1].bytes <= w[j].bytes
                      /\ w[j - 1].next <= n => w[j - 1].next < w[j].next
  BY <1>1, OnwardType
<1> HIDE DEF n, w
<1>4. ASSUME NEW j \in 0..n
      PROVE  \A l \in j..n : w[j].next <= w[l].next /\ w[j].bytes <= w[l].bytes
  <2> DEFINE P == {l \in j..n :
                     w[j].next <= w[l].next /\ w[j].bytes <= w[l].bytes}
  <2>1. P \in SUBSET (j..n) /\ j \in P /\ j \in Nat /\ j <= n
    BY <1>1, <1>2
  <2>2. \A l \in (j + 1)..n : l - 1 \in P => l \in P
    BY <1>1, <1>2, <1>3
  <2> HIDE DEF P
  <2>3. \A l \in j..n : l \in P
    BY <1>1, <2>1, <2>2, LoopInvariant, Zenon
  <2> QED
    BY <2>3 DEF P
<1>5. w[n].next = n + 1
  <2> DEFINE P == {j \in 0..n : w[j].next >= j + 1}
  <2>1. P \in SUBSET (0..n) /\ 0 \in P /\ 0 \in Nat /\ 0 <= n
    BY <1>1
  <2>2. \A j \in (0 + 1)..n : j - 1 \in P => j \in P
    BY <1>1, <1>2, <1>3
  <2> HIDE DEF P
  <2>3. \A j \in 0..n : j \in P
    BY <1>1, <2>1, <2>2, LoopInvariant, Zenon
  <2> QED
    BY <1>1, <1>2, <2>3 DEF P
<1> QED
  BY <1>1, <1>4, <1>5 DEF n, w

(* Every entry of the table is in a run that the walk visits.                *)
LEMMA WalkCovers ==
  ASSUME NEW t \in BootTables, NEW k \in 1..Len(t), NEW m \in 0..Len(t),
         k < Walk(t)[m].next
  PROVE  \E j \in 1..m : /\ Walk(t)[j - 1].next <= Len(t)
                         /\ k \in Walk(t)[j - 1].next..RunEnd(t, Walk(t)[j - 1].next)
<1> DEFINE n == Len(t)
           w == Walk(t)
           In(j) == /\ w[j - 1].next <= n
                    /\ k \in w[j - 1].next..RunEnd(t, w[j - 1].next)
           P == {l \in 0..m : k < w[l].next => \E j \in 1..l : In(j)}
<1>1. n \in Nat /\ (\A j \in 0..n : w[j].next \in 1..(n + 1))
      /\ w[0] = [next |-> 1, bytes |-> 0]
      /\ \A j \in 1..n : w[j] = Onward(t, w[j - 1])
  BY BootTable, WalkRuns DEF Places
<1>2. m \in 0..n
  OBVIOUS
<1>3. \A s \in 1..n : RunEnd(t, s) \in s..n
  BY BootTable, RunFacts
<1>4. k \in 1..n /\ k < w[m].next
  OBVIOUS
<1> HIDE DEF n, w
<1>5. P \in SUBSET (0..m) /\ 0 \in P /\ 0 \in Nat /\ 0 <= m
  BY <1>1, <1>2, <1>4
<1>6. ASSUME NEW l \in (0 + 1)..m, l - 1 \in P PROVE l \in P
  <2>1. l \in 1..n /\ l \in 0..m /\ l - 1 \in 0..n /\ w[l] = Onward(t, w[l - 1])
    BY <1>1, <1>2
  <2>2. CASE k < w[l - 1].next
    <3>1. PICK j \in 1..(l - 1) : In(j)
      BY <1>6, <2>2
    <3>2. j \in 1..l
      BY <1>2, <2>1
    <3> HIDE DEF In
    <3> QED
      BY <2>1, <3>1, <3>2
  <2>3. CASE ~(k < w[l - 1].next) /\ k < w[l].next
    <3>1. w[l - 1].next \in 1..n
      BY <1>1, <1>4, <2>1, <2>3
    <3>2. w[l].next = RunEnd(t, w[l - 1].next) + 1
      BY <1>1, <2>1, <3>1 DEF Onward, NextRun, n
    <3>3. In(l)
      <4> DEFINE s == w[l - 1].next
      <4>1. s \in 1..n /\ RunEnd(t, s) \in s..n /\ s <= k
            /\ k < RunEnd(t, s) + 1
        <5>1. s \in 1..n
          BY <3>1
        <5>2. ~(k < s) /\ k < RunEnd(t, s) + 1
          BY <2>3, <3>2
        <5> HIDE DEF s
        <5>3. RunEnd(t, s) \in s..n
          BY <1>3, <5>1
        <5> QED
          BY <1>1, <1>4, <5>1, <5>2, <5>3
      <4> HIDE DEF s
      <4>2. s <= n /\ k \in s..RunEnd(t, s)
        BY <1>1, <1>4, <4>1
      <4> QED
        BY <4>2 DEF s
    <3>4. l \in 1..l
      BY <2>1
    <3> HIDE DEF In
    <3> QED
      BY <2>1, <3>3, <3>4
  <2>4. CASE ~(k < w[l].next)
    BY <2>1, <2>4
  <2> QED
    BY <2>2, <2>3, <2>4
<1>7. \E j \in 1..m : In(j)
  <2> HIDE DEF P
  <2>1. m \in P
    <3>0. m \in Nat
      BY <1>1, <1>2
    <3>1. \A j \in 0..m : j \in P
      BY <1>5, <1>6, <3>0, LoopInvariant, Zenon
    <3> QED
      BY <1>1, <1>2, <3>1
  <2> QED
    BY <1>4, <2>1 DEF P
<1> QED
  BY <1>7 DEF n, w

------------------------------------------------------------------------------
(* The numbers of pages the manager asks for.                                *)
LEMMA PagesAskedFor ==
  ASSUME NEW c \in Nat, NEW b \in Nat
  PROVE  /\ (b \div BitsPerByte) \div PageSize + 1 \in Nat \ {0}
         /\ (c * EntrySize) \div PageSize + 1 \in Nat \ {0}
<1>1. BitsPerByte \in Nat \ {0} /\ PageSize \in Nat \ {0} /\ EntrySize \in Nat \ {0}
  BY RegionTableAssumption, MemoryManagerAssumption
<1>2. b \div BitsPerByte \in Nat
  BY <1>1, Divide
<1>3. (b \div BitsPerByte) \div PageSize \in Nat
  BY <1>1, <1>2, Divide
<1>4. c * EntrySize \in Nat
  BY <1>1
<1>5. (c * EntrySize) \div PageSize \in Nat
  BY <1>1, <1>4, Divide
<1> QED
  BY <1>3, <1>5

LEMMA ManagerPagesType ==
  ASSUME combined_region_count \in Nat, bitmap_bit_count \in Nat
  PROVE  BitmapPages \in Nat \ {0} /\ PhysmapPages \in Nat \ {0}
         /\ ManagerPages \in Nat \ {0}
BY PagesAskedFor DEF BitmapPages, PhysmapPages, ManagerPages

(* What kernel and firmware call available memory (memory-manager.c:233-258).*)
LEMMA Translated ==
  ASSUME NEW type \in RegionTypes
  PROVE  /\ PhysmemType(type) \in PhysmemTypes
         /\ PhysmemType(type) = "AVAILABLE" <=> type \in {"AVAILABLE", "ALLOCATED"}
<1>1. CASE type \in {"AVAILABLE", "ALLOCATED"}
  BY <1>1, Zenon DEF PhysmemType, PhysmemTypes
<1>2. CASE type = "RECLAIMABLE"
  BY <1>2 DEF PhysmemType, PhysmemTypes
<1>3. CASE type \in {"NVS", "BAD_MEM"}
  BY <1>3 DEF PhysmemType, PhysmemTypes
<1>4. CASE type \in {"RESERVED", "KERNEL"}
  BY <1>4 DEF PhysmemType, PhysmemTypes
<1> QED
  BY <1>1, <1>2, <1>3, <1>4 DEF RegionTypes, FirmwareTypes, OwnerTypes

LEMMA EntryType ==
  ASSUME NEW t \in BootTables, NEW k \in DOMAIN t, NEW bytes \in Nat
  PROVE  /\ EntryOf(t, k, bytes) \in
              [addr : Nat, len : Nat, alloc_map : Nat \cup {NoBitmap},
               type : PhysmemTypes]
         /\ EntryOf(t, k, bytes).type = "AVAILABLE" <=> Combinable(t[k])
         /\ EntryOf(t, k, bytes).len = RunSize(t, k)
<1>1. t[k].type \in RegionTypes /\ t[k].addr_start \in Nat
  BY BootTable DEF Regions
<1>2. RunSize(t, k) \in Nat
  BY RunPages
<1> QED
  BY <1>1, <1>2, Translated DEF EntryOf, RunSize, Combinable

(* At the beginning.                                                         *)
LEMMA InitIInv == Init => IInv
<1> SUFFICES ASSUME Init PROVE IInv
  OBVIOUS
<1> USE DEF Init
<1>1. regions \in BootTables /\ Len(regions) \in Nat
      /\ Walk(regions)[0] = [next |-> 1, bytes |-> 0]
  BY BootTable, WalkRuns
<1>2. kernel_end \in Nat \ {0} /\ busy \subseteq Nat
  BY MemoryManagerAssumption
<1>3. ManagerPages \in Nat \ {0}
  BY ManagerPagesType
<1>4. TypeOK
  <2>1. regions \in Seq(Regions)
    BY <1>1, BootTable
  <2>2. i \in 1..(Len(regions) + ManagerPages + 1)
    BY <1>1, <1>3
  <2>3. physmap \in Seq([addr : Nat, len : Nat, alloc_map : Nat \cup {NoBitmap},
                         type : PhysmemTypes])
    OBVIOUS
  <2>4. DOMAIN ptes = 0..(kernel_end - 1)
    OBVIOUS
  <2> QED
    BY <1>2, <2>1, <2>2, <2>3, <2>4 DEF TypeOK, Steps
<1>5. Counting
  BY <1>1, MemoryManagerAssumption DEF Counting
<1>6. Filling
  BY <1>1 DEF Filling, Populated
<1>7. Placing
  BY DEF Placing
<1>8. Mapping
  BY <1>2 DEF Mapping, MappedUpTo
<1>9. Marking
  BY DEF Marking
<1> QED
  BY <1>1, <1>4, <1>5, <1>6, <1>7, <1>8, <1>9 DEF IInv

------------------------------------------------------------------------------
(* What the walk is in every state.                                          *)
LEMMA WalkNow ==
  ASSUME TypeOK, regions \in BootTables
  PROVE  LET w == Walk(regions)
             n == Len(regions)
         IN  /\ n \in Nat
             /\ \A j \in 0..n : w[j].next \in 1..(n + 1) /\ w[j].bytes \in Nat
             /\ w[0].next = 1 /\ w[0].bytes = 0
             /\ w[n].next = n + 1
             /\ \A j \in 1..n : w[j - 1].next <= n =>
                  /\ w[j].next = NextRun(regions, w[j - 1].next)
                  /\ w[j].bytes = w[j - 1].bytes + BytesAt(regions, w[j - 1].next)
<1> DEFINE w == Walk(regions)
           n == Len(regions)
<1>1. n \in Nat /\ w \in [0..n -> Places(n)] /\ w[0] = [next |-> 1, bytes |-> 0]
      /\ w[n].next = n + 1
      /\ \A j \in 1..n : w[j] = Onward(regions, w[j - 1])
  BY BootTable, WalkRuns, WalkForward
<1>2. \A j \in 0..n : w[j].next \in 1..(n + 1) /\ w[j].bytes \in Nat
  BY <1>1 DEF Places
<1>3. ASSUME NEW j \in 1..n, w[j - 1].next <= n
      PROVE  /\ w[j].next = NextRun(regions, w[j - 1].next)
             /\ w[j].bytes = w[j - 1].bytes + BytesAt(regions, w[j - 1].next)
  <2>1. ~(w[j - 1].next > n)
    BY <1>1, <1>2, <1>3
  <2>2. w[j] = Onward(regions, w[j - 1])
    BY <1>1
  <2> QED
    BY <2>1, <2>2 DEF Onward
<1> QED
  BY <1>1, <1>2, <1>3

(* The first walk (memory-manager.c:92-157).                                 *)
LEMMA CountKeeps == IInv /\ CountRegion => IInv'
<1> SUFFICES ASSUME IInv, CountRegion PROVE IInv'
  OBVIOUS
<1> USE DEF IInv
<1> DEFINE w == Walk(regions)
           n == Len(regions)
           c == combined_region_count
<1>1. /\ n \in Nat /\ w[n].next = n + 1
      /\ \A j \in 0..n : w[j].next \in 1..(n + 1) /\ w[j].bytes \in Nat
      /\ \A j \in 1..n : w[j - 1].next <= n =>
           /\ w[j].next = NextRun(regions, w[j - 1].next)
           /\ w[j].bytes = w[j - 1].bytes + BytesAt(regions, w[j - 1].next)
  BY WalkNow
<1>2. /\ regions' = regions /\ phys_manager_addr' = phys_manager_addr
      /\ kernel_end' = kernel_end /\ ptes' = ptes /\ physmap' = physmap
      /\ bitmap_addr' = bitmap_addr /\ busy' = busy
      /\ step = "count" /\ step' \in {"count", "place"}
  BY DEF CountRegion
<1>3. Walk(regions)' = w
  BY <1>2
<1>4. c \in 0..n /\ i = w[c].next /\ bitmap_bit_count = BitsPerByte * w[c].bytes
      /\ \A j \in 0..(c - 1) : w[j].next <= n
  BY <1>2 DEF Counting
<1>5. physmap = <<>> /\ Len(physmap) = 0 /\ bitmap_addr = w[0].bytes
  BY <1>2 DEF Filling, Populated, TypeOK
<1>6. BitsPerByte \in Nat \ {0}
  BY MemoryManagerAssumption
<1> HIDE DEF w
<1>7. /\ Counting' /\ c' \in Nat /\ bitmap_bit_count' \in Nat /\ i' \in 1..(n + 1)
      /\ step' = "place" => i' = 1
  <2>1. CASE i > n
    <3>1. step' = "place" /\ i' = 1 /\ c' = c
          /\ bitmap_bit_count' = bitmap_bit_count
      BY <2>1 DEF CountRegion
    <3>2. bitmap_bit_count \in Nat
      BY DEF TypeOK
    <3> QED
      BY <1>1, <1>2, <1>3, <1>4, <2>1, <3>1, <3>2 DEF Counting
  <2>2. CASE ~(i > n)
    <3>1. /\ step' = "count" /\ c' = c + 1 /\ i' = NextRun(regions, i)
          /\ bitmap_bit_count' = bitmap_bit_count +
                 IF Combinable(regions[i])
                   THEN BitsFor(RunSize(regions, i) \div PageSize) ELSE 0
      BY <1>2, <2>2 DEF CountRegion
    <3>2. i \in 1..n /\ i \in DOMAIN regions /\ c # n
      BY <1>1, <1>4, <2>2, BootTable
    <3>3. c + 1 \in 1..n /\ w[c].next <= n /\ (c + 1) - 1 = c
      BY <1>1, <1>4, <3>2
    <3>4. /\ w[c + 1].next = NextRun(regions, i)
          /\ w[c + 1].bytes = w[c].bytes + BytesAt(regions, i)
      BY <1>1, <1>4, <3>3
    <3>5. /\ bitmap_bit_count' = bitmap_bit_count + BitsPerByte * BytesAt(regions, i)
          /\ BytesAt(regions, i) \in Nat
      <4>1. CASE Combinable(regions[i])
        BY <3>1, <3>2, <4>1, RunPages DEF BytesAt
      <4>2. CASE ~Combinable(regions[i])
        BY <1>6, <3>1, <4>2 DEF BytesAt
      <4> QED
        BY <4>1, <4>2
    <3>6. w[c].bytes \in Nat /\ w[c + 1].next \in 1..(n + 1) /\ w[c + 1].bytes \in Nat
      BY <1>1, <1>4, <3>3
    <3>7. bitmap_bit_count' = BitsPerByte * w[c + 1].bytes
      BY <1>4, <1>6, <3>4, <3>5, <3>6
    <3>8. bitmap_bit_count' \in Nat
      BY <1>6, <3>6, <3>7
    <3>9. \A j \in 0..((c + 1) - 1) : w[j].next <= n
      BY <1>4, <3>3
    <3> QED
      BY <1>2, <1>3, <3>1, <3>3, <3>4, <3>6, <3>7, <3>8, <3>9 DEF Counting
  <2> QED
    BY <2>1, <2>2
<1>8. TypeOK'
  <2>1. ManagerPages' \in Nat \ {0}
    <3> DEFINE b == (bitmap_bit_count' \div BitsPerByte) \div PageSize + 1
               p == (c' * EntrySize) \div PageSize + 1
    <3>1. b \in Nat \ {0} /\ p \in Nat \ {0}
      BY <1>7, PagesAskedFor
    <3>2. ManagerPages' = b + p
      BY Zenon DEF ManagerPages, BitmapPages, PhysmapPages
    <3> HIDE DEF b, p
    <3> QED
      BY <3>1, <3>2
  <2>2. i' \in 1..(Len(regions) + ManagerPages' + 1)
    BY <1>1, <1>7, <2>1
  <2> QED
    BY <1>2, <1>7, <2>2 DEF TypeOK, Steps
<1>9. Filling'
  BY <1>2, <1>3, <1>5, <1>7 DEF Filling, Populated
<1>10. Placing' /\ Mapping' /\ Marking'
  BY <1>2, Zenon DEF Placing, Mapping, MappedUpTo, Marking
<1> QED
  BY <1>2, <1>7, <1>8, <1>9, <1>10

(* The choice of the manager's pages (memory-manager.c:169-194).             *)
LEMMA PlaceKeeps == IInv /\ PlaceManager => IInv'
<1> SUFFICES ASSUME IInv, PlaceManager PROVE IInv'
  OBVIOUS
<1> USE DEF IInv
<1>1. /\ regions' = regions /\ i' = i /\ kernel_end' = kernel_end
      /\ combined_region_count' = combined_region_count
      /\ bitmap_bit_count' = bitmap_bit_count
      /\ ptes' = ptes /\ physmap' = physmap
      /\ bitmap_addr' = bitmap_addr /\ busy' = busy
      /\ step = "place" /\ step' \in {"no_room", "map"} /\ i = 1
  BY DEF PlaceManager
<1>2. Walk(regions)' = Walk(regions) /\ ManagerPages' = ManagerPages
  BY <1>1 DEF ManagerPages, BitmapPages, PhysmapPages
<1>3. Counting'
  BY <1>1, <1>2 DEF Counting
<1>4. Filling'
  BY <1>1, <1>2 DEF Filling, Populated
<1>5. phys_manager_addr = 0 /\ MappedUpTo(0)
  BY <1>1 DEF Placing, Mapping
<1>6. /\ kernel_end \in Nat /\ regions \in BootTables /\ ManagerPages \in Nat \ {0}
      /\ 0 < kernel_end /\ \A v \in 0..(kernel_end - 1) : ptes[v] = v * PageSize
  <2>1. kernel_end \in Nat /\ regions \in BootTables /\ ManagerPages \in Nat \ {0}
    BY ManagerPagesType DEF TypeOK
  <2>2. kernel_end - 0 - 1 = kernel_end - 1
    BY <2>1
  <2> QED
    BY <1>5, <2>1, <2>2 DEF MappedUpTo
<1>7. MappedUpTo(0)'
  BY <1>1, <1>6 DEF MappedUpTo
<1>8. CASE Roomy = {}
  <2>1. step' = "no_room" /\ phys_manager_addr' = phys_manager_addr
    BY <1>8 DEF PlaceManager
  <2>2. TypeOK'
    BY <1>1, <1>2, <2>1 DEF TypeOK, Steps
  <2>3. Placing' /\ Mapping' /\ Marking'
    BY <1>5, <1>7, <2>1 DEF Placing, Mapping, Marking
  <2> QED
    BY <1>1, <1>3, <1>4, <2>1, <2>2, <2>3
<1>9. CASE Roomy # {}
  <2> DEFINE k == Min(Roomy)
  <2>1. step' = "map" /\ phys_manager_addr' = regions[k].addr_start
    BY <1>9 DEF PlaceManager
  <2>2. Roomy \in SUBSET Nat
    BY <1>6, BootTable DEF Roomy
  <2>3. k \in Roomy
    BY <1>9, <2>2, MinIsLeast
  <2> HIDE DEF k
  <2>4. /\ k \in DOMAIN regions /\ regions[k].type = "AVAILABLE"
        /\ regions[k].addr_start \in Nat
        /\ regions[k].addr_start >= LowMemory
        /\ regions[k].addr_end >= regions[k].addr_start + ManagerPages * PageSize
    BY <1>6, <2>3, BootTable DEF Roomy
  <2>5. ManagerEnd' = regions[k].addr_start + ManagerPages * PageSize
    BY <1>2, <2>1 DEF ManagerEnd
  <2>6. Placing'
    <3>1. ManagerEnd' <= regions[k].addr_end /\ regions[k].addr_end \in Nat
      BY <1>6, <2>4, <2>5, BootTable, RegionTableAssumption
    <3> QED
      BY <1>1, <2>1, <2>4, <3>1 DEF Placing, Chosen
  <2>7. TypeOK'
    BY <1>1, <1>2, <2>1, <2>4 DEF TypeOK, Steps
  <2>8. Mapping' /\ Marking'
    BY <1>1, <1>2, <1>6, <1>7, <2>1 DEF Mapping, Marking
  <2> QED
    BY <1>1, <1>3, <1>4, <2>1, <2>6, <2>7, <2>8
<1> QED
  BY <1>8, <1>9

(* Mapping a page (memory-manager.c:391-448, called at 205).                 *)
LEMMA MapKeeps == IInv /\ MapPage => IInv'
<1> SUFFICES ASSUME IInv, MapPage PROVE IInv'
  OBVIOUS
<1> USE DEF IInv
<1>1. /\ regions' = regions /\ phys_manager_addr' = phys_manager_addr
      /\ combined_region_count' = combined_region_count
      /\ bitmap_bit_count' = bitmap_bit_count /\ physmap' = physmap
      /\ bitmap_addr' = bitmap_addr /\ busy' = busy
      /\ step = "map" /\ step' \in {"map", "clear", "fault", "null"}
  BY DEF MapPage
<1>2. Walk(regions)' = Walk(regions) /\ ManagerPages' = ManagerPages
  BY <1>1 DEF ManagerPages, BitmapPages, PhysmapPages
<1>3. Counting'
  BY <1>1, <1>2 DEF Counting
<1>4. Filling'
  BY <1>1, <1>2 DEF Filling, Populated
<1>5. Placing' /\ Marking'
  <2>1. Chosen
    BY <1>1 DEF Placing
  <2>2. Chosen'
    BY <1>1, <1>2, <2>1 DEF Chosen, ManagerEnd
  <2> QED
    BY <1>1, <2>2 DEF Placing, Marking
<1>6. i - 1 \in 0..ManagerPages /\ MappedUpTo(i - 1)
  BY <1>1 DEF Mapping
<1>7. /\ ManagerPages \in Nat \ {0} /\ kernel_end \in Nat /\ i \in Nat /\ i > 0
      /\ Len(regions) \in Nat /\ phys_manager_addr \in Nat
      /\ PageSize \in Nat \ {0}
      /\ DOMAIN ptes = 0..(kernel_end - 1)
  BY <1>6, ManagerPagesType, BootTable, RegionTableAssumption DEF TypeOK
<1>8. CASE i > ManagerPages
  <2>1. step' = "clear" /\ i' = 1 /\ kernel_end' = kernel_end /\ ptes' = ptes
    BY <1>8 DEF MapPage
  <2>2. i - 1 = ManagerPages
    BY <1>6, <1>7, <1>8
  <2>3. Mapping'
    <3>1. MappedUpTo(ManagerPages)
      BY <1>6, <2>2
    <3>2. MappedUpTo(ManagerPages)'
      BY <1>1, <1>2, <2>1, <3>1 DEF MappedUpTo
    <3> QED
      BY <2>1, <3>2 DEF Mapping
  <2>4. TypeOK'
    BY <1>1, <1>2, <1>7, <2>1 DEF TypeOK, Steps
  <2> QED
    BY <1>1, <1>3, <1>4, <1>5, <2>1, <2>3, <2>4
<1>9. CASE ~(i > ManagerPages) /\ ~TablePresent(kernel_end)
  <2>1. /\ step' \in {"fault", "null"} /\ i' = i /\ kernel_end' = kernel_end
        /\ ptes' = ptes
    BY <1>9 DEF MapPage
  <2>2. Mapping'
    <3>1. MappedUpTo(i - 1)'
      BY <1>1, <1>6, <2>1 DEF MappedUpTo
    <3> QED
      BY <1>2, <1>6, <2>1, <3>1 DEF Mapping
  <2>3. TypeOK'
    BY <1>1, <1>2, <2>1 DEF TypeOK, Steps
  <2> QED
    BY <1>1, <1>3, <1>4, <1>5, <2>1, <2>2, <2>3
<1>10. CASE ~(i > ManagerPages) /\ TablePresent(kernel_end)
  <2>0. kernel_end \notin DOMAIN ptes
    BY <1>7
  <2>1. /\ step' = "map" /\ i' = i + 1 /\ kernel_end' = kernel_end + 1
        /\ ptes' = [v \in DOMAIN ptes \cup {kernel_end} |->
                      IF v = kernel_end THEN Pte ELSE ptes[v]]
    BY <1>1, <1>10, <2>0 DEF MapPage
  <2>2. (0..(kernel_end - 1)) \cup {kernel_end} = 0..kernel_end
    BY <1>7
  <2>3. /\ DOMAIN ptes' = 0..kernel_end
        /\ ptes'[kernel_end] = phys_manager_addr + (i - 1) * PageSize
        /\ \A v \in 0..(kernel_end - 1) : ptes'[v] = ptes[v]
    BY <1>7, <2>1, <2>2 DEF Pte
  <2>4. /\ i - 1 < kernel_end
        /\ \A m \in 0..((i - 1) - 1) :
             ptes[kernel_end - (i - 1) + m] = phys_manager_addr + m * PageSize
        /\ \A v \in 0..(kernel_end - (i - 1) - 1) : ptes[v] = v * PageSize
    BY <1>6 DEF MappedUpTo
  <2>5. /\ i < kernel_end + 1
        /\ \A v \in 0..((kernel_end + 1) - i - 1) : ptes'[v] = v * PageSize
    <3>1. kernel_end - (i - 1) - 1 = (kernel_end + 1) - i - 1
          /\ kernel_end - (i - 1) - 1 <= kernel_end - 1
      BY <1>7
    <3>2. \A v \in 0..(kernel_end - (i - 1) - 1) :
            v \in 0..(kernel_end - 1) /\ ptes[v] = v * PageSize
      BY <1>7, <2>4, <3>1
    <3> QED
      BY <1>7, <2>3, <2>4, <3>1, <3>2
  <2>6. ASSUME NEW m \in 0..(i - 1)
        PROVE  ptes'[(kernel_end + 1) - i + m] = phys_manager_addr + m * PageSize
    <3>1. CASE m = i - 1
      <4>1. (kernel_end + 1) - i + m = kernel_end
        BY <1>7, <3>1
      <4> QED
        BY <2>3, <3>1, <4>1
    <3>2. CASE m # i - 1
      <4>1. m \in 0..((i - 1) - 1)
            /\ (kernel_end + 1) - i + m = kernel_end - (i - 1) + m
            /\ kernel_end - (i - 1) + m \in 0..(kernel_end - 1)
        BY <1>7, <2>4, <3>2
      <4> QED
        BY <2>3, <2>4, <4>1
    <3> QED
      BY <3>1, <3>2
  <2>7. Mapping'
    <3>1. MappedUpTo(i - 1)'
      <4> DEFINE Q(n) ==
             /\ n < kernel_end'
             /\ \A m \in 0..(n - 1) : ptes'[kernel_end' - n + m]
                                        = phys_manager_addr' + m * PageSize
             /\ \A v \in 0..(kernel_end' - n - 1) : ptes'[v] = v * PageSize
      <4>1. Q(i)
        BY <1>1, <2>1, <2>5, <2>6
      <4>2. i' - 1 = i
        BY <1>7, <2>1
      <4> HIDE DEF Q
      <4>3. Q(i' - 1)
        BY <4>1, <4>2
      <4> QED
        BY <4>3, Zenon DEF Q, MappedUpTo
    <3>2. i' - 1 \in 0..ManagerPages'
      BY <1>2, <1>7, <1>10, <2>1
    <3> QED
      BY <2>1, <3>1, <3>2 DEF Mapping
  <2>8. TypeOK'
    <3>1. i' \in 1..(Len(regions') + ManagerPages' + 1)
      BY <1>1, <1>2, <1>7, <1>10, <2>1
    <3>2. DOMAIN ptes' = 0..(kernel_end' - 1) /\ kernel_end' \in Nat
      BY <1>7, <2>1, <2>3
    <3> QED
      BY <1>1, <2>1, <3>1, <3>2 DEF TypeOK, Steps
  <2> QED
    BY <1>1, <1>3, <1>4, <1>5, <2>1, <2>7, <2>8
<1> QED
  BY <1>8, <1>9, <1>10

(* Clearing the manager's pages (memory-manager.c:207-214).                  *)
LEMMA ClearKeeps == IInv /\ ClearPages => IInv'
<1> SUFFICES ASSUME IInv, ClearPages PROVE IInv'
  OBVIOUS
<1> USE DEF IInv
<1>1. /\ regions' = regions /\ phys_manager_addr' = phys_manager_addr
      /\ combined_region_count' = combined_region_count /\ i' = i
      /\ bitmap_bit_count' = bitmap_bit_count /\ physmap' = physmap
      /\ bitmap_addr' = bitmap_addr /\ busy' = {} /\ kernel_end' = kernel_end
      /\ ptes' = ptes /\ step = "clear" /\ step' = "populate" /\ i = 1
  BY DEF ClearPages
<1>2. Walk(regions)' = Walk(regions) /\ ManagerPages' = ManagerPages
  BY <1>1 DEF ManagerPages, BitmapPages, PhysmapPages
<1>3. TypeOK'
  BY <1>1, <1>2 DEF TypeOK, Steps
<1>4. Counting'
  BY <1>1, <1>2 DEF Counting
<1>5. Filling'
  <2>1. Walk(regions)[0].next = 1
    BY WalkNow
  <2>2. Filling => Len(physmap) = 0
    BY <1>1 DEF Filling, Populated
  <2> QED
    BY <1>1, <1>2, <2>1, <2>2 DEF Filling
<1>6. Placing'
  BY <1>1, <1>2 DEF Placing, Chosen, ManagerEnd
<1>7. Mapping'
  <2>1. MappedUpTo(ManagerPages)
    BY <1>1 DEF Mapping
  <2>2. MappedUpTo(ManagerPages)'
    BY <1>1, <1>2, <2>1 DEF MappedUpTo
  <2> QED
    BY <1>1, <2>2 DEF Mapping
<1>8. Marking'
  BY <1>1 DEF Marking
<1> QED
  BY <1>1, <1>3, <1>4, <1>5, <1>6, <1>7, <1>8

(* The second walk (memory-manager.c:216-301).                               *)
LEMMA PopulateKeeps == IInv /\ PopulateEntry => IInv'
<1> SUFFICES ASSUME IInv, PopulateEntry PROVE IInv'
  OBVIOUS
<1> USE DEF IInv
<1> DEFINE w == Walk(regions)
           n == Len(regions)
           m == Len(physmap)
           c == combined_region_count
           E == [addr : Nat, len : Nat, alloc_map : Nat \cup {NoBitmap},
                 type : PhysmemTypes]
<1>1. /\ regions' = regions /\ phys_manager_addr' = phys_manager_addr
      /\ combined_region_count' = combined_region_count
      /\ bitmap_bit_count' = bitmap_bit_count /\ busy' = busy
      /\ kernel_end' = kernel_end /\ ptes' = ptes
      /\ step = "populate" /\ step' \in {"populate", "mark_allocated"}
  BY DEF PopulateEntry
<1>2. Walk(regions)' = w /\ ManagerPages' = ManagerPages
  BY <1>1 DEF ManagerPages, BitmapPages, PhysmapPages
<1>3. Counting'
  BY <1>1, <1>2 DEF Counting
<1>4. Placing'
  BY <1>1, <1>2 DEF Placing, Chosen, ManagerEnd
<1>5. Mapping'
  <2>1. MappedUpTo(ManagerPages)
    BY <1>1 DEF Mapping
  <2>2. MappedUpTo(ManagerPages)'
    BY <1>1, <1>2, <2>1 DEF MappedUpTo
  <2> QED
    BY <1>1, <2>2 DEF Mapping
<1>6. /\ m <= c /\ bitmap_addr = w[m].bytes /\ i = w[m].next
      /\ \A k \in 1..m :
           physmap[k] = EntryOf(regions, w[k - 1].next, w[k - 1].bytes)
  BY <1>1 DEF Filling
<1>7. c \in 0..n /\ w[c].next > n
  BY <1>1 DEF Counting
<1>8. /\ n \in Nat /\ m \in Nat /\ m \in 0..n /\ physmap \in Seq(E)
      /\ DOMAIN physmap = 1..m
      /\ ManagerPages \in Nat \ {0}
  BY <1>6, <1>7, BootTable, ManagerPagesType DEF TypeOK
<1>9. busy = {}
  BY <1>1 DEF Marking
<1>10. CASE i > n
  <2>1. step' = "mark_allocated" /\ i' = 1 /\ physmap' = physmap
        /\ bitmap_addr' = bitmap_addr
    BY <1>10 DEF PopulateEntry
  <2>2. TypeOK'
    BY <1>1, <1>2, <1>8, <2>1 DEF TypeOK, Steps
  <2>3. Filling'
    BY <1>1, <1>2, <1>6, <1>10, <2>1 DEF Filling, Populated
  <2>4. Marking'
    <3>1. AllocatedPages(i - 1)' = {}
      BY <2>1 DEF AllocatedPages
    <3>2. Marked(AllocatedPages(i - 1))' = {}
      BY <3>1 DEF Marked
    <3> QED
      BY <1>1, <1>8, <1>9, <2>1, <3>2 DEF Marking
  <2> QED
    BY <1>1, <1>3, <1>4, <1>5, <2>1, <2>2, <2>3, <2>4
<1>11. CASE ~(i > n)
  <2> DEFINE e == EntryOf(regions, i, bitmap_addr)
  <2>1. step' = "populate" /\ i' = NextRun(regions, i) /\ physmap' = Append(physmap, e)
        /\ bitmap_addr' = bitmap_addr + BytesAt(regions, i)
    BY <1>1, <1>11 DEF PopulateEntry, EntryOf, BytesAt
  <2>2. /\ \A j \in 0..n : w[j].next \in 1..(n + 1) /\ w[j].bytes \in Nat
        /\ \A j \in 1..n : w[j - 1].next <= n =>
             /\ w[j].next = NextRun(regions, w[j - 1].next)
             /\ w[j].bytes = w[j - 1].bytes + BytesAt(regions, w[j - 1].next)
    BY WalkNow
  <2>3. i \in 1..n /\ i \in DOMAIN regions /\ bitmap_addr \in Nat
    BY <1>6, <1>8, <1>11, <2>2, BootTable
  <2>4. m # c
    BY <1>6, <1>7, <1>11
  <2>5. m + 1 \in 1..n /\ (m + 1) - 1 = m /\ m + 1 <= c
    <3>1. m <= c /\ c \in 0..n /\ m \in Nat /\ n \in Nat
      BY <1>6, <1>7, <1>8
    <3> HIDE DEF m, n, c
    <3> QED
      BY <2>4, <3>1
  <2>6. i' = w[m + 1].next /\ bitmap_addr' = w[m + 1].bytes
    <3>1. w[m].next <= n
      BY <1>6, <1>8, <2>3
    <3> QED
      BY <1>6, <2>1, <2>2, <2>5, <3>1
  <2>7. e \in E
    BY <2>3, EntryType
  <2> HIDE DEF e, w
  <2>8. /\ physmap' \in Seq(E) /\ Len(physmap') = m + 1
        /\ physmap'[m + 1] = e
        /\ \A k \in 1..m : physmap'[k] = physmap[k]
    BY <1>8, <2>1, <2>7
  <2>9. i' \in 1..(n + 1) /\ bitmap_addr' \in Nat
    BY <2>2, <2>5, <2>6
  <2>10. \A k \in 1..(m + 1) :
           physmap'[k] = EntryOf(regions, w[k - 1].next, w[k - 1].bytes)
    <3>1. e = EntryOf(regions, w[(m + 1) - 1].next, w[(m + 1) - 1].bytes)
      BY <1>6, <2>5 DEF e
    <3>2. \A k \in 1..(m + 1) : k = m + 1 \/ k \in 1..m
      BY <1>8
    <3> QED
      BY <1>6, <2>8, <3>1, <3>2
  <2>11. Filling'
    BY <1>1, <1>2, <2>1, <2>5, <2>6, <2>8, <2>10 DEF Filling
  <2>12. TypeOK'
    <3>1. i' \in 1..(Len(regions') + ManagerPages' + 1)
      BY <1>1, <1>2, <1>8, <2>9
    <3> QED
      BY <1>1, <2>1, <2>8, <2>9, <3>1 DEF TypeOK, Steps
  <2>13. Marking'
    BY <1>1, <1>9, <2>1 DEF Marking
  <2> QED
    BY <1>1, <1>3, <1>4, <1>5, <2>1, <2>11, <2>12, <2>13
<1> QED
  BY <1>10, <1>11

------------------------------------------------------------------------------
(* The physmap entries are the runs that the walk visits, in its order.      *)
LEMMA PhysmapNow ==
  ASSUME IInv, NEW k \in 1..Len(physmap)
  PROVE  LET w == Walk(regions)
             s == w[k - 1].next
         IN  /\ k \in 1..Len(regions) /\ s \in 1..Len(regions)
             /\ w[k - 1].bytes \in Nat
             /\ w[k].next = RunEnd(regions, s) + 1
             /\ w[k].bytes = w[k - 1].bytes + BytesAt(regions, s)
             /\ physmap[k].addr = regions[s].addr_start
             /\ physmap[k].len = RunSize(regions, s)
             /\ physmap[k].type = PhysmemType(regions[s].type)
             /\ physmap[k].type = "AVAILABLE" <=> Combinable(regions[s])
             /\ physmap[k].alloc_map =
                  IF Combinable(regions[s]) THEN w[k - 1].bytes ELSE NoBitmap
<1> USE DEF IInv
<1> DEFINE w == Walk(regions)
           n == Len(regions)
           m == Len(physmap)
           c == combined_region_count
           s == w[k - 1].next
           b == w[k - 1].bytes
<1>1. /\ n \in Nat
      /\ \A j \in 0..n : w[j].next \in 1..(n + 1) /\ w[j].bytes \in Nat
      /\ \A j \in 1..n : w[j - 1].next <= n =>
           /\ w[j].next = NextRun(regions, w[j - 1].next)
           /\ w[j].bytes = w[j - 1].bytes + BytesAt(regions, w[j - 1].next)
  BY WalkNow
<1>2. c \in 0..n /\ \A j \in 0..(c - 1) : w[j].next <= n
  BY DEF Counting
<1>3. m <= c /\ physmap[k] = EntryOf(regions, s, b)
  BY DEF Filling
<1>4. m \in Nat /\ k \in 1..m
  BY DEF TypeOK
<1> HIDE DEF w, n, m, c
<1>5. k \in 1..n /\ k - 1 \in 0..(c - 1) /\ k - 1 \in 0..n
  BY <1>1, <1>2, <1>3, <1>4
<1>6. s \in 1..n /\ b \in Nat
  BY <1>1, <1>2, <1>5
<1>7. w[k].next = RunEnd(regions, s) + 1 /\ w[k].bytes = b + BytesAt(regions, s)
  BY <1>1, <1>2, <1>5 DEF NextRun
<1> HIDE DEF s, b
<1>8. s \in DOMAIN regions
  BY <1>6, BootTable DEF n
<1>9. /\ physmap[k].addr = regions[s].addr_start
      /\ physmap[k].len = RunSize(regions, s)
      /\ physmap[k].type = PhysmemType(regions[s].type)
      /\ physmap[k].type = "AVAILABLE" <=> Combinable(regions[s])
      /\ physmap[k].alloc_map = IF Combinable(regions[s]) THEN b ELSE NoBitmap
  <2>1. /\ EntryOf(regions, s, b).len = RunSize(regions, s)
        /\ EntryOf(regions, s, b).type = "AVAILABLE" <=> Combinable(regions[s])
    BY <1>6, <1>8, EntryType
  <2> QED
    BY <1>3, <2>1 DEF EntryOf
<1> QED
  BY <1>5, <1>6, <1>7, <1>9 DEF n, w, s, b

(* A page's bit is found through the physmap entry that decides for it: the  *)
(* first that does not begin above it.                                       *)
LEMMA BitFound ==
  ASSUME IInv, NEW page \in Nat
  PROVE  /\ BitOf(page) \in SUBSET Nat
         /\ AtOrBelow(page) # {} => /\ Min(AtOrBelow(page)) \in AtOrBelow(page)
                                    /\ \A l \in AtOrBelow(page) :
                                         Min(AtOrBelow(page)) <= l
<1> USE DEF IInv
<1> DEFINE S == AtOrBelow(page)
           k == Min(S)
<1>1. CASE S = {}
  <2>1. BitOf(page) = {}
    BY <1>1, Zenon DEF BitOf
  <2> QED
    BY <1>1, <2>1
<1>2. CASE S # {}
  <2>1. S \in SUBSET Nat
    BY DEF AtOrBelow, TypeOK
  <2> HIDE DEF S
  <2>2. k \in S /\ \A l \in S : k <= l
    BY <1>2, <2>1, MinIsLeast
  <2>3. /\ k \in DOMAIN physmap /\ physmap[k].addr <= page
        /\ physmap[k].addr \in Nat
    <3>1. k \in DOMAIN physmap /\ physmap[k].addr <= page
      BY <2>2 DEF S, AtOrBelow
    <3> HIDE DEF k
    <3>2. k \in 1..Len(physmap)
      BY <3>1 DEF TypeOK
    <3>3. physmap[k].addr \in Nat
      BY <3>2, PhysmapNow, BootTable
    <3> QED
      BY <3>1, <3>3
  <2> HIDE DEF k
  <2>4. CASE physmap[k].type # "AVAILABLE"
    <3>1. BitOf(page) = {}
      BY <2>4, Zenon DEF BitOf, S, k
    <3> QED
      BY <2>2, <3>1 DEF S, k
  <2>5. CASE physmap[k].type = "AVAILABLE"
    <3>1. physmap[k].alloc_map \in Nat
      <4>1. k \in 1..Len(physmap)
        BY <2>3 DEF TypeOK
      <4> QED
        BY <2>5, <4>1, PhysmapNow
    <3>2. (page - physmap[k].addr) \div PageSize \in Nat
      BY <2>3, RegionTableAssumption, Divide
    <3>3. BitOf(page) = {physmap[k].alloc_map * BitsPerByte
                           + (page - physmap[k].addr) \div PageSize}
      BY <1>2, <2>5, Zenon DEF BitOf, S, k
    <3>4. physmap[k].alloc_map * BitsPerByte \in Nat
      BY <3>1, MemoryManagerAssumption
    <3> DEFINE x == physmap[k].alloc_map * BitsPerByte
               y == (page - physmap[k].addr) \div PageSize
    <3>5. x + y \in Nat
      <4>1. x \in Nat /\ y \in Nat
        BY <3>2, <3>4
      <4> HIDE DEF x, y
      <4> QED
        BY <4>1
    <3> HIDE DEF x, y
    <3>6. BitOf(page) = {x + y}
      BY <3>3, Zenon DEF x, y
    <3> QED
      BY <2>2, <3>5, <3>6 DEF S, k
  <2> QED
    BY <2>4, <2>5
<1> QED
  BY <1>1, <1>2

(* The first entry of every run, and so of the table, is where one run ends  *)
(* and the next begins: entries of physmap are in order and do not overlap.  *)
LEMMA PhysmapInOrder ==
  ASSUME IInv, NEW k \in 1..Len(physmap), NEW l \in 1..Len(physmap), k < l
  PROVE  /\ physmap[k].addr + physmap[k].len <= physmap[l].addr
         /\ physmap[k].addr < physmap[l].addr
<1> USE DEF IInv
<1> DEFINE w == Walk(regions)
           n == Len(regions)
           s == w[k - 1].next
           r == w[l - 1].next
           e == RunEnd(regions, s)
<1>1. n \in Nat /\ Len(physmap) \in Nat
  BY BootTable DEF TypeOK
<1>2. /\ k \in 1..n /\ s \in 1..n /\ w[k].next = e + 1
      /\ physmap[k].addr = regions[s].addr_start
      /\ physmap[k].len = RunSize(regions, s)
  BY PhysmapNow
<1>3. l \in 1..n /\ r \in 1..n /\ physmap[l].addr = regions[r].addr_start
  BY PhysmapNow
<1>4. w[k].next <= r
  <2>1. k \in 0..n /\ l - 1 \in 0..n /\ k <= l - 1
    BY <1>1, <1>2, <1>3
  <2> QED
    BY <2>1, WalkForward
<1>5. e \in s..n /\ RunSize(regions, s) = regions[e].addr_end - regions[s].addr_start
      /\ RunSize(regions, s) \in Nat \ {0}
  BY <1>2, BootTable, RunFacts, RunPages
<1> HIDE DEF s, r, e, n, w
<1>6. e < r /\ e \in 1..n
  BY <1>1, <1>2, <1>3, <1>4, <1>5
<1>7. /\ regions[e].addr_end <= regions[r].addr_start
      /\ regions[s].addr_start \in Nat /\ regions[e].addr_end \in Nat
      /\ regions[r].addr_start \in Nat
  BY <1>2, <1>3, <1>6, BootTable DEF n
<1>8. physmap[k].addr = regions[s].addr_start /\ physmap[k].len = RunSize(regions, s)
  BY <1>2
<1>9. /\ regions[s].addr_start + RunSize(regions, s) <= regions[r].addr_start
      /\ regions[s].addr_start < regions[r].addr_start
  BY <1>5, <1>7
<1> QED
  BY <1>3, <1>8, <1>9

------------------------------------------------------------------------------
(* Marking the pages in use (memory-manager.c:303-349).                      *)
LEMMA PagesAreNumbers ==
  ASSUME NEW a \in Nat, NEW e
  PROVE  PagesOf(a, e) \in SUBSET Nat
BY DEF PagesOf

LEMMA MarkedNumbers ==
  ASSUME IInv, NEW P \in SUBSET Nat
  PROVE  Marked(P) \in SUBSET Nat
<1>1. \A page \in P : BitOf(page) \in SUBSET Nat
  BY BitFound
<1> QED
  BY <1>1 DEF Marked

LEMMA MarkAllocatedKeeps == IInv /\ MarkAllocated => IInv'
<1> SUFFICES ASSUME IInv, MarkAllocated PROVE IInv'
  OBVIOUS
<1> DEFINE n == Len(regions)
<1>1. /\ regions' = regions /\ phys_manager_addr' = phys_manager_addr
      /\ combined_region_count' = combined_region_count
      /\ bitmap_bit_count' = bitmap_bit_count /\ physmap' = physmap
      /\ bitmap_addr' = bitmap_addr /\ kernel_end' = kernel_end /\ ptes' = ptes
      /\ step = "mark_allocated" /\ step' \in {"mark_allocated", "mark_manager"}
  BY DEF MarkAllocated
<1>2. Walk(regions)' = Walk(regions) /\ ManagerPages' = ManagerPages
  BY <1>1 DEF ManagerPages, BitmapPages, PhysmapPages
<1>3. Counting'
  BY <1>1, <1>2 DEF Counting, IInv
<1>4. Filling'
  BY <1>1, <1>2 DEF Filling, Populated, IInv
<1>5. Placing'
  BY <1>1, <1>2 DEF Placing, Chosen, ManagerEnd, IInv
<1>6. Mapping'
  <2>1. MappedUpTo(ManagerPages)
    BY <1>1 DEF Mapping, IInv
  <2>2. MappedUpTo(ManagerPages)'
    BY <1>1, <1>2, <2>1 DEF MappedUpTo
  <2> QED
    BY <1>1, <2>2 DEF Mapping
<1>7. i - 1 \in 0..n /\ busy = Marked(AllocatedPages(i - 1))
  BY <1>1 DEF Marking, IInv
<1>8. n \in Nat /\ regions \in BootTables /\ i \in Nat /\ ManagerPages \in Nat
  BY BootTable, ManagerPagesType DEF IInv, TypeOK
<1>9. \A page : BitOf(page)' = BitOf(page)
  BY <1>1, Zenon DEF BitOf, AtOrBelow
<1>10. \A k \in 1..n : regions[k].addr_start \in Nat
  BY <1>8, BootTable
<1>11. CASE i > n
  <2>1. step' = "mark_manager" /\ i' = 1 /\ busy' = busy
    BY <1>11 DEF MarkAllocated
  <2>2. i - 1 = n
    BY <1>7, <1>8, <1>11
  <2>3. busy' = Marked(AllocatedPages(n))
    BY <1>7, <2>1, <2>2
  <2>4. Marked(AllocatedPages(n)) = Marked(AllocatedPages(n))'
    BY <1>1, <1>9 DEF Marked, AllocatedPages
  <2>5. Marking'
    BY <1>1, <2>1, <2>3, <2>4 DEF Marking
  <2>6. TypeOK'
    BY <1>1, <1>2, <1>8, <2>1 DEF TypeOK, Steps, IInv
  <2> QED
    BY <1>1, <1>3, <1>4, <1>5, <1>6, <1>8, <2>1, <2>5, <2>6 DEF IInv
<1>12. CASE ~(i > n)
  <2> DEFINE new == IF regions[i].type # "ALLOCATED" THEN {}
                    ELSE PagesOf(regions[i].addr_start, regions[i].addr_end)
  <2>1. step' = "mark_allocated" /\ i' = i + 1
        /\ busy' = busy \cup
                 IF regions[i].type # "ALLOCATED" THEN {}
                 ELSE UNION {BitOf(page) : page \in
                        PagesOf(regions[i].addr_start, regions[i].addr_end)}
    BY <1>1, <1>12 DEF MarkAllocated
  <2>2. i \in 1..n /\ i' - 1 = i
    BY <1>7, <1>8, <1>12, <2>1
  <2>3. new \in SUBSET Nat
    BY <1>10, <2>2, PagesAreNumbers
  <2>4. busy' = busy \cup Marked(new)
    BY <2>1, Zenon DEF Marked
  <2>5. AllocatedPages(i) = AllocatedPages(i - 1) \cup new
    <3>1. 1..i = (1..(i - 1)) \cup {i}
      BY <2>2
    <3> QED
      BY <3>1, Zenon DEF AllocatedPages
  <2> HIDE DEF new
  <2>6. busy' = Marked(AllocatedPages(i))
    BY <1>7, <2>4, <2>5, Zenon DEF Marked
  <2>7. Marked(AllocatedPages(i - 1))' = Marked(AllocatedPages(i))
    <3>1. AllocatedPages(i - 1)' = AllocatedPages(i)
      BY <1>1, <2>2 DEF AllocatedPages
    <3> QED
      BY <1>9, <3>1, Zenon DEF Marked
  <2>8. Marking'
    <3>1. (i - 1 \in 0..Len(regions))'
      BY <1>1, <1>8, <2>2
    <3> QED
      BY <2>1, <2>6, <2>7, <3>1 DEF Marking
  <2>9. TypeOK'
    <3>1. busy' \in SUBSET Nat
      <4>1. Marked(new) \in SUBSET Nat
        BY <2>3, MarkedNumbers
      <4> QED
        BY <2>4, <4>1 DEF IInv, TypeOK
    <3>2. i' \in 1..(Len(regions') + ManagerPages' + 1)
      BY <1>1, <1>2, <1>8, <2>1, <2>2
    <3> QED
      BY <1>1, <1>2, <2>1, <3>1, <3>2 DEF TypeOK, Steps, IInv
  <2> QED
    BY <1>1, <1>3, <1>4, <1>5, <1>6, <1>8, <2>1, <2>8, <2>9 DEF IInv
<1> QED
  BY <1>11, <1>12

LEMMA MarkManagerKeeps == IInv /\ MarkManager => IInv'
<1> SUFFICES ASSUME IInv, MarkManager PROVE IInv'
  OBVIOUS
<1>1. /\ regions' = regions /\ phys_manager_addr' = phys_manager_addr /\ i' = i
      /\ combined_region_count' = combined_region_count
      /\ bitmap_bit_count' = bitmap_bit_count /\ physmap' = physmap
      /\ bitmap_addr' = bitmap_addr /\ kernel_end' = kernel_end /\ ptes' = ptes
      /\ step = "mark_manager" /\ step' = "done"
      /\ busy' = busy \cup UNION {BitOf(page) :
                                    page \in PagesOf(phys_manager_addr, ManagerEnd)}
  BY DEF MarkManager
<1>2. Walk(regions)' = Walk(regions) /\ ManagerPages' = ManagerPages
      /\ ManagerEnd' = ManagerEnd
  BY <1>1 DEF ManagerEnd, ManagerPages, BitmapPages, PhysmapPages
<1>3. Counting'
  BY <1>1, <1>2 DEF Counting, IInv
<1>4. Filling'
  BY <1>1, <1>2 DEF Filling, Populated, IInv
<1>5. Placing'
  BY <1>1, <1>2 DEF Placing, Chosen, IInv
<1>6. Mapping'
  <2>1. MappedUpTo(ManagerPages)
    BY <1>1 DEF Mapping, IInv
  <2>2. MappedUpTo(ManagerPages)'
    BY <1>1, <1>2, <2>1 DEF MappedUpTo
  <2> QED
    BY <1>1, <2>2 DEF Mapping
<1>7. busy = Marked(AllocatedPages(Len(regions)))
  BY <1>1 DEF Marking, IInv
<1>8. \A page : BitOf(page)' = BitOf(page)
  BY <1>1, Zenon DEF BitOf, AtOrBelow
<1> DEFINE new == PagesOf(phys_manager_addr, ManagerEnd)
<1>9. busy' = busy \cup Marked(new)
  BY <1>1, Zenon DEF Marked
<1>10. InUse = new \cup AllocatedPages(Len(regions))
  BY BootTable DEF InUse, AllocatedPages, IInv
<1>11. busy' = Marked(InUse)
  BY <1>7, <1>9, <1>10, Zenon DEF Marked
<1>12. Marking'
  <2>1. InUse' = InUse
    BY <1>1, <1>2 DEF InUse
  <2>2. Marked(InUse)' = Marked(InUse)
    BY <1>8, <2>1, Zenon DEF Marked
  <2> QED
    BY <1>1, <1>11, <2>2 DEF Marking
<1>13. TypeOK'
  <2>1. new \in SUBSET Nat
    BY PagesAreNumbers DEF IInv, TypeOK
  <2> HIDE DEF new
  <2>2. busy' \in SUBSET Nat
    BY <1>9, <2>1, MarkedNumbers DEF IInv, TypeOK
  <2> QED
    BY <1>1, <1>2, <2>2 DEF TypeOK, Steps, IInv
<1> QED
  BY <1>1, <1>3, <1>4, <1>5, <1>6, <1>12, <1>13 DEF IInv

------------------------------------------------------------------------------
(* No step of init_memory_manager breaks the invariant.                      *)
LEMMA StepKeeps == IInv /\ [Next]_vars => IInv'
<1> SUFFICES ASSUME IInv, [Next]_vars PROVE IInv'
  OBVIOUS
<1>1. CASE CountRegion
  BY <1>1, CountKeeps
<1>2. CASE PlaceManager
  BY <1>2, PlaceKeeps
<1>3. CASE MapPage
  BY <1>3, MapKeeps
<1>4. CASE ClearPages
  BY <1>4, ClearKeeps
<1>5. CASE PopulateEntry
  BY <1>5, PopulateKeeps
<1>6. CASE MarkAllocated
  BY <1>6, MarkAllocatedKeeps
<1>7. CASE MarkManager
  BY <1>7, MarkManagerKeeps
<1>8. CASE UNCHANGED vars
  <2>1. /\ regions' = regions /\ phys_manager_addr' = phys_manager_addr /\ i' = i
        /\ combined_region_count' = combined_region_count /\ step' = step
        /\ bitmap_bit_count' = bitmap_bit_count /\ physmap' = physmap
        /\ bitmap_addr' = bitmap_addr /\ kernel_end' = kernel_end /\ ptes' = ptes
        /\ busy' = busy
    BY <1>8 DEF vars
  <2>2. Walk(regions)' = Walk(regions) /\ ManagerPages' = ManagerPages
        /\ ManagerEnd' = ManagerEnd
    BY <2>1 DEF ManagerEnd, ManagerPages, BitmapPages, PhysmapPages
  <2>3. Counting' /\ Filling' /\ Placing'
    BY <2>1, <2>2 DEF Counting, Filling, Populated, Placing, Chosen, IInv
  <2>4. Mapping'
    BY <2>1, <2>2 DEF Mapping, MappedUpTo, IInv
  <2>5. Marking'
    <3>1. \A page : BitOf(page)' = BitOf(page)
      BY <2>1, Zenon DEF BitOf, AtOrBelow
    <3>2. \A P : Marked(P)' = Marked(P)
      BY <3>1, Zenon DEF Marked
    <3>3. InUse' = InUse /\ \A n : AllocatedPages(n)' = AllocatedPages(n)
      BY <2>1, <2>2 DEF InUse, AllocatedPages
    <3> QED
      BY <2>1, <3>2, <3>3 DEF Marking, IInv
  <2>6. TypeOK'
    BY <2>1, <2>2 DEF TypeOK, IInv
  <2> QED
    BY <2>1, <2>3, <2>4, <2>5, <2>6 DEF IInv
<1> QED
  BY <1>1, <1>2, <1>3, <1>4, <1>5, <1>6, <1>7, <1>8 DEF Next, Hang

------------------------------------------------------------------------------
(* What the invariant implies.                                               *)

(* A number lies within the whole pages that it takes and one more.          *)
LEMMA PagesHold ==
  ASSUME NEW x \in Nat
  PROVE  x <= (x \div PageSize + 1) * PageSize
<1> DEFINE q == x \div PageSize
           r == x % PageSize
<1>1. PageSize \in Nat \ {0}
  BY RegionTableAssumption
<1>2. q \in Nat /\ r \in 0..(PageSize - 1) /\ x = PageSize * q + r
  BY <1>1, Divide
<1> HIDE DEF q, r
<1>3. x <= (q + 1) * PageSize
  BY <1>1, <1>2
<1> QED
  BY <1>3 DEF q

LEMMA IInvFits == IInv => FillingFits
<1> SUFFICES ASSUME IInv PROVE FillingFits
  OBVIOUS
<1> DEFINE w == Walk(regions)
           n == Len(regions)
           m == Len(physmap)
           c == combined_region_count
           x == w[c].bytes
<1>1. n \in Nat /\ m \in Nat /\ c \in 0..n /\ m <= c
      /\ bitmap_bit_count = BitsPerByte * x /\ bitmap_addr = w[m].bytes
  BY BootTable DEF IInv, Counting, Filling, TypeOK
<1>2. bitmap_addr <= x /\ x \in Nat /\ bitmap_addr \in Nat
  <2>1. m \in 0..n
    BY <1>1
  <2>2. w[m].bytes <= w[c].bytes
    BY <1>1, <2>1, WalkForward DEF IInv
  <2>3. w[c].bytes \in Nat
    BY <1>1, WalkNow DEF IInv
  <2> QED
    BY <1>1, <2>2, <2>3 DEF IInv, TypeOK
<1> HIDE DEF x, c, m, n, w
<1>3. BitmapPages = x \div PageSize + 1
  <2>1. bitmap_bit_count \div BitsPerByte = x
    <3>1. BitsPerByte \in Nat \ {0} /\ 0 \in 0..(BitsPerByte - 1)
      BY MemoryManagerAssumption
    <3>2. (BitsPerByte * x + 0) \div BitsPerByte = x
      BY <1>2, <3>1, Quotient
    <3>3. BitsPerByte * x + 0 = BitsPerByte * x
      BY <1>2, <3>1
    <3> QED
      BY <1>1, <3>2, <3>3
  <2> QED
    BY <2>1 DEF BitmapPages
<1>4. bitmap_addr <= BitmapPages * PageSize
  <2>1. x <= BitmapPages * PageSize
    BY <1>2, <1>3, PagesHold
  <2>2. BitmapPages * PageSize \in Nat
    <3>1. BitmapPages \in Nat
      BY ManagerPagesType DEF IInv, TypeOK
    <3> QED
      BY <3>1, RegionTableAssumption
  <2> QED
    BY <1>2, <2>1, <2>2
<1>5. m * EntrySize <= PhysmapPages * PageSize
  <2>1. c * EntrySize \in Nat /\ m * EntrySize <= c * EntrySize
        /\ m * EntrySize \in Nat
    BY <1>1, MemoryManagerAssumption
  <2>2. c * EntrySize <= PhysmapPages * PageSize
    BY <2>1, PagesHold DEF PhysmapPages, c
  <2>3. PhysmapPages * PageSize \in Nat
    <3>1. PhysmapPages \in Nat
      BY ManagerPagesType DEF IInv, TypeOK
    <3> QED
      BY <3>1, RegionTableAssumption
  <2> QED
    BY <2>1, <2>2, <2>3
<1> QED
  BY <1>4, <1>5 DEF FillingFits, m

(* An entry's slice is the bytes the walk counted for its run.               *)
LEMMA SliceIs ==
  ASSUME IInv, NEW k \in 1..Len(physmap), physmap[k].alloc_map # NoBitmap
  PROVE  \A b \in Slice(k) : /\ b \in Nat
                             /\ Walk(regions)[k - 1].bytes <= b
                             /\ b < Walk(regions)[k].bytes
<1> DEFINE w == Walk(regions)
           s == w[k - 1].next
           y == BitmapBytes(regions, s)
<1>1. /\ s \in 1..Len(regions) /\ w[k - 1].bytes \in Nat
      /\ w[k].bytes = w[k - 1].bytes + BytesAt(regions, s)
      /\ physmap[k].len = RunSize(regions, s)
      /\ physmap[k].alloc_map =
            IF Combinable(regions[s]) THEN w[k - 1].bytes ELSE NoBitmap
  BY PhysmapNow
<1>2. s \in DOMAIN regions /\ Combinable(regions[s])
      /\ physmap[k].alloc_map = w[k - 1].bytes
      /\ w[k].bytes = w[k - 1].bytes + y
  BY <1>1, BootTable DEF IInv, BytesAt
<1>3. y \in Nat /\ ((physmap[k].len \div PageSize) - 1) \div BitsPerByte = y - 1
  BY <1>1, <1>2, RunPages DEF IInv
<1> HIDE DEF w, s, y
<1>4. Slice(k) = {w[k - 1].bytes + b : b \in 0..(y - 1)}
  BY <1>2, <1>3 DEF Slice
<1>5. ASSUME NEW c \in 0..(y - 1)
      PROVE  /\ w[k - 1].bytes + c \in Nat
             /\ w[k - 1].bytes <= w[k - 1].bytes + c
             /\ w[k - 1].bytes + c < w[k].bytes
  BY <1>1, <1>2, <1>3
<1> QED
  BY <1>4, <1>5 DEF w

LEMMA IInvSlices == IInv => SlicesApart
<1> SUFFICES ASSUME IInv, NEW k \in DOMAIN physmap, NEW l \in DOMAIN physmap,
                    physmap[k].alloc_map # NoBitmap,
                    physmap[l].alloc_map # NoBitmap, k # l
             PROVE  /\ Slice(k) \cap Slice(l) = {}
                    /\ \A b \in Slice(k) : b < bitmap_addr
  BY DEF SlicesApart
<1> DEFINE w == Walk(regions)
           n == Len(regions)
           m == Len(physmap)
<1>1. m \in Nat /\ n \in Nat /\ k \in 1..m /\ l \in 1..m /\ m \in 0..n
      /\ bitmap_addr = w[m].bytes
  <2>1. m \in Nat /\ n \in Nat /\ DOMAIN physmap = 1..m
    BY BootTable DEF IInv, TypeOK
  <2>2. m <= combined_region_count /\ combined_region_count \in 0..n
        /\ bitmap_addr = w[m].bytes
    BY DEF IInv, Filling, Counting
  <2> HIDE DEF m, n, w
  <2> QED
    BY <2>1, <2>2
<1>2. /\ \A b \in Slice(k) : b \in Nat /\ w[k - 1].bytes <= b /\ b < w[k].bytes
      /\ \A b \in Slice(l) : b \in Nat /\ w[l - 1].bytes <= b /\ b < w[l].bytes
  BY <1>1, SliceIs
<1>3. \A j \in 0..n : w[j].bytes \in Nat
  BY WalkNow DEF IInv
<1>4. \A j, h \in 0..n : j <= h => w[j].bytes <= w[h].bytes
  BY WalkForward DEF IInv
<1> HIDE DEF w, n, m
<1>5. k \in 0..n /\ l \in 0..n /\ k - 1 \in 0..n /\ l - 1 \in 0..n
  BY <1>1
<1>6. \A b \in Slice(k) : b < bitmap_addr
  <2>1. w[k].bytes <= w[m].bytes /\ w[k].bytes \in Nat /\ w[m].bytes \in Nat
    BY <1>1, <1>3, <1>4, <1>5
  <2> QED
    BY <1>1, <1>2, <2>1
<1>7. Slice(k) \cap Slice(l) = {}
  <2>1. CASE k < l
    <3>1. w[k].bytes <= w[l - 1].bytes /\ w[k].bytes \in Nat /\ w[l - 1].bytes \in Nat
      BY <1>1, <1>3, <1>4, <1>5, <2>1
    <3> QED
      BY <1>2, <3>1
  <2>2. CASE l < k
    <3>1. w[l].bytes <= w[k - 1].bytes /\ w[l].bytes \in Nat /\ w[k - 1].bytes \in Nat
      BY <1>1, <1>3, <1>4, <1>5, <2>2
    <3> QED
      BY <1>2, <3>1
  <2> QED
    BY <1>1, <2>1, <2>2
<1> QED
  BY <1>6, <1>7

(* Once filled, every entry of the table is part of a physmap entry.         *)
LEMMA HeldBySome ==
  ASSUME IInv, Populated, NEW k \in 1..Len(regions)
  PROVE  \E j \in 1..Len(physmap) : Holds(physmap[j], regions[k])
<1> DEFINE w == Walk(regions)
           n == Len(regions)
           m == Len(physmap)
<1>1. m \in 0..n /\ w[m].next > n /\ n \in Nat
  BY BootTable DEF IInv, TypeOK, Filling, Counting, Populated
<1>2. k < w[m].next
  <2>1. w[m].next \in Nat
    BY <1>1, WalkNow DEF IInv
  <2> QED
    BY <1>1, <2>1
<1>3. PICK j \in 1..m : /\ w[j - 1].next <= n
                        /\ k \in w[j - 1].next..RunEnd(regions, w[j - 1].next)
  BY <1>1, <1>2, WalkCovers DEF IInv
<1> DEFINE s == w[j - 1].next
           e == RunEnd(regions, s)
<1>4. /\ s \in 1..n /\ physmap[j].addr = regions[s].addr_start
      /\ physmap[j].len = RunSize(regions, s)
      /\ physmap[j].type = PhysmemType(regions[s].type)
  BY PhysmapNow
<1>5. s \in DOMAIN regions /\ k \in s..e /\ e \in s..n
  BY <1>3, <1>4, BootTable, RunFacts DEF IInv
<1>6. /\ RunSize(regions, s) = regions[e].addr_end - regions[s].addr_start
      /\ regions[s].addr_start <= regions[k].addr_start
      /\ regions[k].addr_end <= regions[e].addr_end
      /\ k # s => Combinable(regions[s]) /\ Combinable(regions[k])
  BY <1>5, RunPages, RunFacts DEF IInv
<1>7. regions[s].addr_start \in Nat /\ regions[e].addr_end \in Nat
  <2>1. e \in 1..n
    BY <1>1, <1>4, <1>5
  <2> QED
    BY <1>4, <2>1, BootTable DEF IInv
<1> HIDE DEF s, e
<1>8. PhysmemType(regions[s].type) = PhysmemType(regions[k].type)
  <2>1. CASE k = s
    BY <2>1
  <2>2. CASE k # s
    <3>1. regions[s].type \in {"AVAILABLE", "ALLOCATED"}
          /\ regions[k].type \in {"AVAILABLE", "ALLOCATED"}
      BY <1>6, <2>2 DEF Combinable
    <3> QED
      BY <3>1, Zenon DEF PhysmemType
  <2> QED
    BY <2>1, <2>2
<1> QED
  BY <1>4, <1>6, <1>7, <1>8 DEF Holds

(* A page of an entry of the table is in no other physmap entry.             *)
LEMMA HeldByOne ==
  ASSUME IInv, NEW k \in 1..Len(regions),
         NEW j \in 1..Len(physmap), Holds(physmap[j], regions[k]),
         NEW a \in Nat, regions[k].addr_start <= a, a < regions[k].addr_end,
         NEW l \in 1..Len(physmap),
         physmap[l].addr <= a, a < physmap[l].addr + physmap[l].len
  PROVE  l = j
<1>1. \A x \in 1..Len(physmap) : physmap[x].addr \in Nat /\ physmap[x].len \in Nat
  <2> SUFFICES ASSUME NEW x \in 1..Len(physmap)
               PROVE  physmap[x].addr \in Nat /\ physmap[x].len \in Nat
    OBVIOUS
  <2> DEFINE s == Walk(regions)[x - 1].next
  <2>1. /\ s \in 1..Len(regions) /\ physmap[x].addr = regions[s].addr_start
        /\ physmap[x].len = RunSize(regions, s)
    BY PhysmapNow
  <2> HIDE DEF s
  <2> QED
    BY <2>1, BootTable, RunPages DEF IInv
<1>2. physmap[j].addr <= a /\ a < physmap[j].addr + physmap[j].len
  <2>1. regions[k].addr_start \in Nat /\ regions[k].addr_end \in Nat
    BY BootTable DEF IInv
  <2> QED
    BY <1>1, <2>1 DEF Holds
<1>3. CASE j < l
  <2>1. physmap[j].addr + physmap[j].len <= physmap[l].addr
    BY <1>3, PhysmapInOrder
  <2> QED
    BY <1>1, <1>2, <2>1
<1>4. CASE l < j
  <2>1. physmap[l].addr + physmap[l].len <= physmap[j].addr
    BY <1>4, PhysmapInOrder
  <2> QED
    BY <1>1, <1>2, <2>1
<1>5. Len(physmap) \in Nat
  BY DEF IInv, TypeOK
<1> QED
  BY <1>3, <1>4, <1>5

LEMMA IInvCovers == IInv => PhysmapCovers
<1> SUFFICES ASSUME IInv, Populated PROVE PhysmapCovers
  BY DEF PhysmapCovers
<1>1. DOMAIN physmap = 1..Len(physmap) /\ DOMAIN regions = 1..Len(regions)
  BY BootTable DEF IInv, TypeOK
<1>2. ASSUME NEW k \in 1..Len(regions)
      PROVE  Cardinality({l \in DOMAIN physmap : Holds(physmap[l], regions[k])}) = 1
  <2>1. PICK j \in 1..Len(physmap) : Holds(physmap[j], regions[k])
    BY HeldBySome
  <2> DEFINE a == regions[k].addr_start
  <2>2. a \in Nat /\ a <= a /\ a < regions[k].addr_end /\ regions[k].addr_end \in Nat
    BY BootTable DEF IInv
  <2>3. ASSUME NEW l \in 1..Len(physmap), Holds(physmap[l], regions[k])
        PROVE  l = j
    <3> DEFINE s == Walk(regions)[l - 1].next
    <3>1. /\ s \in 1..Len(regions) /\ physmap[l].addr = regions[s].addr_start
          /\ physmap[l].len = RunSize(regions, s)
      BY PhysmapNow
    <3>2. physmap[l].addr \in Nat /\ physmap[l].len \in Nat
      BY <3>1, BootTable, RunPages DEF IInv
    <3>3. physmap[l].addr <= a /\ a < physmap[l].addr + physmap[l].len
      BY <2>2, <2>3, <3>2 DEF Holds
    <3> QED
      BY <2>1, <2>2, <3>3, HeldByOne
  <2>4. {l \in DOMAIN physmap : Holds(physmap[l], regions[k])} = {j}
    BY <1>1, <2>1, <2>3
  <2> QED
    BY <2>4, FS_Singleton
<1>3. \A l, m \in DOMAIN physmap : l < m =>
        physmap[l].addr + physmap[l].len <= physmap[m].addr
  BY <1>1, PhysmapInOrder
<1> QED
  BY <1>1, <1>2, <1>3 DEF PhysmapCovers

LEMMA IInvPlaced == IInv => ManagerPlaced
<1> SUFFICES ASSUME IInv, phys_manager_addr # 0 PROVE ManagerPlaced
  BY DEF ManagerPlaced
<1>1. Chosen
  BY DEF IInv, Placing
<1>2. PICK c \in DOMAIN regions : /\ regions[c].type = "AVAILABLE"
                                  /\ phys_manager_addr = regions[c].addr_start
                                  /\ phys_manager_addr >= LowMemory
                                  /\ ManagerEnd <= regions[c].addr_end
  BY <1>1 DEF Chosen
<1>3. ASSUME NEW k \in DOMAIN regions, regions[k].type # "AVAILABLE"
      PROVE  Apart(regions[k], Region(phys_manager_addr, ManagerEnd, "AVAILABLE"))
  <2>1. k \in 1..Len(regions) /\ c \in 1..Len(regions) /\ k # c
        /\ ManagerEnd \in Nat
    <3>1. k # c
      BY <1>2, <1>3
    <3>2. ManagerPages \in Nat /\ phys_manager_addr \in Nat
      BY ManagerPagesType DEF IInv, TypeOK
    <3>3. ManagerEnd \in Nat
      BY <3>2, RegionTableAssumption DEF ManagerEnd
    <3> QED
      BY <3>1, <3>3, BootTable DEF IInv
  <2>2. \A x, y \in 1..Len(regions) : /\ x < y => regions[x].addr_end <= regions[y].addr_start
                                      /\ regions[x].addr_start \in Nat
                                      /\ regions[x].addr_end \in Nat
    BY BootTable DEF IInv
  <2>3. Len(regions) \in Nat
    BY DEF IInv, TypeOK
  <2>4. CASE k < c
    BY <1>2, <2>1, <2>2, <2>4 DEF Apart, Region
  <2>5. CASE c < k
    <3>1. ManagerEnd <= regions[k].addr_start
      BY <1>2, <2>1, <2>2, <2>5
    <3> QED
      BY <3>1 DEF Apart, Region
  <2> QED
    BY <2>1, <2>3, <2>4, <2>5
<1> QED
  BY <1>2, <1>3 DEF ManagerPlaced

LEMMA IInvMapped == IInv => ManagerMapped
<1> SUFFICES ASSUME IInv, step \in {"clear", "populate"} \/ Populated
             PROVE  ManagerMapped
  BY DEF ManagerMapped
<1>1. MappedUpTo(ManagerPages)
  BY DEF IInv, Mapping, Populated
<1> QED
  BY <1>1 DEF ManagerMapped, MappedUpTo

(* Where the first region holds all pages in use, the search finds the right *)
(* entry for each, and its bit is the page's own.                            *)
LEMMA PageOwned ==
  ASSUME IInv, step = "done", NEW page \in InUse
  PROVE  /\ page \in Nat
         /\ \E k \in 1..Len(regions) :
              /\ Combinable(regions[k])
              /\ regions[k].addr_start <= page /\ page < regions[k].addr_end
<1>1. regions \in BootTables /\ phys_manager_addr \in Nat /\ ManagerPages \in Nat
  BY ManagerPagesType DEF IInv, TypeOK
<1>2. ManagerEnd \in Nat
  BY <1>1, RegionTableAssumption DEF ManagerEnd
<1>3. CASE page \in PagesOf(phys_manager_addr, ManagerEnd)
  <2>1. page \in phys_manager_addr..(ManagerEnd - 1)
    BY <1>3 DEF PagesOf
  <2>2. PICK c \in DOMAIN regions : /\ regions[c].type = "AVAILABLE"
                                    /\ phys_manager_addr = regions[c].addr_start
                                    /\ ManagerEnd <= regions[c].addr_end
    BY DEF IInv, Placing, Chosen
  <2>3. c \in 1..Len(regions) /\ regions[c].addr_end \in Nat
    BY <1>1, BootTable
  <2> QED
    BY <1>1, <1>2, <2>1, <2>2, <2>3 DEF Combinable
<1>4. CASE \E k \in DOMAIN regions :
             /\ regions[k].type = "ALLOCATED"
             /\ page \in PagesOf(regions[k].addr_start, regions[k].addr_end)
  <2>1. PICK k \in DOMAIN regions :
             /\ regions[k].type = "ALLOCATED"
             /\ page \in regions[k].addr_start..(regions[k].addr_end - 1)
    BY <1>4 DEF PagesOf
  <2>2. k \in 1..Len(regions) /\ regions[k].addr_start \in Nat
        /\ regions[k].addr_end \in Nat
    BY <1>1, BootTable
  <2> QED
    BY <2>1, <2>2 DEF Combinable
<1> QED
  BY <1>3, <1>4 DEF InUse

LEMMA OwnBitFound ==
  ASSUME IInv, step = "done", NEW page \in InUse, InFirstRegion
  PROVE  BitOf(page) = {OwnBit(page)}
<1>1. page \in Nat
  BY PageOwned
<1>2. PICK k \in 1..Len(regions) :
              /\ Combinable(regions[k])
              /\ regions[k].addr_start <= page /\ page < regions[k].addr_end
  BY PageOwned
<1>3. physmap[1].addr <= page /\ page < physmap[1].addr + physmap[1].len
  BY DEF InFirstRegion
<1>4. Populated /\ DOMAIN physmap = 1..Len(physmap) /\ Len(physmap) \in Nat
  BY DEF Populated, IInv, TypeOK
<1>5. PICK j \in 1..Len(physmap) : Holds(physmap[j], regions[k])
  BY <1>4, HeldBySome
<1>6. 1 \in DOMAIN physmap
  BY <1>4, <1>5
<1>7. \A l \in DOMAIN physmap :
        physmap[l].addr <= page /\ page < physmap[l].addr + physmap[l].len => l = j
  BY <1>1, <1>2, <1>4, <1>5, HeldByOne
<1>8. j = 1
  BY <1>3, <1>6, <1>7
<1>9. physmap[1].type = "AVAILABLE"
  <2>1. regions[k].type \in {"AVAILABLE", "ALLOCATED"}
    BY <1>2 DEF Combinable
  <2>2. PhysmemType(regions[k].type) = "AVAILABLE"
    BY <2>1, Zenon DEF PhysmemType
  <2> QED
    BY <1>5, <1>8, <2>2 DEF Holds
<1>10. AtOrBelow(page) # {} /\ Min(AtOrBelow(page)) = 1
  <2>1. 1 \in AtOrBelow(page)
    BY <1>3, <1>6 DEF AtOrBelow
  <2>2. /\ Min(AtOrBelow(page)) \in AtOrBelow(page)
        /\ \A l \in AtOrBelow(page) : Min(AtOrBelow(page)) <= l
    BY <1>1, <2>1, BitFound
  <2>3. AtOrBelow(page) \subseteq 1..Len(physmap)
    BY <1>4 DEF AtOrBelow
  <2> DEFINE x == Min(AtOrBelow(page))
  <2>4. x \in 1..Len(physmap) /\ x <= 1
    BY <2>1, <2>2, <2>3
  <2> HIDE DEF x
  <2>5. x = 1
    BY <1>4, <2>4
  <2> QED
    BY <2>1, <2>5 DEF x
<1>11. BitOf(page) = {physmap[1].alloc_map * BitsPerByte
                        + (page - physmap[1].addr) \div PageSize}
  BY <1>9, <1>10, Zenon DEF BitOf
<1> DEFINE c == CHOOSE l \in DOMAIN physmap :
                  /\ physmap[l].addr <= page
                  /\ page < physmap[l].addr + physmap[l].len
<1>12. c = 1
  <2>1. c \in DOMAIN physmap /\ physmap[c].addr <= page
        /\ page < physmap[c].addr + physmap[c].len
    BY <1>3, <1>6, Zenon
  <2> HIDE DEF c
  <2> QED
    BY <1>7, <1>8, <2>1
<1>13. OwnBit(page) = physmap[c].alloc_map * BitsPerByte
                        + (page - physmap[c].addr) \div PageSize
  BY Zenon DEF OwnBit
<1> HIDE DEF c
<1> QED
  BY <1>11, <1>12, <1>13, Zenon

LEMMA IInvMarked == IInv => MarkedExactly
<1> SUFFICES ASSUME IInv, step = "done", InFirstRegion PROVE busy = OwnBits
  BY DEF MarkedExactly
<1>1. busy = Marked(InUse)
  BY DEF IInv, Marking
<1>2. \A page \in InUse : BitOf(page) = {OwnBit(page)}
  BY OwnBitFound
<1>3. ASSUME NEW b \in busy PROVE b \in OwnBits
  <2>1. PICK page \in InUse : b \in BitOf(page)
    BY <1>1 DEF Marked
  <2> QED
    BY <1>2, <2>1 DEF OwnBits
<1>4. ASSUME NEW b \in OwnBits PROVE b \in busy
  <2>1. PICK page \in InUse : b = OwnBit(page)
    BY DEF OwnBits
  <2>2. b \in BitOf(page)
    BY <1>2, <2>1
  <2> QED
    BY <1>1, <2>2 DEF Marked
<1> QED
  BY <1>3, <1>4

------------------------------------------------------------------------------
(* How many pages there are in a stretch of memory, and in a run.            *)
LEMMA CountPages ==
  ASSUME NEW a \in Nat, NEW q \in Nat
  PROVE  /\ IsFiniteSet(PagesOf(a, a + PageSize * q))
         /\ Cardinality(PagesOf(a, a + PageSize * q)) = q
<1> DEFINE S(j) == PagesOf(a, a + PageSize * j)
           P == {j \in 0..q : IsFiniteSet(S(j)) /\ Cardinality(S(j)) = j}
<1>1. PageSize \in Nat \ {0}
  BY RegionTableAssumption
<1>2. 0 \in P
  <2>1. a + PageSize * 0 = a /\ a..(a - 1) = {}
    BY <1>1
  <2>2. S(0) = {}
    BY <2>1 DEF PagesOf
  <2> HIDE DEF S
  <2> QED
    BY <2>2, FS_EmptySet
<1>3. ASSUME NEW j \in (0 + 1)..q, j - 1 \in P PROVE j \in P
  <2> DEFINE x == a + PageSize * (j - 1)
  <2>1. x \in Nat /\ a <= x /\ a + PageSize * j = x + PageSize
    BY <1>1
  <2>2. (x - a) % PageSize = 0
    <3>1. x - a = PageSize * (j - 1) + 0 /\ 0 \in 0..(PageSize - 1) /\ j - 1 \in Nat
      BY <1>1
    <3>2. (PageSize * (j - 1) + 0) % PageSize = 0
      BY <1>1, <3>1, Quotient
    <3> HIDE DEF x
    <3> QED
      BY <3>1, <3>2
  <2>3. S(j - 1) = {y \in a..(x - 1) : (y - a) % PageSize = 0}
    BY DEF PagesOf
  <2>4. S(j) = {y \in a..(x + PageSize - 1) : (y - a) % PageSize = 0}
    <3> HIDE DEF x
    <3>1. (a + PageSize * j) - 1 = x + PageSize - 1
      BY <1>1, <2>1
    <3> QED
      BY <3>1, Zenon DEF PagesOf
  <2>5. ASSUME NEW y \in x..(x + PageSize - 1), (y - a) % PageSize = 0
        PROVE  y = x
    <3> DEFINE r == y - x
    <3>1. r \in 0..(PageSize - 1) /\ y - a = PageSize * (j - 1) + r /\ j - 1 \in Nat
      BY <1>1, <2>1
    <3>2. (PageSize * (j - 1) + r) % PageSize = r
      <4> HIDE DEF r
      <4> QED
        BY <1>1, <3>1, Quotient
    <3>3. r = 0
      <4> HIDE DEF r
      <4> QED
        BY <2>5, <3>1, <3>2
    <3> QED
      BY <2>1, <3>3
  <2> HIDE DEF x, S
  <2>6. S(j) = S(j - 1) \cup {x} /\ x \notin S(j - 1)
    <3>1. \A y : y \in a..(x + PageSize - 1)
                   <=> y \in a..(x - 1) \/ y \in x..(x + PageSize - 1)
      BY <1>1, <2>1
    <3>2. x \in x..(x + PageSize - 1) /\ x \notin a..(x - 1)
      BY <1>1, <2>1
    <3> QED
      BY <2>2, <2>3, <2>4, <2>5, <3>1, <3>2
  <2>7. IsFiniteSet(S(j - 1)) /\ Cardinality(S(j - 1)) = j - 1
    BY <1>3
  <2>8. IsFiniteSet(S(j)) /\ Cardinality(S(j)) = (j - 1) + 1
    BY <2>6, <2>7, FS_AddElement
  <2> QED
    BY <2>8
<1>4. P \in SUBSET (0..q) /\ 0 \in Nat /\ 0 <= q
  OBVIOUS
<1> HIDE DEF P
<1>5. \A j \in 0..q : j \in P
  BY <1>2, <1>3, <1>4, LoopInvariant, Zenon
<1> QED
  BY <1>5 DEF P

\* The pages of memory in the entries before entry m.
PagesBefore(t, m) ==
  UNION {PagesOf(t[k].addr_start, t[k].addr_end) :
           k \in {l \in 1..(m - 1) : Combinable(t[l])}}

(* One more entry brings as many pages as its size holds.                    *)
LEMMA EntryBrings ==
  ASSUME NEW t \in BootTables, NEW m \in 1..Len(t), IsFiniteSet(PagesBefore(t, m))
  PROVE  /\ IsFiniteSet(PagesBefore(t, m + 1))
         /\ Combinable(t[m]) =>
              PageSize * Cardinality(PagesBefore(t, m + 1))
                = PageSize * Cardinality(PagesBefore(t, m))
                    + (t[m].addr_end - t[m].addr_start)
         /\ ~Combinable(t[m]) => PagesBefore(t, m + 1) = PagesBefore(t, m)
<1>1. PageSize \in Nat \ {0} /\ Len(t) \in Nat /\ m \in Nat /\ m \in DOMAIN t
  BY RegionTableAssumption, BootTable
<1>2. 1..((m + 1) - 1) = (1..(m - 1)) \cup {m}
  BY <1>1
<1>3. CASE ~Combinable(t[m])
  <2>1. PagesBefore(t, m + 1) = PagesBefore(t, m)
    BY <1>2, <1>3, Zenon DEF PagesBefore
  <2> QED
    BY <1>3, <2>1
<1>4. CASE Combinable(t[m])
  <2> DEFINE N == PagesOf(t[m].addr_start, t[m].addr_end)
             B == PagesBefore(t, m)
  <2>1. PagesBefore(t, m + 1) = B \cup N
    <3>1. {l \in 1..((m + 1) - 1) : Combinable(t[l])}
            = {l \in 1..(m - 1) : Combinable(t[l])} \cup {m}
      BY <1>2, <1>4
    <3> QED
      BY <3>1, Zenon DEF PagesBefore
  <2>2. PICK q \in Nat : t[m].addr_end - t[m].addr_start = PageSize * q
    <3>1. /\ t[m].addr_start \in Nat /\ t[m].addr_end \in Nat
          /\ t[m].addr_start <= t[m].addr_end
      BY BootTable
    <3>2. t[m].addr_start % PageSize = 0 /\ t[m].addr_end % PageSize = 0
      BY <1>1, <1>4, MemoryManagerProofAssumption
    <3> QED
      BY <3>1, <3>2, AlignedDistance
  <2>3. IsFiniteSet(N) /\ Cardinality(N) = q
    <3>1. t[m].addr_start \in Nat
          /\ t[m].addr_end = t[m].addr_start + PageSize * q
      BY <1>1, <2>2, BootTable
    <3> QED
      BY <3>1, CountPages
  <2>4. B \cap N = {}
    <3> SUFFICES ASSUME NEW x \in B, x \in N PROVE FALSE
      OBVIOUS
    <3>1. PICK k \in 1..(m - 1) : x \in PagesOf(t[k].addr_start, t[k].addr_end)
      BY DEF PagesBefore
    <3>2. k \in 1..Len(t) /\ k < m
      BY <1>1
    <3>3. t[k].addr_end <= t[m].addr_start /\ t[k].addr_end \in Nat
          /\ t[m].addr_start \in Nat
      BY <3>2, BootTable
    <3>4. x \in t[k].addr_start..(t[k].addr_end - 1)
          /\ x \in t[m].addr_start..(t[m].addr_end - 1)
      BY <3>1 DEF PagesOf
    <3> QED
      BY <3>3, <3>4
  <2> HIDE DEF B, N
  <2>5. IsFiniteSet(B)
    BY DEF B
  <2>6. /\ IsFiniteSet(B \cup N) /\ Cardinality(B) \in Nat
        /\ Cardinality(B \cup N) = Cardinality(B) + q
    <3>1. Cardinality(B \cap N) = 0
      BY <2>4, FS_EmptySet
    <3>2. Cardinality(B) \in Nat
      BY <2>5, FS_CardinalityType
    <3>3. Cardinality(B \cup N) = Cardinality(B) + Cardinality(N) - Cardinality(B \cap N)
          /\ IsFiniteSet(B \cup N)
      BY <2>3, <2>5, FS_Union
    <3> QED
      BY <2>3, <3>1, <3>2, <3>3
  <2>7. PageSize * (Cardinality(B) + q) = PageSize * Cardinality(B) + PageSize * q
    BY <1>1, <2>6
  <2> QED
    BY <1>4, <2>1, <2>2, <2>6, <2>7 DEF B
<1> QED
  BY <1>3, <1>4

(* A run brings as many pages as its size holds.                             *)
LEMMA RunBrings ==
  ASSUME NEW t \in BootTables, NEW s \in 1..Len(t), IsFiniteSet(PagesBefore(t, s))
  PROVE  LET next == RunEnd(t, s) + 1
         IN  /\ IsFiniteSet(PagesBefore(t, next))
             /\ Combinable(t[s]) =>
                  PageSize * Cardinality(PagesBefore(t, next))
                    = PageSize * Cardinality(PagesBefore(t, s)) + RunSize(t, s)
             /\ ~Combinable(t[s]) => PagesBefore(t, next) = PagesBefore(t, s)
<1> DEFINE n == Len(t)
           e == RunEnd(t, s)
           C(m) == PageSize * Cardinality(PagesBefore(t, m))
<1>1. n \in Nat /\ s \in 1..n /\ s \in DOMAIN t /\ PageSize \in Nat \ {0}
      /\ \A m \in 1..n : t[m].addr_start \in Nat /\ t[m].addr_end \in Nat
  BY BootTable, RegionTableAssumption
<1>2. e \in s..n /\ \A m \in s..e : m # s =>
        Combinable(t[s]) /\ Combinable(t[m]) /\ t[m].addr_start = t[m - 1].addr_end
  BY <1>1, RunFacts
<1>3. CASE ~Combinable(t[s])
  <2>1. e = s
    BY <1>3 DEF RunEnd
  <2> QED
    BY <1>1, <1>3, <2>1, EntryBrings
<1>4. CASE Combinable(t[s])
  <2> DEFINE P == {m \in s..e : /\ IsFiniteSet(PagesBefore(t, m + 1))
                                /\ C(m + 1) = C(s) + (t[m].addr_end - t[s].addr_start)}
  <2>1. \A m \in 1..n : IsFiniteSet(PagesBefore(t, m)) => C(m) \in Nat
    BY <1>1, FS_CardinalityType
  <2> HIDE DEF n, e
  <2>2. s \in P
    <3>1. s \in s..e
      BY <1>1, <1>2
    <3> QED
      BY <1>4, <3>1, EntryBrings
  <2>3. ASSUME NEW m \in (s + 1)..e, m - 1 \in P PROVE m \in P
    <3>1. m \in 1..n /\ m - 1 \in 1..n /\ m \in s..e /\ m # s /\ (m - 1) + 1 = m
      BY <1>1, <1>2
    <3>2. Combinable(t[m]) /\ t[m].addr_start = t[m - 1].addr_end
      BY <1>2, <3>1
    <3>3. /\ IsFiniteSet(PagesBefore(t, m))
          /\ C(m) = C(s) + (t[m - 1].addr_end - t[s].addr_start)
      <4> HIDE DEF C
      <4> QED
        BY <2>3, <3>1
    <3>4. /\ IsFiniteSet(PagesBefore(t, m + 1))
          /\ C(m + 1) = C(m) + (t[m].addr_end - t[m].addr_start)
      BY <3>1, <3>2, <3>3, EntryBrings DEF n
    <3>5. C(s) \in Nat /\ C(m) \in Nat
      <4> HIDE DEF C
      <4> QED
        BY <1>1, <2>1, <3>1, <3>3
    <3> HIDE DEF C
    <3>6. C(m + 1) = C(s) + (t[m].addr_end - t[s].addr_start)
      BY <1>1, <3>1, <3>2, <3>3, <3>4, <3>5
    <3> QED
      BY <3>1, <3>4, <3>6
  <2>4. P \in SUBSET (s..e) /\ s \in Nat /\ e \in Nat /\ s <= e
    BY <1>1, <1>2
  <2> HIDE DEF P
  <2>5. \A m \in s..e : m \in P
    BY <2>2, <2>3, <2>4, LoopInvariant, Zenon
  <2>6. e \in P
    BY <2>4, <2>5
  <2>7. RunSize(t, s) = t[e].addr_end - t[s].addr_start
    BY <1>1, RunPages DEF e
  <2> QED
    BY <1>4, <2>6, <2>7 DEF P, e
<1> QED
  BY <1>3, <1>4

(* After n regions the bits counted are at least the pages there are, and    *)
(* fewer than a byte of bits for each region more.                           *)
LEMMA BitsForPages ==
  ASSUME NEW t \in BootTables, NEW c \in 0..Len(t)
  PROVE  /\ Cardinality(PagesBefore(t, Walk(t)[c].next)) \in Nat
         /\ Cardinality(PagesBefore(t, Walk(t)[c].next))
              <= BitsPerByte * Walk(t)[c].bytes
         /\ BitsPerByte * Walk(t)[c].bytes
              <= Cardinality(PagesBefore(t, Walk(t)[c].next))
                   + (BitsPerByte - 1) * c
<1> DEFINE n == Len(t)
           w == Walk(t)
           K(j) == Cardinality(PagesBefore(t, w[j].next))
           bits(j) == BitsPerByte * w[j].bytes
           P == {j \in 0..n : /\ IsFiniteSet(PagesBefore(t, w[j].next))
                              /\ K(j) <= bits(j)
                              /\ bits(j) <= K(j) + (BitsPerByte - 1) * j}
<1>1. n \in Nat /\ w[0] = [next |-> 1, bytes |-> 0]
      /\ (\A j \in 0..n : w[j].next \in 1..(n + 1) /\ w[j].bytes \in Nat)
      /\ \A j \in 1..n : w[j] = Onward(t, w[j - 1])
  BY BootTable, WalkRuns DEF Places
<1>2. BitsPerByte \in Nat \ {0} /\ PageSize \in Nat \ {0}
  BY MemoryManagerAssumption, RegionTableAssumption
<1> HIDE DEF n, w
<1>3. 0 \in P
  <2>1. PagesBefore(t, 1) = {}
    BY DEF PagesBefore
  <2>2. w[0].next = 1 /\ w[0].bytes = 0
    BY <1>1
  <2>3. IsFiniteSet(PagesBefore(t, w[0].next)) /\ K(0) = 0
    BY <2>1, <2>2, FS_EmptySet
  <2> HIDE DEF K
  <2> QED
    BY <1>1, <1>2, <2>2, <2>3
<1>4. ASSUME NEW j \in (0 + 1)..n, j - 1 \in P PROVE j \in P
  <2>1. /\ j \in 1..n /\ j - 1 \in 0..n /\ j \in 0..n
        /\ IsFiniteSet(PagesBefore(t, w[j - 1].next))
        /\ K(j - 1) <= bits(j - 1)
        /\ bits(j - 1) <= K(j - 1) + (BitsPerByte - 1) * (j - 1)
    BY <1>1, <1>4
  <2>2. K(j - 1) \in Nat /\ bits(j - 1) \in Nat
    <3>1. K(j - 1) \in Nat
      BY <2>1, FS_CardinalityType
    <3>2. w[j - 1].bytes \in Nat
      BY <1>1, <2>1
    <3>3. bits(j - 1) \in Nat
      BY <1>2, <3>2
    <3> QED
      BY <3>1, <3>3
  <2>3. (BitsPerByte - 1) * j = (BitsPerByte - 1) * (j - 1) + (BitsPerByte - 1)
        /\ (BitsPerByte - 1) * (j - 1) \in Nat
    BY <1>2, <2>1
  <2>4. CASE w[j - 1].next > n
    <3>1. w[j] = w[j - 1]
      BY <1>1, <2>1, <2>4 DEF Onward, n
    <3>2. K(j) = K(j - 1) /\ bits(j) = bits(j - 1)
          /\ IsFiniteSet(PagesBefore(t, w[j].next))
      BY <2>1, <3>1
    <3> HIDE DEF K, bits
    <3> QED
      BY <1>2, <2>1, <2>2, <2>3, <3>2
  <2>5. CASE ~(w[j - 1].next > n)
    <3> DEFINE s == w[j - 1].next
               size == RunSize(t, s)
               p == size \div PageSize
               more == BitsPerByte * BytesAt(t, s)
    <3>1. s \in 1..n /\ s \in 1..Len(t) /\ s \in DOMAIN t
      BY <1>1, <2>1, <2>5, BootTable DEF n
    <3>2. w[j].next = RunEnd(t, s) + 1 /\ w[j].bytes = w[j - 1].bytes + BytesAt(t, s)
      <4>1. w[j] = Onward(t, w[j - 1])
        BY <1>1, <2>1
      <4> QED
        BY <2>5, <4>1 DEF Onward, NextRun, n
    <3>3. BytesAt(t, s) \in Nat
      BY <3>1, RunPages DEF BytesAt
    <3>4. w[j - 1].bytes \in Nat
      BY <1>1, <2>1
    <3>5. bits(j) = bits(j - 1) + more /\ more \in Nat
      <4> HIDE DEF s
      <4> QED
        BY <1>2, <3>2, <3>3, <3>4
    <3>6. IsFiniteSet(PagesBefore(t, s))
      BY <2>1
    <3>7. /\ IsFiniteSet(PagesBefore(t, w[j].next))
          /\ Combinable(t[s]) => PageSize * K(j) = PageSize * K(j - 1) + size
          /\ ~Combinable(t[s]) => K(j) = K(j - 1)
      <4>1. LET next == RunEnd(t, s) + 1
            IN  /\ IsFiniteSet(PagesBefore(t, next))
                /\ Combinable(t[s]) =>
                     PageSize * Cardinality(PagesBefore(t, next))
                       = PageSize * Cardinality(PagesBefore(t, s)) + RunSize(t, s)
                /\ ~Combinable(t[s]) => PagesBefore(t, next) = PagesBefore(t, s)
        <5> HIDE DEF s
        <5> QED
          BY <3>1, <3>6, RunBrings
      <4> QED
        BY <3>2, <4>1
    <3>8. K(j) \in Nat
      BY <3>7, FS_CardinalityType
    <3>9. CASE Combinable(t[s])
      <4>1. /\ BitsFor(p) = BitsPerByte * BitmapBytes(t, s) /\ p \in Nat
        BY <3>1, <3>9, RunPages
      <4>2. BitsFor(p) = more
        BY <3>9, <4>1 DEF BytesAt
      <4>3. more \in p..(p + (BitsPerByte - 1))
        <5> HIDE DEF p, more
        <5> QED
          BY <4>1, <4>2, BitsAreBytes
      <4>4. size = PageSize * p
        <5>1. PICK q \in Nat : size = PageSize * q
          <6>1. RunEnd(t, s) \in s..Len(t)
                /\ (RunEnd(t, s) # s => Combinable(t[RunEnd(t, s)]))
            BY <3>1, RunFacts, BootTable
          <6> DEFINE e == RunEnd(t, s)
          <6>2. e \in DOMAIN t /\ Combinable(t[e]) /\ e \in 1..Len(t)
            BY <1>1, <3>1, <3>9, <6>1, BootTable
          <6>3. size = t[e].addr_end - t[s].addr_start /\ size \in Nat \ {0}
            BY <3>1, RunPages
          <6> HIDE DEF e, s, size
          <6>4. t[e].addr_end % PageSize = 0 /\ t[s].addr_start % PageSize = 0
            BY <3>1, <3>9, <6>2, MemoryManagerProofAssumption
          <6>5. t[e].addr_end \in Nat /\ t[s].addr_start \in Nat
            BY <3>1, <6>2, BootTable
          <6>6. t[s].addr_start <= t[e].addr_end
            BY <6>3, <6>5
          <6> QED
            BY <6>3, <6>4, <6>5, <6>6, AlignedDistance
        <5> HIDE DEF size
        <5>2. p = q
          BY <5>1, RoundUpPages
        <5> QED
          BY <5>1, <5>2
      <4> HIDE DEF K, bits, more, p, size, s
      <4>5. K(j) = K(j - 1) + p
        <5>1. PageSize * K(j) = PageSize * (K(j - 1) + p)
          BY <1>2, <2>2, <3>7, <3>9, <4>1, <4>4
        <5> QED
          BY <1>2, <2>2, <3>8, <4>1, <5>1
      <4> QED
        <5>1. more >= p /\ more <= p + (BitsPerByte - 1)
          BY <1>2, <4>1, <4>3
        <5>2. K(j) <= bits(j)
          BY <2>1, <2>2, <3>5, <4>1, <4>5, <5>1
        <5> DEFINE spare == (BitsPerByte - 1) * (j - 1)
                   less  == BitsPerByte - 1
        <5>3. /\ spare \in Nat /\ (BitsPerByte - 1) * j = spare + less
              /\ bits(j - 1) <= K(j - 1) + spare
          BY <2>1, <2>3
        <5>4. less \in Nat /\ more <= p + less
          BY <1>2, <5>1
        <5> HIDE DEF spare, less
        <5>5. bits(j) <= K(j) + (spare + less)
          BY <2>2, <3>5, <4>1, <4>5, <5>3, <5>4
        <5>6. bits(j) <= K(j) + (BitsPerByte - 1) * j
          BY <5>3, <5>5
        <5> QED
          BY <2>1, <3>7, <5>2, <5>6
    <3>10. CASE ~Combinable(t[s])
      <4>1. more = 0
        BY <1>2, <3>10 DEF BytesAt
      <4>2. K(j) = K(j - 1)
        BY <3>7, <3>10
      <4> HIDE DEF K, bits, more, s
      <4> QED
        BY <1>2, <2>1, <2>2, <2>3, <3>5, <3>7, <4>1, <4>2
    <3> QED
      BY <3>9, <3>10
  <2> QED
    BY <2>4, <2>5
<1>5. P \in SUBSET (0..n) /\ 0 \in Nat /\ 0 <= n
  BY <1>1
<1> HIDE DEF P
<1>6. \A j \in 0..n : j \in P
  BY <1>1, <1>3, <1>4, <1>5, LoopInvariant, Zenon
<1>7. c \in P
  BY <1>6 DEF n
<1>8. K(c) \in Nat
  BY <1>7, FS_CardinalityType DEF P
<1> QED
  BY <1>7, <1>8 DEF P, w

LEMMA IInvSized == IInv => BitmapSized
<1> SUFFICES ASSUME IInv, Counted PROVE BitmapSized
  BY DEF BitmapSized
<1> DEFINE w == Walk(regions)
           n == Len(regions)
           c == combined_region_count
           K == Cardinality(MemoryPages)
<1>1. regions \in BootTables /\ c \in 0..n /\ w[c].next > n
      /\ bitmap_bit_count = BitsPerByte * w[c].bytes
  BY DEF IInv, Counting, Counted
<1>2. n \in Nat /\ w[c].next \in 1..(n + 1) /\ DOMAIN regions = 1..n
  BY <1>1, WalkNow, BootTable DEF IInv
<1>3. w[c].next = n + 1
  <2> HIDE DEF w, n
  <2> QED
    BY <1>1, <1>2
<1>4. PagesBefore(regions, n + 1) = MemoryPages
  <2>1. (n + 1) - 1 = n
    BY <1>2
  <2> HIDE DEF n
  <2> QED
    BY <1>2, <2>1, Zenon DEF PagesBefore, MemoryPages
<1>5. /\ K \in Nat /\ K <= BitsPerByte * w[c].bytes
      /\ BitsPerByte * w[c].bytes <= K + (BitsPerByte - 1) * c
  BY <1>1, <1>3, <1>4, BitsForPages
<1>6. (BitsPerByte - 1) * c <= (BitsPerByte - 1) * n
      /\ (BitsPerByte - 1) * c \in Nat /\ (BitsPerByte - 1) * n \in Nat
  BY <1>1, <1>2, MemoryManagerAssumption
<1>7. bitmap_bit_count \in Nat
  BY DEF IInv, TypeOK
<1> HIDE DEF K, n, c, w
<1>8. bitmap_bit_count <= K + (BitsPerByte - 1) * n
  <2> DEFINE x == (BitsPerByte - 1) * c
             y == (BitsPerByte - 1) * n
  <2>1. x \in Nat /\ y \in Nat /\ x <= y /\ bitmap_bit_count <= K + x
    BY <1>1, <1>5, <1>6
  <2> HIDE DEF x, y
  <2>2. bitmap_bit_count <= K + y
    BY <1>5, <1>7, <2>1
  <2> QED
    BY <2>2 DEF y
<1> QED
  BY <1>1, <1>5, <1>8 DEF BitmapSized, K, n

------------------------------------------------------------------------------
(* The invariant holds throughout init_memory_manager, for every boot table. *)
THEOREM Invariance == Spec => []IInv
<1>1. Init => IInv
  BY InitIInv
<1>2. IInv /\ [Next]_vars => IInv'
  BY StepKeeps
<1> QED
  BY <1>1, <1>2, PTL DEF Spec

(* Every variable has its type: no bit is set below the bitmap's start, and  *)
(* every page from 0 to the kernel's end has an entry.                       *)
THEOREM TypeCorrect == Spec => []TypeOK
<1>1. IInv => TypeOK
  BY DEF IInv
<1> QED
  BY <1>1, Invariance, PTL

(* The first walk counts at least a bit for every page of available and      *)
(* allocated memory, and less than a byte of bits for each region too many   *)
(* (memory-manager.c:92-157).                                                *)
THEOREM EnoughBitsCounted == Spec => []BitmapSized
BY IInvSized, Invariance, PTL

(* The walk that fills the bitmap and the physmap array stays inside the     *)
(* pages that the walk which counted asked for (memory-manager.c:161-167     *)
(* against 216-301).                                                         *)
THEOREM WhatIsFilledFits == Spec => []FillingFits
BY IInvFits, Invariance, PTL

(* No two regions share a byte of the bitmap, however their sizes round      *)
(* (memory-manager.c:143-153 and 262-270).                                   *)
THEOREM RegionsOwnTheirBytes == Spec => []SlicesApart
BY IInvSlices, Invariance, PTL

(* Combining regions loses no entry of the boot table, claims none twice and *)
(* changes no kind (memory-manager.c:92-157 and 216-301).                    *)
THEOREM NothingLostInCombining == Spec => []PhysmapCovers
BY IInvCovers, Invariance, PTL

(* The manager's own pages are never memory that something else uses         *)
(* (memory-manager.c:169-194).                                               *)
THEOREM ManagerInFreeMemory == Spec => []ManagerPlaced
BY IInvPlaced, Invariance, PTL

(* The manager's pages are mapped behind the kernel in order, and no mapping *)
(* of the kernel moves (memory-manager.c:205 and 391-448).                   *)
THEOREM ManagerMappedInOrder == Spec => []ManagerMapped
BY IInvMapped, Invariance, PTL

(* Where the first region holds every page in use, exactly the bits of these *)
(* pages are set (memory-manager.c:303-349).                                 *)
THEOREM ExactlyTheUsedPagesMarked == Spec => []MarkedExactly
BY IInvMarked, Invariance, PTL
==============================================================================
