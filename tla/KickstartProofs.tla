--------------------------- MODULE KickstartProofs ---------------------------
(***************************************************************************)
(* The theorems about Kickstart: for every page size, every number of      *)
(* levels and of entries of the page tables, and every list of tags and    *)
(* kernel that meet the assumption below.                                  *)
(***************************************************************************)
EXTENDS Kickstart, RegionTableProofs

\* The entry of the region table that an entry of a memory map becomes.
Reported(entry) == PageRounded(FirmwareRegion(entry))

\* A memory map whose entries do not overlap once rounded, end within reach of
\* a 32-bit pointer and, if they round to no length, come after no entry that
\* starts above them.
MapInOrder(entries) ==
  \A e \in DOMAIN entries :
    /\ Reported(entries[e]).addr_end <= PtrSpan
    /\ \A f \in DOMAIN entries : e # f =>
         Apart(Reported(entries[e]), Reported(entries[f]))
    /\ \A f \in DOMAIN entries :
         e < f /\ ~Empty(Reported(entries[e])) /\ Empty(Reported(entries[f]))
           => Reported(entries[e]).addr_start <= Reported(entries[f]).addr_start

\* A block that pmm.c can round without overflow.
Reservable(b) ==
  /\ b \in Block
  /\ b.addr_start < b.addr_end
  /\ RoundUp(b.addr_end) < PtrSpan

IsMap(tag)    == tag.type = "MMAP"
IsKernel(tag) == tag.type = "MODULE" /\ tag.cmdline = KernelName

\* What is loaded of a program header fits in 32 bits and in its memory.
Loadable(s) ==
  s.load =>
    /\ {s.vaddr, s.mem_len, s.file_len, s.f_off} \subseteq Nat
    /\ s.file_len <= s.mem_len
    /\ s.mem_len + PageSize <= PtrSpan

(***************************************************************************)
(* What Kickstart relies on and does not check.  The boot loader reports   *)
(* one memory map, in order as above (pmm.c:51 leaves overlapping entries  *)
(* to do).  Kickstart and the kernel's file do not share a page, and each  *)
(* lies in one available entry or apart from all of them (main.c:148-151   *)
(* has no other way of protecting them).  The kernel's segments have sizes *)
(* that elf.c:286 can round to pages in 32 bits.                           *)
(***************************************************************************)
ASSUME KickstartProofAssumption ==
  /\ Levels * PageSize < PtrSpan
  /\ Reservable(KickstartBlock)
  /\ \A list \in TagLists :
       /\ \A m \in DOMAIN list : IsMap(list[m]) =>
            /\ MapInOrder(list[m].entries)
            /\ \A n \in DOMAIN list : IsMap(list[n]) => n = m
       /\ \A n \in DOMAIN list : IsKernel(list[n]) =>
            /\ Reservable(list[n].block)
            /\ Apart(ReservedRange(KickstartBlock), ReservedRange(list[n].block))
       /\ \A m \in DOMAIN list : IsMap(list[m]) =>
            LET all == {Reported(list[m].entries[e]) : e \in DOMAIN list[m].entries}
            IN  /\ Sheltered(all, ReservedRange(KickstartBlock))
                /\ \A n \in DOMAIN list : IsKernel(list[n]) =>
                     Sheltered(all, ReservedRange(list[n].block))
  /\ \A kernel \in KernelImages :
       LET bytes == Encoded(kernel)
           head  == elf_initialize(bytes)
       IN  head.valid /\ head.arch # "X86" =>
             /\ head.prog_header_count \in Nat
             /\ \A n \in 1..head.prog_header_count :
                  Loadable(program_header(bytes, head, n - 1))

ReportedSet(entries) == {Reported(entries[e]) : e \in DOMAIN entries}

\* A table whose entries are apart and in order.
GoodTable(t) == t \in Seq(Regions) /\ InOrder(t) /\ Sound(t, Entries({}))

------------------------------------------------------------------------------
(* An entry of a memory map becomes an entry of the table with no owner.     *)
LEMMA ReportedType ==
  ASSUME NEW entry \in MapEntry
  PROVE  FirmwareRegion(entry) \in Regions /\ Reported(entry) \in Regions
<1>1. entry.addr \in Nat /\ entry.len \in Nat
  BY DEF MapEntry
<1>2. entry.addr + entry.len \in Nat
  BY <1>1
<1>3. RegionTypeOf(entry.type) \in RegionTypes
  BY DEF RegionTypeOf, RegionTypes, FirmwareTypes
<1>4. FirmwareRegion(entry) \in Regions
  BY <1>1, <1>2, <1>3 DEF FirmwareRegion, Region, Regions
<1> QED
  BY <1>4, PageRoundedType DEF Reported

(* The loop over a memory map (main.c:87-119): the table ends up in order,   *)
(* and has every entry that is not empty.                                    *)
LEMMA EnteredOrders ==
  ASSUME NEW entries \in Seq(MapEntry), MapInOrder(entries)
  PROVE  /\ GoodTable(Entered(<<>>, entries))
         /\ Content(Entered(<<>>, entries))
              = {x \in ReportedSet(entries) : ~Empty(x)}
<1> DEFINE n == Len(entries)
           First(k) == {x \in {Reported(entries[e]) : e \in 1..k} : ~Empty(x)}
           S == [k \in 0..n |-> {t \in Seq(Regions) :
                                   GoodTable(t) /\ Content(t) = First(k)}]
           Body(t, k) == add_region(t, FirmwareRegion(entries[k]))
           B == [k \in 1..n |-> [t \in S[k - 1] |-> Body(t, k)]]
           table == CHOOSE f : f = [k \in 0..n |->
                      IF k = 0 THEN <<>> ELSE Body(f[k - 1], k)]
<1>1. n \in Nat /\ DOMAIN entries = 1..n /\ \A k \in 1..n : entries[k] \in MapEntry
  OBVIOUS
<1>2. ReportedSet(entries) = {Reported(entries[e]) : e \in 1..n}
  BY <1>1 DEF ReportedSet
<1> HIDE DEF n
<1>3. <<>> \in S[0]
  <2>1. GoodTable(<<>>)
    BY DEF GoodTable, InOrder, Sound
  <2>2. Content(<<>>) = {} /\ First(0) = {}
    BY DEF Content
  <2>3. 0 \in 0..n /\ <<>> \in Seq(Regions)
    BY <1>1
  <2> HIDE DEF First
  <2> QED
    BY <2>1, <2>2, <2>3
<1>4. ASSUME NEW k \in 1..n, NEW t \in S[k - 1]
      PROVE  Body(t, k) \in S[k]
  <2> DEFINE r == FirmwareRegion(entries[k])
             q == PageRounded(r)
  <2>1. k \in 0..n /\ k - 1 \in 0..n /\ k \in DOMAIN entries /\ entries[k] \in MapEntry
    BY <1>1
  <2>2. t \in Seq(Regions) /\ GoodTable(t) /\ Content(t) = First(k - 1)
    <3> HIDE DEF First
    <3> QED
      BY <2>1
  <2>3. r \in Regions /\ q \in Regions /\ q = Reported(entries[k])
    BY <2>1, ReportedType DEF Reported
  <2>4. /\ q.addr_end <= PtrSpan
        /\ \A e \in 1..(k - 1) : Apart(Reported(entries[e]), q)
        /\ \A e \in 1..(k - 1) : ~Empty(Reported(entries[e])) /\ Empty(q)
             => Reported(entries[e]).addr_start <= q.addr_start
    <3>1. \A e \in 1..(k - 1) : e \in DOMAIN entries /\ e # k /\ e < k
      BY <1>1
    <3> QED
      BY <2>1, <2>3, <3>1 DEF MapInOrder
  <2> HIDE DEF r, q
  <2>5. \A j \in DOMAIN t : \E e \in 1..(k - 1) :
          t[j] = Reported(entries[e]) /\ ~Empty(t[j])
    BY <2>2 DEF Content
  <2>6. /\ \A j \in DOMAIN t : Apart(t[j], q)
        /\ Empty(q) => \A j \in DOMAIN t : t[j].addr_start <= q.addr_start
    BY <2>4, <2>5
  <2>7. q \in Entries({}) /\ InOrder(t) /\ Sound(t, Entries({})) /\ Sound(t, Regions)
    BY <2>2, <2>3, <2>4, SoundIsRegions DEF GoodTable, Entries
  <2>8. add_region(t, r) \in Seq(Regions) /\ Sound(add_region(t, r), Entries({}))
    BY <2>2, <2>3, <2>6, <2>7, AddRegionSound DEF q
  <2>9. /\ InOrder(add_region(t, r))
        /\ Content(add_region(t, r)) = {x \in Content(t) \cup {q} : ~Empty(x)}
    BY <2>2, <2>3, <2>6, <2>7, AddRegionOrders DEF q
  <2>10. First(k) = {x \in First(k - 1) \cup {q} : ~Empty(x)}
    <3>1. 1..k = 1..(k - 1) \cup {k}
      BY <1>1
    <3>2. {Reported(entries[e]) : e \in 1..k}
            = {Reported(entries[e]) : e \in 1..(k - 1)} \cup {q}
      BY <2>3, <3>1
    <3> QED
      BY <3>2
  <2> HIDE DEF First
  <2>11. GoodTable(Body(t, k)) /\ Content(Body(t, k)) = First(k)
    BY <2>2, <2>8, <2>9, <2>10 DEF GoodTable, r
  <2> HIDE DEF Body
  <2> QED
    BY <2>1, <2>11 DEF GoodTable
<1>5. PICK f : /\ RunOf(f, 0, n, <<>>, B)
               /\ \A k \in 0..n : f[k] \in S[k]
  <2>1. \A k \in (0 + 1)..n : B[k] \in [S[k - 1] -> S[k]]
    <3> HIDE DEF Body, S
    <3> QED
      BY <1>4
  <2>2. 0 \in Nat /\ 0 <= n
    BY <1>1
  <2> HIDE DEF B, S
  <2> QED
    BY <1>1, <1>3, <2>1, <2>2, LoopRunsThrough
<1>6. f = [k \in 0..n |-> IF k = 0 THEN <<>> ELSE Body(f[k - 1], k)]
  <2>1. ASSUME NEW k \in 0..n, k # 0 PROVE B[k][f[k - 1]] = Body(f[k - 1], k)
    <3>1. k \in 1..n /\ k - 1 \in 0..n
      BY <1>1, <2>1
    <3> HIDE DEF Body, S
    <3> QED
      BY <1>5, <3>1
  <2> HIDE DEF B, S, Body
  <2> QED
    BY <1>5, <2>1 DEF RunOf
<1>7. table = [k \in 0..n |-> IF k = 0 THEN <<>> ELSE Body(table[k - 1], k)]
  <2> HIDE DEF Body
  <2> QED
    BY <1>6, Zenon
<1>8. Entered(<<>>, entries) = table[n]
  BY Zenon DEF Entered, n
<1> HIDE DEF table
<1>9. \A k \in 0..n : table[k] \in S[k]
  <2> DEFINE P == {k \in 0..n : table[k] \in S[k]}
  <2>1. 0 \in P
    <3> HIDE DEF S
    <3> QED
      BY <1>1, <1>3, <1>7
  <2>2. ASSUME NEW k \in (0 + 1)..n, k - 1 \in P PROVE k \in P
    <3>1. k \in 1..n /\ k \in 0..n /\ k # 0 /\ table[k - 1] \in S[k - 1]
      BY <1>1, <2>2
    <3> HIDE DEF S, Body
    <3>2. table[k] = Body(table[k - 1], k)
      BY <1>7, <3>1
    <3>3. Body(table[k - 1], k) \in S[k]
      BY <1>4, <3>1
    <3> QED
      BY <3>1, <3>2, <3>3
  <2>3. P \in SUBSET (0..n) /\ 0 \in Nat /\ 0 <= n
    BY <1>1
  <2> HIDE DEF P
  <2>4. \A k \in 0..n : k \in P
    BY <1>1, <2>1, <2>2, <2>3, LoopInvariant, Zenon
  <2> QED
    BY <2>4 DEF P
<1>10. GoodTable(table[n]) /\ Content(table[n]) = First(n)
  <2> HIDE DEF First
  <2>1. n \in 0..n
    BY <1>1
  <2> QED
    BY <1>9, <2>1
<1> QED
  BY <1>2, <1>8, <1>10

------------------------------------------------------------------------------
(***************************************************************************)
(* What allocations do to memory that is owned.                            *)
(***************************************************************************)
\* Addresses lo to hi - 1 are in one entry of that type.
InEntry(t, lo, hi, type) ==
  \E k \in DOMAIN t :
    t[k].type = type /\ t[k].addr_start <= lo /\ hi <= t[k].addr_end

Owned(t, p, type) == InEntry(t, p, p + PageSize, type)

\* Every entry with an owner is still there.
KeepsOwned(t, u) ==
  \A k \in DOMAIN t : t[k].type \in OwnerTypes => \E l \in DOMAIN u : u[l] = t[k]

LEMMA KeptInEntry ==
  ASSUME NEW t, NEW u, KeepsOwned(t, u), NEW lo, NEW hi, NEW type \in OwnerTypes,
         InEntry(t, lo, hi, type)
  PROVE  InEntry(u, lo, hi, type)
<1>1. PICK k \in DOMAIN t :
        t[k].type = type /\ t[k].addr_start <= lo /\ hi <= t[k].addr_end
  BY DEF InEntry
<1>2. PICK l \in DOMAIN u : u[l] = t[k]
  BY <1>1 DEF KeepsOwned
<1> QED
  BY <1>1, <1>2 DEF InEntry

(* What has an owner is not in an entry of another type.                     *)
LEMMA OwnedApart ==
  ASSUME NEW t \in Seq(Regions), Sound(t, Regions), NEW p \in Nat, NEW q \in Nat,
         NEW lo \in Nat, NEW hi \in Nat, lo < hi, lo <= p, p + PageSize <= hi,
         NEW type, NEW other, type # other,
         InEntry(t, lo, hi, type), Owned(t, q, other)
  PROVE  p # q
<1> SUFFICES ASSUME p = q PROVE FALSE
  OBVIOUS
<1>1. PICK k \in DOMAIN t :
        t[k].type = type /\ t[k].addr_start <= lo /\ hi <= t[k].addr_end
  BY DEF InEntry
<1>2. PICK l \in DOMAIN t :
        t[l].type = other /\ t[l].addr_start <= q /\ q + PageSize <= t[l].addr_end
  BY DEF InEntry, Owned
<1>3. t[k] \in Regions /\ t[l] \in Regions /\ k # l
  BY <1>1, <1>2
<1>4. /\ t[k].addr_start \in Nat /\ t[k].addr_end \in Nat
      /\ t[l].addr_start \in Nat /\ t[l].addr_end \in Nat
  BY <1>3 DEF Regions
<1>5. Apart(t[k], t[l])
  BY <1>3 DEF Sound
<1> QED
  BY <1>1, <1>2, <1>4, <1>5, RegionTableAssumption DEF Apart

(* An allocation leaves what is owned alone, and what it returns was owned   *)
(* by nobody.                                                                *)
LEMMA AllocateKeeps ==
  ASSUME NEW G \in SUBSET Regions, NEW t \in Seq(Regions), Sound(t, Entries(G)),
         InOrder(t), NEW pages \in Nat, pages * PageSize < PtrSpan,
         NEW type \in OwnerTypes
  PROVE  LET call == allocate_region(t, pages, type)
             u    == call.table
             end  == call.ret + pages * PageSize
         IN  /\ u \in Seq(Regions) /\ InOrder(u) /\ Sound(u, Entries(G))
             /\ KeepsOwned(t, u)
             /\ call.ret \in Nat /\ end \in Nat
             /\ call.ret # 0 =>
                  /\ InEntry(u, call.ret, end, type)
                  /\ \A p \in Nat, other \in OwnerTypes :
                       Owned(t, p, other) => p + PageSize <= call.ret \/ end <= p
<1> DEFINE call == allocate_region(t, pages, type)
           u    == call.table
           end  == call.ret + pages * PageSize
           g    == Grant(t, pages, type)
           Result == /\ u \in Seq(Regions) /\ InOrder(u) /\ Sound(u, Entries(G))
                     /\ KeepsOwned(t, u)
                     /\ call.ret \in Nat /\ end \in Nat
                     /\ call.ret # 0 =>
                          /\ InEntry(u, call.ret, end, type)
                          /\ \A p \in Nat, other \in OwnerTypes :
                               Owned(t, p, other) => p + PageSize <= call.ret \/ end <= p
<1>1. /\ u \in Seq(Regions)
      /\ call.ret = 0 => Sound(u, Entries(G))
      /\ call.ret # 0 => g \in Regions /\ Sound(u, Entries(G \cup {g}))
  BY AllocateSound
<1>2. \/ u = t /\ call.ret = 0
      \/ call.ret # 0 /\ \E j \in DOMAIN t : Carved(u, t, j, g)
  BY AllocateOrders
<1>3. g = Region(call.ret, end, type)
  BY DEF Grant
<1>4. pages * PageSize \in Nat
  BY RegionTableAssumption
<1> HIDE DEF call, g
<1>5. ASSUME u = t, call.ret = 0 PROVE Result
  BY <1>1, <1>4, <1>5 DEF KeepsOwned
<1>6. ASSUME call.ret # 0, \E j \in DOMAIN t : Carved(u, t, j, g) PROVE Result
  <2>1. PICK j \in DOMAIN t : Carved(u, t, j, g)
    BY <1>6
  <2>2. /\ InOrder(u) /\ t[j].type = "AVAILABLE"
        /\ t[j].addr_start <= g.addr_start /\ g.addr_start < g.addr_end
        /\ g.addr_end <= t[j].addr_end
        /\ \A x \in Content(t) : x # t[j] /\ ~Empty(x) => x \in Content(u)
        /\ ~Empty(g) => g \in Content(u)
    BY <2>1 DEF Carved, Parts
  <2>3. /\ g.addr_start = call.ret /\ g.addr_end = end /\ g.type = type
        /\ g \in Regions
    BY <1>1, <1>3, <1>6 DEF Region
  <2>4. call.ret \in Nat /\ end \in Nat
    BY <2>3 DEF Regions
  <2> HIDE DEF end
  <2>5. Sound(u, Entries(G))
    <3>1. Entries(G \cup {g}) \subseteq Entries(G)
      BY DEF Entries
    <3> QED
      BY <1>1, <1>6, <3>1 DEF Sound
  <2>6. KeepsOwned(t, u)
    <3> SUFFICES ASSUME NEW k \in DOMAIN t, t[k].type \in OwnerTypes
                 PROVE  \E l \in DOMAIN u : u[l] = t[k]
      BY DEF KeepsOwned
    <3>1. t[k] \in Content(t) /\ ~Empty(t[k]) /\ t[k] # t[j]
      BY <2>2 DEF Content, InOrder, OwnerTypes
    <3> QED
      BY <2>2, <3>1 DEF Content
  <2>7. InEntry(u, call.ret, end, type)
    <3>1. g \in Content(u)
      BY <2>2, <2>3, <2>4 DEF Empty
    <3>2. PICK l \in DOMAIN u : u[l] = g
      BY <3>1 DEF Content
    <3> QED
      BY <2>3, <2>4, <3>2 DEF InEntry
  <2>8. ASSUME NEW p \in Nat, NEW other \in OwnerTypes, Owned(t, p, other)
        PROVE  p + PageSize <= call.ret \/ end <= p
    <3>1. PICK k \in DOMAIN t :
            t[k].type = other /\ t[k].addr_start <= p /\ p + PageSize <= t[k].addr_end
      BY <2>8 DEF Owned, InEntry
    <3>2. t[k] \in Regions /\ t[j] \in Regions /\ k # j
      BY <2>2, <3>1 DEF OwnerTypes
    <3>3. /\ t[k].addr_start \in Nat /\ t[k].addr_end \in Nat
          /\ t[j].addr_start \in Nat /\ t[j].addr_end \in Nat
      BY <3>2 DEF Regions
    <3>4. Apart(t[k], t[j])
      BY <3>2 DEF Sound
    <3>5. \/ t[k].addr_end <= t[j].addr_start
          \/ t[j].addr_end <= t[k].addr_start
          \/ t[k].addr_end <= t[k].addr_start
          \/ t[j].addr_end <= t[j].addr_start
      BY <3>4 DEF Apart
    <3>6. /\ t[j].addr_start <= call.ret /\ call.ret < end /\ end <= t[j].addr_end
      BY <2>2, <2>3
    <3>7. PageSize \in Nat /\ PageSize > 0
      BY RegionTableAssumption
    <3> QED
      BY <2>4, <3>1, <3>3, <3>5, <3>6, <3>7
  <2> QED
    BY <1>1, <2>2, <2>4, <2>5, <2>6, <2>7, <2>8
<1>7. Result
  BY <1>2, <1>5, <1>6
<1> QED
  BY <1>7, Zenon DEF call

------------------------------------------------------------------------------
(***************************************************************************)
(* The page tables, as long as no table's allocation has failed.           *)
(***************************************************************************)
Index == 0..(TableEntries - 1)
Last  == Levels - 1
Slots == [present : BOOLEAN, addr : Nat, writable : BOOLEAN, executable : BOOLEAN]

\* Slot n of table p, which is not of the last level, links to q.
LinksTable(tb, lev, p, n, q) ==
  lev[p] < Last /\ tb[p][n].present /\ tb[p][n].addr = q

\* The tables tb form a tree under the PML4 `top', in which lev gives the level
\* of each: a table above the last level links to tables one level down, each
\* table but the PML4 is linked once, and those of the last level, the identity
\* map's apart, map pages of the kernel's segments.  Tables are in memory that t
\* calls allocated, and the pages da that hold bytes of the file in the kernel's.
Tree(t, tb, da, top, lev) ==
  /\ tb \in [DOMAIN tb -> [Index -> Slots]] /\ DOMAIN tb \subseteq Nat
  /\ lev \in [DOMAIN tb -> 0..Last]
  /\ top \in DOMAIN tb /\ lev[top] = 0
  /\ top + Last * PageSize \in DOMAIN tb /\ lev[top + Last * PageSize] = Last
  /\ \A p \in DOMAIN tb, n \in Index : tb[p][n].present =>
       IF lev[p] < Last
         THEN tb[p][n].addr \in DOMAIN tb /\ lev[tb[p][n].addr] = lev[p] + 1
         ELSE p # top + Last * PageSize => Owned(t, tb[p][n].addr, "KERNEL")
  /\ \A q \in DOMAIN tb : q # top =>
       \E p \in DOMAIN tb, n \in Index : LinksTable(tb, lev, p, n, q)
  /\ \A p, q, r \in DOMAIN tb, m, n \in Index :
       LinksTable(tb, lev, p, m, q) /\ LinksTable(tb, lev, r, n, q)
         => p = r /\ m = n
  /\ \A p \in DOMAIN tb : Owned(t, p, "ALLOCATED")
  /\ DOMAIN da \subseteq Nat /\ \A p \in DOMAIN da : Owned(t, p, "KERNEL")

\* No mapping or link of tb is lost or changed in tc.
Extends(tb, tc) ==
  \A p \in DOMAIN tb :
    /\ p \in DOMAIN tc
    /\ \A n \in Index : tb[p][n].present => tc[p][n] = tb[p][n]

(* Indices of slots are in range, whatever the address.                      *)
LEMMA TableIndexRange ==
  ASSUME NEW vpage \in Nat, NEW l \in 0..Last
  PROVE  TableIndex(vpage, l) \in Index
<1>1. TableEntries \in Nat \ {0} /\ Levels - 1 - l \in Nat
  BY KickstartAssumption DEF Last
<1> DEFINE q == vpage \div Power(TableEntries, Levels - 1 - l)
<1>2. q \in Nat
  BY <1>1, PowerSteps, Divide
<1> HIDE DEF q
<1>3. q % TableEntries \in Index
  BY <1>1, <1>2, Divide DEF Index
<1> QED
  BY <1>3 DEF TableIndex, q

(* The tree stays one when only the table of regions changes.                *)
LEMMA TreeKept ==
  ASSUME NEW t, NEW u, KeepsOwned(t, u), NEW tb, NEW da, NEW top, NEW lev,
         Tree(t, tb, da, top, lev)
  PROVE  Tree(u, tb, da, top, lev)
BY KeptInEntry DEF Tree, Owned, OwnerTypes

\* A record of memory as Walk passes it down.
World(x) ==
  x = [regions |-> x.regions, at |-> x.at, data |-> x.data, tables |-> x.tables]

\* The table of regions is as it should be, for the callers' memory in G.
RegionsKept(t, u, G) ==
  u \in Seq(Regions) /\ InOrder(u) /\ Sound(u, Entries(G)) /\ KeepsOwned(t, u)

LEMMA KeepsOwnedAgain ==
  ASSUME NEW t, NEW u, NEW v, KeepsOwned(t, u), KeepsOwned(u, v)
  PROVE  KeepsOwned(t, v)
<1> SUFFICES ASSUME NEW k \in DOMAIN t, t[k].type \in OwnerTypes
             PROVE  \E m \in DOMAIN v : v[m] = t[k]
  BY DEF KeepsOwned
<1>1. PICK l \in DOMAIN u : u[l] = t[k]
  BY DEF KeepsOwned
<1> QED
  BY <1>1 DEF KeepsOwned

(* One level down: the table of regions keeps what is owned, and a table at  *)
(* address 0, where a failed allocation puts it, stays there.                *)
LEMMA DescendKeeps ==
  ASSUME NEW G \in SUBSET Regions, NEW x, World(x), NEW index,
         x.regions \in Seq(Regions), InOrder(x.regions),
         Sound(x.regions, Entries(G))
  PROVE  LET y == Descend(x, index)
         IN  /\ World(y) /\ RegionsKept(x.regions, y.regions, G)
             /\ 0 \in DOMAIN x.tables => 0 \in DOMAIN y.tables
<1> DEFINE call == allocate_region(x.regions, 1, "ALLOCATED")
           slot == x.tables[x.at][index]
           new  == [Put(x.tables, call.ret, ZeroTable)
                      EXCEPT ![x.at][index] = Link(call.ret)]
           y    == Descend(x, index)
           Result == /\ World(y) /\ RegionsKept(x.regions, y.regions, G)
                     /\ 0 \in DOMAIN x.tables => 0 \in DOMAIN y.tables
<1>1. y = IF slot.present THEN [x EXCEPT !.at = slot.addr]
          ELSE [regions |-> call.table, at |-> call.ret,
                data |-> Drop(x.data, {call.ret}), tables |-> new]
  BY DEF Descend
<1>2. DOMAIN new = DOMAIN x.tables \cup {call.ret}
  <2> DEFINE put == Put(x.tables, call.ret, ZeroTable)
  <2>1. DOMAIN put = DOMAIN x.tables \cup {call.ret}
    BY DEF Put
  <2> HIDE DEF put
  <2>2. DOMAIN [put EXCEPT ![x.at][index] = Link(call.ret)] = DOMAIN put
    OBVIOUS
  <2> QED
    BY <2>1, <2>2 DEF put
<1>3. /\ call.table \in Seq(Regions) /\ InOrder(call.table)
      /\ Sound(call.table, Entries(G)) /\ KeepsOwned(x.regions, call.table)
  <2>1. 1 \in Nat /\ 1 * PageSize < PtrSpan /\ "ALLOCATED" \in OwnerTypes
    BY RegionTableAssumption, KickstartAssumption, KickstartProofAssumption
    DEF OwnerTypes
  <2> QED
    BY <2>1, AllocateKeeps
<1> HIDE DEF call, new, slot, y
<1>4. ASSUME slot.present PROVE Result
  <2>1. y = [regions |-> x.regions, at |-> slot.addr, data |-> x.data,
             tables |-> x.tables]
    BY <1>1, <1>4 DEF World
  <2> QED
    BY <2>1 DEF World, RegionsKept, KeepsOwned
<1>5. ASSUME ~slot.present PROVE Result
  <2>1. y = [regions |-> call.table, at |-> call.ret,
             data |-> Drop(x.data, {call.ret}), tables |-> new]
    BY <1>1, <1>5
  <2> QED
    BY <1>2, <1>3, <2>1 DEF World, RegionsKept
<1>6. Result
  BY <1>4, <1>5
<1> QED
  BY <1>6, Zenon DEF y

\* A slot that is not in use.
Unused(tb, at, index) == ~tb[at][index].present

\* The tables, and their levels, after a table at `new' is cleared and linked.
Grown(tb, at, index, new) ==
  [Put(tb, new, ZeroTable) EXCEPT ![at][index] = Link(new)]

GrownLevels(lev, at, new) == Put(lev, new, lev[at] + 1)

(* A page that is not owned is no table: a new table there makes the tree    *)
(* grow.                                                                     *)
LEMMA TreeGrows ==
  ASSUME NEW t, NEW u \in Seq(Regions), Sound(u, Regions), KeepsOwned(t, u),
         NEW tb, NEW da, NEW dc, DOMAIN dc \subseteq DOMAIN da,
         NEW top, NEW lev, Tree(t, tb, da, top, lev),
         NEW at \in DOMAIN tb, NEW index \in Index,
         lev[at] < Last, Unused(tb, at, index),
         NEW new \in Nat, new \notin DOMAIN tb, Owned(u, new, "ALLOCATED")
  PROVE  /\ Tree(u, Grown(tb, at, index, new), dc, top, GrownLevels(lev, at, new))
         /\ Extends(tb, Grown(tb, at, index, new))
         /\ new \in DOMAIN Grown(tb, at, index, new)
         /\ GrownLevels(lev, at, new)[new] = lev[at] + 1
<1> DEFINE tc == [Put(tb, new, ZeroTable) EXCEPT ![at][index] = Link(new)]
           up == Put(lev, new, lev[at] + 1)
           Old(p, n) == ~(p = at /\ n = index) /\ p # new
<1>1. /\ tb \in [DOMAIN tb -> [Index -> Slots]] /\ DOMAIN tb \subseteq Nat
      /\ lev \in [DOMAIN tb -> 0..Last]
      /\ top \in DOMAIN tb /\ lev[top] = 0
      /\ top + Last * PageSize \in DOMAIN tb /\ lev[top + Last * PageSize] = Last
  BY DEF Tree
<1>2. /\ ZeroTable \in [Index -> Slots] /\ Link(new) \in Slots
      /\ \A n \in Index : ~ZeroTable[n].present
      /\ Link(new).present /\ Link(new).addr = new
  BY DEF ZeroTable, ZeroEntry, Link, Entry, Index, Slots
<1>3. Last \in Nat /\ lev[at] \in 0..Last /\ lev[at] + 1 \in 0..Last
  BY <1>1, KickstartAssumption DEF Last
<1>4. /\ DOMAIN tc = DOMAIN tb \cup {new}
      /\ tc \in [DOMAIN tc -> [Index -> Slots]]
      /\ tc[at][index] = Link(new)
      /\ \A p \in DOMAIN tb, n \in Index : Old(p, n) => tc[p][n] = tb[p][n]
      /\ \A n \in Index : tc[new][n] = ZeroTable[n]
  <2> DEFINE put == Put(tb, new, ZeroTable)
  <2>1. /\ put \in [DOMAIN tb \cup {new} -> [Index -> Slots]]
        /\ \A p \in DOMAIN tb : put[p] = tb[p]
        /\ put[new] = ZeroTable
    BY <1>1, <1>2 DEF Put
  <2>2. tc = [put EXCEPT ![at] = [put[at] EXCEPT ![index] = Link(new)]]
    OBVIOUS
  <2> HIDE DEF put, tc
  <2>3. [put[at] EXCEPT ![index] = Link(new)] \in [Index -> Slots]
    BY <1>2, <2>1
  <2>4. /\ DOMAIN tc = DOMAIN tb \cup {new}
        /\ \A p \in DOMAIN tc : p # at => tc[p] = put[p]
        /\ tc[at] = [put[at] EXCEPT ![index] = Link(new)]
        /\ tc = [p \in DOMAIN tb \cup {new} |-> tc[p]]
    BY <2>1, <2>2
  <2>5. tc \in [DOMAIN tc -> [Index -> Slots]]
    BY <2>1, <2>3, <2>4
  <2>6. tc[at][index] = Link(new) /\ \A n \in Index : n # index => tc[at][n] = tb[at][n]
    BY <2>1, <2>4
  <2>7. at # new
    OBVIOUS
  <2> QED
    BY <2>1, <2>4, <2>5, <2>6, <2>7
<1>5. /\ DOMAIN up = DOMAIN tb \cup {new}
      /\ up[new] = lev[at] + 1
      /\ \A p \in DOMAIN tb : up[p] = lev[p]
      /\ up \in [DOMAIN tc -> 0..Last]
  BY <1>1, <1>3, <1>4 DEF Put
<1> HIDE DEF tc, up
<1>6. \A p \in DOMAIN tc, n \in Index : tc[p][n].present =>
        \/ p = at /\ n = index /\ tc[p][n] = Link(new)
        \/ p \in DOMAIN tb /\ tc[p][n] = tb[p][n] /\ tb[p][n].present
  BY <1>2, <1>4
<1>7. \A p \in DOMAIN tb, n \in Index : tb[p][n].present => tc[p][n] = tb[p][n]
  <2> SUFFICES ASSUME NEW p \in DOMAIN tb, NEW n \in Index, tb[p][n].present
               PROVE  tc[p][n] = tb[p][n]
    OBVIOUS
  <2>1. ~(p = at /\ n = index)
    BY DEF Unused
  <2> QED
    BY <1>4, <2>1
<1>8. \A q : \A p \in DOMAIN tc, n \in Index : LinksTable(tc, up, p, n, q) =>
        \/ p = at /\ n = index /\ q = new
        \/ p \in DOMAIN tb /\ LinksTable(tb, lev, p, n, q)
  BY <1>2, <1>5, <1>6 DEF LinksTable
<1>9. \A q : \A p \in DOMAIN tb, n \in Index :
        LinksTable(tb, lev, p, n, q) => LinksTable(tc, up, p, n, q) /\ q \in DOMAIN tb
  BY <1>5, <1>7 DEF LinksTable, Tree
<1>10. LinksTable(tc, up, at, index, new)
  BY <1>2, <1>4, <1>5 DEF LinksTable
<1>11. ASSUME NEW p \in DOMAIN tc, NEW n \in Index, tc[p][n].present
       PROVE  IF up[p] < Last
                THEN /\ tc[p][n].addr \in DOMAIN tc
                     /\ up[tc[p][n].addr] = up[p] + 1
                ELSE p # top + Last * PageSize => Owned(u, tc[p][n].addr, "KERNEL")
  <2>1. CASE p = at /\ n = index /\ tc[p][n] = Link(new)
    BY <1>2, <1>4, <1>5, <2>1
  <2>2. CASE p \in DOMAIN tb /\ tc[p][n] = tb[p][n] /\ tb[p][n].present
    <3>1. CASE lev[p] < Last
      <4>1. /\ tb[p][n].addr \in DOMAIN tb
            /\ lev[tb[p][n].addr] = lev[p] + 1
        BY <2>2, <3>1 DEF Tree
      <4> QED
        BY <1>4, <1>5, <2>2, <3>1, <4>1
    <3>2. CASE ~(lev[p] < Last)
      <4>1. p # top + Last * PageSize => Owned(t, tb[p][n].addr, "KERNEL")
        BY <2>2, <3>2 DEF Tree
      <4>2. p # top + Last * PageSize => Owned(u, tb[p][n].addr, "KERNEL")
        BY <4>1, KeptInEntry DEF Owned, OwnerTypes
      <4> QED
        BY <1>5, <2>2, <3>2, <4>2
    <3> QED
      BY <3>1, <3>2
  <2> QED
    BY <1>6, <1>11, <2>1, <2>2
<1>12. ASSUME NEW q \in DOMAIN tc, q # top
       PROVE  \E p \in DOMAIN tc, n \in Index : LinksTable(tc, up, p, n, q)
  <2>1. CASE q = new
    BY <1>4, <1>10, <2>1
  <2>2. CASE q \in DOMAIN tb
    <3>1. PICK p \in DOMAIN tb, n \in Index : LinksTable(tb, lev, p, n, q)
      BY <1>12, <2>2 DEF Tree
    <3> QED
      BY <1>4, <1>9, <3>1
  <2> QED
    BY <1>4, <2>1, <2>2
<1>13. ASSUME NEW p \in DOMAIN tc, NEW r \in DOMAIN tc, NEW q \in DOMAIN tc,
              NEW m \in Index, NEW n \in Index,
              LinksTable(tc, up, p, m, q), LinksTable(tc, up, r, n, q)
       PROVE  p = r /\ m = n
  <2>1. \/ p = at /\ m = index /\ q = new
        \/ p \in DOMAIN tb /\ LinksTable(tb, lev, p, m, q) /\ q \in DOMAIN tb
    BY <1>8, <1>9, <1>13
  <2>2. \/ r = at /\ n = index /\ q = new
        \/ r \in DOMAIN tb /\ LinksTable(tb, lev, r, n, q) /\ q \in DOMAIN tb
    BY <1>8, <1>9, <1>13
  <2> QED
    BY <2>1, <2>2 DEF Tree
<1>14. /\ \A p \in DOMAIN tc : Owned(u, p, "ALLOCATED")
       /\ DOMAIN dc \subseteq Nat /\ \A p \in DOMAIN dc : Owned(u, p, "KERNEL")
  BY <1>4, KeptInEntry DEF Tree, Owned, OwnerTypes
<1>15. Tree(u, tc, dc, top, up)
  <2>1. /\ tc \in [DOMAIN tc -> [Index -> Slots]] /\ DOMAIN tc \subseteq Nat
        /\ up \in [DOMAIN tc -> 0..Last]
        /\ top \in DOMAIN tc /\ up[top] = 0
        /\ top + Last * PageSize \in DOMAIN tc /\ up[top + Last * PageSize] = Last
    BY <1>1, <1>4, <1>5
  <2> QED
    BY <1>11, <1>12, <1>13, <1>14, <2>1 DEF Tree
<1>16. Extends(tb, tc)
  BY <1>4, <1>7 DEF Extends
<1> QED
  BY <1>4, <1>5, <1>15, <1>16, Zenon DEF tc, up, Grown, GrownLevels

(* The walk down the levels is a loop; its states need no type.              *)
LEMMA WalkSteps ==
  ASSUME NEW w, NEW vpage
  PROVE  \E f : /\ f[0] = [w EXCEPT !.at = top_page_structure]
                /\ \A l \in 1..Last :
                     f[l] = Descend(f[l - 1], TableIndex(vpage, l - 1))
                /\ Walk(w, vpage) = f[Last]
<1> DEFINE first == [w EXCEPT !.at = top_page_structure]
           Step(x, l) == Descend(x, TableIndex(vpage, l - 1))
           Run(k, f) == f = [l \in 0..k |-> IF l = 0 THEN first ELSE Step(f[l - 1], l)]
           P == {k \in 0..Last : \E f : Run(k, f)}
           level == CHOOSE f : Run(Last, f)
<1>1. Last \in Nat
  BY KickstartAssumption DEF Last
<1> HIDE DEF first, Step
<1>2. 0 \in P
  <2> DEFINE f == [l \in 0..0 |-> first]
  <2>1. Run(0, f)
    OBVIOUS
  <2>2. 0 \in 0..Last
    BY <1>1
  <2> HIDE DEF f, Run
  <2> QED
    BY <2>1, <2>2
<1>3. ASSUME NEW k \in (0 + 1)..Last, k - 1 \in P
      PROVE  k \in P
  <2>1. k \in 0..Last /\ k \in Nat /\ k # 0 /\ k - 1 \in 0..(k - 1)
    BY <1>1
  <2>2. PICK f : Run(k - 1, f)
    BY <1>3
  <2> DEFINE g == [l \in 0..k |-> IF l = k THEN Step(f[k - 1], k) ELSE f[l]]
  <2>3. ASSUME NEW l \in 0..k
        PROVE  g[l] = IF l = 0 THEN first ELSE Step(g[l - 1], l)
    <3>1. CASE l = k
      <4>1. g[k] = Step(f[k - 1], k) /\ g[k - 1] = f[k - 1]
        BY <2>1
      <4> HIDE DEF g
      <4> QED
        BY <2>1, <3>1, <4>1
    <3>2. CASE l # k
      <4>1. l \in 0..(k - 1)
        BY <2>1, <3>2
      <4>2. f[l] = IF l = 0 THEN first ELSE Step(f[l - 1], l)
        BY <2>2, <4>1
      <4>3. g[l] = f[l] /\ (l # 0 => g[l - 1] = f[l - 1])
        BY <2>1, <3>2, <4>1
      <4> HIDE DEF g
      <4> QED
        BY <4>2, <4>3
    <3> QED
      BY <3>1, <3>2
  <2>4. Run(k, g)
    BY <2>3
  <2> HIDE DEF g, Run
  <2> QED
    BY <2>1, <2>4
<1>4. Last \in P
  <2>1. P \in SUBSET (0..Last) /\ 0 \in Nat /\ 0 <= Last
    BY <1>1
  <2> HIDE DEF P
  <2>2. \A k \in 0..Last : k \in P
    BY <1>1, <1>2, <1>3, <2>1, LoopInvariant, Zenon
  <2> QED
    BY <1>1, <2>2
<1>5. Run(Last, level)
  <2>1. \E f : Run(Last, f)
    BY <1>4
  <2> HIDE DEF Run
  <2> QED
    BY <2>1, Zenon
<1>6. Walk(w, vpage) = level[Last]
  BY Zenon DEF Walk, Last, Step, first
<1> HIDE DEF level
<1>7. /\ level[0] = first
      /\ \A l \in 1..Last : level[l] = Step(level[l - 1], l)
  BY <1>1, <1>5
<1> QED
  BY <1>6, <1>7 DEF Step, first

(***************************************************************************)
(* map_page down to the last level: the table of regions keeps what is     *)
(* owned, and if no allocation has failed, the walk ends at a table of the *)
(* last level of the tree, grown by the tables that were missing.          *)
(***************************************************************************)
LEMMA WalkKeeps ==
  ASSUME NEW G \in SUBSET Regions, NEW w, World(w), NEW vpage \in Nat,
         w.regions \in Seq(Regions), InOrder(w.regions),
         Sound(w.regions, Entries(G)),
         0 \notin DOMAIN w.tables =>
           \E lev : Tree(w.regions, w.tables, w.data, top_page_structure, lev)
  PROVE  LET last == Walk(w, vpage)
         IN  /\ World(last) /\ RegionsKept(w.regions, last.regions, G)
             /\ 0 \in DOMAIN w.tables => 0 \in DOMAIN last.tables
             /\ 0 \notin DOMAIN last.tables =>
                  /\ Extends(w.tables, last.tables)
                  /\ last.at \in DOMAIN last.tables
                  /\ \E lev :
                       /\ Tree(last.regions, last.tables, last.data,
                               top_page_structure, lev)
                       /\ lev[last.at] = Last
<1> DEFINE top == top_page_structure
           At(l, x) ==
             /\ World(x) /\ RegionsKept(w.regions, x.regions, G)
             /\ 0 \in DOMAIN w.tables => 0 \in DOMAIN x.tables
             /\ 0 \notin DOMAIN x.tables =>
                  /\ Extends(w.tables, x.tables)
                  /\ x.at \in DOMAIN x.tables
                  /\ \E lev : /\ Tree(x.regions, x.tables, x.data, top, lev)
                              /\ lev[x.at] = l
<1>1. Last \in Nat
  BY KickstartAssumption DEF Last
<1>2. PICK f : /\ f[0] = [w EXCEPT !.at = top]
               /\ \A l \in 1..Last :
                    f[l] = Descend(f[l - 1], TableIndex(vpage, l - 1))
               /\ Walk(w, vpage) = f[Last]
  BY WalkSteps
<1>3. At(0, f[0])
  <2>1. f[0] = [regions |-> w.regions, at |-> top, data |-> w.data,
                tables |-> w.tables]
    BY <1>2 DEF World
  <2>2. /\ f[0].regions = w.regions /\ f[0].at = top /\ f[0].data = w.data
        /\ f[0].tables = w.tables
    BY <2>1
  <2>3. World(f[0]) /\ RegionsKept(w.regions, f[0].regions, G)
    BY <2>1, <2>2 DEF World, RegionsKept, KeepsOwned
  <2>4. Extends(w.tables, f[0].tables)
    BY <2>2 DEF Extends
  <2>5. \A lev : Tree(w.regions, w.tables, w.data, top, lev)
          => top \in DOMAIN w.tables /\ lev[top] = 0
    BY DEF Tree
  <2> QED
    BY <2>2, <2>3, <2>4, <2>5
<1>4. ASSUME NEW l \in 1..Last, At(l - 1, f[l - 1])
      PROVE  At(l, f[l])
  <2> DEFINE x == f[l - 1]
             y == f[l]
             index == TableIndex(vpage, l - 1)
  <2>1. y = Descend(x, index) /\ index \in Index
    BY <1>1, <1>2, TableIndexRange
  <2>2. /\ World(x) /\ RegionsKept(w.regions, x.regions, G)
        /\ 0 \in DOMAIN w.tables => 0 \in DOMAIN x.tables
        /\ 0 \notin DOMAIN x.tables =>
             /\ Extends(w.tables, x.tables)
             /\ x.at \in DOMAIN x.tables
             /\ \E lev : /\ Tree(x.regions, x.tables, x.data, top, lev)
                         /\ lev[x.at] = l - 1
    BY <1>4
  <2> HIDE DEF x, y, index, At
  <2>3. /\ World(y) /\ RegionsKept(x.regions, y.regions, G)
        /\ 0 \in DOMAIN x.tables => 0 \in DOMAIN y.tables
    BY <2>1, <2>2, DescendKeeps DEF RegionsKept
  <2>4. RegionsKept(w.regions, y.regions, G)
    BY <2>2, <2>3, KeepsOwnedAgain DEF RegionsKept
  <2>5. ASSUME 0 \notin DOMAIN y.tables
        PROVE  /\ Extends(w.tables, y.tables)
               /\ y.at \in DOMAIN y.tables
               /\ \E lev : /\ Tree(y.regions, y.tables, y.data, top, lev)
                           /\ lev[y.at] = l
    <3>1. 0 \notin DOMAIN x.tables
      BY <2>3, <2>5
    <3>2. PICK lev : /\ Tree(x.regions, x.tables, x.data, top, lev)
                     /\ lev[x.at] = l - 1
      BY <2>2, <3>1
    <3>3. x.at \in DOMAIN x.tables /\ Extends(w.tables, x.tables)
      BY <2>2, <3>1
    <3> DEFINE slot == x.tables[x.at][index]
               call == allocate_region(x.regions, 1, "ALLOCATED")
    <3>4. lev[x.at] < Last /\ lev[x.at] + 1 = l
      BY <1>1, <3>2
    <3>5. CASE slot.present
      <4>1. y = [x EXCEPT !.at = slot.addr]
        BY <2>1, <3>5 DEF Descend
      <4>2. /\ y.regions = x.regions /\ y.tables = x.tables /\ y.data = x.data
            /\ y.at = slot.addr
        BY <2>2, <4>1 DEF World
      <4>3. slot.addr \in DOMAIN x.tables /\ lev[slot.addr] = lev[x.at] + 1
        BY <2>1, <3>2, <3>3, <3>4, <3>5 DEF Tree
      <4> QED
        BY <3>2, <3>3, <3>4, <4>2, <4>3
    <3>6. CASE ~slot.present
      <4> DEFINE tc == Grown(x.tables, x.at, index, call.ret)
                 up == GrownLevels(lev, x.at, call.ret)
      <4>1. /\ y.regions = call.table /\ y.at = call.ret
            /\ y.data = Drop(x.data, {call.ret}) /\ y.tables = tc
        BY <2>1, <3>6 DEF Descend, Grown
      <4>2. /\ x.regions \in Seq(Regions) /\ InOrder(x.regions)
            /\ Sound(x.regions, Entries(G))
            /\ "ALLOCATED" \in OwnerTypes /\ 1 \in Nat /\ 1 * PageSize < PtrSpan
            /\ PageSize \in Nat \ {0} /\ 1 * PageSize = PageSize
        <5>1. "ALLOCATED" \in OwnerTypes /\ 1 \in Nat /\ 1 * PageSize < PtrSpan
          BY RegionTableAssumption, KickstartAssumption, KickstartProofAssumption
          DEF OwnerTypes
        <5>2. PageSize \in Nat \ {0} /\ 1 * PageSize = PageSize
          BY RegionTableAssumption
        <5> QED
          BY <2>2, <5>1, <5>2 DEF RegionsKept
      <4>3. /\ call.table \in Seq(Regions) /\ Sound(call.table, Entries(G))
            /\ KeepsOwned(x.regions, call.table)
            /\ call.ret \in Nat
            /\ call.ret # 0 =>
                 /\ InEntry(call.table, call.ret, call.ret + PageSize, "ALLOCATED")
                 /\ \A p \in Nat, other \in OwnerTypes :
                      Owned(x.regions, p, other) =>
                        p + PageSize <= call.ret \/ call.ret + PageSize <= p
        BY <4>2, AllocateKeeps
      <4>4. DOMAIN tc = DOMAIN x.tables \cup {call.ret}
        <5> DEFINE put == Put(x.tables, call.ret, ZeroTable)
        <5>1. DOMAIN put = DOMAIN x.tables \cup {call.ret}
          BY DEF Put
        <5> HIDE DEF put
        <5>2. DOMAIN [put EXCEPT ![x.at][index] = Link(call.ret)] = DOMAIN put
          OBVIOUS
        <5> QED
          BY <5>1, <5>2 DEF put, Grown
      <4>5. call.ret # 0
        BY <2>5, <4>1, <4>4
      <4>6. /\ call.ret \notin DOMAIN x.tables
            /\ Owned(call.table, call.ret, "ALLOCATED")
        <5>1. ASSUME call.ret \in DOMAIN x.tables PROVE FALSE
          <6>1. Owned(x.regions, call.ret, "ALLOCATED")
            BY <3>2, <5>1 DEF Tree
          <6> QED
            BY <4>2, <4>3, <4>5, <6>1
        <5> QED
          BY <4>3, <4>5, <5>1 DEF Owned
      <4>7. Sound(call.table, Regions) /\ DOMAIN Drop(x.data, {call.ret}) \subseteq DOMAIN x.data
        BY <4>3, SoundIsRegions DEF Drop
      <4>8. /\ Tree(call.table, tc, Drop(x.data, {call.ret}), top, up)
            /\ Extends(x.tables, tc)
            /\ call.ret \in DOMAIN tc /\ up[call.ret] = lev[x.at] + 1
        <5> DEFINE t  == x.regions
                   u  == call.table
                   tb == x.tables
                   da == x.data
                   at == x.at
                   new == call.ret
                   dc == Drop(da, {new})
        <5>1. /\ u \in Seq(Regions) /\ Sound(u, Regions) /\ KeepsOwned(t, u)
              /\ DOMAIN dc \subseteq DOMAIN da
          BY <4>3, <4>7
        <5>2. Tree(t, tb, da, top, lev)
          BY <3>2
        <5>3. at \in DOMAIN tb /\ index \in Index /\ lev[at] < Last
          BY <2>1, <3>3, <3>4
        <5>4. Unused(tb, at, index)
          BY <3>6 DEF Unused
        <5>5. new \in Nat /\ new \notin DOMAIN tb /\ Owned(u, new, "ALLOCATED")
          BY <4>3, <4>6
        <5> HIDE DEF t, u, tb, da, dc, at, new, call, top
        <5>6. Tree(u, Grown(tb, at, index, new), dc, top,
                   GrownLevels(lev, at, new))
          BY <5>1, <5>2, <5>3, <5>4, <5>5, TreeGrows, ZenonT(30)
        <5>7. Extends(tb, Grown(tb, at, index, new))
          BY <5>1, <5>2, <5>3, <5>4, <5>5, TreeGrows, ZenonT(30)
        <5>8. new \in DOMAIN Grown(tb, at, index, new)
          BY <5>1, <5>2, <5>3, <5>4, <5>5, TreeGrows, ZenonT(30)
        <5>9. GrownLevels(lev, at, new)[new] = lev[at] + 1
          BY DEF GrownLevels, Put
        <5> QED
          BY <5>6, <5>7, <5>8, <5>9 DEF t, u, tb, da, dc, at, new
      <4> HIDE DEF tc, up
      <4>9. Extends(w.tables, tc)
        BY <3>3, <4>8 DEF Extends
      <4> QED
        BY <3>4, <4>1, <4>8, <4>9
    <3> QED
      BY <3>5, <3>6
  <2> QED
    BY <2>2, <2>3, <2>4, <2>5 DEF At, y
<1>5. At(Last, f[Last])
  <2> DEFINE P == {l \in 0..Last : At(l, f[l])}
  <2> HIDE DEF At
  <2>1. 0 \in P
    BY <1>1, <1>3
  <2>2. ASSUME NEW l \in (0 + 1)..Last, l - 1 \in P PROVE l \in P
    BY <1>1, <1>4, <2>2
  <2>3. P \in SUBSET (0..Last) /\ 0 \in Nat /\ 0 <= Last
    BY <1>1
  <2> HIDE DEF P
  <2>4. \A l \in 0..Last : l \in P
    BY <1>1, <2>1, <2>2, <2>3, LoopInvariant, Zenon
  <2>5. Last \in P
    BY <1>1, <2>4
  <2> QED
    BY <2>5 DEF P
<1> QED
  BY <1>2, <1>5

\* The tables after one slot is written.
Written(tb, at, index, entry) == [tb EXCEPT ![at][index] = entry]

(* A page of the kernel's memory can be mapped where nothing is.             *)
LEMMA TreeMaps ==
  ASSUME NEW t, NEW tb, NEW da, NEW top, NEW lev, Tree(t, tb, da, top, lev),
         NEW at \in DOMAIN tb, NEW index \in Index,
         lev[at] = Last, Unused(tb, at, index),
         NEW entry \in Slots, Owned(t, entry.addr, "KERNEL")
  PROVE  /\ Tree(t, Written(tb, at, index, entry), da, top, lev)
         /\ Extends(tb, Written(tb, at, index, entry))
<1> DEFINE tc == Written(tb, at, index, entry)
<1>1. /\ tb \in [DOMAIN tb -> [Index -> Slots]] /\ DOMAIN tb \subseteq Nat
      /\ lev \in [DOMAIN tb -> 0..Last]
  BY DEF Tree
<1>2. /\ DOMAIN tc = DOMAIN tb
      /\ tc \in [DOMAIN tb -> [Index -> Slots]]
      /\ tc[at][index] = entry
      /\ \A p \in DOMAIN tb, n \in Index : ~(p = at /\ n = index) => tc[p][n] = tb[p][n]
  <2> DEFINE row == [tb[at] EXCEPT ![index] = entry]
  <2>1. tc = [tb EXCEPT ![at] = row]
    BY DEF Written
  <2>2. row \in [Index -> Slots] /\ row[index] = entry
        /\ \A n \in Index : n # index => row[n] = tb[at][n]
    BY <1>1
  <2> HIDE DEF tc, row
  <2>3. /\ tc \in [DOMAIN tb -> [Index -> Slots]]
        /\ tc[at] = row /\ \A p \in DOMAIN tb : p # at => tc[p] = tb[p]
    BY <1>1, <2>1, <2>2
  <2> QED
    BY <2>2, <2>3
<1>3. \A p \in DOMAIN tb, n \in Index : tb[p][n].present => tc[p][n] = tb[p][n]
  <2> SUFFICES ASSUME NEW p \in DOMAIN tb, NEW n \in Index, tb[p][n].present
               PROVE  tc[p][n] = tb[p][n]
    OBVIOUS
  <2>1. ~(p = at /\ n = index)
    BY DEF Unused
  <2> QED
    BY <1>2, <2>1
<1> HIDE DEF tc
<1>4. \A q : \A p \in DOMAIN tb, n \in Index :
        LinksTable(tc, lev, p, n, q) <=> LinksTable(tb, lev, p, n, q)
  <2> SUFFICES ASSUME NEW p \in DOMAIN tb, NEW n \in Index, NEW q, lev[p] < Last
               PROVE  LinksTable(tc, lev, p, n, q) <=> LinksTable(tb, lev, p, n, q)
    BY DEF LinksTable
  <2>1. p # at
    BY KickstartAssumption DEF Last
  <2>2. tc[p][n] = tb[p][n]
    BY <1>2, <2>1
  <2> QED
    BY <2>2 DEF LinksTable
<1>5. ASSUME NEW p \in DOMAIN tb, NEW n \in Index, tc[p][n].present
      PROVE  IF lev[p] < Last
               THEN tc[p][n].addr \in DOMAIN tb /\ lev[tc[p][n].addr] = lev[p] + 1
               ELSE p # top + Last * PageSize => Owned(t, tc[p][n].addr, "KERNEL")
  <2>1. CASE p = at /\ n = index
    <3>1. ~(lev[p] < Last)
      BY <2>1, KickstartAssumption DEF Last
    <3>2. tc[p][n] = entry
      BY <1>2, <2>1
    <3> QED
      BY <3>1, <3>2
  <2>2. CASE ~(p = at /\ n = index)
    <3>1. tc[p][n] = tb[p][n]
      BY <1>2, <2>2
    <3>2. tb[p][n].present
      BY <1>5, <3>1
    <3>3. CASE lev[p] < Last
      <4>1. tb[p][n].addr \in DOMAIN tb /\ lev[tb[p][n].addr] = lev[p] + 1
        BY <3>2, <3>3 DEF Tree
      <4> QED
        BY <3>1, <3>3, <4>1
    <3>4. CASE ~(lev[p] < Last)
      <4>1. p # top + Last * PageSize => Owned(t, tb[p][n].addr, "KERNEL")
        BY <3>2, <3>4 DEF Tree
      <4> QED
        BY <3>1, <3>4, <4>1
    <3> QED
      BY <3>3, <3>4
  <2> QED
    BY <2>1, <2>2
<1>6. Tree(t, tc, da, top, lev)
  <2>1. \A q \in DOMAIN tb : q # top =>
          \E p \in DOMAIN tb, n \in Index : LinksTable(tc, lev, p, n, q)
    BY <1>4 DEF Tree
  <2>2. \A p, q, r \in DOMAIN tb, m, n \in Index :
          LinksTable(tc, lev, p, m, q) /\ LinksTable(tc, lev, r, n, q)
            => p = r /\ m = n
    BY <1>4 DEF Tree
  <2> QED
    BY <1>2, <1>5, <2>1, <2>2 DEF Tree
<1>7. Extends(tb, tc)
  BY <1>2, <1>3 DEF Extends
<1> QED
  BY <1>6, <1>7 DEF tc

(* map_page: what is mapped stays mapped, and a page of the kernel's memory  *)
(* is mapped where nothing was.                                              *)
LEMMA MapKeeps ==
  ASSUME NEW G \in SUBSET Regions, NEW w, World(w), NEW vpage \in Nat,
         w.regions \in Seq(Regions), InOrder(w.regions),
         Sound(w.regions, Entries(G)),
         0 \notin DOMAIN w.tables =>
           \E lev : Tree(w.regions, w.tables, w.data, top_page_structure, lev),
         NEW phys \in Nat, Owned(w.regions, phys, "KERNEL"),
         NEW writable \in BOOLEAN, NEW executable \in BOOLEAN
  PROVE  LET done == map_page(w, phys, vpage, writable, executable)
         IN  /\ RegionsKept(w.regions, done.regions, G)
             /\ 0 \in DOMAIN w.tables => 0 \in DOMAIN done.tables
             /\ 0 \notin DOMAIN done.tables =>
                  /\ Extends(w.tables, done.tables)
                  /\ \E lev : Tree(done.regions, done.tables, done.data,
                                   top_page_structure, lev)
<1> DEFINE last  == Walk(w, vpage)
           index == TableIndex(vpage, Levels - 1)
           entry == Entry(phys, writable, executable)
           done  == map_page(w, phys, vpage, writable, executable)
           Result == /\ RegionsKept(w.regions, done.regions, G)
                     /\ 0 \in DOMAIN w.tables => 0 \in DOMAIN done.tables
                     /\ 0 \notin DOMAIN done.tables =>
                          /\ Extends(w.tables, done.tables)
                          /\ \E lev : Tree(done.regions, done.tables, done.data,
                                           top_page_structure, lev)
<1>1. /\ World(last) /\ RegionsKept(w.regions, last.regions, G)
      /\ 0 \in DOMAIN w.tables => 0 \in DOMAIN last.tables
      /\ 0 \notin DOMAIN last.tables =>
           /\ Extends(w.tables, last.tables)
           /\ last.at \in DOMAIN last.tables
           /\ \E lev : /\ Tree(last.regions, last.tables, last.data,
                               top_page_structure, lev)
                       /\ lev[last.at] = Last
  BY WalkKeeps
<1>2. done = IF last.tables[last.at][index].present THEN last
             ELSE [last EXCEPT !.tables[last.at][index] = entry]
  BY DEF map_page
<1>3. index \in Index
  <2>1. Levels - 1 \in 0..Last
    BY KickstartAssumption DEF Last
  <2> QED
    BY <2>1, TableIndexRange
<1>4. entry \in Slots /\ entry.addr = phys
  BY DEF Entry, Slots
<1> HIDE DEF last, index, entry, done
<1>5. ASSUME last.tables[last.at][index].present PROVE Result
  <2>1. done = last
    BY <1>2, <1>5
  <2> QED
    BY <1>1, <2>1
<1>6. ASSUME ~last.tables[last.at][index].present PROVE Result
  <2> DEFINE tc == Written(last.tables, last.at, index, entry)
  <2>1. /\ done.regions = last.regions /\ done.tables = tc /\ done.data = last.data
    <3>1. done = [regions |-> last.regions, at |-> last.at, data |-> last.data,
                  tables |-> tc]
      BY <1>1, <1>2, <1>6 DEF World, Written
    <3> QED
      BY <3>1
  <2>2. DOMAIN tc = DOMAIN last.tables
    BY DEF Written
  <2>3. ASSUME 0 \notin DOMAIN last.tables
        PROVE  /\ Extends(w.tables, tc)
               /\ \E lev : Tree(last.regions, tc, last.data, top_page_structure, lev)
    <3>1. PICK lev : /\ Tree(last.regions, last.tables, last.data,
                             top_page_structure, lev)
                     /\ lev[last.at] = Last
      BY <1>1, <2>3
    <3>2. last.at \in DOMAIN last.tables /\ Extends(w.tables, last.tables)
      BY <1>1, <2>3
    <3>3. Unused(last.tables, last.at, index)
      BY <1>6 DEF Unused
    <3>4. Owned(last.regions, entry.addr, "KERNEL")
      BY <1>1, <1>4, KeptInEntry DEF RegionsKept, Owned, OwnerTypes
    <3>5. Tree(last.regions, tc, last.data, top_page_structure, lev)
      BY <1>3, <1>4, <3>1, <3>2, <3>3, <3>4, TreeMaps
    <3>6. Extends(last.tables, tc)
      BY <1>3, <1>4, <3>1, <3>2, <3>3, <3>4, TreeMaps
    <3> HIDE DEF tc
    <3> QED
      BY <3>2, <3>5, <3>6 DEF Extends
  <2> HIDE DEF tc
  <2> QED
    BY <1>1, <2>1, <2>2, <2>3
<1>7. Result
  BY <1>5, <1>6
<1> QED
  BY <1>7, Zenon DEF done

(* Pages within a run of pages, counted from its start.                      *)
LEMMA PageOfRun ==
  ASSUME NEW l \in Nat, NEW m \in Nat, l < m
  PROVE  /\ l * PageSize \in Nat /\ (l + 1) * PageSize = l * PageSize + PageSize
         /\ l * PageSize + PageSize <= m * PageSize
<1>1. PageSize \in Nat /\ PageSize > 0
  BY RegionTableAssumption
<1>2. (l + 1) * PageSize = l * PageSize + PageSize /\ l * PageSize \in Nat
  BY <1>1
<1>3. PICK k \in Nat : m = l + 1 + k
  <2>1. m - (l + 1) \in Nat /\ m = l + 1 + (m - (l + 1))
    OBVIOUS
  <2> QED
    BY <2>1
<1>4. m * PageSize = (l + 1) * PageSize + k * PageSize /\ k * PageSize \in Nat
  BY <1>1, <1>3
<1>5. l * PageSize + PageSize <= m * PageSize
  BY <1>1, <1>2, <1>4
<1> QED
  BY <1>2, <1>5

LEMMA PageNumber ==
  ASSUME NEW l \in Nat
  PROVE  (l * PageSize) \div PageSize = l
BY RegionTableAssumption

(* A page of a run of pages lies in the entry the run lies in.               *)
LEMMA RunPage ==
  ASSUME NEW t \in Seq(Regions), NEW lo \in Nat, NEW n \in Nat, NEW type,
         InEntry(t, lo, lo + n * PageSize, type), NEW k \in Nat, k < n
  PROVE  lo + k * PageSize \in Nat /\ Owned(t, lo + k * PageSize, type)
<1>1. k * PageSize \in Nat /\ k * PageSize + PageSize <= n * PageSize
  BY PageOfRun
<1>2. n * PageSize \in Nat /\ PageSize \in Nat
  BY RegionTableAssumption
<1>3. PICK e \in DOMAIN t :
        t[e].type = type /\ t[e].addr_start <= lo /\ lo + n * PageSize <= t[e].addr_end
  BY DEF InEntry
<1>4. t[e] \in Regions
  OBVIOUS
<1>5. t[e].addr_start \in Nat /\ t[e].addr_end \in Nat
  BY <1>4 DEF Regions
<1>6. /\ t[e].addr_start <= lo + k * PageSize
      /\ lo + k * PageSize + PageSize <= t[e].addr_end
  <2> DEFINE at == k * PageSize
             all == n * PageSize
  <2>1. at \in Nat /\ all \in Nat /\ at + PageSize <= all
    BY <1>1, <1>2
  <2>2. t[e].addr_start <= lo /\ lo + all <= t[e].addr_end
    BY <1>3
  <2> HIDE DEF at, all
  <2>3. t[e].addr_start <= lo + at
    BY <1>5, <2>1, <2>2
  <2>4. lo + (at + PageSize) <= lo + all
    BY <1>2, <2>1
  <2>5. lo + at + PageSize <= t[e].addr_end
    BY <1>2, <1>5, <2>1, <2>2, <2>4
  <2> QED
    BY <2>3, <2>5 DEF at
<1> QED
  BY <1>1, <1>3, <1>6 DEF Owned, InEntry

(* initialize_pager: one table of each level.                                *)
LEMMA PagerTree ==
  ASSUME NEW t \in Seq(Regions), NEW top \in Nat,
         InEntry(t, top, top + Levels * PageSize, "ALLOCATED")
  PROVE  \E lev : Tree(t, BootstrapTables(top), <<>>, top, lev)
<1> DEFINE tb == BootstrapTables(top)
           At(l) == top + l * PageSize
           lev == [p \in DOMAIN tb |-> (p - top) \div PageSize]
           identity == [n \in Index |-> Link(n * PageSize)]
           link(q) == [ZeroTable EXCEPT ![0] = Link(q)]
<1>1. /\ Last \in Nat /\ Last # 0 /\ Levels = Last + 1 /\ TableEntries \in Nat
      /\ PageSize \in Nat /\ PageSize > 0 /\ 0 \in Index
      /\ Index = 0..(TableEntries - 1)
  BY KickstartAssumption, RegionTableAssumption DEF Last, Index
<1>2. ASSUME NEW l \in 0..Last
      PROVE  /\ At(l) \in Nat /\ (At(l) - top) \div PageSize = l
             /\ At(l) + PageSize <= top + Levels * PageSize
             /\ At(l) + PageSize = At(l + 1)
  <2>1. l \in Nat /\ Levels \in Nat /\ l < Levels
    BY <1>1
  <2>2. l * PageSize \in Nat /\ (l + 1) * PageSize = l * PageSize + PageSize
        /\ l * PageSize + PageSize <= Levels * PageSize
    BY <2>1, PageOfRun
  <2>3. (l * PageSize) \div PageSize = l
    BY <2>1, PageNumber
  <2>4. At(l) - top = l * PageSize
    BY <2>2
  <2>5. Levels * PageSize \in Nat
    BY <1>1
  <2> QED
    BY <1>1, <2>2, <2>3, <2>4, <2>5
<1>3. DOMAIN tb = {At(l) : l \in 0..Last}
  BY DEF BootstrapTables, Last
<1>4. ASSUME NEW l \in 0..Last
      PROVE  /\ At(l) \in DOMAIN tb
             /\ tb[At(l)] = IF l = Last THEN identity ELSE link(At(l + 1))
  <2> HIDE DEF At
  <2>1. At(l) \in DOMAIN tb
    BY <1>3
  <2>2. tb[At(l)] = IF (At(l) - top) \div PageSize = Last THEN identity
                    ELSE link(At(l) + PageSize)
    BY <2>1 DEF BootstrapTables, Last, Index
  <2> QED
    BY <1>2, <2>1, <2>2
<1>5. \A n \in Index : Link(n * PageSize) \in Slots
  BY <1>1 DEF Link, Entry, Slots
<1>6. identity \in [Index -> Slots]
  BY <1>5
<1>7. ASSUME NEW q \in Nat
      PROVE  /\ link(q) \in [Index -> Slots]
             /\ \A n \in Index : link(q)[n].present => n = 0 /\ link(q)[n].addr = q
             /\ link(q)[0].present /\ link(q)[0].addr = q
  <2>1. Link(q) \in Slots /\ Link(q).present /\ Link(q).addr = q
    BY DEF Link, Entry, Slots
  <2>2. ZeroTable \in [Index -> Slots] /\ \A n \in Index : ~ZeroTable[n].present
    BY DEF ZeroTable, ZeroEntry, Index, Slots
  <2>3. /\ link(q) \in [Index -> Slots] /\ link(q)[0] = Link(q)
        /\ \A n \in Index : n # 0 => link(q)[n] = ZeroTable[n]
    BY <1>1, <2>1, <2>2
  <2> HIDE DEF link
  <2> QED
    BY <1>1, <2>1, <2>2, <2>3
<1> HIDE DEF tb, identity, link
<1>8. tb \in [DOMAIN tb -> [Index -> Slots]] /\ DOMAIN tb \subseteq Nat
  <2>1. tb = [p \in DOMAIN tb |-> tb[p]]
    BY DEF tb, BootstrapTables
  <2>2. \A l \in 0..Last : At(l) \in Nat /\ tb[At(l)] \in [Index -> Slots]
    <3> SUFFICES ASSUME NEW l \in 0..Last
                 PROVE  At(l) \in Nat /\ tb[At(l)] \in [Index -> Slots]
      OBVIOUS
    <3>1. At(l) \in Nat
      BY <1>2
    <3>2. CASE l = Last
      BY <1>4, <1>6, <3>1, <3>2
    <3>3. CASE l # Last
      <4>1. l + 1 \in 0..Last
        BY <1>1, <3>3
      <4>2. At(l + 1) \in Nat
        BY <1>2, <4>1
      <4> HIDE DEF At
      <4> QED
        BY <1>4, <1>7, <3>1, <3>3, <4>2
    <3> QED
      BY <3>2, <3>3
  <2> HIDE DEF At
  <2> QED
    BY <1>3, <2>1, <2>2
<1>9. \A l \in 0..Last : lev[At(l)] = l
  <2> HIDE DEF At
  <2> QED
    BY <1>2, <1>4
<1>10. lev \in [DOMAIN tb -> 0..Last]
  <2>1. \A p \in DOMAIN tb : lev[p] \in 0..Last
    <3> HIDE DEF At, lev
    <3> QED
      BY <1>3, <1>9
  <2>2. lev = [p \in DOMAIN tb |-> lev[p]]
    OBVIOUS
  <2> HIDE DEF lev
  <2> QED
    BY <2>1, <2>2
<1>11. At(0) = top /\ 0 \in 0..Last /\ Last \in 0..Last
  BY <1>1
<1> HIDE DEF lev, At
<1>12. /\ top \in DOMAIN tb /\ lev[top] = 0
       /\ At(Last) \in DOMAIN tb /\ lev[At(Last)] = Last
  BY <1>4, <1>9, <1>11
<1>13. ASSUME NEW l \in 0..Last, l # Last
       PROVE  /\ l + 1 \in 0..Last /\ l < Last /\ At(l + 1) \in Nat
              /\ lev[At(l)] = l /\ lev[At(l + 1)] = l + 1
              /\ tb[At(l)] = link(At(l + 1)) /\ At(l + 1) \in DOMAIN tb
  <2>1. l + 1 \in 0..Last /\ l < Last
    BY <1>1, <1>13
  <2>2. At(l + 1) \in Nat
    BY <1>2, <2>1
  <2> QED
    BY <1>4, <1>9, <1>13, <2>1, <2>2
<1>14. \A p \in DOMAIN tb, n \in Index : tb[p][n].present =>
         IF lev[p] < Last
           THEN tb[p][n].addr \in DOMAIN tb /\ lev[tb[p][n].addr] = lev[p] + 1
           ELSE p # At(Last) => Owned(t, tb[p][n].addr, "KERNEL")
  <2> SUFFICES ASSUME NEW l \in 0..Last, NEW n \in Index, tb[At(l)][n].present
               PROVE  IF lev[At(l)] < Last
                        THEN /\ tb[At(l)][n].addr \in DOMAIN tb
                             /\ lev[tb[At(l)][n].addr] = lev[At(l)] + 1
                        ELSE At(l) # At(Last) => Owned(t, tb[At(l)][n].addr, "KERNEL")
    BY <1>3
  <2>1. CASE l = Last
    BY <1>1, <1>9, <2>1
  <2>2. CASE l # Last
    <3>1. tb[At(l)][n].addr = At(l + 1)
      <4>1. tb[At(l)] = link(At(l + 1)) /\ At(l + 1) \in Nat
        BY <1>13, <2>2
      <4>2. link(At(l + 1))[n].present
        BY <4>1
      <4> QED
        BY <1>7, <4>1, <4>2
    <3> QED
      BY <1>13, <2>2, <3>1
  <2> QED
    BY <2>1, <2>2
<1>15. \A q : \A p \in DOMAIN tb, n \in Index : LinksTable(tb, lev, p, n, q) =>
         \E l \in 0..Last : l # Last /\ p = At(l) /\ n = 0 /\ q = At(l + 1)
  <2> SUFFICES ASSUME NEW l \in 0..Last, NEW n \in Index, NEW q,
                      LinksTable(tb, lev, At(l), n, q)
               PROVE  l # Last /\ n = 0 /\ q = At(l + 1)
    BY <1>3
  <2>1. l # Last
    BY <1>1, <1>9 DEF LinksTable
  <2>2. tb[At(l)] = link(At(l + 1)) /\ At(l + 1) \in Nat
    BY <1>13, <2>1
  <2>3. link(At(l + 1))[n].present /\ link(At(l + 1))[n].addr = q
    BY <2>2 DEF LinksTable
  <2> QED
    BY <1>7, <2>1, <2>2, <2>3
<1>16. \A q \in DOMAIN tb : q # top =>
         \E p \in DOMAIN tb, n \in Index : LinksTable(tb, lev, p, n, q)
  <2> SUFFICES ASSUME NEW k \in 0..Last, At(k) # top
               PROVE  \E p \in DOMAIN tb, n \in Index : LinksTable(tb, lev, p, n, At(k))
    BY <1>3
  <2>1. k - 1 \in 0..Last /\ k - 1 # Last /\ (k - 1) + 1 = k
    BY <1>1, <1>11
  <2> DEFINE l == k - 1
  <2>2. /\ l < Last /\ lev[At(l)] = l /\ tb[At(l)] = link(At(k)) /\ At(k) \in Nat
        /\ At(l) \in DOMAIN tb
    <3> HIDE DEF l
    <3>1. l + 1 = k
      BY <2>1 DEF l
    <3>2. l \in 0..Last /\ l # Last
      BY <2>1 DEF l
    <3> QED
      BY <1>4, <1>13, <3>1, <3>2
  <2> HIDE DEF l
  <2>3. link(At(k))[0].present /\ link(At(k))[0].addr = At(k)
    BY <1>7, <2>2
  <2>4. LinksTable(tb, lev, At(l), 0, At(k))
    BY <2>2, <2>3 DEF LinksTable
  <2> QED
    BY <1>1, <2>2, <2>4
<1>17. \A p, q, r \in DOMAIN tb, m, n \in Index :
         LinksTable(tb, lev, p, m, q) /\ LinksTable(tb, lev, r, n, q)
           => p = r /\ m = n
  <2> SUFFICES ASSUME NEW p \in DOMAIN tb, NEW q \in DOMAIN tb, NEW r \in DOMAIN tb,
                      NEW m \in Index, NEW n \in Index,
                      LinksTable(tb, lev, p, m, q), LinksTable(tb, lev, r, n, q)
               PROVE  p = r /\ m = n
    OBVIOUS
  <2>1. PICK k \in 0..Last : k # Last /\ p = At(k) /\ m = 0 /\ q = At(k + 1)
    BY <1>15
  <2>2. PICK l \in 0..Last : l # Last /\ r = At(l) /\ n = 0 /\ q = At(l + 1)
    BY <1>15
  <2>3. lev[q] = k + 1 /\ lev[q] = l + 1
    BY <1>13, <2>1, <2>2
  <2>4. k = l
    BY <2>3
  <2> QED
    BY <2>1, <2>2, <2>4
<1>18. \A p \in DOMAIN tb : Owned(t, p, "ALLOCATED")
  <2> SUFFICES ASSUME NEW l \in 0..Last PROVE Owned(t, At(l), "ALLOCATED")
    BY <1>3
  <2>1. l \in Nat /\ Levels \in Nat /\ l < Levels
    BY <1>1
  <2> QED
    BY <2>1, RunPage DEF At
<1>19. DOMAIN <<>> \subseteq Nat /\ \A p \in DOMAIN <<>> : Owned(t, p, "KERNEL")
  OBVIOUS
<1>20. Tree(t, tb, <<>>, top, lev)
  BY <1>8, <1>10, <1>12, <1>14, <1>16, <1>17, <1>18, <1>19 DEF Tree, At
<1> QED
  BY <1>20 DEF tb

------------------------------------------------------------------------------
(***************************************************************************)
(* The walk of the processor.                                              *)
(***************************************************************************)
\* One level down, from an entry that was found.
Hop(tb, entry, index) ==
  IF ~entry.present \/ entry.addr \notin DOMAIN tb THEN ZeroEntry
  ELSE tb[entry.addr][index]

\* EntryAt and Translate for given tables.
PathAt(tb, top, vpage, level) ==
  LET entry[l \in 0..Levels] ==
        IF l = 0 THEN Link(top)
        ELSE IF ~entry[l - 1].present \/ entry[l - 1].addr \notin DOMAIN tb
               THEN ZeroEntry
        ELSE tb[entry[l - 1].addr][TableIndex(vpage, l - 1)]
  IN  entry[level]

Lookup(tb, top, vpage) == PathAt(tb, top, vpage, Levels)

LEMMA LookupSteps ==
  ASSUME NEW tb, tb \in [DOMAIN tb -> [Index -> Slots]], NEW top \in Nat,
         NEW vpage \in Nat
  PROVE  \E f \in [0..Levels -> Slots] :
           /\ f[0] = Link(top)
           /\ \A l \in 1..Levels : f[l] = Hop(tb, f[l - 1], TableIndex(vpage, l - 1))
           /\ \A l \in 0..Levels : PathAt(tb, top, vpage, l) = f[l]
           /\ Lookup(tb, top, vpage) = f[Levels]
<1> DEFINE Down(s, l) ==
             IF ~s.present \/ s.addr \notin DOMAIN tb THEN ZeroEntry
             ELSE tb[s.addr][TableIndex(vpage, l - 1)]
           B == [l \in 1..Levels |-> [s \in Slots |-> Down(s, l)]]
           entry == CHOOSE f : f = [l \in 0..Levels |->
                      IF l = 0 THEN Link(top) ELSE Down(f[l - 1], l)]
<1>1. Levels \in Nat /\ Last = Levels - 1
  BY KickstartAssumption DEF Last
<1>2. ASSUME NEW l \in 1..Levels, NEW s \in Slots PROVE Down(s, l) \in Slots
  <2>1. TableIndex(vpage, l - 1) \in Index
    <3>1. l - 1 \in 0..Last
      BY <1>1
    <3> QED
      BY <3>1, TableIndexRange
  <2>2. ZeroEntry \in Slots
    BY DEF ZeroEntry, Slots
  <2> QED
    BY <2>1, <2>2
<1>3. PICK f \in [0..Levels -> Slots] : RunOf(f, 0, Levels, Link(top), B)
  <2>1. B \in [(0 + 1)..Levels -> [Slots -> Slots]]
    <3> HIDE DEF Down
    <3> QED
      BY <1>2
  <2>2. Link(top) \in Slots /\ 0 \in Nat /\ 0 <= Levels
    BY <1>1 DEF Link, Entry, Slots
  <2> HIDE DEF B
  <2> QED
    BY <1>1, <2>1, <2>2, LoopRuns
<1>4. f = [l \in 0..Levels |-> IF l = 0 THEN Link(top) ELSE Down(f[l - 1], l)]
  <2>1. ASSUME NEW l \in 0..Levels, l # 0 PROVE B[l][f[l - 1]] = Down(f[l - 1], l)
    <3>1. l \in 1..Levels /\ l - 1 \in 0..Levels
      BY <1>1, <2>1
    <3>2. f[l - 1] \in Slots
      BY <3>1
    <3> HIDE DEF Down
    <3> QED
      BY <3>1, <3>2
  <2> HIDE DEF B, Down
  <2> QED
    BY <1>3, <2>1 DEF RunOf
<1>5. entry = [l \in 0..Levels |-> IF l = 0 THEN Link(top) ELSE Down(entry[l - 1], l)]
  <2> HIDE DEF Down
  <2> QED
    BY <1>4, Zenon
<1>6. /\ \A l \in 0..Levels : PathAt(tb, top, vpage, l) = entry[l]
      /\ Lookup(tb, top, vpage) = entry[Levels]
  BY Zenon DEF Lookup, PathAt, Down
<1> HIDE DEF entry
<1>7. /\ entry[0] = Link(top)
      /\ \A l \in 1..Levels : entry[l] = Down(entry[l - 1], l)
  <2>1. 0 \in 0..Levels /\ \A l \in 1..Levels : l \in 0..Levels /\ l # 0
    BY <1>1
  <2> HIDE DEF Down
  <2>2. \A l \in 0..Levels :
          entry[l] = IF l = 0 THEN Link(top) ELSE Down(entry[l - 1], l)
    BY <1>5, Zenon
  <2> QED
    BY <2>1, <2>2
<1>8. \A l \in 0..Levels : entry[l] \in Slots
  <2> DEFINE P == {l \in 0..Levels : entry[l] \in Slots}
  <2>1. 0 \in P
    <3>1. Link(top) \in Slots
      BY DEF Link, Entry, Slots
    <3> HIDE DEF Down
    <3> QED
      BY <1>1, <1>7, <3>1
  <2>2. ASSUME NEW l \in (0 + 1)..Levels, l - 1 \in P PROVE l \in P
    <3> HIDE DEF Down
    <3> QED
      BY <1>1, <1>2, <1>7, <2>2
  <2>3. P \in SUBSET (0..Levels) /\ 0 \in Nat /\ 0 <= Levels
    BY <1>1
  <2> HIDE DEF P
  <2>4. \A l \in 0..Levels : l \in P
    BY <1>1, <2>1, <2>2, <2>3, LoopInvariant, Zenon
  <2> QED
    BY <2>4 DEF P
<1>9. entry \in [0..Levels -> Slots]
  <2> HIDE DEF Down
  <2>1. entry = [l \in 0..Levels |-> entry[l]]
    BY <1>5
  <2> QED
    BY <1>8, <2>1
<1> QED
  BY <1>6, <1>7, <1>9 DEF Hop

(* Tables that are only added to and written where nothing was translate     *)
(* every mapped page as before.                                              *)
LEMMA LookupExtends ==
  ASSUME NEW tb, tb \in [DOMAIN tb -> [Index -> Slots]],
         NEW tc, tc \in [DOMAIN tc -> [Index -> Slots]],
         Extends(tb, tc), NEW top \in Nat, NEW vpage \in Nat,
         Lookup(tb, top, vpage).present
  PROVE  Lookup(tc, top, vpage) = Lookup(tb, top, vpage)
<1>1. PICK f \in [0..Levels -> Slots] :
        /\ f[0] = Link(top)
        /\ \A l \in 1..Levels : f[l] = Hop(tb, f[l - 1], TableIndex(vpage, l - 1))
        /\ Lookup(tb, top, vpage) = f[Levels]
  BY LookupSteps
<1>2. PICK g \in [0..Levels -> Slots] :
        /\ g[0] = Link(top)
        /\ \A l \in 1..Levels : g[l] = Hop(tc, g[l - 1], TableIndex(vpage, l - 1))
        /\ Lookup(tc, top, vpage) = g[Levels]
  BY LookupSteps
<1> DEFINE P == {l \in 0..Levels : f[l].present => g[l] = f[l]}
<1>3. Levels \in Nat /\ Last = Levels - 1
  BY KickstartAssumption DEF Last
<1>4. 0 \in P
  BY <1>1, <1>2, <1>3
<1>5. ASSUME NEW l \in (0 + 1)..Levels, l - 1 \in P PROVE l \in P
  <2> SUFFICES ASSUME f[l].present PROVE g[l] = f[l]
    BY <1>3, <1>5
  <2> DEFINE index == TableIndex(vpage, l - 1)
  <2>1. l \in 1..Levels /\ l - 1 \in 0..Last
    BY <1>3
  <2>2. index \in Index
    BY <2>1, TableIndexRange
  <2>3. /\ f[l] = Hop(tb, f[l - 1], index) /\ g[l] = Hop(tc, g[l - 1], index)
        /\ f[l - 1].present => g[l - 1] = f[l - 1]
    BY <1>1, <1>2, <1>5, <2>1
  <2> HIDE DEF index
  <2>4. f[l - 1].present /\ f[l - 1].addr \in DOMAIN tb
        /\ f[l] = tb[f[l - 1].addr][index]
    BY <2>3 DEF Hop, ZeroEntry
  <2>5. /\ f[l - 1].addr \in DOMAIN tc
        /\ tc[f[l - 1].addr][index] = tb[f[l - 1].addr][index]
    BY <2>2, <2>4 DEF Extends
  <2> QED
    BY <2>3, <2>4, <2>5 DEF Hop
<1>6. P \in SUBSET (0..Levels) /\ 0 \in Nat /\ 0 <= Levels /\ Levels \in 0..Levels
  BY <1>3
<1> HIDE DEF P
<1>7. \A l \in 0..Levels : l \in P
  BY <1>3, <1>4, <1>5, <1>6, LoopInvariant, Zenon
<1>8. Levels \in P
  BY <1>6, <1>7
<1> QED
  BY <1>1, <1>2, <1>8 DEF P

------------------------------------------------------------------------------
(* Rounding the sizes of a segment to pages (elf.c:286-288) does not         *)
(* overflow, and the file's bytes lie in pages the segment has.              *)
LEMMA SegmentPages ==
  ASSUME NEW mem \in Nat, NEW len \in Nat, len <= mem, mem + PageSize <= PtrSpan
  PROVE  LET n == (mem \div PageSize + IF mem % PageSize # 0 THEN 1 ELSE 0) % PtrSpan
             m == (len + PageSize - 1) \div PageSize
         IN  n \in Nat /\ n * PageSize < PtrSpan /\ m \in Nat /\ m <= n
<1> DEFINE k == mem \div PageSize + IF mem % PageSize # 0 THEN 1 ELSE 0
           n == k % PtrSpan
           m == (len + PageSize - 1) \div PageSize
<1>1. PageSize \in Nat /\ PageSize > 0 /\ PtrSpan \in Nat /\ PtrSpan > 0
  BY RegionTableAssumption
<1>2. k \in Nat /\ mem <= k * PageSize /\ k * PageSize < mem + PageSize
  <2> DEFINE d == mem \div PageSize
             e == mem % PageSize
  <2>1. d \in Nat /\ e \in Nat /\ e < PageSize /\ mem = d * PageSize + e
    BY <1>1
  <2>2. (d + 1) * PageSize = d * PageSize + PageSize /\ d * PageSize \in Nat
    BY <1>1, <2>1
  <2> HIDE DEF d, e
  <2>3. k = IF e # 0 THEN d + 1 ELSE d
    BY <2>1 DEF d, e
  <2> HIDE DEF k
  <2> QED
    BY <1>1, <2>1, <2>2, <2>3
<1> HIDE DEF k
<1>3. k * PageSize < PtrSpan /\ k * PageSize \in Nat
  BY <1>1, <1>2
<1>4. k <= k * PageSize
  BY <1>1, <1>2
<1>5. n = k
  <2>1. k < PtrSpan
    BY <1>1, <1>2, <1>3, <1>4
  <2> QED
    BY <1>1, <1>2, <2>1
<1>6. m \in Nat /\ m <= k
  <2>1. m \in Nat /\ m * PageSize <= len + PageSize - 1
    BY <1>1
  <2> HIDE DEF m
  <2>2. m * PageSize < k * PageSize + PageSize
    BY <1>1, <1>2, <2>1
  <2>3. ASSUME k < m PROVE FALSE
    <3>1. k * PageSize + PageSize <= m * PageSize
      BY <1>2, <2>1, <2>3, PageOfRun
    <3> QED
      BY <1>1, <1>2, <2>1, <2>2, <3>1
  <2> QED
    BY <1>2, <2>1, <2>3
<1> QED
  BY <1>2, <1>3, <1>5, <1>6 DEF k

------------------------------------------------------------------------------
(***************************************************************************)
(* The inductive invariant.                                                *)
(***************************************************************************)
\* A failed allocation of a page table goes unnoticed, and the table is put at
\* address 0 (pager.c:73-116).  This says that it has not happened.
RoomForTables == 0 \notin DOMAIN tables

Callers == {ReservedRange(KickstartBlock), ReservedRange(module)}

BootTypes ==
  /\ {segment_region, mapped, top_page_structure} \subseteq Nat
  /\ i \in Nat \ {0}
  /\ image \in KernelImages /\ file = Encoded(image)
  /\ GoodTable(memory_regions)

\* After d tags of the list these are left.
Left(list, d, rest) ==
  /\ rest \in Seq(Tag) /\ Len(rest) = Len(list) - d
  /\ \A k \in DOMAIN rest : rest[k] = list[d + k]

\* Among the first d tags is the memory map that was entered, if one was, and
\* the kernel's module, if one was found.
Found(list, d, table, block) ==
  /\ \/ table = <<>>
     \/ \E m \in 1..d :
          /\ IsMap(list[m])
          /\ Content(table) = {x \in ReportedSet(list[m].entries) : ~Empty(x)}
  /\ \/ block = NoModule
     \/ \E n \in 1..d : IsKernel(list[n]) /\ block = list[n].block

Reading ==
  step \in {"start", "tags"} =>
    \E list \in TagLists : \E d \in 0..Len(list) :
      Left(list, d, tags) /\ Found(list, d, memory_regions, module)

\* Both blocks can be reserved.
Reserving ==
  step = "reserve" =>
    /\ Reservable(module)
    /\ Apart(ReservedRange(KickstartBlock), ReservedRange(module))
    /\ Sheltered(Content(memory_regions), ReservedRange(KickstartBlock))
    /\ Sheltered(Content(memory_regions), ReservedRange(module))

\* No entry that nobody owns touches them.
Reserved ==
  step \notin {"start", "tags", "reserve", "halted"} =>
    Reservable(module) /\ Sound(memory_regions, Entries(Callers))

Parsed ==
  /\ step \in {"pager", "expand", "entered"} =>
       header = elf_initialize(file) /\ header.valid
  /\ step \in {"expand", "entered"} => header.arch # "X86"

SegmentPlaced ==
  IF segment_region = 0 THEN mapped = 0
  ELSE /\ step = "expand" /\ i <= header.prog_header_count /\ segment.load
       /\ mapped <= pages_needed
       /\ InEntry(memory_regions, segment_region,
                  segment_region + pages_needed * PageSize, "KERNEL")

PagerBuilt ==
  /\ step \in {"start", "tags", "reserve", "parse", "pager"} => ~PagerReady
  /\ step \in {"expand", "entered"} => PagerReady
  /\ ~PagerReady => tables = <<>> /\ data = <<>>
  /\ PagerReady /\ RoomForTables =>
       \E lev : Tree(memory_regions, tables, data, top_page_structure, lev)

BootInv ==
  /\ BootTypes
  /\ Reading
  /\ Reserving
  /\ Reserved
  /\ Parsed
  /\ SegmentPlaced
  /\ PagerBuilt

LEMMA InitBootInv == Init => BootInv
<1> SUFFICES ASSUME Init PROVE BootInv
  OBVIOUS
<1> USE DEF Init
<1>1. GoodTable(<<>>)
  BY DEF GoodTable, InOrder, Sound
<1>2. BootTypes
  BY <1>1 DEF BootTypes
<1>3. Reading
  <2>1. tags \in TagLists /\ tags \in Seq(Tag)
    BY KickstartAssumption
  <2>2. 0 \in 0..Len(tags) /\ Len(tags) = Len(tags) - 0
        /\ \A k \in DOMAIN tags : tags[k] = tags[0 + k]
    BY <2>1
  <2> QED
    BY <2>1, <2>2 DEF Reading, Left, Found
<1> QED
  BY <1>2, <1>3
  DEF BootInv, Reserving, Reserved, Parsed, SegmentPlaced, PagerBuilt, PagerReady

(* Until the pager is initialised there is neither a segment nor a table.    *)
LEMMA EarlyKeeps ==
  ASSUME BootInv, step \in {"start", "tags", "reserve", "parse"},
         step' \notin {"expand", "entered"},
         UNCHANGED <<top_page_structure, tables, data, segment_region, mapped>>
  PROVE  SegmentPlaced' /\ PagerBuilt'
<1>1. segment_region = 0 /\ mapped = 0
  BY DEF BootInv, SegmentPlaced
<1>2. ~PagerReady /\ tables = <<>> /\ data = <<>>
  BY DEF BootInv, PagerBuilt
<1> QED
  BY <1>1, <1>2 DEF SegmentPlaced, PagerBuilt, PagerReady

LEMMA StartKeeps == BootInv /\ Start => BootInv'
<1> SUFFICES ASSUME BootInv, Start PROVE BootInv'
  OBVIOUS
<1>1. SegmentPlaced' /\ PagerBuilt'
  BY EarlyKeeps DEF Start
<1>2. BootTypes'
  BY DEF BootInv, BootTypes, Start, inputs
<1>3. Reading'
  BY DEF BootInv, Reading, Start
<1> QED
  BY <1>1, <1>2, <1>3 DEF BootInv, Reserving, Reserved, Parsed, Start

LEMMA TagRead ==
  ASSUME NEW list \in Seq(Tag), NEW d \in 0..Len(list), NEW rest,
         Left(list, d, rest), rest # <<>>
  PROVE  /\ d + 1 \in 0..Len(list) /\ d + 1 \in DOMAIN list
         /\ Head(rest) = list[d + 1] /\ Head(rest) \in Tag
         /\ Left(list, d + 1, Tail(rest))
<1>1. /\ rest \in Seq(Tag) /\ Len(rest) = Len(list) - d
      /\ \A k \in DOMAIN rest : rest[k] = list[d + k]
  BY DEF Left
<1>2. Len(rest) \in Nat \ {0} /\ DOMAIN rest = 1..Len(rest) /\ Len(list) \in Nat
      /\ DOMAIN list = 1..Len(list)
  BY <1>1
<1>3. d + 1 \in 0..Len(list) /\ d + 1 \in DOMAIN list
  BY <1>1, <1>2
<1>4. 1 \in DOMAIN rest /\ Head(rest) = rest[1] /\ rest[1] \in Tag
  BY <1>1, <1>2
<1>5. Head(rest) = list[d + 1] /\ Head(rest) \in Tag
  BY <1>1, <1>4
<1>6. /\ Tail(rest) \in Seq(Tag) /\ Len(Tail(rest)) = Len(rest) - 1
      /\ \A k \in 1..(Len(rest) - 1) : Tail(rest)[k] = rest[k + 1]
  BY <1>1, <1>2
<1>7. ASSUME NEW k \in DOMAIN Tail(rest)
      PROVE  Tail(rest)[k] = list[d + 1 + k]
  <2>1. k \in 1..(Len(rest) - 1)
    BY <1>6
  <2>2. k + 1 \in DOMAIN rest /\ d + (k + 1) = d + 1 + k
    BY <1>2, <2>1
  <2> QED
    BY <1>1, <1>6, <2>1, <2>2
<1> QED
  BY <1>1, <1>2, <1>3, <1>5, <1>6, <1>7 DEF Left

(* A tag that is read: the one after the first d of some list.               *)
LEMMA ReadTagFinds ==
  ASSUME BootInv, ReadTag
  PROVE  \E list \in TagLists : \E d \in 0..Len(list) :
           /\ d + 1 \in 0..Len(list) /\ d + 1 \in DOMAIN list
           /\ Head(tags) = list[d + 1] /\ Head(tags) \in Tag
           /\ Left(list, d + 1, tags')
           /\ Found(list, d, memory_regions, module)
<1>1. PICK list \in TagLists : \E d \in 0..Len(list) :
        Left(list, d, tags) /\ Found(list, d, memory_regions, module)
  BY DEF BootInv, Reading, ReadTag
<1>2. PICK d \in 0..Len(list) :
        Left(list, d, tags) /\ Found(list, d, memory_regions, module)
  BY <1>1
<1>3. list \in Seq(Tag)
  BY KickstartAssumption
<1> QED
  BY <1>2, <1>3, TagRead DEF ReadTag

(* What has been found among the first d tags is among the first d + 1.      *)
LEMMA StillFound ==
  ASSUME NEW list, NEW d \in Nat, NEW table, NEW block, Found(list, d, table, block)
  PROVE  Found(list, d + 1, table, block)
<1>1. 1..d \subseteq 1..(d + 1)
  OBVIOUS
<1> QED
  BY <1>1 DEF Found

LEMMA SkipTagKeeps == BootInv /\ SkipTag => BootInv'
<1> SUFFICES ASSUME BootInv, SkipTag PROVE BootInv'
  OBVIOUS
<1>1. ReadTag /\ step = "tags" /\ step' = "tags"
  BY DEF SkipTag, ReadTag
<1>2. SegmentPlaced' /\ PagerBuilt'
  BY <1>1, EarlyKeeps DEF SkipTag
<1>3. BootTypes'
  BY DEF BootInv, BootTypes, SkipTag, inputs
<1>4. Reading'
  <2>1. PICK list \in TagLists : \E d \in 0..Len(list) :
          /\ d + 1 \in 0..Len(list)
          /\ Left(list, d + 1, tags')
          /\ Found(list, d, memory_regions, module)
    BY <1>1, ReadTagFinds
  <2> PICK d \in 0..Len(list) :
          /\ d + 1 \in 0..Len(list)
          /\ Left(list, d + 1, tags')
          /\ Found(list, d, memory_regions, module)
    BY <2>1
  <2>2. d \in Nat
    OBVIOUS
  <2>3. Found(list, d + 1, memory_regions', module')
    BY <2>2, StillFound DEF SkipTag
  <2> QED
    BY <2>3 DEF Reading
<1> QED
  BY <1>1, <1>2, <1>3, <1>4 DEF BootInv, Reserving, Reserved, Parsed

LEMMA FindKernelKeeps == BootInv /\ FindKernel => BootInv'
<1> SUFFICES ASSUME BootInv, FindKernel PROVE BootInv'
  OBVIOUS
<1>1. ReadTag /\ step = "tags" /\ step' = "tags"
  BY DEF FindKernel, ReadTag
<1>2. SegmentPlaced' /\ PagerBuilt'
  BY <1>1, EarlyKeeps DEF FindKernel
<1>3. BootTypes'
  BY DEF BootInv, BootTypes, FindKernel, inputs
<1>4. Reading'
  <2>1. PICK list \in TagLists : \E d \in 0..Len(list) :
          /\ d + 1 \in 0..Len(list) /\ Head(tags) = list[d + 1]
          /\ Left(list, d + 1, tags')
          /\ Found(list, d, memory_regions, module)
    BY <1>1, ReadTagFinds
  <2> PICK d \in 0..Len(list) :
          /\ d + 1 \in 0..Len(list) /\ Head(tags) = list[d + 1]
          /\ Left(list, d + 1, tags')
          /\ Found(list, d, memory_regions, module)
    BY <2>1
  <2>2. d \in Nat /\ d + 1 \in 1..(d + 1)
    OBVIOUS
  <2>3. Found(list, d + 1, memory_regions, module)
    BY <2>2, StillFound
  <2>4. CASE module' = module
    BY <2>3, <2>4 DEF Reading, FindKernel
  <2>5. CASE module' # module
    <3>1. IsKernel(list[d + 1]) /\ module' = list[d + 1].block
      BY <2>5 DEF FindKernel, IsKernel
    <3>2. Found(list, d + 1, memory_regions', module')
      BY <2>2, <2>3, <3>1 DEF Found, FindKernel
    <3> QED
      BY <3>2 DEF Reading
  <2> QED
    BY <2>4, <2>5
<1> QED
  BY <1>1, <1>2, <1>3, <1>4 DEF BootInv, Reserving, Reserved, Parsed

LEMMA EnterMapKeeps == BootInv /\ EnterMap => BootInv'
<1> SUFFICES ASSUME BootInv, EnterMap PROVE BootInv'
  OBVIOUS
<1>1. ReadTag /\ step = "tags" /\ step' = "tags"
  BY DEF EnterMap, ReadTag
<1>2. SegmentPlaced' /\ PagerBuilt'
  BY <1>1, EarlyKeeps DEF EnterMap
<1>3. PICK list \in TagLists : \E d \in 0..Len(list) :
        /\ d + 1 \in 0..Len(list) /\ d + 1 \in DOMAIN list
        /\ Head(tags) = list[d + 1] /\ Head(tags) \in Tag
        /\ Left(list, d + 1, tags')
        /\ Found(list, d, memory_regions, module)
  BY <1>1, ReadTagFinds
<1> PICK d \in 0..Len(list) :
        /\ d + 1 \in 0..Len(list) /\ d + 1 \in DOMAIN list
        /\ Head(tags) = list[d + 1] /\ Head(tags) \in Tag
        /\ Left(list, d + 1, tags')
        /\ Found(list, d, memory_regions, module)
  BY <1>3
<1> DEFINE entries == list[d + 1].entries
<1>4. /\ list \in Seq(Tag) /\ d \in Nat /\ d + 1 \in 1..(d + 1)
      /\ DOMAIN list = 1..Len(list) /\ Len(list) \in Nat
  BY KickstartAssumption
<1>5. IsMap(list[d + 1])
  BY DEF EnterMap, IsMap
<1>6. entries \in Seq(MapEntry)
  <2>1. list[d + 1] \in Tag /\ list[d + 1].type = "MMAP"
    BY <1>5 DEF IsMap
  <2>2. list[d + 1] \in MapTag
    BY <2>1 DEF Tag, ModuleTag, OtherTag
  <2> QED
    BY <2>2 DEF MapTag
<1>7. MapInOrder(entries)
  BY <1>5, KickstartProofAssumption
<1>8. memory_regions = <<>>
  <2> SUFFICES ASSUME NEW m \in 1..d, IsMap(list[m]) PROVE FALSE
    BY DEF Found
  <2>1. m \in DOMAIN list /\ m # d + 1
    BY <1>4
  <2> QED
    BY <1>5, <2>1, KickstartProofAssumption
<1>9. /\ GoodTable(memory_regions')
      /\ Content(memory_regions') = {x \in ReportedSet(entries) : ~Empty(x)}
  <2>1. memory_regions' = Entered(<<>>, entries)
    BY <1>8 DEF EnterMap
  <2> HIDE DEF entries
  <2> QED
    BY <1>6, <1>7, <2>1, EnteredOrders
<1>10. BootTypes'
  BY <1>9 DEF BootInv, BootTypes, EnterMap, inputs
<1>11. Reading'
  <2>1. Found(list, d + 1, memory_regions, module)
    BY <1>4, StillFound
  <2>2. Found(list, d + 1, memory_regions', module)
    BY <1>4, <1>5, <1>9, <2>1 DEF Found
  <2> QED
    BY <2>2 DEF Reading, EnterMap
<1> QED
  BY <1>1, <1>2, <1>10, <1>11 DEF BootInv, Reserving, Reserved, Parsed

LEMMA CheckTagsKeeps == BootInv /\ CheckTags => BootInv'
<1> SUFFICES ASSUME BootInv, CheckTags PROVE BootInv'
  OBVIOUS
<1>1. SegmentPlaced' /\ PagerBuilt'
  BY EarlyKeeps DEF CheckTags
<1>2. BootTypes'
  BY DEF BootInv, BootTypes, CheckTags, inputs
<1>3. ASSUME step' = "reserve"
      PROVE  /\ Reservable(module)
             /\ Apart(ReservedRange(KickstartBlock), ReservedRange(module))
             /\ Sheltered(Content(memory_regions), ReservedRange(KickstartBlock))
             /\ Sheltered(Content(memory_regions), ReservedRange(module))
  <2>1. module # NoModule /\ memory_regions # <<>>
    BY <1>3 DEF CheckTags
  <2>2. PICK list \in TagLists : \E d \in 0..Len(list) :
          Found(list, d, memory_regions, module)
    BY DEF BootInv, Reading, CheckTags
  <2> PICK d \in 0..Len(list) : Found(list, d, memory_regions, module)
    BY <2>2
  <2>3. list \in Seq(Tag)
    BY KickstartAssumption
  <2>4. \A m \in 1..d : m \in DOMAIN list
    BY <2>3
  <2>5. PICK n \in DOMAIN list : IsKernel(list[n]) /\ module = list[n].block
    BY <2>1, <2>4 DEF Found
  <2>6. PICK m \in DOMAIN list :
          /\ IsMap(list[m])
          /\ Content(memory_regions)
               = {x \in ReportedSet(list[m].entries) : ~Empty(x)}
    BY <2>1, <2>4 DEF Found
  <2>7. /\ Reservable(module)
        /\ Apart(ReservedRange(KickstartBlock), ReservedRange(module))
    BY <2>5, KickstartProofAssumption
  <2> DEFINE all == ReportedSet(list[m].entries)
  <2>8. Sheltered(all, ReservedRange(KickstartBlock)) /\ Sheltered(all, ReservedRange(module))
    BY <2>5, <2>6, KickstartProofAssumption DEF ReportedSet
  <2>9. all \in SUBSET Regions
    <3>1. list[m] \in Tag /\ list[m].type = "MMAP"
      BY <2>3, <2>6 DEF IsMap
    <3>2. list[m] \in MapTag
      BY <3>1 DEF Tag, ModuleTag, OtherTag
    <3>3. list[m].entries \in Seq(MapEntry)
      BY <3>2 DEF MapTag
    <3>4. \A e \in DOMAIN list[m].entries : list[m].entries[e] \in MapEntry
      BY <3>3
    <3> QED
      BY <3>4, ReportedType DEF ReportedSet
  <2> HIDE DEF all
  <2>10. /\ Content(memory_regions) \in SUBSET all
         /\ \A x \in all : ~Empty(x) => x \in Content(memory_regions)
    BY <2>6 DEF all
  <2>11. ASSUME NEW b, Reservable(b), Sheltered(all, ReservedRange(b))
         PROVE  Sheltered(Content(memory_regions), ReservedRange(b))
    <3>1. /\ ReservedRange(b) \in Regions
          /\ ReservedRange(b).addr_start < ReservedRange(b).addr_end
      BY <2>11, ReservedRangeType DEF Reservable, Block
    <3> QED
      BY <2>9, <2>10, <2>11, <3>1, ShelterKept
  <2> QED
    BY <2>7, <2>8, <2>11, KickstartProofAssumption
<1>4. Reserving'
  BY <1>3 DEF Reserving, CheckTags
<1> QED
  BY <1>1, <1>2, <1>4 DEF BootInv, Reading, Reserved, Parsed, CheckTags

LEMMA ReserveBlocksKeeps == BootInv /\ ReserveBlocks => BootInv'
<1> SUFFICES ASSUME BootInv, ReserveBlocks PROVE BootInv'
  OBVIOUS
<1> DEFINE first  == ReservedRange(KickstartBlock)
           second == ReservedRange(module)
           t == memory_regions
           u == reserve_memory_region(t, KickstartBlock)
           v == reserve_memory_region(u, module)
<1>1. SegmentPlaced' /\ PagerBuilt'
  BY EarlyKeeps DEF ReserveBlocks
<1>2. /\ t \in Seq(Regions) /\ InOrder(t) /\ Sound(t, Entries({}))
      /\ Reservable(module) /\ Reservable(KickstartBlock)
      /\ Apart(first, second)
      /\ Sheltered(Content(t), first) /\ Sheltered(Content(t), second)
  BY KickstartProofAssumption
  DEF BootInv, BootTypes, GoodTable, Reserving, ReserveBlocks
<1>3. ASSUME NEW b, Reservable(b)
      PROVE  /\ b \in [addr_start : Nat, addr_end : Nat]
             /\ b.addr_start < b.addr_end /\ RoundUp(b.addr_end) < PtrSpan
             /\ ReservedRange(b) \in Regions
             /\ ReservedRange(b).addr_start < ReservedRange(b).addr_end
  BY <1>3, ReservedRangeType DEF Reservable, Block
<1>4. /\ u \in Seq(Regions) /\ InOrder(u) /\ Sound(u, Entries({} \cup {first}))
      /\ Sheltered(Content(u), second)
  <2>1. Apart(second, first)
    BY <1>2 DEF Apart
  <2>2. /\ second \in Regions /\ second.addr_start < second.addr_end
    BY <1>2, <1>3
  <2> HIDE DEF first, second, t
  <2>3. /\ u \in Seq(Regions) /\ InOrder(u) /\ Sound(u, Entries({} \cup {first}))
        /\ \A s \in Regions :
             s.addr_start < s.addr_end /\ Apart(s, first) /\ Sheltered(Content(t), s)
             => Sheltered(Content(u), s)
    BY <1>2, <1>3, ReserveProtects DEF first
  <2> QED
    BY <1>2, <2>1, <2>2, <2>3
<1>5. /\ v \in Seq(Regions) /\ InOrder(v)
      /\ Sound(v, Entries(({} \cup {first}) \cup {second}))
  <2>1. {} \cup {first} \in SUBSET Regions
    BY <1>2, <1>3
  <2> HIDE DEF first, u
  <2> QED
    BY <1>2, <1>3, <1>4, <2>1, ReserveProtects
<1>6. Sound(v, Entries(Callers)) /\ Sound(v, Entries({}))
  <2>1. ({} \cup {first}) \cup {second} = Callers
    BY DEF Callers
  <2>2. Entries(Callers) \subseteq Entries({})
    BY DEF Entries
  <2> HIDE DEF v
  <2> QED
    BY <1>5, <2>1, <2>2 DEF Sound
<1>7. memory_regions' = v /\ Callers' = Callers /\ step' = "parse"
  BY DEF ReserveBlocks, Callers
<1> HIDE DEF v
<1>8. BootTypes'
  BY <1>5, <1>6, <1>7 DEF BootInv, BootTypes, GoodTable, ReserveBlocks, inputs
<1>9. Reserved'
  BY <1>2, <1>6, <1>7 DEF Reserved, ReserveBlocks
<1> QED
  BY <1>1, <1>7, <1>8, <1>9 DEF BootInv, Reading, Reserving, Parsed

LEMMA ParseKernelKeeps == BootInv /\ ParseKernel => BootInv'
<1> SUFFICES ASSUME BootInv, ParseKernel PROVE BootInv'
  OBVIOUS
<1>1. SegmentPlaced' /\ PagerBuilt'
  BY EarlyKeeps DEF ParseKernel
<1>2. BootTypes'
  BY DEF BootInv, BootTypes, ParseKernel, inputs
<1>3. Reserved'
  BY DEF BootInv, Reserved, ParseKernel, Callers
<1>4. Parsed'
  BY DEF Parsed, ParseKernel, inputs
<1> QED
  BY <1>1, <1>2, <1>3, <1>4 DEF BootInv, Reading, Reserving, ParseKernel

\* What the steps that allocate, the pager's and the loader's, start from.
Loads == step \in {"pager", "expand"}

LEMMA CallersReserved ==
  ASSUME BootInv, Loads
  PROVE  /\ Callers \in SUBSET Regions
         /\ memory_regions \in Seq(Regions) /\ InOrder(memory_regions)
         /\ Sound(memory_regions, Entries(Callers))
         /\ Reservable(module)
<1>1. Reservable(module) /\ Reservable(KickstartBlock)
  BY KickstartProofAssumption DEF BootInv, Reserved, Loads
<1>2. \A b : Reservable(b) => ReservedRange(b) \in Regions
  BY ReservedRangeType DEF Reservable, Block
<1> QED
  BY <1>1, <1>2
  DEF BootInv, BootTypes, GoodTable, Reserved, Loads, Callers

(* The table of regions is as it should be after an allocation.              *)
LEMMA RegionsStay ==
  ASSUME BootInv, Loads, NEW u, RegionsKept(memory_regions, u, Callers)
  PROVE  GoodTable(u) /\ Sound(u, Entries(Callers))
<1>1. Entries(Callers) \subseteq Entries({})
  BY DEF Entries
<1> QED
  BY <1>1 DEF RegionsKept, GoodTable, Sound

LEMMA InitializePagerKeeps == BootInv /\ InitializePager => BootInv'
<1> SUFFICES ASSUME BootInv, InitializePager PROVE BootInv'
  OBVIOUS
<1> DEFINE call == allocate_region(memory_regions, Levels, "ALLOCATED")
<1>1. Loads /\ step = "pager"
  BY DEF InitializePager, Loads
<1>2. /\ segment_region = 0 /\ mapped = 0
      /\ ~PagerReady /\ tables = <<>> /\ data = <<>>
      /\ header = elf_initialize(file) /\ header.valid
  BY <1>1 DEF BootInv, SegmentPlaced, PagerBuilt, Parsed
<1>3. /\ call.ret \in Nat /\ RegionsKept(memory_regions, call.table, Callers)
      /\ call.ret # 0 =>
           InEntry(call.table, call.ret, call.ret + Levels * PageSize, "ALLOCATED")
  <2>1. Levels \in Nat /\ Levels * PageSize < PtrSpan /\ "ALLOCATED" \in OwnerTypes
    BY KickstartAssumption, KickstartProofAssumption DEF OwnerTypes
  <2> QED
    BY <1>1, <2>1, CallersReserved, AllocateKeeps DEF RegionsKept
<1>4. GoodTable(call.table) /\ Sound(call.table, Entries(Callers))
  BY <1>1, <1>3, RegionsStay
<1> HIDE DEF call
<1>5. CASE header.arch = "X86"
  <2>1. /\ step' = "halted"
        /\ UNCHANGED <<tags, module, inputs, header, memory_regions,
             top_page_structure, tables, data, i, segment_region, mapped>>
    BY <1>5 DEF InitializePager
  <2>2. BootTypes'
    BY <2>1 DEF BootInv, BootTypes, inputs
  <2> QED
    BY <1>2, <2>1, <2>2
    DEF BootInv, Reading, Reserving, Reserved, Parsed, SegmentPlaced, PagerBuilt,
        PagerReady
<1>6. CASE header.arch # "X86"
  <2>1. /\ memory_regions' = call.table /\ top_page_structure' = call.ret
        /\ tables' = IF call.ret = 0 THEN tables ELSE BootstrapTables(call.ret)
        /\ step' = IF call.ret = 0 THEN "halted" ELSE "expand"
        /\ UNCHANGED <<tags, module, inputs, header, data, i, segment_region,
                       mapped>>
    BY <1>6 DEF InitializePager, call
  <2>2. BootTypes'
    BY <1>3, <1>4, <2>1 DEF BootInv, BootTypes, inputs
  <2>3. Reserved'
    BY <1>1, <1>4, <2>1, CallersReserved DEF Reserved, Callers
  <2>4. Parsed'
    BY <1>2, <1>6, <2>1 DEF Parsed, inputs
  <2>5. PagerBuilt'
    <3>1. CASE call.ret = 0
      BY <1>2, <2>1, <3>1 DEF PagerBuilt, PagerReady
    <3>2. CASE call.ret # 0
      <4>1. call.table \in Seq(Regions)
        BY <1>3 DEF RegionsKept
      <4>2. \E lev : Tree(call.table, BootstrapTables(call.ret), <<>>, call.ret, lev)
        BY <1>3, <3>2, <4>1, PagerTree
      <4> QED
        BY <1>2, <2>1, <3>2, <4>2 DEF PagerBuilt, PagerReady
    <3> QED
      BY <3>1, <3>2
  <2> QED
    BY <1>2, <2>1, <2>2, <2>3, <2>4, <2>5
    DEF BootInv, Reading, Reserving, SegmentPlaced
<1> QED
  BY <1>5, <1>6

(* The program header that is being loaded (elf.c:245-290).                  *)
LEMMA LoadingMeans ==
  ASSUME BootInv, step = "expand"
  PROVE  /\ header.prog_header_count \in Nat
         /\ i <= header.prog_header_count => Loadable(segment)
<1>1. /\ header = elf_initialize(file) /\ header.valid /\ header.arch # "X86"
      /\ image \in KernelImages /\ file = Encoded(image) /\ i \in Nat \ {0}
  BY DEF BootInv, Parsed, BootTypes
<1>2. /\ header.prog_header_count \in Nat
      /\ \A n \in 1..header.prog_header_count :
           Loadable(program_header(file, header, n - 1))
  BY <1>1, KickstartProofAssumption
<1>3. i <= header.prog_header_count => i \in 1..header.prog_header_count
  BY <1>1, <1>2
<1> QED
  BY <1>2, <1>3 DEF segment

LEMMA LoadedPages ==
  ASSUME BootInv, Loading, segment.load
  PROVE  /\ pages_needed \in Nat /\ pages_needed * PageSize < PtrSpan
         /\ \A k \in FilePages : k \in Nat /\ k < pages_needed
<1>1. Loadable(segment)
  BY LoadingMeans DEF Loading
<1> DEFINE mem == segment.mem_len
           len == segment.file_len
           n == (mem \div PageSize + IF mem % PageSize # 0 THEN 1 ELSE 0) % PtrSpan
           m == (len + PageSize - 1) \div PageSize
<1>2. mem \in Nat /\ len \in Nat /\ len <= mem /\ mem + PageSize <= PtrSpan
  BY <1>1 DEF Loadable
<1>3. pages_needed = n /\ FilePages = 0..(m - 1)
  BY DEF pages_needed, FilePages
<1> HIDE DEF mem, len
<1>4. n \in Nat /\ n * PageSize < PtrSpan /\ m \in Nat /\ m <= n
  BY <1>2, SegmentPages
<1> HIDE DEF n, m
<1> QED
  BY <1>3, <1>4

LEMMA SkipSegmentKeeps == BootInv /\ SkipSegment => BootInv'
<1> SUFFICES ASSUME BootInv, SkipSegment PROVE BootInv'
  OBVIOUS
<1>1. step = "expand" /\ ~segment.load
  BY DEF SkipSegment, Loading
<1>2. segment_region = 0 /\ mapped = 0
  BY <1>1 DEF BootInv, SegmentPlaced
<1>3. BootTypes'
  BY DEF BootInv, BootTypes, SkipSegment, NextHeader, inputs
<1>4. SegmentPlaced'
  BY <1>2 DEF SegmentPlaced, SkipSegment
<1>5. PagerBuilt'
  BY DEF BootInv, PagerBuilt, PagerReady, RoomForTables, SkipSegment
<1>6. Reserved' /\ Parsed'
  BY DEF BootInv, Reserved, Parsed, Callers, SkipSegment, inputs
<1> QED
  BY <1>1, <1>3, <1>4, <1>5, <1>6 DEF BootInv, Reading, Reserving, SkipSegment

LEMMA EnterKernelKeeps == BootInv /\ EnterKernel => BootInv'
<1> SUFFICES ASSUME BootInv, EnterKernel PROVE BootInv'
  OBVIOUS
<1>1. segment_region = 0 /\ mapped = 0
  <2>1. header.prog_header_count \in Nat /\ i \in Nat
    BY LoadingMeans DEF BootInv, BootTypes, EnterKernel
  <2> QED
    BY <2>1 DEF BootInv, SegmentPlaced, EnterKernel
<1>2. BootTypes'
  BY DEF BootInv, BootTypes, EnterKernel, inputs
<1>3. SegmentPlaced'
  BY <1>1 DEF SegmentPlaced, EnterKernel
<1>4. PagerBuilt'
  BY DEF BootInv, PagerBuilt, PagerReady, RoomForTables, EnterKernel
<1>5. Reserved' /\ Parsed'
  BY DEF BootInv, Reserved, Parsed, Callers, EnterKernel, inputs
<1> QED
  BY <1>2, <1>3, <1>4, <1>5 DEF BootInv, Reading, Reserving, EnterKernel

LEMMA StoppedKeeps == BootInv /\ UNCHANGED vars => BootInv'
<1> SUFFICES ASSUME BootInv, UNCHANGED vars PROVE BootInv'
  OBVIOUS
<1> QED
  BY DEF BootInv, BootTypes, Reading, Reserving, Reserved, Parsed, SegmentPlaced,
         PagerBuilt, PagerReady, RoomForTables, Callers, segment, pages_needed,
         vars, inputs

(* Pages that hold no table can be written.                                  *)
LEMMA TreeApart ==
  ASSUME NEW t, NEW tb, NEW da, NEW top, NEW lev, Tree(t, tb, da, top, lev),
         NEW pages, pages \cap DOMAIN tb = {}
  PROVE  Drop(tb, pages) = tb
<1>1. tb = [p \in DOMAIN tb |-> tb[p]] /\ DOMAIN tb \ pages = DOMAIN tb
  BY DEF Tree
<1> QED
  BY <1>1 DEF Drop

(* What the file's bytes are said to be in must be the kernel's.             *)
LEMMA TreeHolds ==
  ASSUME NEW t, NEW tb, NEW da, NEW dc, NEW top, NEW lev, Tree(t, tb, da, top, lev),
         \A p \in DOMAIN dc : p \in DOMAIN da \/ (p \in Nat /\ Owned(t, p, "KERNEL"))
  PROVE  Tree(t, tb, dc, top, lev)
BY DEF Tree

LEMMA AllocateSegmentKeeps ==
  ASSUME BootInv, AllocateSegment
  PROVE  BootInv' /\ (RoomForTables => tables' = tables)
<1> DEFINE n     == pages_needed
           call  == allocate_region(memory_regions, n, "KERNEL")
           end   == call.ret + n * PageSize
           pages == {call.ret + k * PageSize : k \in 0..(n - 1)}
<1>1. /\ Loads /\ Loading /\ step = "expand" /\ segment.load
      /\ segment_region = 0 /\ mapped = 0
  BY DEF BootInv, SegmentPlaced, AllocateSegment, Loading, Loads
<1>2. n \in Nat /\ n * PageSize < PtrSpan
  BY <1>1, LoadedPages
<1>3. /\ memory_regions' = call.table /\ segment_region' = call.ret
      /\ IF call.ret = 0 THEN step' = "halted" /\ UNCHANGED <<tables, data>>
         ELSE tables' = Drop(tables, pages) /\ data' = Drop(data, pages) /\ UNCHANGED step
      /\ UNCHANGED <<tags, module, image, file, longmode, header,
                     top_page_structure, i, mapped>>
  BY DEF AllocateSegment, inputs
<1>4. pages_needed' = n /\ segment' = segment
  BY <1>3 DEF pages_needed, segment
<1> HIDE DEF n
<1>5. /\ RegionsKept(memory_regions, call.table, Callers)
      /\ call.ret \in Nat /\ end \in Nat
      /\ call.ret # 0 =>
           /\ InEntry(call.table, call.ret, end, "KERNEL")
           /\ \A p \in Nat, other \in OwnerTypes :
                Owned(memory_regions, p, other) => p + PageSize <= call.ret \/ end <= p
  <2>1. "KERNEL" \in OwnerTypes
    BY DEF OwnerTypes
  <2> QED
    BY <1>1, <1>2, <2>1, CallersReserved, AllocateKeeps DEF RegionsKept
<1>6. GoodTable(call.table) /\ Sound(call.table, Entries(Callers))
  BY <1>1, <1>5, RegionsStay
<1> HIDE DEF call
<1>7. BootTypes'
  BY <1>3, <1>5, <1>6 DEF BootInv, BootTypes
<1>8. Reserved'
  BY <1>1, <1>3, <1>6, CallersReserved DEF Reserved, Callers
<1>9. Parsed'
  BY <1>1, <1>3 DEF BootInv, Parsed
<1>10. SegmentPlaced'
  <2>1. CASE call.ret = 0
    BY <1>1, <1>3, <2>1 DEF SegmentPlaced
  <2>2. CASE call.ret # 0
    <3>1. /\ step' = "expand" /\ i' <= header'.prog_header_count /\ segment'.load
          /\ mapped' <= n /\ segment_region' = call.ret
      BY <1>1, <1>2, <1>3, <1>4, <2>2 DEF Loading
    <3>2. InEntry(memory_regions', segment_region',
                  segment_region' + pages_needed' * PageSize, "KERNEL")
      BY <1>3, <1>4, <1>5, <2>2
    <3> QED
      BY <1>4, <2>2, <3>1, <3>2 DEF SegmentPlaced
  <2> QED
    BY <2>1, <2>2
<1>11. PagerBuilt' /\ (RoomForTables => tables' = tables)
  <2>1. PagerReady /\ PagerReady'
    BY <1>1, <1>3 DEF BootInv, PagerBuilt, PagerReady
  <2>2. RoomForTables' => RoomForTables
    <3>1. CASE call.ret = 0
      BY <1>3, <3>1 DEF RoomForTables
    <3>2. CASE call.ret # 0
      <4>1. 0 \notin pages
        <5>1. \A k \in 0..(n - 1) : call.ret + k * PageSize # 0
          <6>1. \A k \in 0..(n - 1) : k * PageSize \in Nat
            BY <1>2, RegionTableAssumption
          <6> QED
            BY <1>5, <3>2, <6>1
        <5> QED
          BY <5>1
      <4>2. DOMAIN tables' = DOMAIN tables \ pages
        BY <1>3, <3>2 DEF Drop
      <4> HIDE DEF pages
      <4> QED
        BY <4>1, <4>2 DEF RoomForTables
    <3> QED
      BY <3>1, <3>2
  <2>3. ASSUME RoomForTables
        PROVE  /\ tables' = tables
               /\ \E lev : Tree(call.table, tables', data', top_page_structure, lev)
    <3>1. PICK lev : Tree(memory_regions, tables, data, top_page_structure, lev)
      BY <2>1, <2>3 DEF BootInv, PagerBuilt
    <3>2. Tree(call.table, tables, data, top_page_structure, lev)
      BY <1>5, <3>1, TreeKept DEF RegionsKept
    <3>3. CASE call.ret = 0
      BY <1>3, <3>2, <3>3
    <3>4. CASE call.ret # 0
      <4>1. pages \cap DOMAIN tables = {}
        <5> SUFFICES ASSUME NEW k \in 0..(n - 1),
                            call.ret + k * PageSize \in DOMAIN tables
                     PROVE  FALSE
          OBVIOUS
        <5> DEFINE p == call.ret + k * PageSize
        <5>1. /\ k * PageSize \in Nat /\ k * PageSize + PageSize <= n * PageSize
              /\ n * PageSize \in Nat
          <6>1. k \in Nat /\ k < n
            BY <1>2
          <6> QED
            BY <1>2, <6>1, PageOfRun, RegionTableAssumption
        <5>2. p \in Nat /\ Owned(memory_regions, p, "ALLOCATED")
          BY <3>1 DEF Tree
        <5>3. p + PageSize <= call.ret \/ end <= p
          BY <1>5, <3>4, <5>2 DEF OwnerTypes
        <5> QED
          BY <1>5, <5>1, <5>2, <5>3, RegionTableAssumption
      <4> HIDE DEF pages
      <4>2. tables' = tables
        BY <1>3, <3>1, <3>4, <4>1, TreeApart
      <4>3. \A p \in DOMAIN data' : p \in DOMAIN data
        BY <1>3, <3>4 DEF Drop
      <4>4. Tree(call.table, tables, data', top_page_structure, lev)
        BY <3>2, <4>3, TreeHolds
      <4> QED
        BY <4>2, <4>4
    <3> QED
      BY <3>3, <3>4
  <2> QED
    BY <1>1, <1>3, <2>1, <2>2, <2>3 DEF PagerBuilt
<1> QED
  BY <1>1, <1>3, <1>7, <1>8, <1>9, <1>10, <1>11 DEF BootInv, Reading, Reserving

LEMMA CopySegmentKeeps ==
  ASSUME BootInv, CopySegment
  PROVE  BootInv' /\ (RoomForTables => tables' = tables)
<1> DEFINE n     == pages_needed
           pages == {segment_region + k * PageSize : k \in FilePages}
<1>1. /\ Loads /\ Loading /\ step = "expand" /\ segment_region # 0 /\ segment.load
      /\ InEntry(memory_regions, segment_region, segment_region + n * PageSize, "KERNEL")
      /\ segment_region \in Nat /\ i \in Nat /\ memory_regions \in Seq(Regions)
      /\ Sound(memory_regions, Regions)
  <2>1. Sound(memory_regions, Regions)
    BY SoundIsRegions DEF BootInv, BootTypes, GoodTable
  <2> QED
    BY <2>1 DEF BootInv, BootTypes, GoodTable, SegmentPlaced, CopySegment, Loading, Loads
<1>2. n \in Nat /\ \A k \in FilePages : k \in Nat /\ k < n
  BY <1>1, LoadedPages
<1>3. /\ DOMAIN data' = DOMAIN data \cup pages
      /\ tables' = Drop(tables, pages)
      /\ i' = i + 1 /\ segment_region' = 0 /\ mapped' = 0
      /\ UNCHANGED <<step, tags, module, image, file, longmode, header,
                     memory_regions, top_page_structure>>
  BY DEF CopySegment, NextHeader, inputs
<1> HIDE DEF n
<1>4. \A p \in pages : p \in Nat /\ p # 0 /\ Owned(memory_regions, p, "KERNEL")
  <2> SUFFICES ASSUME NEW k \in FilePages
               PROVE  LET p == segment_region + k * PageSize
                      IN  p \in Nat /\ p # 0 /\ Owned(memory_regions, p, "KERNEL")
    BY Zenon
  <2>1. k \in Nat /\ k < n
    BY <1>2
  <2>2. k * PageSize \in Nat
    BY <2>1, RegionTableAssumption
  <2> QED
    BY <1>1, <1>2, <2>1, <2>2, RunPage
<1> HIDE DEF pages
<1>5. BootTypes'
  BY <1>1, <1>3 DEF BootInv, BootTypes
<1>6. Reserved' /\ Parsed'
  BY <1>3 DEF BootInv, Reserved, Parsed, Callers
<1>7. SegmentPlaced'
  BY <1>3 DEF SegmentPlaced
<1>8. PagerBuilt' /\ (RoomForTables => tables' = tables)
  <2>1. PagerReady /\ PagerReady'
    BY <1>1, <1>3 DEF BootInv, PagerBuilt, PagerReady
  <2>2. RoomForTables' => RoomForTables
    <3>1. DOMAIN tables' = DOMAIN tables \ pages
      BY <1>3 DEF Drop
    <3> QED
      BY <1>4, <3>1 DEF RoomForTables
  <2>3. ASSUME RoomForTables
        PROVE  /\ tables' = tables
               /\ \E lev : Tree(memory_regions, tables', data', top_page_structure, lev)
    <3>1. PICK lev : Tree(memory_regions, tables, data, top_page_structure, lev)
      BY <2>1, <2>3 DEF BootInv, PagerBuilt
    <3>2. pages \cap DOMAIN tables = {}
      <4> SUFFICES ASSUME NEW p \in pages, p \in DOMAIN tables PROVE FALSE
        OBVIOUS
      <4>1. Owned(memory_regions, p, "KERNEL") /\ p \in Nat
            /\ Owned(memory_regions, p, "ALLOCATED")
        BY <1>4, <3>1 DEF Tree
      <4>2. p + PageSize \in Nat /\ p < p + PageSize /\ p <= p
        BY <4>1, RegionTableAssumption
      <4> QED
        BY <1>1, <4>1, <4>2, OwnedApart DEF Owned
    <3>3. tables' = tables
      BY <1>3, <3>1, <3>2, TreeApart
    <3>4. \A p \in DOMAIN data' :
            p \in DOMAIN data \/ (p \in Nat /\ Owned(memory_regions, p, "KERNEL"))
      BY <1>3, <1>4
    <3>5. Tree(memory_regions, tables, data', top_page_structure, lev)
      BY <3>1, <3>4, TreeHolds
    <3> QED
      BY <3>3, <3>5
  <2> QED
    BY <1>1, <1>3, <2>1, <2>2, <2>3 DEF PagerBuilt
<1> QED
  BY <1>1, <1>3, <1>5, <1>6, <1>7, <1>8 DEF BootInv, Reading, Reserving

LEMMA MapSegmentPageKeeps ==
  ASSUME BootInv, MapSegmentPage
  PROVE  BootInv' /\ (RoomForTables' => Extends(tables, tables'))
<1> DEFINE n     == pages_needed
           phys  == segment_region + mapped * PageSize
           vpage == segment.vaddr \div PageSize + mapped
           done  == map_page(Memory, phys, vpage, segment.writable,
                             segment.executable)
<1>1. /\ Loads /\ Loading /\ step = "expand" /\ segment_region # 0 /\ segment.load
      /\ InEntry(memory_regions, segment_region, segment_region + n * PageSize, "KERNEL")
      /\ segment_region \in Nat /\ i \in Nat /\ mapped \in Nat /\ mapped < n
  BY DEF BootInv, BootTypes, SegmentPlaced, MapSegmentPage, Loading, Loads
<1>2. n \in Nat
  BY <1>1, LoadedPages
<1>3. /\ memory_regions' = done.regions /\ tables' = done.tables /\ data' = done.data
      /\ mapped' = mapped + 1
      /\ UNCHANGED <<step, tags, module, image, file, longmode, header,
                     top_page_structure, i, segment_region>>
  BY DEF MapSegmentPage, SetMemory, inputs
<1>4. pages_needed' = n /\ segment' = segment
  BY <1>3 DEF pages_needed, segment
<1> HIDE DEF n
<1>5. PagerReady
  BY <1>1 DEF BootInv, PagerBuilt
<1>6. /\ phys \in Nat /\ Owned(memory_regions, phys, "KERNEL")
      /\ vpage \in Nat
      /\ segment.writable \in BOOLEAN /\ segment.executable \in BOOLEAN
  <2>1. memory_regions \in Seq(Regions)
    BY DEF BootInv, BootTypes, GoodTable
  <2>2. phys \in Nat /\ Owned(memory_regions, phys, "KERNEL")
    BY <1>1, <1>2, <2>1, RunPage
  <2>3. Loadable(segment)
    BY <1>1, LoadingMeans DEF Loading
  <2>4. vpage \in Nat
    BY <1>1, <2>3, RegionTableAssumption DEF Loadable
  <2>5. segment.writable \in BOOLEAN /\ segment.executable \in BOOLEAN
    BY DEF segment, program_header
  <2> QED
    BY <2>2, <2>4, <2>5
<1>7. /\ World(Memory) /\ Memory.regions = memory_regions /\ Memory.tables = tables
      /\ Memory.data = data
  BY DEF World, Memory
<1> HIDE DEF phys, vpage
<1>8. /\ RegionsKept(memory_regions, done.regions, Callers)
      /\ 0 \in DOMAIN tables => 0 \in DOMAIN done.tables
      /\ 0 \notin DOMAIN done.tables =>
           /\ Extends(tables, done.tables)
           /\ \E lev : Tree(done.regions, done.tables, done.data,
                            top_page_structure, lev)
  <2>1. 0 \notin DOMAIN tables =>
          \E lev : Tree(memory_regions, tables, data, top_page_structure, lev)
    BY <1>5 DEF BootInv, PagerBuilt, RoomForTables
  <2> HIDE DEF done
  <2> DEFINE w == Memory
             writable == segment.writable
             executable == segment.executable
  <2>2. /\ World(w) /\ w.regions \in Seq(Regions) /\ InOrder(w.regions)
        /\ Sound(w.regions, Entries(Callers)) /\ Callers \in SUBSET Regions
        /\ 0 \notin DOMAIN w.tables =>
             \E lev : Tree(w.regions, w.tables, w.data, top_page_structure, lev)
        /\ Owned(w.regions, phys, "KERNEL")
    BY <1>1, <1>6, <1>7, <2>1, CallersReserved
  <2>3. done = map_page(w, phys, vpage, writable, executable)
    BY DEF done
  <2>4. writable \in BOOLEAN /\ executable \in BOOLEAN
    BY <1>6
  <2> HIDE DEF w, writable, executable
  <2>5. /\ RegionsKept(w.regions, done.regions, Callers)
        /\ 0 \in DOMAIN w.tables => 0 \in DOMAIN done.tables
        /\ 0 \notin DOMAIN done.tables =>
             /\ Extends(w.tables, done.tables)
             /\ \E lev : Tree(done.regions, done.tables, done.data,
                              top_page_structure, lev)
    BY <1>6, <2>2, <2>3, <2>4, MapKeeps
  <2> QED
    BY <1>7, <2>5 DEF w
<1> HIDE DEF done
<1>9. GoodTable(done.regions) /\ Sound(done.regions, Entries(Callers))
  BY <1>1, <1>8, RegionsStay
<1>10. BootTypes'
  BY <1>1, <1>3, <1>9 DEF BootInv, BootTypes
<1>11. Reserved'
  BY <1>1, <1>3, <1>9, CallersReserved DEF Reserved, Callers
<1>12. Parsed'
  BY <1>1, <1>3 DEF BootInv, Parsed
<1>13. SegmentPlaced'
  <2>1. InEntry(done.regions, segment_region, segment_region + n * PageSize, "KERNEL")
    BY <1>1, <1>8, KeptInEntry DEF RegionsKept, OwnerTypes
  <2>2. /\ step' = "expand" /\ i' <= header'.prog_header_count /\ segment'.load
        /\ mapped' <= n /\ segment_region' = segment_region
    BY <1>1, <1>2, <1>3, <1>4 DEF Loading
  <2>3. InEntry(memory_regions', segment_region',
                segment_region' + pages_needed' * PageSize, "KERNEL")
    BY <1>3, <1>4, <2>1
  <2> QED
    BY <1>1, <1>4, <2>2, <2>3 DEF SegmentPlaced
<1>14. PagerBuilt'
  BY <1>1, <1>3, <1>5, <1>8 DEF PagerBuilt, PagerReady, RoomForTables
<1>15. RoomForTables' => Extends(tables, tables')
  BY <1>3, <1>8 DEF RoomForTables
<1> QED
  BY <1>1, <1>3, <1>10, <1>11, <1>12, <1>13, <1>14, <1>15 DEF BootInv, Reading, Reserving

LEMMA StepKeepsBootInv == BootInv /\ [Next]_vars => BootInv'
<1> SUFFICES ASSUME BootInv, [Next]_vars PROVE BootInv'
  OBVIOUS
<1>1. CASE Start
  BY <1>1, StartKeeps
<1>2. CASE EnterMap
  BY <1>2, EnterMapKeeps
<1>3. CASE FindKernel
  BY <1>3, FindKernelKeeps
<1>4. CASE SkipTag
  BY <1>4, SkipTagKeeps
<1>5. CASE CheckTags
  BY <1>5, CheckTagsKeeps
<1>6. CASE ReserveBlocks
  BY <1>6, ReserveBlocksKeeps
<1>7. CASE ParseKernel
  BY <1>7, ParseKernelKeeps
<1>8. CASE InitializePager
  BY <1>8, InitializePagerKeeps
<1>9. CASE SkipSegment
  BY <1>9, SkipSegmentKeeps
<1>10. CASE AllocateSegment
  BY <1>10, AllocateSegmentKeeps
<1>11. CASE MapSegmentPage
  BY <1>11, MapSegmentPageKeeps
<1>12. CASE CopySegment
  BY <1>12, CopySegmentKeeps
<1>13. CASE EnterKernel
  BY <1>13, EnterKernelKeeps
<1>14. CASE Stopped
  BY <1>14, StoppedKeeps DEF Stopped
<1>15. CASE UNCHANGED vars
  BY <1>15, StoppedKeeps
<1> QED
  BY <1>1, <1>2, <1>3, <1>4, <1>5, <1>6, <1>7, <1>8, <1>9, <1>10, <1>11, <1>12,
     <1>13, <1>14, <1>15 DEF Next

------------------------------------------------------------------------------
(***************************************************************************)
(* The theorems.                                                           *)
(***************************************************************************)
(* From the boot loader's tags to the kernel's entry the invariant holds: the *)
(* table of regions is in order and keeps what is owned, and as long as every *)
(* page table found room, the tables form a tree (main.c:71-197, pager.c,     *)
(* elf.c:245-331).                                                            *)
THEOREM BootInvariance == Spec => []BootInv
<1>1. Init => BootInv
  BY InitBootInv
<1>2. BootInv /\ [Next]_vars => BootInv'
  BY StepKeepsBootInv
<1> QED
  BY <1>1, <1>2, PTL DEF Spec

(* A range apart from a block's pages is apart from the block.               *)
LEMMA BlockApart ==
  ASSUME NEW b, Reservable(b), NEW r \in Regions, Apart(r, ReservedRange(b))
  PROVE  Apart(r, b)
<1>1. /\ b.addr_start \in Nat /\ b.addr_end \in Nat /\ b.addr_start < b.addr_end
      /\ b \in [addr_start : Nat, addr_end : Nat] /\ RoundUp(b.addr_end) < PtrSpan
  BY DEF Reservable, Block
<1>2. /\ ReservedRange(b) \in Regions
      /\ ReservedRange(b).addr_start <= b.addr_start
      /\ b.addr_end <= ReservedRange(b).addr_end
  BY <1>1, ReservedRangeType
<1> DEFINE q == ReservedRange(b)
<1>3. /\ q.addr_start \in Nat /\ q.addr_end \in Nat
      /\ r.addr_start \in Nat /\ r.addr_end \in Nat
      /\ q.addr_start <= b.addr_start /\ b.addr_end <= q.addr_end
  <2> HIDE DEF q
  <2>1. q \in Regions /\ q.addr_start <= b.addr_start /\ b.addr_end <= q.addr_end
    BY <1>2 DEF q
  <2> QED
    BY <2>1 DEF Regions
<1>4. Apart(r, q)
  OBVIOUS
<1> HIDE DEF q
<1> QED
  BY <1>1, <1>3, <1>4 DEF Apart

(* Once they are reserved, neither Kickstart nor the kernel's file is in      *)
(* available memory (main.c:148-151).                                         *)
THEOREM InUseNeverAvailable == Spec => []InUseNotAvailable
<1>1. BootInv => InUseNotAvailable
  <2> SUFFICES ASSUME BootInv, step \notin {"start", "tags", "reserve", "halted"},
                      NEW k \in DOMAIN memory_regions,
                      memory_regions[k].type = "AVAILABLE"
               PROVE  /\ Apart(memory_regions[k], KickstartBlock)
                      /\ Apart(memory_regions[k], module)
    BY DEF InUseNotAvailable
  <2>1. /\ Sound(memory_regions, Entries(Callers)) /\ Reservable(module)
        /\ Reservable(KickstartBlock)
    BY KickstartProofAssumption DEF BootInv, Reserved
  <2>2. memory_regions[k] \in Regions /\ \A g \in Callers : Apart(memory_regions[k], g)
    BY <2>1 DEF Sound, Entries, OwnerTypes
  <2> QED
    BY <2>1, <2>2, BlockApart DEF Callers
<1> QED
  BY <1>1, BootInvariance, PTL

LEMMA TreeOwned ==
  ASSUME BootInv, NEW lev,
         Tree(memory_regions, tables, data, top_page_structure, lev)
  PROVE  TablesOwned
<1> DEFINE t   == memory_regions
           top == top_page_structure
<1>1. /\ t \in Seq(Regions) /\ Sound(t, Regions)
      /\ PageSize \in Nat \ {0} /\ Last \in Nat
  <2>1. Sound(t, Regions)
    BY SoundIsRegions DEF BootInv, BootTypes, GoodTable
  <2> QED
    BY <2>1, RegionTableAssumption, KickstartAssumption
    DEF BootInv, BootTypes, GoodTable, Last
<1>2. /\ DOMAIN tables \subseteq Nat
      /\ lev \in [DOMAIN tables -> 0..Last]
      /\ top \in DOMAIN tables /\ lev[top] = 0
      /\ IdentityTable \in DOMAIN tables /\ lev[IdentityTable] = Last
      /\ \A p \in DOMAIN tables : Owned(t, p, "ALLOCATED")
      /\ \A p \in DOMAIN data : Owned(t, p, "KERNEL")
  BY DEF Tree, IdentityTable, Last
<1>3. ASSUME NEW p \in DOMAIN tables, Owned(t, p, "KERNEL") PROVE FALSE
  <2>1. p \in Nat /\ Owned(t, p, "ALLOCATED") /\ p < p + PageSize /\ p <= p
        /\ p + PageSize \in Nat
    BY <1>1, <1>2
  <2> QED
    BY <1>1, <1>3, <2>1, OwnedApart DEF Owned
<1>4. DOMAIN tables \cap DOMAIN data = {}
  BY <1>2, <1>3
<1>5. \A p \in DOMAIN data : Within(p, "KERNEL")
  BY <1>2 DEF Within, Owned, InEntry
<1>6. \A p \in DOMAIN tables : Within(p, "ALLOCATED")
  BY <1>2 DEF Within, Owned, InEntry
<1>7. ASSUME NEW p \in DOMAIN tables, NEW link \in LinksTo(p)
      PROVE  /\ link = <<link[1], link[2]>>
             /\ link[1] \in DOMAIN tables /\ link[2] \in Index
             /\ LinksTable(tables, lev, link[1], link[2], p)
             /\ lev[p] = lev[link[1]] + 1
  <2>1. /\ link = <<link[1], link[2]>>
        /\ link[1] \in DOMAIN tables /\ link[1] # IdentityTable
        /\ link[2] \in Index
        /\ tables[link[1]][link[2]].present
        /\ tables[link[1]][link[2]].addr = p
    BY DEF LinksTo, Index
  <2>2. lev[link[1]] < Last
    <3> SUFFICES ASSUME ~(lev[link[1]] < Last) PROVE FALSE
      OBVIOUS
    <3>1. Owned(t, p, "KERNEL")
      BY <2>1 DEF Tree, IdentityTable, Last
    <3> QED
      BY <1>3, <3>1
  <2>3. lev[p] = lev[link[1]] + 1
    BY <2>1, <2>2 DEF Tree
  <2> QED
    BY <2>1, <2>2, <2>3 DEF LinksTable
<1>8. \A link \in LinksTo(top) : link[1] = top
  <2> SUFFICES ASSUME NEW link \in LinksTo(top) PROVE FALSE
    OBVIOUS
  <2>1. lev[link[1]] \in 0..Last /\ 0 = lev[link[1]] + 1
    BY <1>2, <1>7
  <2> QED
    BY <2>1
<1>9. ASSUME NEW p \in DOMAIN tables, p # top
      PROVE  Cardinality(LinksTo(p)) = 1
  <2>1. PICK q \in DOMAIN tables, n \in Index : LinksTable(tables, lev, q, n, p)
    BY <1>9 DEF Tree
  <2>2. <<q, n>> \in LinksTo(p)
    <3>1. q # IdentityTable
      BY <1>1, <1>2, <2>1 DEF LinksTable
    <3> QED
      BY <2>1, <3>1 DEF LinksTo, LinksTable, Index
  <2>3. ASSUME NEW link \in LinksTo(p) PROVE link = <<q, n>>
    <3>1. link[1] = q /\ link[2] = n
      BY <1>7, <2>1 DEF Tree
    <3> QED
      BY <1>7, <3>1
  <2>4. LinksTo(p) = {<<q, n>>}
    BY <2>2, <2>3
  <2> QED
    BY <2>4, FS_Singleton
<1> QED
  BY <1>4, <1>5, <1>6, <1>8, <1>9 DEF TablesOwned

(* Page tables lie in memory of their own, and each is linked from one place, *)
(* unless a table's allocation has failed (pager.c:37-63, 73-116).            *)
THEOREM TablesAlwaysOwned == Spec => [](RoomForTables => TablesOwned)
<1>1. BootInv => (RoomForTables => TablesOwned)
  <2> SUFFICES ASSUME BootInv, RoomForTables PROVE TablesOwned
    OBVIOUS
  <2>1. CASE PagerReady
    <3>1. PICK lev : Tree(memory_regions, tables, data, top_page_structure, lev)
      BY <2>1 DEF BootInv, PagerBuilt
    <3> QED
      BY <3>1, TreeOwned
  <2>2. CASE ~PagerReady
    <3>1. tables = <<>> /\ data = <<>>
      BY <2>2 DEF BootInv, PagerBuilt
    <3>2. DOMAIN tables = {} /\ DOMAIN data = {}
      BY <3>1
    <3> QED
      BY <3>2 DEF TablesOwned
  <2> QED
    BY <2>1, <2>2
<1> QED
  BY <1>1, BootInvariance, PTL

(* Once the pager is there, steps only add tables and fill unused slots.      *)
LEMMA StepExtends ==
  ASSUME BootInv, [Next]_vars, PagerReady, RoomForTables, RoomForTables'
  PROVE  top_page_structure' = top_page_structure /\ Extends(tables, tables')
<1>1. tables' = tables => Extends(tables, tables')
  BY DEF Extends
<1>2. step \notin {"start", "tags", "reserve", "parse", "pager"}
  BY DEF BootInv, PagerBuilt
<1>3. CASE SkipSegment
  BY <1>1, <1>3 DEF SkipSegment
<1>4. CASE AllocateSegment
  BY <1>1, <1>4, AllocateSegmentKeeps DEF AllocateSegment
<1>5. CASE MapSegmentPage
  BY <1>5, MapSegmentPageKeeps DEF MapSegmentPage
<1>6. CASE CopySegment
  BY <1>1, <1>6, CopySegmentKeeps DEF CopySegment
<1>7. CASE EnterKernel
  BY <1>1, <1>7 DEF EnterKernel
<1>8. CASE UNCHANGED vars
  BY <1>1, <1>8 DEF vars
<1>9. CASE \/ Start \/ EnterMap \/ FindKernel \/ SkipTag \/ CheckTags
           \/ ReserveBlocks \/ ParseKernel \/ InitializePager
  BY <1>2, <1>9
  DEF Start, ReadTag, EnterMap, FindKernel, SkipTag, CheckTags, ReserveBlocks,
      ParseKernel, InitializePager
<1> QED
  BY <1>3, <1>4, <1>5, <1>6, <1>7, <1>8, <1>9 DEF Next, Stopped

\* What MappingsStay says of a step.
KeepsMappings ==
  PagerReady => \A v \in VirtualPages :
    Translate(v).present => Translate(v)' = Translate(v)

(* A page that is mapped stays mapped to the same memory, unless a table's    *)
(* allocation has failed (pager.c:126-135).                                   *)
THEOREM MappingsAlwaysStay == Spec /\ []RoomForTables => MappingsStay
<1>1. \A v : Translate(v) = Lookup(tables, top_page_structure, v)
  BY DEF Translate, EntryAt, Lookup, PathAt
<1>2. \A v : Translate(v)' = Lookup(tables', top_page_structure', v)
  BY DEF Translate, EntryAt, Lookup, PathAt
<1>3. ASSUME BootInv, BootInv', [Next]_vars, RoomForTables, RoomForTables'
      PROVE  KeepsMappings
  <2> SUFFICES ASSUME PagerReady, NEW v \in VirtualPages, Translate(v).present
               PROVE  Translate(v)' = Translate(v)
    BY DEF KeepsMappings
  <2> DEFINE top == top_page_structure
  <2>1. top' = top /\ Extends(tables, tables')
    BY <1>3, StepExtends
  <2>2. tables \in [DOMAIN tables -> [Index -> Slots]]
    BY <1>3 DEF BootInv, PagerBuilt, Tree
  <2>3. tables' \in [DOMAIN tables' -> [Index -> Slots]]
    BY <1>3, <2>1 DEF BootInv, PagerBuilt, PagerReady, Tree
  <2>4. top \in Nat /\ v \in Nat
    BY <1>3 DEF BootInv, BootTypes, VirtualPages
  <2>5. Lookup(tables, top, v).present
    BY <1>1
  <2>6. Lookup(tables', top, v) = Lookup(tables, top, v)
    BY <2>1, <2>2, <2>3, <2>4, <2>5, LookupExtends
  <2> QED
    BY <1>1, <1>2, <2>1, <2>6
<1>4. BootInv /\ BootInv' /\ [Next]_vars /\ RoomForTables /\ RoomForTables'
        => [KeepsMappings]_vars
  BY <1>3
<1>5. Spec /\ []RoomForTables => [][KeepsMappings]_vars
  BY <1>4, BootInvariance, PTL DEF Spec
<1> QED
  BY <1>5 DEF MappingsStay, KeepsMappings

\* What Advances says of a step.
GoesOn ==
  \/ step = "entered"
  \/ Stage' > Stage
  \/ Stage' = Stage /\ Len(tags') < Len(tags)
  \/ i < i' /\ i' <= header.prog_header_count + 1
  \/ i' = i /\ segment_region = 0 /\ segment_region' # 0
  \/ i' = i /\ mapped < mapped' /\ mapped' <= pages_needed

(* A step of Kickstart that changes something gets on with the boot.         *)
LEMMA StepAdvances ==
  ASSUME BootInv, Next, ~UNCHANGED vars
  PROVE  GoesOn
<1>1. CASE Start
  BY <1>1 DEF Start, GoesOn, Stage
<1>2. ASSUME ReadTag, step' = step PROVE GoesOn
  <2>1. step = "tags" /\ tags # <<>> /\ tags' = Tail(tags)
    BY <1>2 DEF ReadTag
  <2>2. tags \in Seq(Tag)
    BY <2>1 DEF BootInv, Reading, Left
  <2>3. Len(tags') < Len(tags)
    BY <2>1, <2>2
  <2> QED
    BY <1>2, <2>3 DEF GoesOn, Stage
<1>3. CASE EnterMap \/ FindKernel \/ SkipTag
  BY <1>2, <1>3 DEF EnterMap, FindKernel, SkipTag
<1>4. CASE CheckTags
  BY <1>4 DEF CheckTags, GoesOn, Stage
<1>5. CASE ReserveBlocks
  BY <1>5 DEF ReserveBlocks, GoesOn, Stage
<1>6. CASE ParseKernel
  BY <1>6 DEF ParseKernel, GoesOn, Stage
<1>7. CASE InitializePager
  BY <1>7 DEF InitializePager, GoesOn, Stage
<1>8. ASSUME Loading, i' = NextHeader PROVE GoesOn
  <2>1. i \in Nat /\ header.prog_header_count \in Nat
    BY <1>8, LoadingMeans DEF Loading, BootInv, BootTypes
  <2> QED
    BY <1>8, <2>1 DEF Loading, NextHeader, GoesOn
<1>9. CASE SkipSegment
  BY <1>8, <1>9 DEF SkipSegment
<1>10. CASE AllocateSegment
  BY <1>10 DEF AllocateSegment, Loading, GoesOn, Stage
<1>11. CASE MapSegmentPage
  <2>1. mapped \in Nat /\ Loading /\ segment.load
    BY <1>11 DEF BootInv, BootTypes, SegmentPlaced, MapSegmentPage
  <2>2. pages_needed \in Nat
    BY <2>1, LoadedPages
  <2>3. mapped < mapped' /\ mapped' <= pages_needed /\ i' = i
    BY <1>11, <2>1, <2>2 DEF MapSegmentPage
  <2> QED
    BY <2>3 DEF GoesOn
<1>12. CASE CopySegment
  BY <1>8, <1>12 DEF CopySegment
<1>13. CASE EnterKernel
  BY <1>13 DEF EnterKernel, GoesOn, Stage
<1> QED
  BY <1>1, <1>3, <1>4, <1>5, <1>6, <1>7, <1>9, <1>10, <1>11, <1>12, <1>13
  DEF Next, Stopped

(* The boot cannot go round in circles: each step enters a later stage, reads *)
(* a tag, or gets on with the finitely many program headers and their pages   *)
(* (main.c:71-197, elf.c:245-331).                                            *)
THEOREM BootAdvances == Spec => Advances
<1>1. BootInv /\ [Next]_vars => [GoesOn]_vars
  BY StepAdvances
<1>2. Spec => [][GoesOn]_vars
  BY <1>1, BootInvariance, PTL DEF Spec
<1> QED
  BY <1>2 DEF Advances, GoesOn

------------------------------------------------------------------------------
(***************************************************************************)
(* The types of what BootInv says nothing of.                              *)
(***************************************************************************)
InputTypes ==
  /\ step \in Steps /\ tags \in Seq(Tag) /\ module \in Block /\ image \in Image
  /\ longmode \in BOOLEAN /\ header.valid \in BOOLEAN
  /\ \A p \in DOMAIN data : data[p] \in Nat

\* What is left of the data pages da is as it was.
Remains(da, db) == \A p \in DOMAIN db : p \in DOMAIN da /\ db[p] = da[p]

(* A page is mapped without writing to any page of data.                     *)
LEMMA MapRemains ==
  ASSUME NEW w, World(w), NEW phys, NEW vpage, NEW writable, NEW executable
  PROVE  Remains(w.data, map_page(w, phys, vpage, writable, executable).data)
<1> DEFINE last == Walk(w, vpage)
           done == map_page(w, phys, vpage, writable, executable)
           P(f) == {l \in 0..Last : World(f[l]) /\ Remains(w.data, f[l].data)}
<1>1. Last \in Nat
  BY KickstartAssumption DEF Last
<1>2. PICK f : /\ f[0] = [w EXCEPT !.at = top_page_structure]
               /\ \A l \in 1..Last :
                    f[l] = Descend(f[l - 1], TableIndex(vpage, l - 1))
               /\ last = f[Last]
  BY WalkSteps
<1>3. 0 \in P(f)
  <2>1. f[0] = [regions |-> w.regions, at |-> top_page_structure,
                data |-> w.data, tables |-> w.tables]
    BY <1>2 DEF World
  <2> QED
    BY <1>1, <2>1 DEF World, Remains
<1>4. ASSUME NEW x, World(x), Remains(w.data, x.data), NEW index
      PROVE  World(Descend(x, index)) /\ Remains(w.data, Descend(x, index).data)
  <2> DEFINE call == allocate_region(x.regions, 1, "ALLOCATED")
             slot == x.tables[x.at][index]
             new  == [Put(x.tables, call.ret, ZeroTable)
                        EXCEPT ![x.at][index] = Link(call.ret)]
             y    == Descend(x, index)
  <2>1. y = IF slot.present THEN [x EXCEPT !.at = slot.addr]
            ELSE [regions |-> call.table, at |-> call.ret,
                  data |-> Drop(x.data, {call.ret}), tables |-> new]
    BY DEF Descend
  <2>2. Remains(w.data, Drop(x.data, {call.ret}))
    BY <1>4 DEF Remains, Drop
  <2> HIDE DEF call, slot, new, y
  <2>3. CASE slot.present
    <3>1. y = [regions |-> x.regions, at |-> slot.addr, data |-> x.data,
               tables |-> x.tables]
      BY <1>4, <2>1, <2>3 DEF World
    <3>2. World(y) /\ y.data = x.data
      BY <3>1 DEF World
    <3> QED
      BY <1>4, <3>2 DEF y
  <2>4. CASE ~slot.present
    <3>1. y = [regions |-> call.table, at |-> call.ret,
               data |-> Drop(x.data, {call.ret}), tables |-> new]
      BY <2>1, <2>4
    <3>2. World(y) /\ Remains(w.data, y.data)
      BY <2>2, <3>1 DEF World
    <3> QED
      BY <3>2 DEF y
  <2> QED
    BY <2>3, <2>4
<1>5. ASSUME NEW l \in (0 + 1)..Last, l - 1 \in P(f) PROVE l \in P(f)
  <2>1. l \in 1..Last /\ l \in 0..Last /\ f[l] = Descend(f[l - 1], TableIndex(vpage, l - 1))
    BY <1>1, <1>2
  <2> QED
    BY <1>4, <1>5, <2>1
<1>6. World(last) /\ Remains(w.data, last.data)
  <2> DEFINE Q == P(f)
  <2>1. Q \in SUBSET (0..Last) /\ 0 \in Nat /\ 0 <= Last
    BY <1>1
  <2>2. Last \in P(f)
    <3>1. 0 \in Q /\ \A l \in (0 + 1)..Last : l - 1 \in Q => l \in Q
      BY <1>3, <1>5
    <3> HIDE DEF Q, P
    <3>2. \A l \in 0..Last : l \in Q
      BY <1>1, <2>1, <3>1, LoopInvariant, Zenon
    <3>3. Last \in 0..Last
      BY <1>1
    <3> QED
      BY <3>2, <3>3 DEF Q
  <2> QED
    BY <1>2, <2>2
<1>7. done.data = last.data
  <2> DEFINE index == TableIndex(vpage, Levels - 1)
             entry == Entry(phys, writable, executable)
             slot  == last.tables[last.at][index]
             tb    == [last.tables EXCEPT ![last.at][index] = entry]
  <2>1. done = IF slot.present THEN last
               ELSE [last EXCEPT !.tables[last.at][index] = entry]
    BY DEF map_page
  <2>2. last = [regions |-> last.regions, at |-> last.at, data |-> last.data,
                tables |-> last.tables]
    BY <1>6 DEF World
  <2> HIDE DEF last, done, slot, entry, index
  <2>3. [last EXCEPT !.tables[last.at][index] = entry].data = last.data
    BY <2>2
  <2> QED
    BY <2>1, <2>3
<1> QED
  BY <1>6, <1>7

(* A data page holds what it held, or bytes of a segment copied whole.        *)
LEMMA StepKeepsInputTypes ==
  ASSUME BootInv, InputTypes, [Next]_vars
  PROVE  InputTypes'
<1> USE DEF InputTypes, inputs
<1>1. ASSUME ReadTag PROVE /\ step' \in Steps => tags' \in Seq(Tag)
                           /\ Head(tags) \in Tag
  BY <1>1 DEF ReadTag
<1>2. CASE Start
  BY <1>2 DEF Start, Steps
<1>3. CASE EnterMap
  BY <1>1, <1>3 DEF EnterMap
<1>4. CASE FindKernel
  <2>1. Head(tags) \in ModuleTag
    BY <1>1, <1>4 DEF FindKernel, Tag, MapTag, OtherTag
  <2>2. module' \in Block
    BY <1>4, <2>1 DEF FindKernel, ModuleTag
  <2> QED
    BY <1>1, <1>4, <2>2 DEF FindKernel
<1>5. CASE SkipTag
  BY <1>1, <1>5 DEF SkipTag
<1>6. CASE CheckTags
  BY <1>6 DEF CheckTags, Steps
<1>7. CASE ReserveBlocks
  BY <1>7 DEF ReserveBlocks, Steps
<1>8. CASE ParseKernel
  <2>1. header'.valid \in BOOLEAN
    BY <1>8 DEF ParseKernel, elf_initialize, NoHeader
  <2> QED
    BY <1>8, <2>1 DEF ParseKernel, Steps
<1>9. CASE InitializePager
  BY <1>9 DEF InitializePager, Steps
<1>10. CASE SkipSegment
  BY <1>10 DEF SkipSegment
<1>11. CASE AllocateSegment
  BY <1>11 DEF AllocateSegment, Drop, Steps
<1>12. CASE MapSegmentPage
  <2>1. World(Memory) /\ Memory.data = data
    BY DEF World, Memory
  <2>2. Remains(data, data')
    BY <1>12, <2>1, MapRemains DEF MapSegmentPage, SetMemory
  <2>3. \A p \in DOMAIN data' : data'[p] \in Nat
    BY <2>2 DEF Remains
  <2> QED
    BY <1>12, <2>3 DEF MapSegmentPage
<1>13. CASE CopySegment
  <2>1. /\ Loading /\ segment_region \in Nat /\ segment.load
        /\ step = "expand" /\ PageSize \in Nat
    BY <1>13, RegionTableAssumption
    DEF CopySegment, BootInv, BootTypes, SegmentPlaced, Loading
  <2>2. segment.f_off \in Nat
    BY <2>1, LoadingMeans DEF Loading, Loadable
  <2>3. \A k \in FilePages : k \in Nat
    BY <2>1, LoadedPages
  <2> DEFINE pages == {segment_region + k * PageSize : k \in FilePages}
  <2>4. \A p \in pages : p - segment_region \in Nat
    <3> SUFFICES ASSUME NEW k \in FilePages
                 PROVE  (segment_region + k * PageSize) - segment_region \in Nat
      OBVIOUS
    <3>1. k \in Nat /\ k * PageSize \in Nat
      BY <2>1, <2>3
    <3> QED
      BY <2>1, <3>1
  <2>5. data' = [p \in DOMAIN data \cup pages |->
                   IF p \in pages THEN segment.f_off + (p - segment_region)
                   ELSE data[p]]
    BY <1>13 DEF CopySegment
  <2> HIDE DEF pages
  <2>6. \A p \in DOMAIN data' : data'[p] \in Nat
    BY <2>2, <2>4, <2>5
  <2> QED
    BY <1>13, <2>6 DEF CopySegment
<1>14. CASE EnterKernel
  BY <1>14 DEF EnterKernel, Steps
<1>15. CASE UNCHANGED vars
  BY <1>15 DEF vars
<1> QED
  BY <1>2, <1>3, <1>4, <1>5, <1>6, <1>7, <1>8, <1>9, <1>10, <1>11, <1>12, <1>13,
     <1>14, <1>15 DEF Next, Stopped

LEMMA InitInputTypes == Init => InputTypes
BY KickstartAssumption
DEF Init, InputTypes, Steps, NoModule, Block, NoHeader

LEMMA TypesTogether ==
  ASSUME BootInv, InputTypes, RoomForTables
  PROVE  TypeOK
<1>1. \A p \in DOMAIN tables : tables[p] \in
        [0..(TableEntries - 1) -> [present : BOOLEAN, addr : Nat,
                                   writable : BOOLEAN, executable : BOOLEAN]]
  <2>1. CASE PagerReady
    <3>1. PICK lev : Tree(memory_regions, tables, data, top_page_structure, lev)
      BY <2>1 DEF BootInv, PagerBuilt
    <3>2. tables \in [DOMAIN tables -> [Index -> Slots]]
      BY <3>1 DEF Tree
    <3> QED
      BY <3>2 DEF Index, Slots
  <2>2. CASE ~PagerReady
    <3>1. tables = <<>> /\ DOMAIN tables = {}
      BY <2>2 DEF BootInv, PagerBuilt
    <3> QED
      BY <3>1
  <2> QED
    BY <2>1, <2>2
<1>2. memory_regions \in Seq(Regions) /\ {top_page_structure, i, segment_region, mapped} \subseteq Nat
  BY DEF BootInv, BootTypes, GoodTable
<1> QED
  BY <1>1, <1>2 DEF TypeOK, InputTypes

(* Every variable has its type and every page table all its entries, unless a *)
(* table's allocation has failed (main.c, pager.c, elf.c).                    *)
THEOREM BootTypeCorrect == Spec => [](RoomForTables => TypeOK)
<1>1. Init => InputTypes
  BY InitInputTypes
<1>2. BootInv /\ InputTypes /\ [Next]_vars => InputTypes'
  BY StepKeepsInputTypes
<1>3. BootInv /\ InputTypes => (RoomForTables => TypeOK)
  BY TypesTogether
<1> QED
  BY <1>1, <1>2, <1>3, BootInvariance, PTL DEF Spec

------------------------------------------------------------------------------
(***************************************************************************)
(* No page table is empty: a new one is linked to on the way to a page that *)
(* is mapped next.                                                         *)
(***************************************************************************)
\* Each table, but for one at `at', has all its slots and one in use.
UsedBut(tb, at) ==
  \A q \in DOMAIN tb :
    DOMAIN tb[q] = Index /\ (q # at => \E n \in Index : tb[q][n].present)

Used(tb) ==
  \A q \in DOMAIN tb : DOMAIN tb[q] = Index /\ \E n \in Index : tb[q][n].present

(* A present entry that is written is there, if the table is.                *)
LEMMA WrittenUsed ==
  ASSUME NEW tb, NEW at, UsedBut(tb, at), NEW index \in Index,
         NEW entry, entry.present
  PROVE  Used(Written(tb, at, index, entry))
<1> DEFINE row == [tb[at] EXCEPT ![index] = entry]
           tc  == [tb EXCEPT ![at] = row]
<1>1. \A q \in DOMAIN tb :
        DOMAIN tb[q] = Index /\ (q # at => \E n \in Index : tb[q][n].present)
  BY DEF UsedBut
<1>2. at \in DOMAIN tb => DOMAIN row = Index /\ row[index] = entry
  BY <1>1
<1> HIDE DEF row
<1>3. DOMAIN tc = DOMAIN tb
      /\ \A q \in DOMAIN tb : tc[q] = IF q = at THEN row ELSE tb[q]
  OBVIOUS
<1> HIDE DEF tc
<1>4. Used(tc)
  BY <1>1, <1>2, <1>3 DEF Used
<1> QED
  BY <1>4 DEF tc, row, Written

LEMMA DroppedUsed ==
  ASSUME NEW tb, Used(tb), NEW pages
  PROVE  Used(Drop(tb, pages))
BY DEF Used, Drop

LEMMA UsedIsUsedBut ==
  ASSUME NEW tb, Used(tb), NEW at
  PROVE  UsedBut(tb, at)
BY DEF Used, UsedBut

(* One level down: what was above is in use now.                             *)
LEMMA DescendUses ==
  ASSUME NEW x, World(x), UsedBut(x.tables, x.at), NEW index \in Index
  PROVE  LET y == Descend(x, index)
         IN  World(y) /\ UsedBut(y.tables, y.at)
<1> DEFINE call == allocate_region(x.regions, 1, "ALLOCATED")
           slot == x.tables[x.at][index]
           put  == Put(x.tables, call.ret, ZeroTable)
           new  == Written(put, x.at, index, Link(call.ret))
           y    == Descend(x, index)
<1>1. y = IF slot.present THEN [x EXCEPT !.at = slot.addr]
          ELSE [regions |-> call.table, at |-> call.ret,
                data |-> Drop(x.data, {call.ret}), tables |-> new]
  BY DEF Descend, Written
<1>2. UsedBut(new, call.ret)
  <2>1. Link(call.ret).present
    BY DEF Link, Entry
  <2>2. DOMAIN put = DOMAIN x.tables \cup {call.ret}
        /\ \A q \in DOMAIN put :
             put[q] = IF q = call.ret THEN ZeroTable ELSE x.tables[q]
    BY DEF Put
  <2>3. DOMAIN ZeroTable = Index
    BY DEF ZeroTable, Index
  <2> DEFINE row == [put[x.at] EXCEPT ![index] = Link(call.ret)]
             tc  == [put EXCEPT ![x.at] = row]
  <2> HIDE DEF put, call
  <2>4. \A q \in DOMAIN put : DOMAIN put[q] = Index
    BY <2>2, <2>3 DEF UsedBut
  <2>5. x.at \in DOMAIN put => DOMAIN row = Index /\ row[index].present
    BY <2>1, <2>4
  <2> HIDE DEF row
  <2>6. DOMAIN tc = DOMAIN put
        /\ \A q \in DOMAIN put : tc[q] = IF q = x.at THEN row ELSE put[q]
    OBVIOUS
  <2> HIDE DEF tc
  <2>7. UsedBut(tc, call.ret)
    BY <2>2, <2>4, <2>5, <2>6 DEF UsedBut
  <2> QED
    BY <2>7 DEF tc, row, Written
<1> HIDE DEF call, new, y, put
<1>3. CASE slot.present
  <2>1. y = [regions |-> x.regions, at |-> slot.addr, data |-> x.data,
             tables |-> x.tables]
    BY <1>1, <1>3 DEF World
  <2>2. UsedBut(x.tables, slot.addr)
    BY <1>3 DEF UsedBut
  <2> HIDE DEF slot
  <2>3. World(y) /\ y.tables = x.tables /\ y.at = slot.addr
    BY <2>1 DEF World
  <2> QED
    BY <2>2, <2>3 DEF y
<1>4. CASE ~slot.present
  <2>1. y = [regions |-> call.table, at |-> call.ret,
             data |-> Drop(x.data, {call.ret}), tables |-> new]
    BY <1>1, <1>4
  <2>2. World(y) /\ y.tables = new /\ y.at = call.ret
    BY <2>1 DEF World
  <2> QED
    BY <1>2, <2>2 DEF y
<1> QED
  BY <1>3, <1>4

LEMMA MapUses ==
  ASSUME NEW w, World(w), Used(w.tables), NEW phys, NEW vpage \in Nat,
         NEW writable, NEW executable
  PROVE  Used(map_page(w, phys, vpage, writable, executable).tables)
<1> DEFINE last  == Walk(w, vpage)
           index == TableIndex(vpage, Levels - 1)
           entry == Entry(phys, writable, executable)
           done  == map_page(w, phys, vpage, writable, executable)
           P(f)  == {l \in 0..Last : World(f[l]) /\ UsedBut(f[l].tables, f[l].at)}
<1>1. Last \in Nat /\ Levels - 1 = Last
  BY KickstartAssumption DEF Last
<1>2. PICK f : /\ f[0] = [w EXCEPT !.at = top_page_structure]
               /\ \A l \in 1..Last :
                    f[l] = Descend(f[l - 1], TableIndex(vpage, l - 1))
               /\ last = f[Last]
  BY WalkSteps
<1>3. 0 \in P(f)
  <2>1. f[0] = [regions |-> w.regions, at |-> top_page_structure,
                data |-> w.data, tables |-> w.tables]
    BY <1>2 DEF World
  <2>2. World(f[0]) /\ f[0].tables = w.tables
    BY <2>1 DEF World
  <2> QED
    BY <1>1, <2>2, UsedIsUsedBut
<1>4. ASSUME NEW l \in (0 + 1)..Last, l - 1 \in P(f) PROVE l \in P(f)
  <2>1. l \in 1..Last /\ l \in 0..Last /\ f[l] = Descend(f[l - 1], TableIndex(vpage, l - 1))
    BY <1>1, <1>2
  <2>2. TableIndex(vpage, l - 1) \in Index
    BY <1>1, TableIndexRange
  <2> QED
    BY <1>4, <2>1, <2>2, DescendUses
<1>5. World(last) /\ UsedBut(last.tables, last.at)
  <2> DEFINE Q == P(f)
  <2>1. Q \in SUBSET (0..Last) /\ 0 \in Nat /\ 0 <= Last
    BY <1>1
  <2>2. Last \in P(f)
    <3>1. 0 \in Q /\ \A l \in (0 + 1)..Last : l - 1 \in Q => l \in Q
      BY <1>3, <1>4
    <3> HIDE DEF Q, P
    <3>2. \A l \in 0..Last : l \in Q
      BY <1>1, <2>1, <3>1, LoopInvariant, Zenon
    <3>3. Last \in 0..Last
      BY <1>1
    <3> QED
      BY <3>2, <3>3 DEF Q
  <2> QED
    BY <1>2, <2>2
<1>6. index \in Index /\ entry.present
  BY <1>1, TableIndexRange DEF Entry
<1> DEFINE slot == last.tables[last.at][index]
<1>7. done = IF slot.present THEN last
             ELSE [last EXCEPT !.tables[last.at][index] = entry]
  BY DEF map_page
<1>8. last = [regions |-> last.regions, at |-> last.at, data |-> last.data,
              tables |-> last.tables]
  BY <1>5 DEF World
<1> HIDE DEF last, done, entry, index
<1>9. CASE slot.present
  BY <1>5, <1>6, <1>7, <1>9 DEF Used, UsedBut, done
<1>10. CASE ~slot.present
  <2>1. done.tables = Written(last.tables, last.at, index, entry)
    BY <1>7, <1>8, <1>10 DEF Written
  <2> QED
    BY <1>5, <1>6, <2>1, WrittenUsed DEF done
<1> QED
  BY <1>9, <1>10

LEMMA BootstrapUses ==
  ASSUME NEW pml4
  PROVE  Used(BootstrapTables(pml4))
<1> DEFINE level(p) == (p - pml4) \div PageSize
           pages    == {pml4 + l * PageSize : l \in 0..(Levels - 1)}
           row(p)   == IF level(p) = Levels - 1
                         THEN [n \in 0..(TableEntries - 1) |-> Link(n * PageSize)]
                         ELSE [ZeroTable EXCEPT ![0] = Link(p + PageSize)]
<1>1. BootstrapTables(pml4) = [p \in pages |-> row(p)]
  BY DEF BootstrapTables
<1>2. 0 \in Index
  BY KickstartAssumption DEF Index
<1>3. \A p : DOMAIN row(p) = Index /\ row(p)[0].present
  <2> SUFFICES ASSUME NEW p PROVE DOMAIN row(p) = Index /\ row(p)[0].present
    OBVIOUS
  <2>1. CASE level(p) = Levels - 1
    BY <1>2, <2>1 DEF Link, Entry, Index
  <2>2. CASE level(p) # Levels - 1
    BY <1>2, <2>2 DEF Link, Entry, Index, ZeroTable
  <2> QED
    BY <2>1, <2>2
<1> HIDE DEF row, pages
<1> QED
  BY <1>1, <1>2, <1>3 DEF Used

LEMMA StepUses ==
  ASSUME BootInv, Used(tables), [Next]_vars
  PROVE  Used(tables')
<1>1. CASE UNCHANGED tables
  BY <1>1
<1>2. CASE InitializePager
  <2> DEFINE call == allocate_region(memory_regions, Levels, "ALLOCATED")
  <2>1. tables' = tables \/ tables' = BootstrapTables(call.ret)
    BY <1>2 DEF InitializePager
  <2> HIDE DEF call
  <2> QED
    BY <2>1, BootstrapUses
<1>3. CASE AllocateSegment
  <2> DEFINE call  == allocate_region(memory_regions, pages_needed, "KERNEL")
             pages == {call.ret + k * PageSize : k \in 0..(pages_needed - 1)}
  <2>1. tables' = tables \/ tables' = Drop(tables, pages)
    BY <1>3 DEF AllocateSegment
  <2> HIDE DEF pages
  <2> QED
    BY <2>1, DroppedUsed
<1>4. CASE MapSegmentPage
  <2> DEFINE phys  == segment_region + mapped * PageSize
             vpage == segment.vaddr \div PageSize + mapped
             done  == map_page(Memory, phys, vpage, segment.writable,
                               segment.executable)
  <2>1. Loading /\ mapped \in Nat
    BY <1>4 DEF BootInv, BootTypes, MapSegmentPage
  <2>2. vpage \in Nat
    <3>1. segment.load /\ Loadable(segment)
      BY <1>4, <2>1, LoadingMeans DEF Loading, BootInv, SegmentPlaced, MapSegmentPage
    <3> QED
      BY <2>1, <3>1, RegionTableAssumption DEF Loadable
  <2>3. World(Memory) /\ Memory.tables = tables
    BY DEF World, Memory
  <2>4. tables' = done.tables
    BY <1>4 DEF MapSegmentPage, SetMemory
  <2> HIDE DEF phys, vpage
  <2> DEFINE w == Memory
             writable == segment.writable
             executable == segment.executable
  <2>5. World(w) /\ Used(w.tables) /\ done = map_page(w, phys, vpage, writable, executable)
    BY <2>3
  <2> HIDE DEF w, writable, executable, done
  <2> QED
    BY <2>2, <2>4, <2>5, MapUses
<1>5. CASE CopySegment
  <2> DEFINE pages == {segment_region + k * PageSize : k \in FilePages}
  <2>1. tables' = Drop(tables, pages)
    BY <1>5 DEF CopySegment
  <2> HIDE DEF pages
  <2> QED
    BY <2>1, DroppedUsed
<1> QED
  BY <1>1, <1>2, <1>3, <1>4, <1>5
  DEF Next, Start, EnterMap, FindKernel, SkipTag, CheckTags, ReserveBlocks,
      ParseKernel, SkipSegment, EnterKernel, Stopped, vars
==============================================================================
