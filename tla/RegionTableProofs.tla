-------------------------- MODULE RegionTableProofs --------------------------
(***************************************************************************)
(* What the operations on the region table preserve, for tables of every   *)
(* length.  A table is sound for a set U of entries if no address is in    *)
(* two of its entries and all of them are in U.                            *)
(***************************************************************************)
EXTENDS RegionTable, LoopProofs, FiniteSetTheorems, SequenceTheorems

Sound(t, U) ==
  /\ \A i, j \in DOMAIN t : i # j => Apart(t[i], t[j])
  /\ \A i \in DOMAIN t : t[i] \in U

SoundTables(n, U) == {t \in [1..n -> Regions] : Sound(t, U)}

------------------------------------------------------------------------------
(* Rounding to pages stays among the natural numbers and in its direction.  *)
LEMMA Rounding ==
  ASSUME NEW a \in Nat
  PROVE  /\ RoundDown(a) \in Nat /\ RoundDown(a) <= a
         /\ RoundUp(a) \in Nat /\ a <= RoundUp(a)
<1>1. \A x \in Nat : x % PageSize \in 0..(PageSize - 1) /\ x % PageSize <= x
  BY RegionTableAssumption
<1> QED
  BY <1>1, RegionTableAssumption DEF RoundDown, RoundUp

(* A sequence and the function on its indices are the same thing.           *)
LEMMA SoundSeq ==
  ASSUME NEW U, NEW t
  PROVE  t \in Seq(Regions) /\ Sound(t, U)
           <=> \E n \in Nat : t \in SoundTables(n, U)
BY DEF SoundTables

(* A table's length is a number, and the table is sound at that length.     *)
LEMMA LenSound ==
  ASSUME NEW U, NEW n \in Nat, NEW t \in SoundTables(n, U)
  PROVE  t \in Seq(Regions) /\ Len(t) = n /\ DOMAIN t = 1..n /\ Sound(t, U)
BY DEF SoundTables

------------------------------------------------------------------------------
(* Sorting.  Each exchange swaps two neighbours, so whatever holds of every  *)
(* two entries still does.                                                   *)
LEMMA ExchangeSound ==
  ASSUME NEW U, NEW n \in Nat, NEW t \in SoundTables(n, U), NEW j \in 1..(n - 1)
  PROVE  CompareExchange(t, j) \in SoundTables(n, U)
<1> DEFINE u == Swap(t, j)
<1>1. /\ u \in [1..n -> Regions]
      /\ u = [k \in 1..n |-> IF k = j THEN t[j + 1] ELSE IF k = j + 1 THEN t[j]
                             ELSE t[k]]
  <2>1. t \in [1..n -> Regions] /\ j \in 1..n /\ j + 1 \in 1..n /\ j # j + 1
    BY DEF SoundTables
  <2>2. u = [k \in 1..n |-> IF k = j THEN t[j + 1] ELSE IF k = j + 1 THEN t[j]
                            ELSE t[k]]
    BY <2>1 DEF Swap
  <2> QED
    BY <2>1, <2>2
<1>2. Sound(u, U)
  <2>1. ASSUME NEW k \in 1..n, NEW l \in 1..n, k # l PROVE Apart(u[k], u[l])
    BY <1>1, <2>1 DEF SoundTables, Sound
  <2>2. ASSUME NEW k \in 1..n PROVE u[k] \in U
    BY <1>1 DEF SoundTables, Sound
  <2> HIDE DEF u
  <2> QED
    BY <1>1, <2>1, <2>2 DEF Sound
<1> QED
  BY <1>1, <1>2 DEF CompareExchange, SoundTables

(* A pass of the inner loop (pmm.c:297-315) keeps the table sound.          *)
LEMMA PassSound ==
  ASSUME NEW U, NEW n \in Nat, NEW t \in SoundTables(n, U),
         NEW i \in 1..n
  PROVE  BubblePass(t, i) \in SoundTables(n, U)
<1> DEFINE S == SoundTables(n, U)
           m == n - i
           B == [j \in 1..m |-> [x \in S |-> CompareExchange(x, j)]]
           pass == CHOOSE f : f = [j \in 0..m |->
                     IF j = 0 THEN t ELSE CompareExchange(f[j - 1], j)]
<1>0. m \in Nat /\ m < n /\ Len(t) = n
  BY LenSound
<1> HIDE DEF m
<1>1. \A x \in S : \A j \in 1..m : CompareExchange(x, j) \in S
  BY <1>0, ExchangeSound
<1>2. \E f : f = [j \in 0..m |->
               IF j = 0 THEN t ELSE CompareExchange(f[j - 1], j)]
  <2>1. B \in [(0 + 1)..m -> [S -> S]] /\ t \in S /\ 0 \in Nat /\ 0 <= m
    BY <1>0, <1>1
  <2>2. PICK f \in [0..m -> S] : RunOf(f, 0, m, t, B)
    <3> HIDE DEF B, S
    <3> QED
      BY <1>0, <2>1, LoopRuns
  <2>3. \A j \in 0..m : j # 0 => B[j][f[j - 1]] = CompareExchange(f[j - 1], j)
    BY <1>0
  <2> HIDE DEF B, S
  <2>4. f = [j \in 0..m |-> IF j = 0 THEN t ELSE CompareExchange(f[j - 1], j)]
    BY <2>2, <2>3 DEF RunOf
  <2> QED
    BY <2>4
<1>3. pass = [j \in 0..m |->
                IF j = 0 THEN t ELSE CompareExchange(pass[j - 1], j)]
  BY <1>2, Zenon
<1> HIDE DEF pass
<1>4. \A j \in 0..m : pass[j] \in S
  <2> DEFINE P == {j \in 0..m : pass[j] \in S}
  <2>1. 0 \in P
    BY <1>0, <1>3
  <2>2. \A j \in (0 + 1)..m : j - 1 \in P => j \in P
    <3> HIDE DEF S
    <3> QED
      BY <1>0, <1>1, <1>3
  <2>3. P \in SUBSET (0..m) /\ 0 \in Nat /\ 0 <= m
    BY <1>0
  <2> HIDE DEF P
  <2>4. \A j \in 0..m : j \in P
    BY <1>0, <2>1, <2>2, <2>3, LoopInvariant, Zenon
  <2> QED
    BY <2>4 DEF P
<1>5. BubblePass(t, i) = pass[m]
  BY <1>0, Zenon DEF BubblePass, pass, m
<1> QED
  BY <1>0, <1>4, <1>5

(* So does the whole bubble sort (pmm.c:295-316).                           *)
LEMMA SortSound ==
  ASSUME NEW U, NEW n \in Nat, NEW t \in SoundTables(n, U)
  PROVE  BubbleSort(t) \in SoundTables(n, U)
<1> DEFINE S == SoundTables(n, U)
           B == [i \in 1..n |-> [x \in S |-> BubblePass(x, i)]]
           sorted == CHOOSE f : f = [i \in 0..n |->
                       IF i = 0 THEN t ELSE BubblePass(f[i - 1], i)]
<1>1. \A x \in S : \A i \in 1..n : BubblePass(x, i) \in S
  BY PassSound
<1>2. \E f : f = [i \in 0..n |->
               IF i = 0 THEN t ELSE BubblePass(f[i - 1], i)]
  <2>1. B \in [(0 + 1)..n -> [S -> S]] /\ t \in S /\ 0 \in Nat /\ 0 <= n
    BY <1>1
  <2>2. PICK f \in [0..n -> S] : RunOf(f, 0, n, t, B)
    <3> HIDE DEF B, S
    <3> QED
      BY <2>1, LoopRuns
  <2>3. \A i \in 0..n : i # 0 => B[i][f[i - 1]] = BubblePass(f[i - 1], i)
    OBVIOUS
  <2> HIDE DEF B, S
  <2>4. f = [i \in 0..n |-> IF i = 0 THEN t ELSE BubblePass(f[i - 1], i)]
    BY <2>2, <2>3 DEF RunOf
  <2> QED
    BY <2>4
<1>3. sorted = [i \in 0..n |->
                  IF i = 0 THEN t ELSE BubblePass(sorted[i - 1], i)]
  BY <1>2, Zenon
<1>4. BubbleSort(t) = sorted[n]
  <2>1. Len(t) = n
    BY LenSound
  <2> QED
    BY <2>1, Zenon DEF BubbleSort
<1> HIDE DEF sorted
<1>5. \A i \in 0..n : sorted[i] \in S
  <2> DEFINE P == {i \in 0..n : sorted[i] \in S}
  <2>1. 0 \in P
    BY <1>3
  <2>2. \A i \in (0 + 1)..n : i - 1 \in P => i \in P
    <3> HIDE DEF S
    <3> QED
      BY <1>1, <1>3
  <2>3. P \in SUBSET (0..n) /\ 0 \in Nat /\ 0 <= n
    OBVIOUS
  <2> HIDE DEF P
  <2>4. \A i \in 0..n : i \in P
    BY <2>1, <2>2, <2>3, LoopInvariant, Zenon
  <2> QED
    BY <2>4 DEF P
<1> QED
  BY <1>4, <1>5

(* Dropping entries from the end of a sound table leaves a sound table.      *)
LEMMA SortRegionsSound ==
  ASSUME NEW U, NEW t \in Seq(Regions), Sound(t, U)
  PROVE  sort_regions(t) \in Seq(Regions) /\ Sound(sort_regions(t), U)
<1> DEFINE n == Len(t)
           c == Cardinality(EmptyEntries(t))
           u == BubbleSort(t)
<1>1. c \in 0..n
  <2>1. EmptyEntries(t) \subseteq 1..n
    BY DEF EmptyEntries
  <2>2. IsFiniteSet(1..n) /\ Cardinality(1..n) = n
    <3>1. n \in Nat /\ 1 \in Int
      OBVIOUS
    <3> HIDE DEF n
    <3>2. IsFiniteSet(1..n) /\ Cardinality(1..n) = IF 1 > n THEN 0 ELSE n - 1 + 1
      BY <3>1, FS_Interval
    <3> QED
      BY <3>1, <3>2
  <2>3. Cardinality(EmptyEntries(t)) <= n /\ IsFiniteSet(EmptyEntries(t))
    BY <2>1, <2>2, FS_Subset
  <2> QED
    BY <2>3, FS_CardinalityType
<1>2. u \in SoundTables(n, U) /\ n \in Nat
  BY SortSound DEF SoundTables
<1>3. u \in Seq(Regions) /\ Len(u) = n /\ DOMAIN u = 1..n /\ Sound(u, U)
  BY <1>2, LenSound
<1> HIDE DEF n, c, u
<1> DEFINE v == SubSeq(u, 1, n - c)
<1>4. /\ v \in Seq(Regions) /\ DOMAIN v = 1..(n - c)
      /\ \A k \in 1..(n - c) : v[k] = u[k] /\ k \in 1..n
  BY <1>1, <1>2, <1>3
<1>5. sort_regions(t) = v
  BY DEF sort_regions, v, u, n, c
<1> HIDE DEF v
<1> QED
  BY <1>3, <1>4, <1>5 DEF Sound

------------------------------------------------------------------------------
(* Rounding a firmware entry to pages gives an entry of the table.           *)
LEMMA PageRoundedType ==
  ASSUME NEW r \in Regions
  PROVE  PageRounded(r) \in Regions /\ PageRounded(r).type = r.type
BY Rounding DEF PageRounded, Region, Regions

(* Appending an entry that shares nothing with the others.                   *)
LEMMA AppendSound ==
  ASSUME NEW U, NEW t \in Seq(Regions), Sound(t, U),
         NEW r \in Regions, r \in U, \A i \in DOMAIN t : Apart(t[i], r)
  PROVE  Append(t, r) \in Seq(Regions) /\ Sound(Append(t, r), U)
<1> DEFINE u == Append(t, r)
<1>1. /\ u \in Seq(Regions) /\ DOMAIN u = 1..(Len(t) + 1)
      /\ \A k \in 1..(Len(t) + 1) :
           IF k = Len(t) + 1 THEN u[k] = r ELSE k \in DOMAIN t /\ u[k] = t[k]
  OBVIOUS
<1> HIDE DEF u
<1>2. \A i \in DOMAIN t : Apart(r, t[i])
  BY DEF Apart
<1>3. \A k \in DOMAIN u : u[k] \in U
  BY <1>1 DEF Sound
<1>4. ASSUME NEW k \in DOMAIN u, NEW l \in DOMAIN u, k # l
      PROVE  Apart(u[k], u[l])
  <2>1. CASE k = Len(t) + 1
    BY <1>1, <1>2, <1>4, <2>1
  <2>2. CASE l = Len(t) + 1
    BY <1>1, <1>4, <2>2
  <2>3. CASE k # Len(t) + 1 /\ l # Len(t) + 1
    BY <1>1, <1>4, <2>3 DEF Sound
  <2> QED
    BY <2>1, <2>2, <2>3
<1> QED
  BY <1>1, <1>3, <1>4 DEF Sound, u

(* pmm_add_region.                                                           *)
LEMMA AddRegionSound ==
  ASSUME NEW U, NEW t \in Seq(Regions), Sound(t, U), NEW r \in Regions,
         PageRounded(r) \in U, \A i \in DOMAIN t : Apart(t[i], PageRounded(r))
  PROVE  add_region(t, r) \in Seq(Regions) /\ Sound(add_region(t, r), U)
<1> DEFINE q == PageRounded(r)
<1>1. q \in Regions
  BY PageRoundedType
<1> HIDE DEF q
<1>2. Append(t, q) \in Seq(Regions) /\ Sound(Append(t, q), U)
  BY <1>1, AppendSound DEF q
<1> QED
  BY <1>2, SortRegionsSound DEF add_region, q

------------------------------------------------------------------------------
(***************************************************************************)
(* Once memory is handed out, G is the set of ranges that callers hold: an *)
(* entry that nobody owns keeps clear of all of them.                      *)
(***************************************************************************)
Entries(G) ==
  {r \in Regions : /\ r.addr_end <= PtrSpan
                   /\ r.type \notin OwnerTypes => \A g \in G : Apart(r, g)}

(* Making one entry smaller, within its bounds.                              *)
LEMMA ShrinkSound ==
  ASSUME NEW G \in SUBSET Regions, NEW t \in Seq(Regions), Sound(t, Entries(G)),
         NEW i \in DOMAIN t, NEW q \in Regions, q.type = t[i].type,
         t[i].addr_start <= q.addr_start, q.addr_end <= t[i].addr_end
  PROVE  /\ [t EXCEPT ![i] = q] \in Seq(Regions)
         /\ Sound([t EXCEPT ![i] = q], Entries(G))
<1> DEFINE u == [t EXCEPT ![i] = q]
<1>1. /\ u \in Seq(Regions) /\ DOMAIN u = DOMAIN t
      /\ \A k \in DOMAIN t : u[k] = IF k = i THEN q ELSE t[k]
  OBVIOUS
<1> HIDE DEF u
<1>2. \A x \in Regions : Apart(t[i], x) => Apart(q, x) /\ Apart(x, q)
  <2>1. t[i] \in Regions
    OBVIOUS
  <2> QED
    BY <2>1 DEF Apart, Regions
<1>3. q \in Entries(G)
  <2>1. t[i] \in Entries(G)
    BY DEF Sound
  <2>2. t[i].addr_end \in Nat /\ q.addr_end \in Nat
    BY <2>1 DEF Entries, Regions
  <2>3. q.addr_end <= PtrSpan
    BY <2>1, <2>2, RegionTableAssumption DEF Entries
  <2>4. q.type \notin OwnerTypes => \A g \in G : Apart(q, g)
    BY <1>2, <2>1 DEF Entries
  <2> QED
    BY <2>3, <2>4 DEF Entries
<1>4. \A k \in DOMAIN u : u[k] \in Entries(G)
  BY <1>1, <1>3 DEF Sound
<1>5. ASSUME NEW k \in DOMAIN u, NEW l \in DOMAIN u, k # l
      PROVE  Apart(u[k], u[l])
  <2>1. t[k] \in Regions /\ t[l] \in Regions /\ Apart(t[k], t[l]) /\ Apart(t[l], t[k])
    BY <1>1, <1>5 DEF Sound
  <2> QED
    BY <1>1, <1>2, <1>5, <2>1
<1> QED
  BY <1>1, <1>4, <1>5 DEF Sound, u

(* Making one entry smaller and giving the table part of what it lost.       *)
LEMMA SplitSound ==
  ASSUME NEW G \in SUBSET Regions, NEW t \in Seq(Regions), Sound(t, Entries(G)),
         NEW i \in DOMAIN t, NEW q \in Regions, q.type = t[i].type,
         t[i].addr_start <= q.addr_start, q.addr_end <= t[i].addr_end,
         NEW r \in Entries(G), Apart(q, r),
         t[i].addr_start <= r.addr_start, r.addr_end <= t[i].addr_end
  PROVE  /\ Append([t EXCEPT ![i] = q], r) \in Seq(Regions)
         /\ Sound(Append([t EXCEPT ![i] = q], r), Entries(G))
<1> DEFINE u == [t EXCEPT ![i] = q]
<1>1. u \in Seq(Regions) /\ Sound(u, Entries(G))
  BY ShrinkSound
<1>2. /\ DOMAIN u = DOMAIN t
      /\ \A k \in DOMAIN t : u[k] = IF k = i THEN q ELSE t[k]
  OBVIOUS
<1>3. r \in Regions
  BY DEF Entries
<1>4. ASSUME NEW k \in DOMAIN u PROVE Apart(u[k], r)
  <2>1. CASE k = i
    BY <1>2, <2>1
  <2>2. CASE k # i
    <3>1. t[k] \in Regions /\ t[i] \in Regions /\ Apart(t[k], t[i]) /\ u[k] = t[k]
      BY <1>2, <2>2 DEF Sound
    <3> HIDE DEF u
    <3>2. /\ t[k].addr_start \in Nat /\ t[k].addr_end \in Nat
          /\ t[i].addr_start \in Nat /\ t[i].addr_end \in Nat
          /\ r.addr_start \in Nat /\ r.addr_end \in Nat
      BY <1>3, <3>1 DEF Regions
    <3>3. \/ t[k].addr_end <= t[i].addr_start
          \/ t[i].addr_end <= t[k].addr_start
          \/ t[k].addr_end <= t[k].addr_start
          \/ t[i].addr_end <= t[i].addr_start
      BY <3>1 DEF Apart
    <3>4. \/ t[k].addr_end <= r.addr_start
          \/ r.addr_end <= t[k].addr_start
          \/ t[k].addr_end <= t[k].addr_start
          \/ r.addr_end <= r.addr_start
      BY <3>2, <3>3
    <3>5. Apart(t[k], r)
      BY <3>4 DEF Apart
    <3> QED
      BY <3>1, <3>5
  <2> QED
    BY <2>1, <2>2
<1> HIDE DEF u
<1>5. Append(u, r) \in Seq(Regions) /\ Sound(Append(u, r), Entries(G))
  BY <1>1, <1>3, <1>4, AppendSound
<1> QED
  BY <1>5 DEF u

(* Changing one field of an entry, written as a region.                      *)
LEMMA ChangeStart ==
  ASSUME NEW t \in Seq(Regions), NEW i \in DOMAIN t, NEW a \in Nat
  PROVE  /\ [t EXCEPT ![i].addr_start = a]
              = [t EXCEPT ![i] = Region(a, t[i].addr_end, t[i].type)]
         /\ Region(a, t[i].addr_end, t[i].type) \in Regions
<1>1. t[i] \in Regions
  OBVIOUS
<1>2. [t[i] EXCEPT !.addr_start = a] = Region(a, t[i].addr_end, t[i].type)
  BY <1>1 DEF Region, Regions
<1>3. Region(a, t[i].addr_end, t[i].type) \in Regions
  BY <1>1 DEF Region, Regions
<1>4. [t EXCEPT ![i].addr_start = a] = [t EXCEPT ![i] = [t[i] EXCEPT !.addr_start = a]]
  OBVIOUS
<1> QED
  BY <1>2, <1>3, <1>4

(* Likewise for an entry's end.                                             *)
LEMMA ChangeEnd ==
  ASSUME NEW t \in Seq(Regions), NEW i \in DOMAIN t, NEW a \in Nat
  PROVE  /\ [t EXCEPT ![i].addr_end = a]
              = [t EXCEPT ![i] = Region(t[i].addr_start, a, t[i].type)]
         /\ Region(t[i].addr_start, a, t[i].type) \in Regions
<1>1. t[i] \in Regions
  OBVIOUS
<1>2. [t[i] EXCEPT !.addr_end = a] = Region(t[i].addr_start, a, t[i].type)
  BY <1>1 DEF Region, Regions
<1>3. Region(t[i].addr_start, a, t[i].type) \in Regions
  BY <1>1 DEF Region, Regions
<1>4. [t EXCEPT ![i].addr_end = a] = [t EXCEPT ![i] = [t[i] EXCEPT !.addr_end = a]]
  OBVIOUS
<1> QED
  BY <1>2, <1>3, <1>4

(* Carving a range out of an entry that contains it.                         *)
LEMMA CarveOutSound ==
  ASSUME NEW G \in SUBSET Regions, NEW t \in Seq(Regions), Sound(t, Entries(G)),
         NEW i \in DOMAIN t, NEW r \in Regions, r.type \in OwnerTypes,
         t[i].addr_start <= r.addr_start, r.addr_end <= t[i].addr_end,
         r.addr_start <= r.addr_end
  PROVE  CarveOut(t, i, r) \in Seq(Regions) /\ Sound(CarveOut(t, i, r), Entries(G))
<1> DEFINE low  == Region(t[i].addr_start, r.addr_start, t[i].type)
           high == Region(r.addr_end, t[i].addr_end, t[i].type)
<1>1. /\ t[i] \in Regions /\ t[i] \in Entries(G)
      /\ r.addr_start \in Nat /\ r.addr_end \in Nat
  <2>1. t[i] \in Regions
    OBVIOUS
  <2>2. t[i] \in Entries(G)
    BY DEF Sound
  <2>3. r.addr_start \in Nat /\ r.addr_end \in Nat
    BY DEF Regions
  <2> QED
    BY <2>1, <2>2, <2>3
<1>2. /\ low \in Regions /\ high \in Regions
      /\ [t EXCEPT ![i].addr_start = r.addr_end] = [t EXCEPT ![i] = high]
      /\ [t EXCEPT ![i].addr_end = r.addr_start] = [t EXCEPT ![i] = low]
  <2>1. /\ high \in Regions
        /\ [t EXCEPT ![i].addr_start = r.addr_end] = [t EXCEPT ![i] = high]
    BY <1>1, ChangeStart, Zenon
  <2>2. /\ low \in Regions
        /\ [t EXCEPT ![i].addr_end = r.addr_start] = [t EXCEPT ![i] = low]
    BY <1>1, ChangeEnd, Zenon
  <2> QED
    BY <2>1, <2>2
<1>3. r \in Entries(G)
  BY <1>1, RegionTableAssumption DEF Entries, Regions
<1>4. /\ low.type = t[i].type /\ low.addr_start = t[i].addr_start
      /\ low.addr_end = r.addr_start
      /\ high.type = t[i].type /\ high.addr_start = r.addr_end
      /\ high.addr_end = t[i].addr_end
  BY DEF Region
<1> HIDE DEF low, high
<1>5. Apart(low, r) /\ Apart(high, r) /\ Apart(low, high) /\ Apart(r, high)
  BY <1>1, <1>2, <1>4 DEF Apart, Regions
<1>6. CASE r.addr_start = t[i].addr_start
  <2>1. CarveOut(t, i, r) = Append([t EXCEPT ![i] = high], r)
    BY <1>2, <1>6 DEF CarveOut
  <2>2. t[i].addr_start <= high.addr_start /\ high.addr_end <= t[i].addr_end
    BY <1>1, <1>4 DEF Regions
  <2> DEFINE u == Append([t EXCEPT ![i] = high], r)
  <2>3. u \in Seq(Regions) /\ Sound(u, Entries(G))
    BY <1>2, <1>3, <1>4, <1>5, <2>2, SplitSound
  <2> HIDE DEF u
  <2>4. CarveOut(t, i, r) = u
    BY <2>1 DEF u
  <2> QED
    BY <2>3, <2>4
<1>7. CASE r.addr_start # t[i].addr_start
  <2> DEFINE u == Append([t EXCEPT ![i] = low], r)
  <2>1. t[i].addr_start <= low.addr_start /\ low.addr_end <= t[i].addr_end
    BY <1>1, <1>4 DEF Regions
  <2>2. u \in Seq(Regions) /\ Sound(u, Entries(G))
    BY <1>2, <1>3, <1>4, <1>5, <2>1, SplitSound
  <2>3. CASE r.addr_end = t[i].addr_end
    <3>1. CarveOut(t, i, r) = u
      BY <1>2, <1>7, <2>3 DEF CarveOut
    <3> QED
      BY <2>2, <3>1
  <2>4. CASE r.addr_end # t[i].addr_end
    <3>1. CarveOut(t, i, r) = Append(u, high)
      <4>1. [t EXCEPT ![i] = low] \in Seq(Regions)
        BY <1>2
      <4>2. CarveOut(t, i, r) = [t EXCEPT ![i] = low] \o <<r, high>>
        BY <1>2, <1>7, <2>4 DEF CarveOut, high
      <4> DEFINE v == [t EXCEPT ![i] = low]
      <4> HIDE DEF v
      <4>3. ASSUME v \in Seq(Regions) PROVE v \o <<r, high>> = Append(Append(v, r), high)
        BY <1>2, <4>3
      <4> QED
        BY <4>1, <4>2, <4>3 DEF v
    <3>2. high \in Entries(G)
      <4>1. \A x \in Regions : Apart(t[i], x) => Apart(high, x)
        BY <1>1, <1>2, <1>4 DEF Apart, Regions
      <4> QED
        BY <1>1, <1>2, <1>4, <4>1 DEF Entries
    <3>3. ASSUME NEW k \in DOMAIN u PROVE Apart(u[k], high)
      <4>1. /\ DOMAIN u = 1..(Len(t) + 1) /\ i \in 1..Len(t)
            /\ u[k] = IF k = Len(t) + 1 THEN r ELSE IF k = i THEN low ELSE t[k]
        BY <1>2
      <4> HIDE DEF u
      <4>2. CASE k = Len(t) + 1
        BY <1>5, <4>1, <4>2
      <4>3. CASE k = i
        BY <1>5, <4>1, <4>3
      <4>4. CASE k # Len(t) + 1 /\ k # i
        <5>1. k \in DOMAIN t /\ u[k] = t[k]
          BY <4>1, <4>4
        <5>2. t[k] \in Regions /\ Apart(t[k], t[i])
          BY <4>4, <5>1 DEF Sound
        <5> QED
          BY <1>1, <1>2, <1>4, <5>1, <5>2 DEF Apart, Regions
      <4> QED
        BY <4>2, <4>3, <4>4
    <3> HIDE DEF u
    <3> QED
      BY <1>2, <2>2, <3>1, <3>2, <3>3, AppendSound
  <2> QED
    BY <2>3, <2>4
<1> QED
  BY <1>6, <1>7

(* pmm_reserve_memory_region, whether it finds an entry to carve or not.     *)
LEMMA ReserveSound ==
  ASSUME NEW G \in SUBSET Regions, NEW t \in Seq(Regions), Sound(t, Entries(G)),
         NEW b \in [addr_start : Nat, addr_end : Nat],
         b.addr_start <= b.addr_end, RoundUp(b.addr_end) < PtrSpan
  PROVE  /\ reserve_memory_region(t, b) \in Seq(Regions)
         /\ Sound(reserve_memory_region(t, b), Entries(G))
<1> DEFINE r == ReservedRange(b)
           i == Min(Containing(t, r))
<1>1. /\ r \in Regions /\ r.type \in OwnerTypes
      /\ r.addr_start <= r.addr_end
  <2>1. b.addr_start \in Nat /\ b.addr_end \in Nat
    OBVIOUS
  <2>2. /\ RoundDown(b.addr_start) \in Nat /\ RoundDown(b.addr_start) <= b.addr_start
        /\ RoundUp(b.addr_end) \in Nat /\ b.addr_end <= RoundUp(b.addr_end)
    BY <2>1, Rounding
  <2>3. RoundUp(b.addr_end) % PtrSpan = RoundUp(b.addr_end)
    BY <2>2, RegionTableAssumption
  <2> QED
    BY <2>1, <2>2, <2>3
    DEF ReservedRange, Region, Regions, RegionTypes, OwnerTypes
<1> HIDE DEF r
<1>2. CASE Containing(t, r) = {}
  BY <1>2 DEF reserve_memory_region, r
<1>3. CASE Containing(t, r) # {}
  <2>1. i \in Containing(t, r)
    <3>1. Containing(t, r) \in SUBSET Nat
      BY DEF Containing
    <3> QED
      BY <1>3, <3>1, MinIsLeast
  <2>2. /\ i \in DOMAIN t /\ t[i].addr_start <= r.addr_start
        /\ r.addr_end <= t[i].addr_end
    <3>1. /\ i \in DOMAIN t /\ t[i].addr_start <= r.addr_start
          /\ t[i].addr_end >= r.addr_end
      BY <2>1 DEF Containing
    <3>2. t[i] \in Regions
      BY <3>1
    <3> QED
      BY <1>1, <3>1, <3>2 DEF Regions
  <2> HIDE DEF i
  <2>3. CarveOut(t, i, r) \in Seq(Regions) /\ Sound(CarveOut(t, i, r), Entries(G))
    BY <1>1, <2>2, CarveOutSound
  <2>4. reserve_memory_region(t, b) = sort_regions(CarveOut(t, i, r))
    BY <1>3 DEF reserve_memory_region, r, i
  <2> QED
    BY <2>3, <2>4, SortRegionsSound
<1> QED
  BY <1>2, <1>3

------------------------------------------------------------------------------
(* An entry with an owner can be added to what callers hold.                 *)
LEMMA OwnedByEntry ==
  ASSUME NEW G \in SUBSET Regions, NEW t \in Seq(Regions), Sound(t, Entries(G)),
         NEW j \in DOMAIN t, t[j].type \in OwnerTypes
  PROVE  Sound(t, Entries(G \cup {t[j]}))
<1>1. ASSUME NEW k \in DOMAIN t PROVE t[k] \in Entries(G \cup {t[j]})
  <2>1. t[k] \in Entries(G) /\ (k # j => Apart(t[k], t[j]))
    BY DEF Sound
  <2> QED
    BY <2>1 DEF Entries
<1> QED
  BY <1>1 DEF Sound

(* A request of at least one page has at least one byte.                     *)
LEMMA AllocationLengthPositive ==
  ASSUME NEW pages \in Nat \ {0}, pages * PageSize < PtrSpan
  PROVE  /\ AllocationLength(pages) = pages * PageSize
         /\ pages * PageSize \in Nat /\ 0 < pages * PageSize
<1>1. pages * PageSize \in Nat /\ pages * PageSize # 0
  BY RegionTableAssumption
<1> DEFINE len == pages * PageSize
<1>2. len \in Nat /\ len < PtrSpan
  BY <1>1
<1> HIDE DEF len
<1>3. len % PtrSpan = len
  BY <1>2, RegionTableAssumption
<1> QED
  BY <1>1, <1>3 DEF AllocationLength, len

(* What the caller of an allocation that does not return NULL is given.      *)
Grant(t, pages, type) ==
  Region(allocate_region(t, pages, type).ret,
         allocate_region(t, pages, type).ret + pages * PageSize, type)

(* pmm_allocate_region_with_type: what the caller is given shares nothing    *)
(* with what callers hold, nor with any entry nobody owns.                   *)
LEMMA AllocateSound ==
  ASSUME NEW G \in SUBSET Regions, NEW t \in Seq(Regions), Sound(t, Entries(G)),
         NEW pages \in Nat, pages * PageSize < PtrSpan, NEW type \in OwnerTypes
  PROVE  /\ allocate_region(t, pages, type).table \in Seq(Regions)
         /\ allocate_region(t, pages, type).ret = 0
              => Sound(allocate_region(t, pages, type).table, Entries(G))
         /\ allocate_region(t, pages, type).ret # 0
              => /\ Grant(t, pages, type) \in Regions
                 /\ \A x \in G : Apart(Grant(t, pages, type), x)
                 /\ Sound(allocate_region(t, pages, type).table,
                          Entries(G \cup {Grant(t, pages, type)}))
<1> DEFINE call == allocate_region(t, pages, type)
           g    == Grant(t, pages, type)
<1>0. /\ call = allocate_region(t, pages, type)
      /\ g = Region(call.ret, call.ret + pages * PageSize, type)
  BY DEF Grant
<1> HIDE DEF call, g
<1> DEFINE len == AllocationLength(pages)
           i   == Min(Fitting(t, len))
<1>1. CASE pages = 0 \/ Fitting(t, len) = {}
  <2>1. call.table = t /\ call.ret = 0
    BY <1>1, <1>0 DEF allocate_region
  <2> QED
    BY <2>1 DEF call, g
<1>2. CASE pages # 0 /\ Fitting(t, len) # {}
  <2>1. len = pages * PageSize /\ len \in Nat /\ 0 < len
    BY <1>2, AllocationLengthPositive
  <2>2. call = [table |-> IF t[i].addr_start % PtrSpan # 0
                            THEN sort_regions(TakeFront(t, i, len, type))
                            ELSE TakeFront(t, i, len, type),
                ret |-> t[i].addr_start % PtrSpan]
    BY <1>2, <1>0 DEF allocate_region
  <2> HIDE DEF len
  <2>3. i \in Fitting(t, len)
    <3>1. Fitting(t, len) \in SUBSET Nat
      BY DEF Fitting
    <3> QED
      BY <1>2, <3>1, MinIsLeast
  <2> HIDE DEF i
  <2>4. /\ i \in DOMAIN t /\ t[i] \in Regions /\ t[i] \in Entries(G)
        /\ t[i].type = "AVAILABLE" /\ t[i].addr_start >= LowMemory
        /\ t[i].addr_start + len <= t[i].addr_end /\ t[i].addr_end <= PtrSpan
    <3>1. /\ i \in DOMAIN t /\ t[i].type = "AVAILABLE"
          /\ t[i].addr_start >= LowMemory
          /\ t[i].addr_start + len <= t[i].addr_end
      BY <2>3 DEF Fitting
    <3>2. t[i] \in Entries(G)
      BY <3>1 DEF Sound
    <3> QED
      BY <3>1, <3>2 DEF Entries
  <2> DEFINE s == t[i].addr_start
             r == Region(s, s + len, type)
             q == Region(s + len, t[i].addr_end, t[i].type)
             u == Append([t EXCEPT ![i] = q], r)
  <2>5. s \in Nat /\ t[i].addr_end \in Nat /\ s + len \in Nat
    BY <2>1, <2>4 DEF Regions
  <2>6. s % PtrSpan = s /\ s # 0
    <3>1. s < PtrSpan /\ LowMemory <= s
      BY <2>1, <2>4, <2>5, RegionTableAssumption
    <3> HIDE DEF s
    <3> QED
      BY <2>5, <3>1, RegionTableAssumption
  <2>7. /\ r \in Regions /\ r.type = type /\ r.addr_start = s /\ r.addr_end = s + len
        /\ q \in Regions /\ q.type = t[i].type
        /\ q.addr_start = s + len /\ q.addr_end = t[i].addr_end
    BY <2>4, <2>5 DEF Region, Regions, RegionTypes
  <2>8. TakeFront(t, i, len, type) = u
    <3>1. [t EXCEPT ![i].addr_start = s + len] = [t EXCEPT ![i] = q]
      BY <2>4, <2>5, ChangeStart, Zenon
    <3> QED
      BY <3>1 DEF TakeFront
  <2>9. call.ret = s /\ call.table = sort_regions(u) /\ g = r
    <3>1. call.ret = s
      BY <2>2, <2>6
    <3>2. g = r
      BY <1>0, <2>1, <3>1
    <3> HIDE DEF u
    <3>3. call.table = sort_regions(u)
      <4> HIDE DEF q, r
      <4> QED
        BY <2>2, <2>6, <2>8
    <3> QED
      BY <3>1, <3>2, <3>3
  <2> HIDE DEF q, r, s
  <2>10. u \in Seq(Regions) /\ Sound(u, Entries(G))
    <3>1. Apart(q, r) /\ r \in Entries(G)
      <4>1. r.addr_end <= PtrSpan
        <5>1. s = t[i].addr_start
          BY DEF s
        <5> QED
          BY <2>1, <2>4, <2>5, <2>7, <5>1, RegionTableAssumption
      <4>2. Apart(q, r)
        BY <2>5, <2>7 DEF Apart
      <4> QED
        BY <2>7, <4>1, <4>2 DEF Entries
    <3>2. /\ s = t[i].addr_start
          /\ t[i].addr_start <= q.addr_start /\ q.addr_end <= t[i].addr_end
          /\ t[i].addr_start <= r.addr_start /\ r.addr_end <= t[i].addr_end
      BY <2>1, <2>4, <2>5, <2>7 DEF s
    <3> QED
      BY <2>4, <2>7, <3>1, <3>2, SplitSound
  <2>11. Sound(u, Entries(G \cup {r}))
    <3>1. Len(t) + 1 \in DOMAIN u /\ u[Len(t) + 1] = r
      BY <2>4, <2>7
    <3> HIDE DEF u
    <3> QED
      BY <2>7, <2>10, <3>1, OwnedByEntry
  <2>12. ASSUME NEW x \in G PROVE Apart(r, x)
    <3>1. Apart(t[i], x) /\ x \in Regions
      BY <2>4 DEF Entries, OwnerTypes
    <3>2. s = t[i].addr_start
      BY DEF s
    <3> QED
      BY <2>1, <2>4, <2>5, <2>7, <3>1, <3>2 DEF Apart, Regions
  <2> HIDE DEF u
  <2>13. call.table \in Seq(Regions) /\ Sound(call.table, Entries(G \cup {g}))
    BY <2>9, <2>10, <2>11, SortRegionsSound
  <2> QED
    BY <2>6, <2>7, <2>9, <2>12, <2>13 DEF call, g
<1> QED
  BY <1>1, <1>2

------------------------------------------------------------------------------
(***************************************************************************)
(* Merging.  A head entry [a, b) takes over the entry [b, d) that touches  *)
(* it.  What is apart from both is apart from [a, d), of whatever length   *)
(* the two are, so the table stays sound at every step of the run.         *)
(***************************************************************************)
HeadTables(n, G, i) ==
  {t \in SoundTables(n, Entries(G)) : t[i].type = "AVAILABLE"}

HeadStates(n, G, i) == [tab : HeadTables(n, G, i), open : BOOLEAN]

(* The two assignments that merge an entry into the head (pmm.c:270-271).   *)
LEMMA JoinSound ==
  ASSUME NEW G \in SUBSET Regions, NEW n \in Nat, NEW i \in 1..n,
         NEW j \in (i + 1)..n, NEW t \in HeadTables(n, G, i),
         t[i].addr_end = t[j].addr_start, t[j].type = "AVAILABLE"
  PROVE  [t EXCEPT ![i].addr_end   = t[j].addr_end,
                   ![j].addr_start = t[j].addr_end] \in HeadTables(n, G, i)
<1> DEFINE d == t[j].addr_end
           w == Region(t[i].addr_start, d, t[i].type)
           e == Region(d, d, t[j].type)
           u == [t EXCEPT ![i] = w, ![j] = e]
<1>1. /\ t \in [1..n -> Regions] /\ t \in Seq(Regions) /\ DOMAIN t = 1..n
      /\ Sound(t, Entries(G)) /\ t[i].type = "AVAILABLE"
      /\ i \in 1..n /\ j \in 1..n /\ i # j
  BY DEF HeadTables, SoundTables
<1>2. /\ t[i] \in Regions /\ t[j] \in Regions
      /\ t[i] \in Entries(G) /\ t[j] \in Entries(G)
  BY <1>1 DEF Sound
<1>3. /\ t[i].addr_start \in Nat /\ t[j].addr_start \in Nat /\ d \in Nat
      /\ d <= PtrSpan
  BY <1>2 DEF Regions, Entries
<1>4. /\ w \in Regions /\ w.addr_start = t[i].addr_start /\ w.addr_end = d
      /\ w.type = "AVAILABLE"
      /\ e \in Regions /\ e.addr_start = d /\ e.addr_end = d
      /\ e.type = "AVAILABLE"
  BY <1>1, <1>2, <1>3 DEF Region, Regions
<1>5. [t EXCEPT ![i].addr_end = d, ![j].addr_start = d] = u
  <2>1. [t[i] EXCEPT !.addr_end = d] = w
    BY <1>2 DEF Region, Regions
  <2>2. [t[j] EXCEPT !.addr_start = d] = e
    BY <1>2 DEF Region, Regions
  <2>3. [t EXCEPT ![i].addr_end = d, ![j].addr_start = d]
         = [t EXCEPT ![i] = [t[i] EXCEPT !.addr_end = d],
                     ![j] = [t[j] EXCEPT !.addr_start = d]]
    BY <1>1
  <2> QED
    BY <2>1, <2>2, <2>3
<1>6. \A x \in Regions : Apart(t[i], x) /\ Apart(t[j], x) => Apart(w, x)
  BY <1>2, <1>3, <1>4 DEF Apart, Regions
<1>7. \A x \in Regions : Apart(e, x) /\ Apart(x, e)
  BY <1>3, <1>4 DEF Apart
<1> HIDE DEF w, e, d
<1>8. /\ u \in [1..n -> Regions]
      /\ \A k \in 1..n : u[k] = IF k = j THEN e ELSE IF k = i THEN w ELSE t[k]
  BY <1>1, <1>4
<1>9. w \in Entries(G) /\ e \in Entries(G)
  <2>1. \A g \in G : Apart(t[i], g) /\ Apart(t[j], g)
    BY <1>1, <1>2 DEF Entries, OwnerTypes
  <2>2. \A g \in G : Apart(w, g) /\ Apart(e, g)
    BY <1>6, <1>7, <2>1
  <2> QED
    BY <1>3, <1>4, <2>2 DEF Entries
<1> HIDE DEF u
<1>10. ASSUME NEW k \in 1..n, NEW l \in 1..n, k # l
       PROVE  Apart(u[k], u[l])
  <2>1. /\ t[k] \in Regions /\ t[l] \in Regions
        /\ u[k] \in Regions /\ u[l] \in Regions
    BY <1>1, <1>8
  <2>2. CASE k = j \/ l = j
    BY <1>7, <1>8, <2>1, <2>2
  <2>3. CASE k = i /\ l # j
    BY <1>1, <1>6, <1>8, <1>10, <2>1, <2>3 DEF Sound
  <2>4. CASE l = i /\ k # j
    <3>1. Apart(t[i], t[k]) /\ Apart(t[j], t[k])
      BY <1>1, <1>10, <2>4 DEF Sound
    <3>2. Apart(w, t[k])
      BY <1>6, <2>1, <3>1
    <3> QED
      BY <1>8, <1>10, <2>4, <3>2 DEF Apart
  <2>5. CASE k # i /\ k # j /\ l # i /\ l # j
    BY <1>1, <1>8, <1>10, <2>5 DEF Sound
  <2> QED
    BY <1>10, <2>2, <2>3, <2>4, <2>5
<1>11. \A k \in 1..n : u[k] \in Entries(G)
  BY <1>1, <1>8, <1>9 DEF Sound
<1>12. u \in HeadTables(n, G, i)
  <2>1. u \in SoundTables(n, Entries(G))
    BY <1>8, <1>10, <1>11 DEF SoundTables, Sound
  <2>2. u[i].type = "AVAILABLE"
    BY <1>1, <1>4, <1>8
  <2> QED
    BY <2>1, <2>2 DEF HeadTables
<1> QED
  BY <1>5, <1>12 DEF d

(* An iteration of the inner merging loop (pmm.c:251-272).                  *)
LEMMA MergeStepSound ==
  ASSUME NEW G \in SUBSET Regions, NEW n \in Nat, NEW i \in 1..n,
         NEW j \in (i + 1)..n, NEW st \in HeadStates(n, G, i)
  PROVE  MergeStep(st, i, j) \in HeadStates(n, G, i)
<1> DEFINE t == st.tab
           stops == \/ t[j].type # "AVAILABLE"
                    \/ ~Empty(t[j]) /\ t[i].addr_end # t[j].addr_start
<1>1. t \in HeadTables(n, G, i) /\ st.open \in BOOLEAN
  BY DEF HeadStates
<1>2. CASE st.open /\ ~stops /\ ~Empty(t[j])
  <2> DEFINE u == [t EXCEPT ![i].addr_end   = t[j].addr_end,
                            ![j].addr_start = t[j].addr_end]
  <2>1. t[i].addr_end = t[j].addr_start /\ t[j].type = "AVAILABLE"
    BY <1>2
  <2>2. u \in HeadTables(n, G, i)
    <3> HIDE DEF t
    <3> QED
      BY <1>1, <2>1, JoinSound
  <2>3. MergeStep(st, i, j) = [st EXCEPT !.tab = u]
    BY <1>2 DEF MergeStep
  <2> HIDE DEF u
  <2> QED
    BY <2>2, <2>3 DEF HeadStates
<1>3. CASE ~(st.open /\ ~stops /\ ~Empty(t[j]))
  <2>1. MergeStep(st, i, j) = [st EXCEPT !.open = st.open /\ ~stops]
    BY <1>3 DEF MergeStep
  <2>2. (st.open /\ ~stops) \in BOOLEAN
    OBVIOUS
  <2> HIDE DEF stops
  <2> QED
    BY <2>1, <2>2 DEF HeadStates
<1> QED
  BY <1>2, <1>3

(* The whole inner merging loop, for one head.                              *)
LEMMA MergeRunSound ==
  ASSUME NEW G \in SUBSET Regions, NEW n \in Nat, NEW i \in 1..n,
         NEW t \in HeadTables(n, G, i)
  PROVE  MergeRun(t, i) \in HeadTables(n, G, i)
<1> DEFINE S == HeadStates(n, G, i)
           b == [tab |-> t, open |-> TRUE]
           B == [j \in (i + 1)..n |-> [x \in S |-> MergeStep(x, i, j)]]
           run == CHOOSE f : f = [j \in i..n |->
                    IF j = i THEN [tab |-> t, open |-> TRUE]
                    ELSE MergeStep(f[j - 1], i, j)]
<1>1. \A x \in S : \A j \in (i + 1)..n : MergeStep(x, i, j) \in S
  BY MergeStepSound
<1>2. b \in S /\ i \in Nat /\ i <= n
  BY DEF HeadStates
<1>3. \E f : f = [j \in i..n |->
               IF j = i THEN [tab |-> t, open |-> TRUE]
               ELSE MergeStep(f[j - 1], i, j)]
  <2>1. B \in [(i + 1)..n -> [S -> S]]
    BY <1>1
  <2>2. PICK f \in [i..n -> S] : RunOf(f, i, n, b, B)
    <3> HIDE DEF B, S, b
    <3> QED
      BY <1>2, <2>1, LoopRuns
  <2>3. \A j \in i..n : j # i => B[j][f[j - 1]] = MergeStep(f[j - 1], i, j)
    OBVIOUS
  <2> HIDE DEF B, S
  <2>4. f = [j \in i..n |-> IF j = i THEN b ELSE MergeStep(f[j - 1], i, j)]
    <3> HIDE DEF b
    <3> QED
      BY <2>2, <2>3 DEF RunOf
  <2> QED
    BY <2>4
<1>4. run = [j \in i..n |->
               IF j = i THEN [tab |-> t, open |-> TRUE]
               ELSE MergeStep(run[j - 1], i, j)]
  BY <1>3, Zenon
<1>5. MergeRun(t, i) = run[n].tab
  <2>1. Len(t) = n
    BY LenSound DEF HeadTables
  <2> QED
    BY <2>1, Zenon DEF MergeRun
<1> HIDE DEF run
<1>6. \A j \in i..n : run[j] \in S
  <2> DEFINE P == {j \in i..n : run[j] \in S}
  <2>1. i \in P
    <3> HIDE DEF S
    <3> QED
      BY <1>2, <1>4
  <2>2. \A j \in (i + 1)..n : j - 1 \in P => j \in P
    <3> SUFFICES ASSUME NEW j \in (i + 1)..n, run[j - 1] \in S
                 PROVE  j \in i..n /\ run[j] \in S
      OBVIOUS
    <3>1. j \in i..n /\ j # i
      OBVIOUS
    <3> HIDE DEF S, P, B, b
    <3>2. run[j] = MergeStep(run[j - 1], i, j)
      BY <1>4, <3>1
    <3> QED
      BY <1>1, <3>1, <3>2
  <2>3. P \in SUBSET (i..n)
    OBVIOUS
  <2> HIDE DEF P
  <2>4. \A j \in i..n : j \in P
    BY <1>2, <2>1, <2>2, <2>3, LoopInvariant, Zenon
  <2> QED
    BY <2>4 DEF P
<1>7. run[n] \in S
  BY <1>2, <1>6
<1> QED
  BY <1>5, <1>7 DEF HeadStates

(* The outer merging loop (pmm.c:238-273), over every head.                 *)
LEMMA CoalesceSound ==
  ASSUME NEW G \in SUBSET Regions, NEW n \in Nat,
         NEW t \in SoundTables(n, Entries(G))
  PROVE  Coalesce(t) \in SoundTables(n, Entries(G))
<1> DEFINE S == SoundTables(n, Entries(G))
           Body(x, i) == IF x[i].type = "AVAILABLE" /\ ~Empty(x[i])
                           THEN MergeRun(x, i) ELSE x
           B == [i \in 1..n |-> [x \in S |-> Body(x, i)]]
           merged == CHOOSE f : f = [i \in 0..n |->
                       IF i = 0 THEN t
                       ELSE LET u == f[i - 1]
                            IN  IF u[i].type = "AVAILABLE" /\ ~Empty(u[i])
                                  THEN MergeRun(u, i) ELSE u]
<1>1. \A x \in S : \A i \in 1..n : Body(x, i) \in S
  <2> SUFFICES ASSUME NEW x \in S, NEW i \in 1..n PROVE Body(x, i) \in S
    BY Zenon
  <2>1. CASE x[i].type = "AVAILABLE" /\ ~Empty(x[i])
    <3>1. x \in HeadTables(n, G, i)
      BY <2>1 DEF HeadTables
    <3>2. MergeRun(x, i) \in HeadTables(n, G, i)
      BY <3>1, MergeRunSound
    <3> QED
      BY <2>1, <3>2 DEF HeadTables
  <2>2. CASE ~(x[i].type = "AVAILABLE" /\ ~Empty(x[i]))
    BY <2>2
  <2> QED
    BY <2>1, <2>2
<1>2. \E f : f = [i \in 0..n |->
               IF i = 0 THEN t
               ELSE LET u == f[i - 1]
                    IN  IF u[i].type = "AVAILABLE" /\ ~Empty(u[i])
                          THEN MergeRun(u, i) ELSE u]
  <2>1. B \in [(0 + 1)..n -> [S -> S]] /\ t \in S /\ 0 \in Nat /\ 0 <= n
    <3> HIDE DEF Body, S
    <3> QED
      BY <1>1 DEF S
  <2>2. PICK f \in [0..n -> S] : RunOf(f, 0, n, t, B)
    <3> HIDE DEF B, S
    <3> QED
      BY <2>1, LoopRuns
  <2>3. \A i \in 0..n : i # 0 => B[i][f[i - 1]] = Body(f[i - 1], i)
    <3> HIDE DEF Body, S
    <3> QED
      OBVIOUS
  <2>4. f = [i \in 0..n |-> IF i = 0 THEN t ELSE Body(f[i - 1], i)]
    <3> HIDE DEF B, S, Body
    <3> QED
      BY <2>2, <2>3 DEF RunOf
  <2> HIDE DEF B, S
  <2> QED
    BY <2>4
<1>3. merged = [i \in 0..n |-> IF i = 0 THEN t ELSE Body(merged[i - 1], i)]
  BY <1>2, Zenon
<1>4. Coalesce(t) = merged[n]
  <2>1. Len(t) = n
    BY LenSound
  <2> QED
    BY <2>1, Zenon DEF Coalesce
<1> HIDE DEF merged
<1>5. \A i \in 0..n : merged[i] \in S
  <2> DEFINE P == {i \in 0..n : merged[i] \in S}
  <2>1. 0 \in P
    BY <1>3
  <2>2. \A i \in (0 + 1)..n : i - 1 \in P => i \in P
    <3> HIDE DEF S, Body
    <3> QED
      BY <1>1, <1>3
  <2>3. P \in SUBSET (0..n) /\ 0 \in Nat /\ 0 <= n
    OBVIOUS
  <2> HIDE DEF P
  <2>4. \A i \in 0..n : i \in P
    BY <2>1, <2>2, <2>3, LoopInvariant, Zenon
  <2> QED
    BY <2>4 DEF P
<1> QED
  BY <1>4, <1>5

(* pmm_deallocate.  Only an entry that was not owned becomes available, so   *)
(* what callers hold stays clear of everything that can be handed out.       *)
LEMMA DeallocateSound ==
  ASSUME NEW G \in SUBSET Regions, NEW t \in Seq(Regions), Sound(t, Entries(G)),
         NEW addr
  PROVE  /\ deallocate(t, addr) \in Seq(Regions)
         /\ Sound(deallocate(t, addr), Entries(G))
<1> DEFINE page  == RoundDown(addr)
           above == AtOrAbove(t, page)
           i     == Min(above)
           freed == [t EXCEPT ![i].type = "AVAILABLE"]
<1>1. ASSUME NEW u \in Seq(Regions), Sound(u, Entries(G))
      PROVE  /\ sort_regions(Coalesce(u)) \in Seq(Regions)
             /\ Sound(sort_regions(Coalesce(u)), Entries(G))
  <2>1. PICK n \in Nat : u \in SoundTables(n, Entries(G))
    BY <1>1, SoundSeq
  <2>2. Coalesce(u) \in Seq(Regions) /\ Sound(Coalesce(u), Entries(G))
    BY <2>1, CoalesceSound, LenSound
  <2> QED
    BY <2>2, SortRegionsSound
<1>2. CASE above = {}
  <2>1. deallocate(t, addr) = sort_regions(Coalesce(t))
    BY <1>2 DEF deallocate
  <2> QED
    BY <1>1, <2>1
<1>3. CASE above # {} /\ t[i].addr_start = page /\ t[i].type = "RESERVED"
  <2>1. i \in DOMAIN t
    <3>1. above \in SUBSET Nat /\ above \subseteq DOMAIN t
      BY DEF AtOrAbove
    <3> HIDE DEF above
    <3> QED
      BY <1>3, <3>1, MinIsLeast
  <2>2. deallocate(t, addr) = sort_regions(Coalesce(freed))
    BY <1>3 DEF deallocate
  <2> HIDE DEF i
  <2> DEFINE q == [t[i] EXCEPT !.type = "AVAILABLE"]
  <2>3. t[i] \in Regions /\ t[i] \in Entries(G) /\ t[i].type \notin OwnerTypes
    BY <1>3, <2>1 DEF Sound, OwnerTypes, Entries
  <2>4. /\ q \in Regions /\ q.addr_start = t[i].addr_start
        /\ q.addr_end = t[i].addr_end /\ q.type = "AVAILABLE"
    BY <2>3 DEF Regions, RegionTypes, FirmwareTypes
  <2>5. freed = [t EXCEPT ![i] = q]
    BY <2>1
  <2>6. /\ freed \in Seq(Regions) /\ DOMAIN freed = DOMAIN t
        /\ \A k \in DOMAIN t : freed[k] = IF k = i THEN q ELSE t[k]
    BY <2>1, <2>4, <2>5
  <2> HIDE DEF q, freed
  <2>7. q \in Entries(G)
    BY <2>3, <2>4 DEF Entries, Apart
  <2>8. Sound(freed, Entries(G))
    <3>1. ASSUME NEW k \in DOMAIN t, NEW l \in DOMAIN t, k # l
          PROVE  Apart(freed[k], freed[l])
      BY <2>4, <2>6, <3>1 DEF Sound, Apart
    <3>2. \A k \in DOMAIN t : freed[k] \in Entries(G)
      BY <2>6, <2>7 DEF Sound
    <3> QED
      BY <2>6, <3>1, <3>2 DEF Sound
  <2> QED
    BY <1>1, <2>2, <2>6, <2>8 DEF freed
<1>4. CASE /\ above # {}
           /\ ~(t[i].addr_start = page /\ t[i].type = "RESERVED")
  <2>1. deallocate(t, addr) = t
    BY <1>4 DEF deallocate
  <2> QED
    BY <2>1
<1> QED
  BY <1>2, <1>3, <1>4
------------------------------------------------------------------------------
(***************************************************************************)
(* What the operations of pmm.c keep of the order of the table and of its  *)
(* contents, for tables of every length: when the sort sorts, what it      *)
(* drops, and what an entry becomes that is carved, allocated from, freed  *)
(* or merged.                                                              *)
(***************************************************************************)

Content(t) == {t[i] : i \in DOMAIN t}

\* Neither empty entries nor one after another that starts above it.
InOrder(t) ==
  /\ \A i \in DOMAIN t : ~Empty(t[i])
  /\ \A i, j \in DOMAIN t : i < j => t[i].addr_start <= t[j].addr_start

\* No empty entry comes after another that starts above it.  The sort moves an
\* entry past an empty one that starts below it, and with that the empty one
\* away from the end, where it would be dropped.
EmptiesInPlace(t) ==
  \A k, l \in DOMAIN t :
    k < l /\ ~Empty(t[k]) /\ Empty(t[l]) => t[k].addr_start <= t[l].addr_start

------------------------------------------------------------------------------
(***************************************************************************)
(* The bubble sort.                                                        *)
(***************************************************************************)
(* An exchange of neighbours is a function on the indices of the table.      *)
LEMMA SwapFunction ==
  ASSUME NEW U, NEW n \in Nat, NEW t \in SoundTables(n, U), NEW j \in 1..(n - 1)
  PROVE  /\ DOMAIN Swap(t, j) = 1..n /\ DOMAIN t = 1..n
         /\ j \in 1..n /\ j + 1 \in 1..n
         /\ \A k \in 1..n : Swap(t, j)[k] = IF k = j THEN t[j + 1]
                                            ELSE IF k = j + 1 THEN t[j] ELSE t[k]
<1>1. t \in [1..n -> Regions] /\ j \in 1..n /\ j + 1 \in 1..n /\ j # j + 1
  BY DEF SoundTables
<1> QED
  BY <1>1 DEF Swap

(* The set of empty entries' indices is finite.                              *)
LEMMA EmptiesFinite ==
  ASSUME NEW U, NEW n \in Nat, NEW t \in SoundTables(n, U)
  PROVE  IsFiniteSet(EmptyEntries(t)) /\ EmptyEntries(t) \subseteq 1..n
<1>1. EmptyEntries(t) \subseteq 1..n
  BY DEF EmptyEntries, SoundTables
<1>2. IsFiniteSet(1..n)
  BY FS_Interval
<1> QED
  BY <1>1, <1>2, FS_Subset

(* It loses no entry and invents none, and there are as many empty ones.     *)
LEMMA SwapContent ==
  ASSUME NEW U, NEW n \in Nat, NEW t \in SoundTables(n, U), NEW j \in 1..(n - 1)
  PROVE  /\ Content(Swap(t, j)) = Content(t)
         /\ Cardinality(EmptyEntries(Swap(t, j))) = Cardinality(EmptyEntries(t))
<1> DEFINE u == Swap(t, j)
           to(k) == IF k = j THEN j + 1 ELSE IF k = j + 1 THEN j ELSE k
<1>1. /\ DOMAIN u = 1..n /\ DOMAIN t = 1..n /\ j \in 1..n /\ j + 1 \in 1..n
      /\ \A k \in 1..n : to(k) \in 1..n /\ to(to(k)) = k /\ u[k] = t[to(k)]
  <2>1. DOMAIN u = 1..n /\ DOMAIN t = 1..n /\ j \in 1..n /\ j + 1 \in 1..n
    BY SwapFunction
  <2>2. ASSUME NEW k \in 1..n PROVE to(k) \in 1..n /\ to(to(k)) = k
    <3>1. j # j + 1
      OBVIOUS
    <3> QED
      BY <2>1, <3>1
  <2>3. ASSUME NEW k \in 1..n PROVE u[k] = t[to(k)]
    BY SwapFunction
  <2> HIDE DEF u, to
  <2> QED
    BY <2>1, <2>2, <2>3
<1> HIDE DEF u, to
<1>2. \A k \in 1..n : t[k] = u[to(k)]
  BY <1>1
<1>3. Content(u) = Content(t)
  BY <1>1, <1>2 DEF Content
<1>4. Cardinality(EmptyEntries(u)) = Cardinality(EmptyEntries(t))
  <2> DEFINE S == EmptyEntries(t)
             T == EmptyEntries(u)
             f == [k \in S |-> to(k)]
  <2>1. \A k \in S : k \in 1..n /\ to(k) \in T
    BY <1>1, <1>2 DEF EmptyEntries
  <2>2. \A k \in T : k \in 1..n /\ to(k) \in S
    BY <1>1 DEF EmptyEntries
  <2> HIDE DEF S, T
  <2>3. f \in [S -> T] /\ \A k \in S : f[k] = to(k)
    BY <2>1
  <2> HIDE DEF f
  <2>4. \A k, l \in S : f[k] = f[l] => k = l
    BY <1>1, <2>1, <2>3
  <2>5. \A k \in T : \E l \in S : f[l] = k
    BY <1>1, <2>2, <2>3
  <2>6. f \in Bijection(S, T)
    BY <2>3, <2>4, <2>5 DEF Bijection, Injection, Surjection, IsInjective
  <2>7. ExistsBijection(S, T)
    BY <2>6 DEF ExistsBijection
  <2> QED
    BY <2>7, EmptiesFinite, FS_Bijection DEF S, T
<1> QED
  BY <1>3, <1>4 DEF u

(***************************************************************************)
(* Above p the table is settled: what is there is empty, or above all that *)
(* comes before it.  The pass over 1..p carries an entry with it, at c: an *)
(* empty one, or the highest so far.                                       *)
(***************************************************************************)
Settled(t, p) ==
  \A k \in DOMAIN t : k > p =>
    \/ Empty(t[k])
    \/ \A l \in 1..(k - 1) : ~Empty(t[l]) /\ t[l].addr_start <= t[k].addr_start

InPlaceBut(t, p, c) ==
  \A k, l \in 1..p :
    k < l /\ l # c /\ ~Empty(t[k]) /\ Empty(t[l])
      => t[k].addr_start <= t[l].addr_start

Highest(t, c) ==
  ~Empty(t[c]) =>
    \A k \in 1..(c - 1) : ~Empty(t[k]) /\ t[k].addr_start <= t[c].addr_start

Carrying(t, p, c) == Settled(t, p) /\ InPlaceBut(t, p, c) /\ Highest(t, c)

(* An iteration of the inner loop (pmm.c:301-314).                           *)
LEMMA CarryStep ==
  ASSUME NEW U, NEW n \in Nat, NEW t \in SoundTables(n, U), NEW p \in 1..n,
         NEW j \in 1..(p - 1), Carrying(t, p, j)
  PROVE  Carrying(CompareExchange(t, j), p, j + 1)
<1> DEFINE u == Swap(t, j)
<1>1. /\ DOMAIN t = 1..n /\ j \in 1..(n - 1) /\ j \in 1..n /\ j + 1 \in 1..n
      /\ \A k \in 1..n : t[k].addr_start \in Nat
  BY DEF SoundTables, Regions
<1>2. /\ DOMAIN u = 1..n
      /\ \A k \in 1..n : u[k] = IF k = j THEN t[j + 1]
                                ELSE IF k = j + 1 THEN t[j] ELSE t[k]
  BY <1>1, SwapFunction
<1> HIDE DEF u
<1>3. CASE Empty(t[j]) \/ t[j].addr_start > t[j + 1].addr_start
  <2>1. CompareExchange(t, j) = u
    BY <1>3 DEF CompareExchange, u
  <2>2. Settled(u, p)
    <3> SUFFICES ASSUME NEW k \in 1..n, k > p, ~Empty(u[k]), NEW l \in 1..(k - 1)
                 PROVE  ~Empty(u[l]) /\ u[l].addr_start <= u[k].addr_start
      BY <1>2 DEF Settled
    <3>1. u[k] = t[k] /\ l \in 1..n /\ j \in 1..(k - 1) /\ j + 1 \in 1..(k - 1)
      BY <1>1, <1>2
    <3>2. \A x \in 1..(k - 1) : ~Empty(t[x]) /\ t[x].addr_start <= t[k].addr_start
      BY <1>1, <3>1 DEF Carrying, Settled
    <3> QED
      BY <1>2, <3>1, <3>2
  <2>3. InPlaceBut(u, p, j + 1)
    <3> SUFFICES ASSUME NEW k \in 1..p, NEW l \in 1..p, k < l, l # j + 1,
                        ~Empty(u[k]), Empty(u[l])
                 PROVE  u[k].addr_start <= u[l].addr_start
      BY DEF InPlaceBut
    <3>1. \A x, y \in 1..p : x < y /\ y # j /\ ~Empty(t[x]) /\ Empty(t[y])
                               => t[x].addr_start <= t[y].addr_start
      BY DEF Carrying, InPlaceBut
    <3>2. j \in 1..p /\ j + 1 \in 1..p /\ k \in 1..n /\ l \in 1..n
      OBVIOUS
    <3>3. CASE l = j
      <4>1. u[k] = t[k] /\ u[l] = t[j + 1] /\ k < j + 1
        BY <1>2, <3>2, <3>3
      <4> QED
        BY <3>1, <3>2, <4>1
    <3>4. CASE l # j /\ k = j
      <4>1. u[k] = t[j + 1] /\ u[l] = t[l] /\ j + 1 < l
        BY <1>2, <3>2, <3>4
      <4> QED
        BY <3>1, <3>2, <3>4, <4>1
    <3>5. CASE l # j /\ k = j + 1
      <4>1. u[k] = t[j] /\ u[l] = t[l] /\ j < l
        BY <1>2, <3>2, <3>5
      <4> QED
        BY <3>1, <3>2, <3>5, <4>1
    <3>6. CASE l # j /\ k # j /\ k # j + 1
      <4>1. u[k] = t[k] /\ u[l] = t[l]
        BY <1>2, <3>2, <3>6
      <4> QED
        BY <3>1, <3>2, <3>6, <4>1
    <3> QED
      BY <3>3, <3>4, <3>5, <3>6
  <2>4. Highest(u, j + 1)
    <3> SUFFICES ASSUME ~Empty(t[j]), NEW k \in 1..j
                 PROVE  ~Empty(u[k]) /\ u[k].addr_start <= t[j].addr_start
      BY <1>1, <1>2 DEF Highest
    <3>1. t[j].addr_start > t[j + 1].addr_start
      BY <1>3
    <3>2. ~Empty(t[j + 1])
      BY <1>1, <3>1 DEF Carrying, InPlaceBut
    <3>3. CASE k = j
      BY <1>1, <1>2, <3>1, <3>2, <3>3
    <3>4. CASE k # j
      BY <1>1, <1>2, <3>4 DEF Carrying, Highest
    <3> QED
      BY <3>3, <3>4
  <2> QED
    BY <2>1, <2>2, <2>3, <2>4 DEF Carrying
<1>4. CASE ~(Empty(t[j]) \/ t[j].addr_start > t[j + 1].addr_start)
  <2>1. CompareExchange(t, j) = t /\ ~Empty(t[j])
    BY <1>4 DEF CompareExchange
  <2>2. t[j].addr_start <= t[j + 1].addr_start
    BY <1>1, <1>4
  <2>3. InPlaceBut(t, p, j + 1)
    BY <2>1 DEF Carrying, InPlaceBut
  <2>4. Highest(t, j + 1)
    <3>1. \A k \in 1..(j - 1) : ~Empty(t[k]) /\ t[k].addr_start <= t[j].addr_start
      BY <2>1 DEF Carrying, Highest
    <3> SUFFICES ASSUME NEW k \in 1..j
                 PROVE  ~Empty(t[k]) /\ t[k].addr_start <= t[j + 1].addr_start
      BY DEF Highest
    <3> QED
      BY <1>1, <2>1, <2>2, <3>1
  <2> QED
    BY <2>1, <2>3, <2>4 DEF Carrying
<1> QED
  BY <1>3, <1>4

\* The tables that have the contents of t, and as many empty entries.
SameContent(t) ==
  {u \in SoundTables(Len(t), Regions) :
     /\ Content(u) = Content(t)
     /\ Cardinality(EmptyEntries(u)) = Cardinality(EmptyEntries(t))}

(* An iteration keeps the contents.                                          *)
LEMMA ExchangeContent ==
  ASSUME NEW n \in Nat, NEW t \in SoundTables(n, Regions),
         NEW u \in SameContent(t), NEW j \in 1..(n - 1)
  PROVE  CompareExchange(u, j) \in SameContent(t)
<1>1. Len(t) = n /\ u \in SoundTables(n, Regions)
  BY LenSound DEF SameContent
<1>2. CompareExchange(u, j) \in SoundTables(n, Regions)
  BY <1>1, ExchangeSound
<1>3. /\ Content(Swap(u, j)) = Content(u)
      /\ Cardinality(EmptyEntries(Swap(u, j))) = Cardinality(EmptyEntries(u))
  BY <1>1, SwapContent
<1>4. CompareExchange(u, j) = u \/ CompareExchange(u, j) = Swap(u, j)
  BY DEF CompareExchange
<1> QED
  BY <1>1, <1>2, <1>3, <1>4 DEF SameContent

(* A pass of the inner loop: what it carries arrives at the end of the part  *)
(* it works on, which is one shorter afterwards.                             *)
LEMMA PassSettles ==
  ASSUME NEW n \in Nat, NEW t \in SoundTables(n, Regions),
         NEW x \in SameContent(t), NEW i \in 1..n,
         Settled(x, n - i + 1), InPlaceBut(x, n - i + 1, 0)
  PROVE  /\ BubblePass(x, i) \in SameContent(t)
         /\ Settled(BubblePass(x, i), n - i)
         /\ InPlaceBut(BubblePass(x, i), n - i, 0)
<1> DEFINE S == SameContent(t)
           m == n - i
           p == n - i + 1
           B == [j \in 1..m |-> [y \in S |-> CompareExchange(y, j)]]
           pass == CHOOSE f : f = [j \in 0..m |->
                     IF j = 0 THEN x ELSE CompareExchange(f[j - 1], j)]
<1>0. /\ m \in Nat /\ m < n /\ p \in 1..n /\ m = p - 1
      /\ Len(x) = n /\ x \in SoundTables(n, Regions)
  BY LenSound DEF SameContent
<1> HIDE DEF m, p
<1>1. \A y \in S : \A j \in 1..m : CompareExchange(y, j) \in S
  BY <1>0, ExchangeContent
<1>2. \E f : f = [j \in 0..m |->
               IF j = 0 THEN x ELSE CompareExchange(f[j - 1], j)]
  <2>1. B \in [(0 + 1)..m -> [S -> S]] /\ x \in S /\ 0 \in Nat /\ 0 <= m
    BY <1>0, <1>1
  <2>2. PICK f \in [0..m -> S] : RunOf(f, 0, m, x, B)
    <3> HIDE DEF B, S
    <3> QED
      BY <1>0, <2>1, LoopRuns
  <2>3. \A j \in 0..m : j # 0 => B[j][f[j - 1]] = CompareExchange(f[j - 1], j)
    BY <1>0
  <2> HIDE DEF B, S
  <2>4. f = [j \in 0..m |-> IF j = 0 THEN x ELSE CompareExchange(f[j - 1], j)]
    BY <2>2, <2>3 DEF RunOf
  <2> QED
    BY <2>4
<1>3. pass = [j \in 0..m |->
                IF j = 0 THEN x ELSE CompareExchange(pass[j - 1], j)]
  BY <1>2, Zenon
<1>4. BubblePass(x, i) = pass[m]
  BY <1>0, Zenon DEF BubblePass, pass, m
<1> HIDE DEF pass, B
<1>5. Carrying(x, p, 1)
  <2>1. Settled(x, p) /\ InPlaceBut(x, p, 0)
    BY DEF p
  <2>2. InPlaceBut(x, p, 1)
    BY <2>1 DEF InPlaceBut
  <2>3. Highest(x, 1)
    BY DEF Highest
  <2> QED
    BY <2>1, <2>2, <2>3 DEF Carrying
<1>6. \A j \in 0..m : pass[j] \in S /\ Carrying(pass[j], p, j + 1)
  <2> DEFINE P == {j \in 0..m : pass[j] \in S /\ Carrying(pass[j], p, j + 1)}
  <2>1. 0 \in P
    <3>1. pass[0] = x /\ 0 \in 0..m /\ x \in S /\ 0 + 1 = 1
      BY <1>0, <1>3
    <3> HIDE DEF S
    <3> QED
      BY <1>5, <3>1
  <2>2. ASSUME NEW j \in (0 + 1)..m, j - 1 \in P PROVE j \in P
    <3>1. /\ j \in 0..m /\ j # 0 /\ j \in 1..m /\ j \in 1..(p - 1)
          /\ j - 1 + 1 = j /\ j - 1 \in 0..m
      BY <1>0
    <3>2. pass[j] = CompareExchange(pass[j - 1], j)
      BY <1>3, <3>1
    <3>3. pass[j - 1] \in S /\ Carrying(pass[j - 1], p, j)
      BY <2>2, <3>1
    <3>4. pass[j - 1] \in SoundTables(n, Regions)
      BY <3>3, LenSound DEF SameContent
    <3>5. Carrying(pass[j], p, j + 1)
      BY <1>0, <3>1, <3>2, <3>3, <3>4, CarryStep
    <3> HIDE DEF S
    <3> QED
      BY <1>1, <3>1, <3>2, <3>3, <3>5
  <2>3. P \in SUBSET (0..m) /\ 0 \in Nat /\ 0 <= m
    BY <1>0
  <2> HIDE DEF P
  <2>4. \A j \in 0..m : j \in P
    BY <1>0, <2>1, <2>2, <2>3, LoopInvariant, Zenon
  <2> QED
    BY <2>4 DEF P
<1> DEFINE y == pass[m]
<1>7. y \in S /\ Carrying(y, p, p) /\ DOMAIN y = 1..n
  <2>1. y \in S /\ Carrying(y, p, m + 1) /\ m + 1 = p
    BY <1>0, <1>6
  <2>2. y \in SoundTables(n, Regions)
    BY <2>1, LenSound DEF SameContent
  <2> HIDE DEF y, S
  <2> QED
    BY <2>1, <2>2, LenSound
<1> HIDE DEF y
<1>8. Settled(y, m)
  <2> SUFFICES ASSUME NEW k \in 1..n, k > m
               PROVE  \/ Empty(y[k])
                      \/ \A l \in 1..(k - 1) :
                           ~Empty(y[l]) /\ y[l].addr_start <= y[k].addr_start
    BY <1>7 DEF Settled
  <2>1. CASE k > p
    BY <1>7, <2>1 DEF Carrying, Settled
  <2>2. CASE k = p
    BY <1>7, <2>2 DEF Carrying, Highest
  <2> QED
    BY <1>0, <2>1, <2>2
<1>9. InPlaceBut(y, m, 0)
  BY <1>0, <1>7 DEF Carrying, InPlaceBut
<1> QED
  BY <1>4, <1>7, <1>8, <1>9 DEF y, m

(* The whole bubble sort (pmm.c:295-316): every entry is empty, or above all *)
(* that come before it and none of those is empty.                           *)
LEMMA SortSettles ==
  ASSUME NEW n \in Nat, NEW t \in SoundTables(n, Regions), EmptiesInPlace(t)
  PROVE  BubbleSort(t) \in SameContent(t) /\ Settled(BubbleSort(t), 0)
<1> DEFINE S == SoundTables(n, Regions)
           B == [i \in 1..n |-> [x \in S |-> BubblePass(x, i)]]
           sorted == CHOOSE f : f = [i \in 0..n |->
                       IF i = 0 THEN t ELSE BubblePass(f[i - 1], i)]
<1>0. Len(t) = n /\ DOMAIN t = 1..n
  BY LenSound
<1>1. \A x \in S : \A i \in 1..n : BubblePass(x, i) \in S
  BY PassSound
<1>2. \E f : f = [i \in 0..n |->
               IF i = 0 THEN t ELSE BubblePass(f[i - 1], i)]
  <2>1. B \in [(0 + 1)..n -> [S -> S]] /\ t \in S /\ 0 \in Nat /\ 0 <= n
    BY <1>1
  <2>2. PICK f \in [0..n -> S] : RunOf(f, 0, n, t, B)
    <3> HIDE DEF B, S
    <3> QED
      BY <2>1, LoopRuns
  <2>3. \A i \in 0..n : i # 0 => B[i][f[i - 1]] = BubblePass(f[i - 1], i)
    OBVIOUS
  <2> HIDE DEF B, S
  <2>4. f = [i \in 0..n |-> IF i = 0 THEN t ELSE BubblePass(f[i - 1], i)]
    BY <2>2, <2>3 DEF RunOf
  <2> QED
    BY <2>4
<1>3. sorted = [i \in 0..n |->
                  IF i = 0 THEN t ELSE BubblePass(sorted[i - 1], i)]
  BY <1>2, Zenon
<1>4. BubbleSort(t) = sorted[n]
  BY <1>0, Zenon DEF BubbleSort
<1> HIDE DEF sorted, S, B
<1> DEFINE From(x, p) == x \in SameContent(t) /\ Settled(x, p) /\ InPlaceBut(x, p, 0)
<1>5. From(t, n)
  <2>1. t \in SameContent(t)
    BY <1>0 DEF SameContent
  <2>2. Settled(t, n)
    BY <1>0 DEF Settled
  <2>3. InPlaceBut(t, n, 0)
    BY <1>0 DEF InPlaceBut, EmptiesInPlace
  <2> QED
    BY <2>1, <2>2, <2>3
<1>6. \A i \in 0..n : From(sorted[i], n - i)
  <2> DEFINE P == {i \in 0..n : From(sorted[i], n - i)}
  <2>1. 0 \in P
    <3>1. sorted[0] = t /\ n - 0 = n /\ 0 \in 0..n
      BY <1>3
    <3> HIDE DEF From
    <3> QED
      BY <1>5, <3>1
  <2>2. ASSUME NEW i \in (0 + 1)..n, i - 1 \in P PROVE i \in P
    <3>1. /\ i \in 0..n /\ i # 0 /\ i \in 1..n /\ i - 1 \in 0..n
          /\ n - (i - 1) = n - i + 1
      OBVIOUS
    <3>2. sorted[i] = BubblePass(sorted[i - 1], i)
      BY <1>3, <3>1
    <3>3. From(sorted[i - 1], n - i + 1)
      <4> HIDE DEF From
      <4> QED
        BY <2>2, <3>1
    <3>4. From(BubblePass(sorted[i - 1], i), n - i)
      BY <3>1, <3>3, PassSettles
    <3> HIDE DEF From
    <3> QED
      BY <3>1, <3>2, <3>4
  <2>3. P \in SUBSET (0..n) /\ 0 \in Nat /\ 0 <= n
    OBVIOUS
  <2> HIDE DEF P
  <2>4. \A i \in 0..n : i \in P
    BY <2>1, <2>2, <2>3, LoopInvariant, Zenon
  <2> QED
    BY <2>4 DEF P
<1>7. From(sorted[n], n - n) /\ n - n = 0
  <2> HIDE DEF From
  <2> QED
    BY <1>6
<1> QED
  BY <1>4, <1>7

(* Dropping from the end as many entries as are empty: what is left is in    *)
(* order, and is what there was, without the empty entries.                  *)
LEMMA SortRegionsOrders ==
  ASSUME NEW t \in Seq(Regions), Sound(t, Regions), EmptiesInPlace(t)
  PROVE  /\ InOrder(sort_regions(t))
         /\ Content(sort_regions(t)) = {x \in Content(t) : ~Empty(x)}
<1> DEFINE n == Len(t)
           c == Cardinality(EmptyEntries(t))
           u == BubbleSort(t)
<1>1. n \in Nat /\ t \in SoundTables(n, Regions)
  BY DEF SoundTables
<1>2. /\ u \in SoundTables(n, Regions) /\ Settled(u, 0)
      /\ Content(u) = Content(t) /\ Cardinality(EmptyEntries(u)) = c
  BY <1>1, SortSettles DEF SameContent
<1>3. u \in Seq(Regions) /\ Len(u) = n /\ DOMAIN u = 1..n
  BY <1>1, <1>2, LenSound
<1>4. sort_regions(t) = SubSeq(u, 1, n - c)
  BY DEF sort_regions
<1> HIDE DEF n, c, u
<1>5. \A k \in 1..n : \/ Empty(u[k])
                      \/ \A l \in 1..(k - 1) :
                           ~Empty(u[l]) /\ u[l].addr_start <= u[k].addr_start
  BY <1>1, <1>3, <1>2 DEF Settled
<1>6. \E e \in 0..n : EmptyEntries(u) = (e + 1)..n
  <2>1. CASE \A k \in 1..n : ~Empty(u[k])
    <3>1. EmptyEntries(u) = {}
      BY <1>3, <2>1 DEF EmptyEntries
    <3>2. n \in 0..n /\ (n + 1)..n = {}
      BY <1>1
    <3> QED
      BY <3>1, <3>2
  <2>2. CASE \E k \in 1..n : Empty(u[k])
    <3> DEFINE E == EmptyEntries(u)
    <3>1. E \in SUBSET Nat /\ E # {} /\ \A k : k \in E <=> k \in 1..n /\ Empty(u[k])
      BY <1>3, <2>2 DEF EmptyEntries
    <3> HIDE DEF E
    <3>2. PICK f \in E : \A k \in E : f <= k
      BY <3>1, LeastElement, Zenon
    <3>3. f \in 1..n /\ f - 1 \in 0..n /\ f - 1 + 1 = f
      BY <1>1, <3>1, <3>2
    <3>4. \A k \in f..n : k \in E
      <4> SUFFICES ASSUME NEW k \in f..n PROVE Empty(u[k])
        BY <1>1, <3>1, <3>3
      <4>1. CASE k = f
        BY <3>1, <3>2, <4>1
      <4>2. CASE k # f
        <5>1. k \in 1..n /\ f \in 1..(k - 1) /\ Empty(u[f])
          BY <1>1, <3>1, <3>2, <3>3, <4>2
        <5> QED
          BY <1>5, <5>1
      <4> QED
        BY <4>1, <4>2
    <3>5. E = f..n
      <4>1. ASSUME NEW k \in E PROVE k \in f..n
        BY <1>1, <3>1, <3>2, <3>3
      <4> QED
        BY <3>4, <4>1
    <3> QED
      BY <3>3, <3>5 DEF E
  <2> QED
    BY <2>1, <2>2
<1>7. PICK e \in 0..n : EmptyEntries(u) = (e + 1)..n
  BY <1>6
<1>8. n - c = e
  <2>1. Cardinality((e + 1)..n) = IF e + 1 > n THEN 0 ELSE n - (e + 1) + 1
    <3>1. e + 1 \in Int /\ n \in Int
      BY <1>1
    <3> QED
      BY <3>1, FS_Interval
  <2> QED
    BY <1>1, <1>2, <1>7, <2>1
<1> DEFINE v == SubSeq(u, 1, e)
<1>9. DOMAIN v = 1..e /\ \A k \in 1..e : v[k] = u[k] /\ k \in 1..n /\ k \notin (e + 1)..n
  BY <1>1, <1>3
<1>10. sort_regions(t) = v
  BY <1>4, <1>8
<1> HIDE DEF v
<1>11. \A k \in 1..n : Empty(u[k]) <=> k \in (e + 1)..n
  BY <1>3, <1>7 DEF EmptyEntries
<1>12. InOrder(v)
  <2>1. \A k \in 1..e : ~Empty(v[k])
    BY <1>9, <1>11
  <2>2. ASSUME NEW k \in 1..e, NEW l \in 1..e, l < k
        PROVE  v[l].addr_start <= v[k].addr_start
    <3>1. l \in 1..(k - 1) /\ ~Empty(u[k]) /\ k \in 1..n
      BY <1>1, <1>9, <1>11, <2>2
    <3> QED
      BY <1>5, <1>9, <3>1
  <2> QED
    BY <1>9, <2>1, <2>2 DEF InOrder
<1>13. Content(v) = {x \in Content(t) : ~Empty(x)}
  <2>1. ASSUME NEW x \in Content(v) PROVE x \in Content(u) /\ ~Empty(x)
    BY <1>3, <1>9, <1>11 DEF Content
  <2>2. ASSUME NEW x \in Content(u), ~Empty(x) PROVE x \in Content(v)
    <3>1. PICK k \in 1..n : x = u[k]
      BY <1>3 DEF Content
    <3>2. k \in 1..e
      BY <1>1, <1>11, <2>2, <3>1
    <3> QED
      BY <1>9, <3>1, <3>2 DEF Content
  <2> QED
    BY <1>2, <2>1, <2>2
<1> QED
  BY <1>10, <1>12, <1>13

------------------------------------------------------------------------------
(***************************************************************************)
(* Entering and carving.                                                   *)
(***************************************************************************)
(* What sound tables hold are entries.                                       *)
LEMMA SoundIsRegions ==
  ASSUME NEW U, NEW t \in Seq(Regions), Sound(t, U)
  PROVE  Sound(t, Regions)
BY DEF Sound

\* Entry i occurs once.
OccursOnce(t, i) == \A k \in DOMAIN t : k # i => t[k] # t[i]

\* u is the table with q in the place of entry i and, at its end, r.
Replaced(u, t, i, q, r) ==
  /\ u \in Seq(Regions) /\ Content(u) = (Content(t) \ {t[i]}) \cup {q, r}
  /\ DOMAIN u = 1..(Len(t) + 1) /\ DOMAIN t = 1..Len(t) /\ Len(t) \in Nat
  /\ \A k \in 1..(Len(t) + 1) :
       u[k] = IF k = Len(t) + 1 THEN r ELSE IF k = i THEN q ELSE t[k]

(* One entry put in the place of another and one at the end.                 *)
LEMMA ReplaceAndAppend ==
  ASSUME NEW t \in Seq(Regions), NEW i \in DOMAIN t, OccursOnce(t, i),
         NEW q \in Regions, NEW r \in Regions
  PROVE  Replaced(Append([t EXCEPT ![i] = q], r), t, i, q, r)
<1> DEFINE v == [t EXCEPT ![i] = q]
           u == Append(v, r)
           n == Len(t)
<1>1. /\ v \in Seq(Regions) /\ Len(v) = n /\ n \in Nat
      /\ DOMAIN v = 1..n /\ DOMAIN t = 1..n
      /\ \A k \in 1..n : v[k] = IF k = i THEN q ELSE t[k]
  OBVIOUS
<1> HIDE DEF v, n
<1>2. /\ u \in Seq(Regions) /\ DOMAIN u = 1..(n + 1)
      /\ \A k \in 1..(n + 1) : u[k] = IF k = n + 1 THEN r ELSE v[k]
  BY <1>1
<1> HIDE DEF u
<1>3. Content(v) = (Content(t) \ {t[i]}) \cup {q}
  <2>1. ASSUME NEW x \in Content(v) PROVE x \in (Content(t) \ {t[i]}) \cup {q}
    BY <1>1 DEF Content, OccursOnce
  <2>2. ASSUME NEW x \in (Content(t) \ {t[i]}) \cup {q} PROVE x \in Content(v)
    BY <1>1 DEF Content
  <2> QED
    BY <2>1, <2>2
<1>4. Content(u) = Content(v) \cup {r}
  <2>1. ASSUME NEW x \in Content(u) PROVE x \in Content(v) \cup {r}
    <3>1. PICK k \in 1..(n + 1) : x = u[k]
      BY <1>2 DEF Content
    <3>2. k = n + 1 \/ k \in 1..n
      BY <1>1
    <3> QED
      BY <1>1, <1>2, <3>1, <3>2 DEF Content
  <2>2. ASSUME NEW x \in Content(v) PROVE x \in Content(u)
    <3>1. PICK k \in 1..n : x = v[k]
      BY <1>1 DEF Content
    <3>2. k \in 1..(n + 1) /\ k # n + 1
      BY <1>1
    <3> QED
      BY <1>2, <3>1, <3>2 DEF Content
  <2>3. r \in Content(u)
    <3>1. n + 1 \in 1..(n + 1)
      BY <1>1
    <3> QED
      BY <1>2, <3>1 DEF Content
  <2> QED
    BY <2>1, <2>2, <2>3
<1>5. \A k \in 1..(n + 1) : k # n + 1 => k \in 1..n
  BY <1>1
<1>6. \A k \in 1..(n + 1) : u[k] = IF k = n + 1 THEN r ELSE IF k = i THEN q ELSE t[k]
  BY <1>1, <1>2, <1>5
<1> QED
  BY <1>1, <1>2, <1>3, <1>4, <1>6 DEF u, v, n, Replaced

(* pmm_add_region, for an entry that is empty only if none in the table      *)
(* starts above it.                                                          *)
LEMMA AddRegionOrders ==
  ASSUME NEW t \in Seq(Regions), Sound(t, Regions), InOrder(t), NEW r \in Regions,
         \A i \in DOMAIN t : Apart(t[i], PageRounded(r)),
         Empty(PageRounded(r)) =>
           \A i \in DOMAIN t : t[i].addr_start <= PageRounded(r).addr_start
  PROVE  /\ InOrder(add_region(t, r))
         /\ Content(add_region(t, r))
              = {x \in Content(t) \cup {PageRounded(r)} : ~Empty(x)}
<1> DEFINE q == PageRounded(r)
           u == Append(t, q)
<1>1. q \in Regions
  BY PageRoundedType
<1> HIDE DEF q
<1>2. u \in Seq(Regions) /\ Sound(u, Regions)
  BY <1>1, AppendSound DEF q
<1>3. /\ DOMAIN u = 1..(Len(t) + 1) /\ DOMAIN t = 1..Len(t) /\ Len(t) \in Nat
      /\ \A k \in 1..(Len(t) + 1) :
           IF k = Len(t) + 1 THEN u[k] = q ELSE k \in DOMAIN t /\ u[k] = t[k]
  BY <1>1
<1> HIDE DEF u
<1>4. Content(u) = Content(t) \cup {q}
  <2>1. ASSUME NEW x \in Content(u) PROVE x \in Content(t) \cup {q}
    BY <1>3 DEF Content
  <2>2. ASSUME NEW x \in Content(t) PROVE x \in Content(u)
    <3>1. PICK k \in 1..Len(t) : x = t[k]
      BY <1>3 DEF Content
    <3>2. k \in 1..(Len(t) + 1) /\ k # Len(t) + 1
      BY <1>3
    <3> QED
      BY <1>3, <3>1, <3>2 DEF Content
  <2>3. q \in Content(u)
    <3>1. Len(t) + 1 \in 1..(Len(t) + 1)
      BY <1>3
    <3> QED
      BY <1>3, <3>1 DEF Content
  <2> QED
    BY <2>1, <2>2, <2>3
<1>5. EmptiesInPlace(u)
  <2> SUFFICES ASSUME NEW k \in 1..(Len(t) + 1), NEW l \in 1..(Len(t) + 1), k < l,
                      Empty(u[l])
               PROVE  u[k].addr_start <= u[l].addr_start
    BY <1>3 DEF EmptiesInPlace
  <2>1. k # Len(t) + 1 /\ k \in DOMAIN t /\ u[k] = t[k]
    BY <1>3
  <2>2. l = Len(t) + 1 /\ u[l] = q
    BY <1>3 DEF InOrder
  <2> QED
    BY <2>1, <2>2 DEF q
<1>6. add_region(t, r) = sort_regions(u)
  BY DEF add_region, u, q
<1> QED
  BY <1>2, <1>4, <1>5, <1>6, SortRegionsOrders DEF q

\* What becomes of an entry out of which r is carved.
Parts(whole, r) ==
  {Region(whole.addr_start, r.addr_start, whole.type), r,
   Region(r.addr_end, whole.addr_end, whole.type)}

(* Carving, and the sort after it (pmm.c:105-134).                           *)
LEMMA CarveOutOrders ==
  ASSUME NEW G \in SUBSET Regions, NEW t \in Seq(Regions), Sound(t, Entries(G)),
         InOrder(t), NEW i \in DOMAIN t, NEW r \in Regions, r.type \in OwnerTypes,
         t[i].addr_start <= r.addr_start, r.addr_end <= t[i].addr_end,
         r.addr_start < r.addr_end
  PROVE  /\ InOrder(sort_regions(CarveOut(t, i, r)))
         /\ Content(sort_regions(CarveOut(t, i, r)))
              = {x \in (Content(t) \ {t[i]}) \cup Parts(t[i], r) : ~Empty(x)}
<1> DEFINE low  == Region(t[i].addr_start, r.addr_start, t[i].type)
           high == Region(r.addr_end, t[i].addr_end, t[i].type)
           u    == CarveOut(t, i, r)
           n    == Len(t)
<1>1. /\ t[i] \in Regions /\ r.addr_start \in Nat /\ r.addr_end \in Nat
      /\ t[i].addr_start \in Nat /\ t[i].addr_end \in Nat
      /\ \A k \in DOMAIN t : t[k].addr_start \in Nat
  <2>1. \A k \in DOMAIN t : t[k] \in Regions
    OBVIOUS
  <2> QED
    BY <2>1 DEF Regions
<1>2. /\ low \in Regions /\ high \in Regions
      /\ [t EXCEPT ![i].addr_start = r.addr_end] = [t EXCEPT ![i] = high]
      /\ [t EXCEPT ![i].addr_end = r.addr_start] = [t EXCEPT ![i] = low]
  <2>1. /\ high \in Regions
        /\ [t EXCEPT ![i].addr_start = r.addr_end] = [t EXCEPT ![i] = high]
    BY <1>1, ChangeStart, Zenon
  <2>2. /\ low \in Regions
        /\ [t EXCEPT ![i].addr_end = r.addr_start] = [t EXCEPT ![i] = low]
    BY <1>1, ChangeEnd, Zenon
  <2> QED
    BY <2>1, <2>2
<1>3. /\ low.addr_start = t[i].addr_start /\ low.addr_end = r.addr_start
      /\ high.addr_start = r.addr_end /\ high.addr_end = t[i].addr_end
  BY DEF Region
<1>4. Parts(t[i], r) = {low, r, high}
  BY DEF Parts
<1> HIDE DEF low, high, u
<1>5. \A k \in DOMAIN t : k # i => t[k] # t[i]
  BY <1>1 DEF Sound, Apart
<1>6. u \in Seq(Regions) /\ Sound(u, Regions)
  <2>1. r.addr_start <= r.addr_end
    BY <1>1
  <2> QED
    BY <2>1, CarveOutSound, SoundIsRegions DEF u
<1>7. Replaced(Append([t EXCEPT ![i] = low], r), t, i, low, r)
  BY <1>2, <1>5, ReplaceAndAppend, Zenon DEF OccursOnce
<1>8. Replaced(Append([t EXCEPT ![i] = high], r), t, i, high, r)
  BY <1>2, <1>5, ReplaceAndAppend, Zenon DEF OccursOnce
<1>9. ~Empty(r)
  BY <1>1 DEF Empty
<1>10. EmptiesInPlace(u) /\ {x \in Content(u) : ~Empty(x)}
        = {x \in (Content(t) \ {t[i]}) \cup {low, r, high} : ~Empty(x)}
  <2>1. CASE r.addr_start = t[i].addr_start
    <3>1. u = Append([t EXCEPT ![i] = high], r)
      BY <1>2, <2>1 DEF CarveOut, u
    <3>2. /\ Content(u) = (Content(t) \ {t[i]}) \cup {high, r}
          /\ DOMAIN u = 1..(n + 1) /\ DOMAIN t = 1..n /\ n \in Nat
          /\ \A k \in 1..(n + 1) :
               u[k] = IF k = n + 1 THEN r ELSE IF k = i THEN high ELSE t[k]
      BY <1>8, <3>1 DEF Replaced
    <3> HIDE DEF n
    <3>3. EmptiesInPlace(u)
      <4> SUFFICES ASSUME NEW k \in 1..(n + 1), NEW l \in 1..(n + 1), k < l,
                          Empty(u[l])
                   PROVE  u[k].addr_start <= u[l].addr_start
        BY <3>2 DEF EmptiesInPlace
      <4>1. l = i /\ u[l] = high
        BY <1>9, <3>2 DEF InOrder
      <4>2. k \in DOMAIN t /\ u[k] = t[k] /\ t[k].addr_start <= t[i].addr_start
        BY <3>2, <4>1 DEF InOrder
      <4> QED
        BY <1>1, <1>3, <4>1, <4>2
    <3>4. Empty(low)
      BY <1>3, <2>1 DEF Empty
    <3> QED
      BY <3>2, <3>3, <3>4
  <2>2. CASE r.addr_start # t[i].addr_start /\ r.addr_end = t[i].addr_end
    <3>1. u = Append([t EXCEPT ![i] = low], r)
      BY <1>2, <2>2 DEF CarveOut, u
    <3>2. /\ Content(u) = (Content(t) \ {t[i]}) \cup {low, r}
          /\ DOMAIN u = 1..(n + 1) /\ DOMAIN t = 1..n /\ n \in Nat
          /\ \A k \in 1..(n + 1) :
               u[k] = IF k = n + 1 THEN r ELSE IF k = i THEN low ELSE t[k]
      BY <1>7, <3>1 DEF Replaced
    <3> HIDE DEF n
    <3>3. ~Empty(low) /\ Empty(high)
      BY <1>1, <1>3, <2>2 DEF Empty
    <3>4. \A k \in DOMAIN u : ~Empty(u[k])
      BY <1>9, <3>2, <3>3 DEF InOrder
    <3> QED
      BY <3>2, <3>3, <3>4 DEF EmptiesInPlace
  <2>3. CASE r.addr_start # t[i].addr_start /\ r.addr_end # t[i].addr_end
    <3> DEFINE v == [t EXCEPT ![i] = low]
               w == Append(v, r)
    <3>1. /\ v \in Seq(Regions)
          /\ Content(w) = (Content(t) \ {t[i]}) \cup {low, r}
          /\ DOMAIN w = 1..(n + 1) /\ DOMAIN t = 1..n /\ n \in Nat
          /\ \A k \in 1..(n + 1) :
               w[k] = IF k = n + 1 THEN r ELSE IF k = i THEN low ELSE t[k]
      <4>1. v \in Seq(Regions)
        BY <1>2
      <4> QED
        BY <1>7, <4>1, Zenon DEF Replaced
    <3>2. u = v \o <<r, high>>
      BY <1>2, <2>3 DEF CarveOut, u, high
    <3> HIDE DEF v
    <3>3. u = Append(w, high) /\ w \in Seq(Regions) /\ Len(w) = n + 1
      BY <1>2, <3>1, <3>2
    <3> HIDE DEF w, n
    <3>4. /\ DOMAIN u = 1..(n + 2) /\ DOMAIN w = 1..(n + 1)
          /\ \A k \in 1..(n + 2) :
               IF k = n + 2 THEN u[k] = high ELSE k \in 1..(n + 1) /\ u[k] = w[k]
      BY <1>2, <3>1, <3>3
    <3>5. ~Empty(low) /\ ~Empty(high)
      BY <1>1, <1>3, <2>3 DEF Empty
    <3>6. \A k \in DOMAIN u : ~Empty(u[k])
      BY <1>9, <3>1, <3>4, <3>5 DEF InOrder
    <3>7. Content(u) = Content(w) \cup {high}
      <4>1. ASSUME NEW x \in Content(u) PROVE x \in Content(w) \cup {high}
        BY <3>4 DEF Content
      <4>2. ASSUME NEW x \in Content(w) PROVE x \in Content(u)
        <5>1. PICK k \in 1..(n + 1) : x = w[k]
          BY <3>4 DEF Content
        <5>2. k \in 1..(n + 2) /\ k # n + 2
          BY <3>1
        <5> QED
          BY <3>4, <5>1, <5>2 DEF Content
      <4>3. high \in Content(u)
        <5>1. n + 2 \in 1..(n + 2)
          BY <3>1
        <5> QED
          BY <3>4, <5>1 DEF Content
      <4> QED
        BY <4>1, <4>2, <4>3
    <3> QED
      BY <3>1, <3>6, <3>7 DEF EmptiesInPlace
  <2> QED
    BY <2>1, <2>2, <2>3
<1> QED
  BY <1>4, <1>6, <1>10, SortRegionsOrders DEF u

\* u is the table t, in order, after r has been carved out of its entry i.
Carved(u, t, i, r) ==
  /\ InOrder(u)
  /\ i \in DOMAIN t /\ t[i].type = "AVAILABLE"
  /\ r \in Regions /\ r.type \in OwnerTypes
  /\ t[i].addr_start <= r.addr_start /\ r.addr_start < r.addr_end
  /\ r.addr_end <= t[i].addr_end
  /\ Content(u) = {x \in (Content(t) \ {t[i]}) \cup Parts(t[i], r) : ~Empty(x)}

(* A block that is not empty is rounded to a range that contains it.         *)
LEMMA ReservedRangeType ==
  ASSUME NEW b \in [addr_start : Nat, addr_end : Nat],
         b.addr_start < b.addr_end, RoundUp(b.addr_end) < PtrSpan
  PROVE  /\ ReservedRange(b) \in Regions /\ ReservedRange(b).type \in OwnerTypes
         /\ ReservedRange(b).addr_start = RoundDown(b.addr_start)
         /\ ReservedRange(b).addr_start <= b.addr_start
         /\ b.addr_end <= ReservedRange(b).addr_end
         /\ ReservedRange(b).addr_start < ReservedRange(b).addr_end
         /\ ReservedRange(b).addr_end <= PtrSpan
<1>1. b.addr_start \in Nat /\ b.addr_end \in Nat
  OBVIOUS
<1>2. /\ RoundDown(b.addr_start) \in Nat /\ RoundDown(b.addr_start) <= b.addr_start
      /\ RoundUp(b.addr_end) \in Nat /\ b.addr_end <= RoundUp(b.addr_end)
  BY <1>1, Rounding
<1>3. RoundUp(b.addr_end) % PtrSpan = RoundUp(b.addr_end)
  BY <1>2, RegionTableAssumption
<1> QED
  BY <1>1, <1>2, <1>3, RegionTableAssumption
  DEF ReservedRange, Region, Regions, RegionTypes, OwnerTypes

(* pmm_reserve_memory_region: the range is carved out of an available entry  *)
(* that contains it, if there is one.                                        *)
LEMMA ReserveOrders ==
  ASSUME NEW G \in SUBSET Regions, NEW t \in Seq(Regions), Sound(t, Entries(G)),
         InOrder(t), NEW b \in [addr_start : Nat, addr_end : Nat],
         b.addr_start < b.addr_end, RoundUp(b.addr_end) < PtrSpan
  PROVE  \/ /\ Containing(t, ReservedRange(b)) = {}
            /\ reserve_memory_region(t, b) = t
         \/ \E i \in DOMAIN t :
              Carved(reserve_memory_region(t, b), t, i, ReservedRange(b))
<1> DEFINE r == ReservedRange(b)
           i == Min(Containing(t, r))
<1>1. /\ r \in Regions /\ r.type \in OwnerTypes /\ r.addr_start < r.addr_end
      /\ r.addr_start \in Nat /\ r.addr_end \in Nat
  <2>1. r \in Regions /\ r.type \in OwnerTypes /\ r.addr_start < r.addr_end
    BY ReservedRangeType
  <2> HIDE DEF r
  <2> QED
    BY <2>1 DEF Regions
<1> HIDE DEF r
<1>2. CASE Containing(t, r) = {}
  BY <1>2 DEF reserve_memory_region, r
<1>3. CASE Containing(t, r) # {}
  <2>1. i \in Containing(t, r)
    <3>1. Containing(t, r) \in SUBSET Nat
      BY DEF Containing
    <3> QED
      BY <1>3, <3>1, MinIsLeast
  <2>2. /\ i \in DOMAIN t /\ t[i].addr_start <= r.addr_start
        /\ r.addr_end <= t[i].addr_end /\ t[i].type = "AVAILABLE"
    <3>1. /\ i \in DOMAIN t /\ t[i].addr_start <= r.addr_start
          /\ t[i].addr_end >= r.addr_end /\ t[i].type = "AVAILABLE"
      BY <2>1 DEF Containing
    <3>2. t[i] \in Regions
      BY <3>1
    <3> QED
      BY <1>1, <3>1, <3>2 DEF Regions
  <2>3. reserve_memory_region(t, b) = sort_regions(CarveOut(t, i, r))
    BY <1>3 DEF reserve_memory_region, r
  <2> HIDE DEF i
  <2>4. Carved(sort_regions(CarveOut(t, i, r)), t, i, r)
    BY <1>1, <2>2, CarveOutOrders DEF Carved
  <2> QED
    BY <2>2, <2>3, <2>4 DEF r
<1> QED
  BY <1>2, <1>3

(***************************************************************************)
(* A range can be reserved if one available entry of S contains it; and if *)
(* it shares nothing with any entry, it need not be.                       *)
(***************************************************************************)
Sheltered(S, r) ==
  \/ \E x \in S : /\ x.type = "AVAILABLE"
                  /\ x.addr_start <= r.addr_start /\ r.addr_end <= x.addr_end
  \/ \A x \in S : Apart(x, r)

(* Dropping empty entries changes nothing about it.                          *)
LEMMA ShelterKept ==
  ASSUME NEW T \in SUBSET Regions, NEW S \in SUBSET T,
         \A x \in T : ~Empty(x) => x \in S,
         NEW r \in Regions, r.addr_start < r.addr_end, Sheltered(T, r)
  PROVE  Sheltered(S, r)
<1>1. CASE \A x \in T : Apart(x, r)
  BY <1>1 DEF Sheltered
<1>2. CASE \E x \in T : /\ x.type = "AVAILABLE"
                        /\ x.addr_start <= r.addr_start /\ r.addr_end <= x.addr_end
  <2>1. PICK x \in T : /\ x.type = "AVAILABLE"
                       /\ x.addr_start <= r.addr_start /\ r.addr_end <= x.addr_end
    BY <1>2
  <2>2. ~Empty(x)
    BY <2>1 DEF Empty, Regions
  <2> QED
    BY <2>1, <2>2 DEF Sheltered
<1> QED
  BY <1>1, <1>2 DEF Sheltered

(* Carving r out of an entry leaves shelter to any range apart from r.       *)
LEMMA CarvingShelters ==
  ASSUME NEW t \in Seq(Regions), NEW u, NEW i, NEW r, Carved(u, t, i, r),
         NEW s \in Regions, s.addr_start < s.addr_end, Apart(s, r),
         Sheltered(Content(t), s)
  PROVE  Sheltered(Content(u), s)
<1> DEFINE low  == Region(t[i].addr_start, r.addr_start, t[i].type)
           high == Region(r.addr_end, t[i].addr_end, t[i].type)
           Around(x) == /\ x.type = "AVAILABLE"
                        /\ x.addr_start <= s.addr_start /\ s.addr_end <= x.addr_end
<1>1. /\ i \in DOMAIN t /\ t[i].type = "AVAILABLE" /\ r \in Regions
      /\ t[i].addr_start <= r.addr_start /\ r.addr_start < r.addr_end
      /\ r.addr_end <= t[i].addr_end
      /\ Content(u) = {x \in (Content(t) \ {t[i]}) \cup {low, r, high} : ~Empty(x)}
  BY DEF Carved, Parts
<1>2. t[i] \in Regions /\ t[i] \in Content(t) /\ \A x \in Content(t) : x \in Regions
  BY <1>1 DEF Content
<1>3. /\ t[i].addr_start \in Nat /\ t[i].addr_end \in Nat
      /\ r.addr_start \in Nat /\ r.addr_end \in Nat
      /\ s.addr_start \in Nat /\ s.addr_end \in Nat
  BY <1>1, <1>2 DEF Regions
<1>4. /\ low.addr_start = t[i].addr_start /\ low.addr_end = r.addr_start
      /\ high.addr_start = r.addr_end /\ high.addr_end = t[i].addr_end
      /\ low.type = "AVAILABLE" /\ high.type = "AVAILABLE"
  BY <1>1 DEF Region
<1> HIDE DEF low, high
<1>5. s.addr_end <= r.addr_start \/ r.addr_end <= s.addr_start
  BY <1>1, <1>3 DEF Apart
<1>6. CASE \E x \in Content(t) : Around(x)
  <2>1. PICK x \in Content(t) : Around(x)
    BY <1>6
  <2>2. CASE x # t[i]
    <3>1. ~Empty(x)
      BY <1>2, <1>3, <2>1 DEF Empty, Regions
    <3> QED
      BY <1>1, <2>1, <2>2, <3>1 DEF Sheltered
  <2>3. CASE x = t[i] /\ s.addr_end <= r.addr_start
    <3>1. Around(low) /\ ~Empty(low)
      BY <1>3, <1>4, <2>1, <2>3 DEF Empty
    <3> QED
      BY <1>1, <3>1 DEF Sheltered
  <2>4. CASE x = t[i] /\ r.addr_end <= s.addr_start
    <3>1. Around(high) /\ ~Empty(high)
      BY <1>3, <1>4, <2>1, <2>4 DEF Empty
    <3> QED
      BY <1>1, <3>1 DEF Sheltered
  <2> QED
    BY <1>5, <2>2, <2>3, <2>4
<1>7. CASE \A x \in Content(t) : Apart(x, s)
  <2>1. t[i].addr_end <= s.addr_start \/ s.addr_end <= t[i].addr_start
    BY <1>1, <1>2, <1>3, <1>7 DEF Apart
  <2>2. Apart(low, s) /\ Apart(r, s) /\ Apart(high, s)
    BY <1>1, <1>3, <1>4, <2>1 DEF Apart
  <2> QED
    BY <1>1, <1>7, <2>2 DEF Sheltered
<1> QED
  BY <1>6, <1>7 DEF Sheltered

(* pmm_reserve_memory_region, for a range that has shelter: nothing of it is *)
(* available afterwards, and ranges apart from it keep theirs.               *)
LEMMA ReserveProtects ==
  ASSUME NEW G \in SUBSET Regions, NEW t \in Seq(Regions), Sound(t, Entries(G)),
         InOrder(t), NEW b \in [addr_start : Nat, addr_end : Nat],
         b.addr_start < b.addr_end, RoundUp(b.addr_end) < PtrSpan,
         Sheltered(Content(t), ReservedRange(b))
  PROVE  LET u == reserve_memory_region(t, b)
             r == ReservedRange(b)
         IN  /\ u \in Seq(Regions) /\ InOrder(u) /\ Sound(u, Entries(G \cup {r}))
             /\ \A s \in Regions :
                  s.addr_start < s.addr_end /\ Apart(s, r) /\ Sheltered(Content(t), s)
                  => Sheltered(Content(u), s)
<1> DEFINE u == reserve_memory_region(t, b)
           r == ReservedRange(b)
           Result == /\ u \in Seq(Regions) /\ InOrder(u) /\ Sound(u, Entries(G \cup {r}))
                     /\ \A s \in Regions :
                          s.addr_start < s.addr_end /\ Apart(s, r) /\ Sheltered(Content(t), s)
                          => Sheltered(Content(u), s)
<1>1. /\ r \in Regions /\ r.type \in OwnerTypes /\ r.addr_start < r.addr_end
      /\ r.addr_start \in Nat /\ r.addr_end \in Nat /\ b.addr_start <= b.addr_end
  <2>1. r \in Regions /\ r.type \in OwnerTypes /\ r.addr_start < r.addr_end
    BY ReservedRangeType
  <2> QED
    BY <2>1 DEF Regions
<1>2. u \in Seq(Regions) /\ Sound(u, Entries(G))
  BY <1>1, ReserveSound
<1>3. \/ Containing(t, r) = {} /\ u = t
      \/ \E i \in DOMAIN t : Carved(u, t, i, r)
  BY ReserveOrders
<1> HIDE DEF u, r
<1>4. ASSUME Containing(t, r) = {}, u = t PROVE Result
  <2>1. ASSUME NEW k \in DOMAIN t PROVE t[k] \in Entries(G \cup {r})
    <3>1. t[k] \in Entries(G) /\ t[k] \in Content(t)
      BY DEF Sound, Content
    <3>2. \A x \in Content(t) : Apart(x, r)
      <4> SUFFICES ASSUME NEW l \in DOMAIN t, t[l].type = "AVAILABLE",
                          t[l].addr_start <= r.addr_start,
                          r.addr_end <= t[l].addr_end
                   PROVE  FALSE
        BY DEF Sheltered, Content, r
      <4>1. t[l] \in Regions
        OBVIOUS
      <4>2. l \in Containing(t, r)
        BY <1>1, <4>1 DEF Containing, Regions
      <4> QED
        BY <1>4, <4>2
    <3> QED
      BY <3>1, <3>2 DEF Entries
  <2>2. Sound(u, Entries(G \cup {r}))
    BY <1>4, <2>1 DEF Sound
  <2> QED
    BY <1>2, <1>4, <2>2
<1>5. ASSUME \E i \in DOMAIN t : Carved(u, t, i, r) PROVE Result
  <2>1. PICK i \in DOMAIN t : Carved(u, t, i, r)
    BY <1>5
  <2>2. InOrder(u) /\ r \in Content(u)
    BY <1>1, <2>1 DEF Carved, Parts, Empty
  <2>3. PICK j \in DOMAIN u : u[j] = r
    BY <2>2 DEF Content
  <2>4. Sound(u, Entries(G \cup {r}))
    BY <1>1, <1>2, <2>3, OwnedByEntry
  <2>5. \A s \in Regions :
          s.addr_start < s.addr_end /\ Apart(s, r) /\ Sheltered(Content(t), s)
            => Sheltered(Content(u), s)
    BY <2>1, CarvingShelters
  <2> QED
    BY <1>2, <2>2, <2>4, <2>5
<1>6. Result
  BY <1>3, <1>4, <1>5
<1> QED
  BY <1>6, Zenon DEF u, r

(* pmm_allocate_region_with_type: a call that fails changes nothing; any     *)
(* other carves what it grants out of the start of an available entry.       *)
LEMMA AllocateOrders ==
  ASSUME NEW G \in SUBSET Regions, NEW t \in Seq(Regions), Sound(t, Entries(G)),
         InOrder(t), NEW pages \in Nat, pages * PageSize < PtrSpan,
         NEW type \in OwnerTypes
  PROVE  \/ /\ allocate_region(t, pages, type).table = t
            /\ allocate_region(t, pages, type).ret = 0
         \/ /\ allocate_region(t, pages, type).ret # 0
            /\ Grant(t, pages, type).addr_start >= LowMemory
            /\ \E i \in DOMAIN t :
                 /\ Grant(t, pages, type).addr_start = t[i].addr_start
                 /\ Carved(allocate_region(t, pages, type).table, t, i,
                           Grant(t, pages, type))
<1> DEFINE call == allocate_region(t, pages, type)
           g    == Grant(t, pages, type)
<1>0. /\ call = allocate_region(t, pages, type)
      /\ g = Region(call.ret, call.ret + pages * PageSize, type)
  BY DEF Grant
<1> HIDE DEF call, g
<1> DEFINE len == AllocationLength(pages)
           i   == Min(Fitting(t, len))
<1>1. CASE pages = 0 \/ Fitting(t, len) = {}
  <2>1. call.table = t /\ call.ret = 0
    BY <1>1, <1>0 DEF allocate_region
  <2> QED
    BY <2>1 DEF call
<1>2. CASE pages # 0 /\ Fitting(t, len) # {}
  <2>1. len = pages * PageSize /\ len \in Nat /\ 0 < len
    BY <1>2, AllocationLengthPositive
  <2>2. call = [table |-> IF t[i].addr_start % PtrSpan # 0
                            THEN sort_regions(TakeFront(t, i, len, type))
                            ELSE TakeFront(t, i, len, type),
                ret |-> t[i].addr_start % PtrSpan]
    BY <1>2, <1>0 DEF allocate_region
  <2> HIDE DEF len
  <2>3. i \in Fitting(t, len)
    <3>1. Fitting(t, len) \in SUBSET Nat
      BY DEF Fitting
    <3> QED
      BY <1>2, <3>1, MinIsLeast
  <2> HIDE DEF i
  <2>4. /\ i \in DOMAIN t /\ t[i] \in Regions
        /\ t[i].type = "AVAILABLE" /\ t[i].addr_start >= LowMemory
        /\ t[i].addr_start + len <= t[i].addr_end /\ t[i].addr_end <= PtrSpan
    <3>1. /\ i \in DOMAIN t /\ t[i].type = "AVAILABLE"
          /\ t[i].addr_start >= LowMemory
          /\ t[i].addr_start + len <= t[i].addr_end
      BY <2>3 DEF Fitting
    <3>2. t[i] \in Entries(G)
      BY <3>1 DEF Sound
    <3> QED
      BY <3>1, <3>2 DEF Entries
  <2> DEFINE s == t[i].addr_start
             r == Region(s, s + len, type)
  <2>5. s \in Nat /\ t[i].addr_end \in Nat /\ s + len \in Nat
    BY <2>1, <2>4 DEF Regions
  <2>6. s % PtrSpan = s /\ s # 0
    <3>1. s < PtrSpan /\ LowMemory <= s
      BY <2>1, <2>4, <2>5, RegionTableAssumption
    <3> HIDE DEF s
    <3> QED
      BY <2>5, <3>1, RegionTableAssumption
  <2>7. /\ r \in Regions /\ r.type = type /\ r.addr_start = s /\ r.addr_end = s + len
    BY <2>4, <2>5 DEF Region, Regions, RegionTypes
  <2>8. TakeFront(t, i, len, type) = CarveOut(t, i, r)
    BY <2>7 DEF TakeFront, CarveOut
  <2>9. call.ret = s /\ call.table = sort_regions(CarveOut(t, i, r)) /\ g = r
    <3>1. call.ret = s
      BY <2>2, <2>6
    <3>2. g = r
      BY <1>0, <2>1, <3>1
    <3> HIDE DEF r
    <3>3. call.table = sort_regions(CarveOut(t, i, r))
      BY <2>2, <2>6, <2>8
    <3> QED
      BY <3>1, <3>2, <3>3
  <2>10. /\ t[i].addr_start <= r.addr_start /\ r.addr_end <= t[i].addr_end
         /\ r.addr_start < r.addr_end
    BY <2>1, <2>4, <2>5, <2>7
  <2> HIDE DEF r
  <2>11. Carved(sort_regions(CarveOut(t, i, r)), t, i, r)
    BY <2>4, <2>7, <2>10, CarveOutOrders DEF Carved
  <2> QED
    BY <2>4, <2>6, <2>7, <2>9, <2>11 DEF call, g
<1> QED
  BY <1>1, <1>2

------------------------------------------------------------------------------
(***************************************************************************)
(* Merging.  Available memory of less than a page can round to an entry    *)
(* whose end is below its start.  The merging would take such an entry for *)
(* a neighbour of one that ends where it starts, and cut that one short.   *)
(* Entries with an owner are never merged.                                 *)
(***************************************************************************)
Fragment(r) == r.addr_end < r.addr_start

NoneTouchesFragment(S) ==
  \A x, y \in S :
    Fragment(x) /\ y.type \notin OwnerTypes => y.addr_end # x.addr_start

\* The addresses of available memory.
FreeAt(t, a) ==
  \E k \in DOMAIN t :
    t[k].type = "AVAILABLE" /\ t[k].addr_start <= a /\ a < t[k].addr_end

\* u is t after some merging.
MergedFrom(u, t) ==
  /\ \A k \in DOMAIN t :
       /\ u[k].type = t[k].type
       /\ t[k].type # "AVAILABLE" => u[k] = t[k]
       /\ t[k].addr_start <= u[k].addr_start
       /\ ~Empty(u[k]) => u[k].addr_start = t[k].addr_start
  /\ \A k, l \in DOMAIN u : Fragment(u[k]) /\ u[l].type \notin OwnerTypes
                              => u[l].addr_end # u[k].addr_start
  /\ \A a \in Nat : FreeAt(u, a) <=> FreeAt(t, a)

Joined(v, u, i, j) ==
  v = [u EXCEPT ![i].addr_end = u[j].addr_end, ![j].addr_start = u[j].addr_end]

(* The two assignments that merge an entry into the head (pmm.c:270-271).    *)
LEMMA JoinMerges ==
  ASSUME NEW n \in Nat, NEW t \in SoundTables(n, Regions), InOrder(t),
         NEW u \in SoundTables(n, Regions), MergedFrom(u, t),
         NEW i \in 1..n, NEW j \in (i + 1)..n,
         u[i].type = "AVAILABLE", ~Empty(u[i]),
         u[j].type = "AVAILABLE", ~Empty(u[j]),
         u[i].addr_end = u[j].addr_start,
         NEW v, Joined(v, u, i, j)
  PROVE  MergedFrom(v, t) /\ ~Empty(v[i])
<1> DEFINE a == u[i].addr_start
           b == u[j].addr_start
           d == u[j].addr_end
<1>1. /\ DOMAIN t = 1..n /\ DOMAIN u = 1..n /\ u \in [1..n -> Regions]
      /\ i \in 1..n /\ j \in 1..n /\ i < j
      /\ \A k \in 1..n : u[k] \in Regions /\ t[k] \in Regions
  BY DEF SoundTables
<1>2. /\ DOMAIN v = 1..n
      /\ \A k \in 1..n : v[k] = IF k = j THEN [u[j] EXCEPT !.addr_start = d]
                                ELSE IF k = i THEN [u[i] EXCEPT !.addr_end = d]
                                ELSE u[k]
  BY <1>1 DEF Joined
<1>3. /\ a \in Nat /\ b \in Nat /\ d \in Nat /\ u[i].addr_end = b
      /\ \A k \in 1..n : /\ u[k].addr_start \in Nat /\ u[k].addr_end \in Nat
                         /\ t[k].addr_start \in Nat /\ t[k].addr_end \in Nat
  BY <1>1 DEF Regions
<1>4. /\ v[i].addr_start = a /\ v[i].addr_end = d /\ v[i].type = "AVAILABLE"
      /\ v[j].addr_start = d /\ v[j].addr_end = d /\ v[j].type = "AVAILABLE"
      /\ \A k \in 1..n : k # i /\ k # j => v[k] = u[k]
  BY <1>1, <1>2 DEF Regions
<1>5. a < b /\ b < d
  <2>1. a = t[i].addr_start /\ b = t[j].addr_start /\ a <= b
    BY <1>1 DEF MergedFrom, InOrder
  <2>2. a # b /\ b # d
    BY <1>3 DEF Empty
  <2>3. ~(d < b)
    BY <1>1 DEF MergedFrom, Fragment, OwnerTypes
  <2> QED
    BY <1>3, <2>1, <2>2, <2>3
<1> HIDE DEF a, b, d
<1>6. ~Empty(v[i]) /\ Empty(v[j])
  BY <1>3, <1>4, <1>5 DEF Empty
<1>7. ASSUME NEW k \in 1..n
      PROVE  /\ v[k].type = t[k].type
             /\ t[k].type # "AVAILABLE" => v[k] = t[k]
             /\ t[k].addr_start <= v[k].addr_start
             /\ ~Empty(v[k]) => v[k].addr_start = t[k].addr_start
  <2>1. /\ u[k].type = t[k].type
        /\ t[k].type # "AVAILABLE" => u[k] = t[k]
        /\ t[k].addr_start <= u[k].addr_start
        /\ ~Empty(u[k]) => u[k].addr_start = t[k].addr_start
    BY <1>1 DEF MergedFrom
  <2>2. CASE k = i
    BY <1>4, <2>1, <2>2 DEF a
  <2>3. CASE k = j
    BY <1>3, <1>4, <1>5, <1>6, <2>1, <2>3 DEF b
  <2>4. CASE k # i /\ k # j
    BY <1>4, <2>1, <2>4
  <2> QED
    BY <2>2, <2>3, <2>4
<1>8. ASSUME NEW k \in 1..n, NEW l \in 1..n, Fragment(v[k]),
             v[l].type \notin OwnerTypes
      PROVE  v[l].addr_end # v[k].addr_start
  <2>1. k # i /\ k # j /\ v[k] = u[k]
    <3>1. v[k].addr_end < v[k].addr_start
      BY <1>8 DEF Fragment
    <3>2. k # i
      BY <1>3, <1>4, <1>5, <3>1
    <3>3. k # j
      BY <1>3, <1>4, <1>5, <3>1
    <3> QED
      BY <1>4, <3>2, <3>3
  <2>2. \A m \in 1..n : u[m].type \notin OwnerTypes => u[m].addr_end # u[k].addr_start
    BY <1>1, <1>8, <2>1 DEF MergedFrom
  <2>3. u[j].type \notin OwnerTypes
    BY DEF OwnerTypes
  <2>4. v[l].addr_end = d \/ v[l] = u[l]
    BY <1>4
  <2> QED
    BY <1>1, <1>8, <2>1, <2>2, <2>3, <2>4 DEF d
<1>9. ASSUME NEW x \in Nat PROVE FreeAt(v, x) <=> FreeAt(u, x)
  <2>1. ASSUME NEW k \in 1..n, v[k].type = "AVAILABLE", v[k].addr_start <= x,
               x < v[k].addr_end
        PROVE  FreeAt(u, x)
    <3>1. CASE k = i
      <4>1. a <= x /\ x < d
        BY <1>4, <2>1, <3>1
      <4>2. CASE x < b
        BY <1>1, <1>3, <4>1, <4>2 DEF FreeAt, a
      <4>3. CASE b <= x
        BY <1>1, <1>3, <4>1, <4>3 DEF FreeAt, b, d
      <4> QED
        BY <1>3, <4>2, <4>3
    <3>2. CASE k = j
      BY <1>3, <1>4, <2>1, <3>2
    <3>3. CASE k # i /\ k # j
      BY <1>1, <1>4, <2>1, <3>3 DEF FreeAt
    <3> QED
      BY <3>1, <3>2, <3>3
  <2>2. ASSUME NEW k \in 1..n, u[k].type = "AVAILABLE", u[k].addr_start <= x,
               x < u[k].addr_end
        PROVE  FreeAt(v, x)
    <3>1. CASE k = i \/ k = j
      <4>1. a <= x /\ x < d
        BY <1>3, <1>5, <2>2, <3>1 DEF a, b, d
      <4> QED
        BY <1>1, <1>2, <1>4, <4>1 DEF FreeAt
    <3>2. CASE k # i /\ k # j
      BY <1>1, <1>2, <1>4, <2>2, <3>2 DEF FreeAt
    <3> QED
      BY <3>1, <3>2
  <2>3. FreeAt(v, x) => FreeAt(u, x)
    BY <1>2, <2>1 DEF FreeAt
  <2>4. FreeAt(u, x) => FreeAt(v, x)
    BY <1>1, <2>2 DEF FreeAt
  <2> QED
    BY <2>3, <2>4
<1>10. \A x \in Nat : FreeAt(u, x) <=> FreeAt(t, x)
  BY DEF MergedFrom
<1>11. \A x \in Nat : FreeAt(v, x) <=> FreeAt(t, x)
  BY <1>9, <1>10, Zenon
<1> QED
  BY <1>1, <1>2, <1>6, <1>7, <1>8, <1>11, Zenon DEF MergedFrom

(* An iteration of the inner merging loop (pmm.c:251-272).                   *)
LEMMA MergeStepMerges ==
  ASSUME NEW G \in SUBSET Regions, NEW n \in Nat,
         NEW t \in SoundTables(n, Regions), InOrder(t),
         NEW i \in 1..n, NEW j \in (i + 1)..n, NEW st \in HeadStates(n, G, i),
         MergedFrom(st.tab, t), ~Empty(st.tab[i])
  PROVE  LET next == MergeStep(st, i, j)
         IN  MergedFrom(next.tab, t) /\ ~Empty(next.tab[i])
<1> DEFINE u == st.tab
           next == MergeStep(st, i, j)
           stops == \/ u[j].type # "AVAILABLE"
                    \/ ~Empty(u[j]) /\ u[i].addr_end # u[j].addr_start
<1>1. /\ u \in SoundTables(n, Regions) /\ u[i].type = "AVAILABLE"
      /\ MergedFrom(u, t) /\ ~Empty(u[i])
  <2>1. u \in HeadTables(n, G, i)
    BY DEF HeadStates
  <2> HIDE DEF u
  <2>2. u \in SoundTables(n, Regions) /\ u[i].type = "AVAILABLE"
    BY <2>1 DEF HeadTables, SoundTables, Sound
  <2> QED
    BY <2>2 DEF u
<1>2. CASE st.open /\ ~stops /\ ~Empty(u[j])
  <2> DEFINE v == [u EXCEPT ![i].addr_end = u[j].addr_end,
                            ![j].addr_start = u[j].addr_end]
  <2>1. /\ u[i].addr_end = u[j].addr_start /\ u[j].type = "AVAILABLE"
        /\ ~Empty(u[j])
    BY <1>2
  <2>2. next = [st EXCEPT !.tab = v]
    BY <1>2 DEF MergeStep
  <2>3. Joined(v, u, i, j)
    BY DEF Joined
  <2>4. next.tab = v
    <3> HIDE DEF v, next
    <3> QED
      BY <2>2 DEF HeadStates
  <2> HIDE DEF u, v, next
  <2>5. MergedFrom(v, t) /\ ~Empty(v[i])
    BY <1>1, <2>1, <2>3, JoinMerges
  <2> QED
    BY <2>4, <2>5 DEF next
<1>3. CASE ~(st.open /\ ~stops /\ ~Empty(u[j]))
  <2>1. next = [st EXCEPT !.open = st.open /\ ~stops]
    BY <1>3 DEF MergeStep
  <2> HIDE DEF stops
  <2>2. next.tab = u
    BY <2>1 DEF HeadStates
  <2> HIDE DEF u, next
  <2> QED
    BY <1>1, <2>2 DEF next
<1> QED
  BY <1>2, <1>3

(* The whole inner merging loop, for one head.                               *)
LEMMA MergeRunMerges ==
  ASSUME NEW G \in SUBSET Regions, NEW n \in Nat,
         NEW t \in SoundTables(n, Regions), InOrder(t),
         NEW i \in 1..n, NEW u \in HeadTables(n, G, i),
         MergedFrom(u, t), ~Empty(u[i])
  PROVE  MergeRun(u, i) \in HeadTables(n, G, i) /\ MergedFrom(MergeRun(u, i), t)
<1> DEFINE S == HeadStates(n, G, i)
           b == [tab |-> u, open |-> TRUE]
           B == [j \in (i + 1)..n |-> [x \in S |-> MergeStep(x, i, j)]]
           run == CHOOSE f : f = [j \in i..n |->
                    IF j = i THEN [tab |-> u, open |-> TRUE]
                    ELSE MergeStep(f[j - 1], i, j)]
           Keeps(x) == x \in S /\ MergedFrom(x.tab, t) /\ ~Empty(x.tab[i])
<1>1. \A x \in S : \A j \in (i + 1)..n : MergeStep(x, i, j) \in S
  BY MergeStepSound
<1>2. b \in S /\ i \in Nat /\ i <= n
  BY DEF HeadStates
<1>3. \E f : f = [j \in i..n |->
               IF j = i THEN [tab |-> u, open |-> TRUE]
               ELSE MergeStep(f[j - 1], i, j)]
  <2>1. B \in [(i + 1)..n -> [S -> S]]
    BY <1>1
  <2>2. PICK f \in [i..n -> S] : RunOf(f, i, n, b, B)
    <3> HIDE DEF B, S, b
    <3> QED
      BY <1>2, <2>1, LoopRuns
  <2>3. \A j \in i..n : j # i => B[j][f[j - 1]] = MergeStep(f[j - 1], i, j)
    OBVIOUS
  <2> HIDE DEF B, S
  <2>4. f = [j \in i..n |-> IF j = i THEN b ELSE MergeStep(f[j - 1], i, j)]
    <3> HIDE DEF b
    <3> QED
      BY <2>2, <2>3 DEF RunOf
  <2> QED
    BY <2>4
<1>4. run = [j \in i..n |->
               IF j = i THEN b ELSE MergeStep(run[j - 1], i, j)]
  BY <1>3, Zenon
<1>5. MergeRun(u, i) = run[n].tab
  <2>1. Len(u) = n
    BY LenSound DEF HeadTables
  <2> QED
    BY <2>1, Zenon DEF MergeRun
<1> HIDE DEF run
<1>6. Keeps(b)
  BY <1>2
<1>7. \A j \in i..n : Keeps(run[j])
  <2> DEFINE P == {j \in i..n : Keeps(run[j])}
  <2>1. i \in P
    <3> HIDE DEF Keeps, b
    <3>1. run[i] = b
      BY <1>2, <1>4
    <3> QED
      BY <1>2, <1>6, <3>1
  <2>2. ASSUME NEW j \in (i + 1)..n, j - 1 \in P PROVE j \in P
    <3>1. j \in i..n /\ j # i /\ j - 1 \in i..n
      OBVIOUS
    <3>2. run[j] = MergeStep(run[j - 1], i, j)
      <4> HIDE DEF b
      <4> QED
        BY <1>4, <3>1
    <3>3. Keeps(run[j - 1])
      <4> HIDE DEF Keeps
      <4> QED
        BY <2>2
    <3> DEFINE x == run[j - 1]
    <3>4. Keeps(x)
      BY <3>3
    <3> HIDE DEF x
    <3>5. Keeps(MergeStep(x, i, j))
      BY <1>1, <3>4, MergeStepMerges
    <3> HIDE DEF Keeps
    <3> QED
      BY <3>1, <3>2, <3>5 DEF x
  <2>3. P \in SUBSET (i..n)
    OBVIOUS
  <2> HIDE DEF P
  <2>4. \A j \in i..n : j \in P
    BY <1>2, <2>1, <2>2, <2>3, LoopInvariant, Zenon
  <2> QED
    BY <2>4 DEF P
<1>8. Keeps(run[n])
  <2> HIDE DEF Keeps
  <2> QED
    BY <1>2, <1>7
<1> QED
  BY <1>5, <1>8 DEF HeadStates

(* The outer merging loop (pmm.c:238-273), over every head.                  *)
LEMMA CoalesceMerges ==
  ASSUME NEW G \in SUBSET Regions, NEW n \in Nat,
         NEW t \in SoundTables(n, Entries(G)), InOrder(t),
         NoneTouchesFragment(Content(t))
  PROVE  MergedFrom(Coalesce(t), t)
<1> DEFINE S == SoundTables(n, Entries(G))
           Body(x, i) == IF x[i].type = "AVAILABLE" /\ ~Empty(x[i])
                           THEN MergeRun(x, i) ELSE x
           B == [i \in 1..n |-> [x \in S |-> Body(x, i)]]
           merged == CHOOSE f : f = [i \in 0..n |->
                       IF i = 0 THEN t
                       ELSE LET u == f[i - 1]
                            IN  IF u[i].type = "AVAILABLE" /\ ~Empty(u[i])
                                  THEN MergeRun(u, i) ELSE u]
           Keeps(x) == x \in S /\ MergedFrom(x, t)
<1>1. t \in SoundTables(n, Regions) /\ DOMAIN t = 1..n
  BY DEF SoundTables, Sound
<1>2. \A x \in S : \A i \in 1..n : Body(x, i) \in S
  <2> SUFFICES ASSUME NEW x \in S, NEW i \in 1..n PROVE Body(x, i) \in S
    BY Zenon
  <2>1. CASE x[i].type = "AVAILABLE" /\ ~Empty(x[i])
    <3>1. x \in HeadTables(n, G, i)
      BY <2>1 DEF HeadTables
    <3>2. MergeRun(x, i) \in HeadTables(n, G, i)
      BY <3>1, MergeRunSound
    <3> QED
      BY <2>1, <3>2 DEF HeadTables
  <2>2. CASE ~(x[i].type = "AVAILABLE" /\ ~Empty(x[i]))
    BY <2>2
  <2> QED
    BY <2>1, <2>2
<1>3. \A i \in 1..n : \A x : Keeps(x) => Keeps(Body(x, i))
  <2> SUFFICES ASSUME NEW i \in 1..n, NEW x, Keeps(x) PROVE Keeps(Body(x, i))
    BY Zenon
  <2>1. CASE x[i].type = "AVAILABLE" /\ ~Empty(x[i])
    <3>1. x \in HeadTables(n, G, i)
      BY <2>1 DEF HeadTables
    <3>2. /\ MergeRun(x, i) \in HeadTables(n, G, i)
          /\ MergedFrom(MergeRun(x, i), t)
      BY <1>1, <2>1, <3>1, MergeRunMerges
    <3> QED
      BY <2>1, <3>2 DEF HeadTables
  <2>2. CASE ~(x[i].type = "AVAILABLE" /\ ~Empty(x[i]))
    BY <2>2
  <2> QED
    BY <2>1, <2>2
<1>4. \E f : f = [i \in 0..n |->
               IF i = 0 THEN t
               ELSE LET u == f[i - 1]
                    IN  IF u[i].type = "AVAILABLE" /\ ~Empty(u[i])
                          THEN MergeRun(u, i) ELSE u]
  <2>1. B \in [(0 + 1)..n -> [S -> S]] /\ t \in S /\ 0 \in Nat /\ 0 <= n
    <3> HIDE DEF Body, S
    <3> QED
      BY <1>2 DEF S
  <2>2. PICK f \in [0..n -> S] : RunOf(f, 0, n, t, B)
    <3> HIDE DEF B, S
    <3> QED
      BY <2>1, LoopRuns
  <2>3. \A i \in 0..n : i # 0 => B[i][f[i - 1]] = Body(f[i - 1], i)
    <3> HIDE DEF Body, S
    <3> QED
      OBVIOUS
  <2>4. f = [i \in 0..n |-> IF i = 0 THEN t ELSE Body(f[i - 1], i)]
    <3> HIDE DEF B, S, Body
    <3> QED
      BY <2>2, <2>3 DEF RunOf
  <2> HIDE DEF B, S
  <2> QED
    BY <2>4
<1>5. merged = [i \in 0..n |-> IF i = 0 THEN t ELSE Body(merged[i - 1], i)]
  BY <1>4, Zenon
<1>6. Coalesce(t) = merged[n]
  <2>1. Len(t) = n
    BY LenSound
  <2> QED
    BY <2>1, Zenon DEF Coalesce
<1> HIDE DEF merged
<1>7. Keeps(t)
  <2>1. \A k, l \in DOMAIN t : Fragment(t[k]) /\ t[l].type \notin OwnerTypes
                                => t[l].addr_end # t[k].addr_start
    BY DEF NoneTouchesFragment, Content
  <2>2. \A k \in DOMAIN t : t[k].addr_start <= t[k].addr_start
    <3>1. \A k \in 1..n : t[k].addr_start \in Nat
      BY DEF SoundTables, Regions
    <3> QED
      BY <1>1, <3>1
  <2> QED
    BY <2>1, <2>2, Zenon DEF MergedFrom
<1>8. \A i \in 0..n : Keeps(merged[i])
  <2> DEFINE P == {i \in 0..n : Keeps(merged[i])}
  <2>1. 0 \in P
    <3>1. merged[0] = t /\ 0 \in 0..n
      BY <1>5
    <3> HIDE DEF Keeps
    <3> QED
      BY <1>7, <3>1
  <2>2. ASSUME NEW i \in (0 + 1)..n, i - 1 \in P PROVE i \in P
    <3>1. i \in 0..n /\ i # 0 /\ i \in 1..n /\ i - 1 \in 0..n
      OBVIOUS
    <3> HIDE DEF Keeps, Body
    <3>2. merged[i] = Body(merged[i - 1], i)
      BY <1>5, <3>1
    <3>3. Keeps(merged[i - 1])
      BY <2>2
    <3> QED
      BY <1>3, <3>1, <3>2, <3>3
  <2>3. P \in SUBSET (0..n) /\ 0 \in Nat /\ 0 <= n
    OBVIOUS
  <2> HIDE DEF P
  <2>4. \A i \in 0..n : i \in P
    BY <2>1, <2>2, <2>3, LoopInvariant, Zenon
  <2> QED
    BY <2>4 DEF P
<1>9. Keeps(merged[n])
  <2> HIDE DEF Keeps
  <2> QED
    BY <1>8
<1> QED
  BY <1>6, <1>9

\* u is the table t, in order, after some reserved memory has been released.
Released(u, t) ==
  /\ InOrder(u)
  /\ NoneTouchesFragment(Content(u))
  /\ \A x \in Content(t) :
       x.type \notin {"AVAILABLE", "RESERVED"} => x \in Content(u)
  /\ \A x \in Content(u) : x.type # "AVAILABLE" => x \in Content(t)
  /\ \A a \in Nat : FreeAt(t, a) => FreeAt(u, a)
  /\ \A x \in Content(t) : x.type = "RESERVED" =>
       \/ x \in Content(u)
       \/ \A a \in Nat : x.addr_start <= a /\ a < x.addr_end => FreeAt(u, a)
  /\ \A a \in Nat : FreeAt(u, a) =>
       \/ FreeAt(t, a)
       \/ \E x \in Content(t) : /\ x.type = "RESERVED"
                                /\ x.addr_start <= a /\ a < x.addr_end

(* The end of pmm_deallocate: merging, and the sort (pmm.c:236-276).         *)
LEMMA MergingOrders ==
  ASSUME NEW G \in SUBSET Regions, NEW t \in Seq(Regions), Sound(t, Entries(G)),
         InOrder(t), NoneTouchesFragment(Content(t))
  PROVE  LET u == sort_regions(Coalesce(t))
         IN  /\ InOrder(u) /\ NoneTouchesFragment(Content(u))
             /\ \A x \in Content(t) : x.type # "AVAILABLE" => x \in Content(u)
             /\ \A x \in Content(u) : x.type # "AVAILABLE" => x \in Content(t)
             /\ \A a \in Nat : FreeAt(u, a) <=> FreeAt(t, a)
<1> DEFINE m == Coalesce(t)
           u == sort_regions(m)
<1>1. PICK n \in Nat : t \in SoundTables(n, Entries(G))
  BY SoundSeq
<1>2. /\ m \in SoundTables(n, Entries(G)) /\ MergedFrom(m, t)
      /\ DOMAIN t = 1..n
  BY <1>1, CoalesceSound, CoalesceMerges, LenSound
<1> HIDE DEF m
<1>3. /\ m \in Seq(Regions) /\ DOMAIN m = 1..n /\ Sound(m, Regions)
      /\ \A k \in 1..n : m[k] \in Regions /\ t[k] \in Regions
  <2>1. /\ m \in Seq(Regions) /\ DOMAIN m = 1..n /\ Sound(m, Entries(G))
        /\ \A k \in 1..n : t[k] \in Regions
    BY <1>1, <1>2, LenSound DEF SoundTables
  <2> QED
    BY <2>1, SoundIsRegions
<1>4. EmptiesInPlace(m)
  <2> SUFFICES ASSUME NEW k \in 1..n, NEW l \in 1..n, k < l, ~Empty(m[k])
               PROVE  m[k].addr_start <= m[l].addr_start
    BY <1>3 DEF EmptiesInPlace
  <2>1. /\ m[k].addr_start = t[k].addr_start
        /\ t[l].addr_start <= m[l].addr_start
    BY <1>2 DEF MergedFrom
  <2>2. t[k].addr_start <= t[l].addr_start
    BY <1>2 DEF InOrder
  <2>3. /\ m[k] \in Regions /\ t[k] \in Regions
        /\ m[l] \in Regions /\ t[l] \in Regions
    BY <1>3
  <2>4. /\ m[k].addr_start \in Nat /\ t[k].addr_start \in Nat
        /\ m[l].addr_start \in Nat /\ t[l].addr_start \in Nat
    BY <2>3 DEF Regions
  <2> QED
    BY <2>1, <2>2, <2>4
<1>5. InOrder(u) /\ Content(u) = {x \in Content(m) : ~Empty(x)}
  BY <1>3, <1>4, SortRegionsOrders
<1> HIDE DEF u
<1>6. NoneTouchesFragment(Content(u))
  <2> SUFFICES ASSUME NEW x \in Content(u), NEW y \in Content(u),
                      Fragment(x), y.type \notin OwnerTypes
               PROVE  y.addr_end # x.addr_start
    BY DEF NoneTouchesFragment
  <2>1. x \in Content(m) /\ y \in Content(m)
    BY <1>5
  <2>2. PICK k \in DOMAIN m : x = m[k]
    BY <2>1 DEF Content
  <2>3. PICK l \in DOMAIN m : y = m[l]
    BY <2>1 DEF Content
  <2> QED
    BY <1>2, <2>2, <2>3 DEF MergedFrom
<1>7. ASSUME NEW x \in Content(t), x.type # "AVAILABLE" PROVE x \in Content(u)
  <2>1. PICK k \in 1..n : x = t[k]
    BY <1>2 DEF Content
  <2>2. m[k] = x /\ ~Empty(x)
    BY <1>2, <1>7, <2>1 DEF MergedFrom, InOrder
  <2> QED
    BY <1>3, <1>5, <2>1, <2>2 DEF Content
<1>8. ASSUME NEW x \in Content(u), x.type # "AVAILABLE" PROVE x \in Content(t)
  <2>1. PICK k \in 1..n : x = m[k]
    BY <1>3, <1>5 DEF Content
  <2>2. t[k] = x
    BY <1>2, <1>8, <2>1 DEF MergedFrom
  <2> QED
    BY <1>2, <2>1, <2>2 DEF Content
<1>9. ASSUME NEW a \in Nat PROVE FreeAt(u, a) <=> FreeAt(m, a)
  <2>1. FreeAt(u, a) => FreeAt(m, a)
    <3> SUFFICES ASSUME NEW k \in DOMAIN u, u[k].type = "AVAILABLE",
                        u[k].addr_start <= a, a < u[k].addr_end
                 PROVE  FreeAt(m, a)
      BY DEF FreeAt
    <3>1. u[k] \in Content(m)
      BY <1>5 DEF Content
    <3>2. PICK l \in 1..n : u[k] = m[l]
      BY <1>3, <3>1 DEF Content
    <3> QED
      BY <1>3, <3>2 DEF FreeAt
  <2>2. FreeAt(m, a) => FreeAt(u, a)
    <3> SUFFICES ASSUME NEW k \in 1..n, m[k].type = "AVAILABLE",
                        m[k].addr_start <= a, a < m[k].addr_end
                 PROVE  FreeAt(u, a)
      BY <1>3 DEF FreeAt
    <3>1. ~Empty(m[k])
      BY <1>3 DEF Empty, Regions
    <3>2. m[k] \in Content(u)
      BY <1>3, <1>5, <3>1 DEF Content
    <3> QED
      BY <3>2 DEF FreeAt, Content
  <2> QED
    BY <2>1, <2>2
<1>10. \A a \in Nat : FreeAt(m, a) <=> FreeAt(t, a)
  BY <1>2 DEF MergedFrom
<1>11. \A a \in Nat : FreeAt(u, a) <=> FreeAt(t, a)
  BY <1>9, <1>10, Zenon
<1> QED
  BY <1>5, <1>6, <1>7, <1>8, <1>11, Zenon DEF u, m

(* Nothing is released by a call that only merges, or does nothing.          *)
LEMMA NothingReleased ==
  ASSUME NEW t, NEW u, InOrder(u), NoneTouchesFragment(Content(u)),
         \A x \in Content(t) : x.type # "AVAILABLE" => x \in Content(u),
         \A x \in Content(u) : x.type # "AVAILABLE" => x \in Content(t),
         \A a \in Nat : FreeAt(u, a) <=> FreeAt(t, a)
  PROVE  Released(u, t)
<1>1. \A x \in Content(t) : x.type = "RESERVED" => x \in Content(u)
  OBVIOUS
<1>2. \A x \in Content(t) :
        x.type \notin {"AVAILABLE", "RESERVED"} => x \in Content(u)
  OBVIOUS
<1> QED
  BY <1>1, <1>2 DEF Released

(* pmm_deallocate: a reserved entry becomes available, or none does; nothing *)
(* else changes but how available memory is cut into entries.                *)
LEMMA DeallocateOrders ==
  ASSUME NEW G \in SUBSET Regions, NEW t \in Seq(Regions), Sound(t, Entries(G)),
         InOrder(t), NoneTouchesFragment(Content(t)), NEW addr
  PROVE  Released(deallocate(t, addr), t)
<1> DEFINE page  == RoundDown(addr)
           above == AtOrAbove(t, page)
           i     == Min(above)
           freed == [t EXCEPT ![i].type = "AVAILABLE"]
<1>1. CASE above = {}
  <2>1. deallocate(t, addr) = sort_regions(Coalesce(t))
    BY <1>1 DEF deallocate
  <2> DEFINE u == sort_regions(Coalesce(t))
  <2>2. /\ InOrder(u) /\ NoneTouchesFragment(Content(u))
        /\ \A x \in Content(t) : x.type # "AVAILABLE" => x \in Content(u)
        /\ \A x \in Content(u) : x.type # "AVAILABLE" => x \in Content(t)
        /\ \A a \in Nat : FreeAt(u, a) <=> FreeAt(t, a)
    BY MergingOrders
  <2> HIDE DEF u
  <2>3. Released(u, t)
    BY <2>2, NothingReleased
  <2> QED
    BY <2>1, <2>3 DEF u
<1>2. CASE above # {} /\ t[i].addr_start = page /\ t[i].type = "RESERVED"
  <2>1. i \in DOMAIN t
    <3>1. above \in SUBSET Nat /\ above \subseteq DOMAIN t
      BY DEF AtOrAbove
    <3> HIDE DEF above
    <3> QED
      BY <1>2, <3>1, MinIsLeast
  <2>2. deallocate(t, addr) = sort_regions(Coalesce(freed))
    BY <1>2 DEF deallocate
  <2>3. t[i].type = "RESERVED"
    BY <1>2
  <2> HIDE DEF i
  <2> DEFINE q == [t[i] EXCEPT !.type = "AVAILABLE"]
             u == sort_regions(Coalesce(freed))
  <2>4. t[i] \in Regions /\ t[i] \in Entries(G) /\ t[i].type \notin OwnerTypes
    BY <2>1, <2>3 DEF Sound, OwnerTypes, Entries
  <2>5. /\ q \in Regions /\ q.addr_start = t[i].addr_start
        /\ q.addr_end = t[i].addr_end /\ q.type = "AVAILABLE"
    BY <2>4 DEF Regions, RegionTypes, FirmwareTypes
  <2>6. freed = [t EXCEPT ![i] = q]
    BY <2>1
  <2>7. /\ freed \in Seq(Regions) /\ DOMAIN freed = DOMAIN t
        /\ \A k \in DOMAIN t : freed[k] = IF k = i THEN q ELSE t[k]
    BY <2>1, <2>5, <2>6
  <2> HIDE DEF q, freed
  <2>8. Sound(freed, Entries(G))
    <3>1. q \in Entries(G)
      BY <2>4, <2>5 DEF Entries, Apart
    <3>2. ASSUME NEW k \in DOMAIN t, NEW l \in DOMAIN t, k # l
          PROVE  Apart(freed[k], freed[l])
      BY <2>5, <2>7, <3>2 DEF Sound, Apart
    <3>3. \A k \in DOMAIN t : freed[k] \in Entries(G)
      BY <2>7, <3>1 DEF Sound
    <3> QED
      BY <2>7, <3>2, <3>3 DEF Sound
  <2>9. InOrder(freed)
    <3>1. \A k \in DOMAIN t : /\ freed[k].addr_start = t[k].addr_start
                              /\ freed[k].addr_end = t[k].addr_end
      BY <2>5, <2>7
    <3> QED
      BY <2>7, <3>1 DEF InOrder, Empty
  <2>10. NoneTouchesFragment(Content(freed))
    <3>1. \A k \in DOMAIN t :
            /\ freed[k].addr_start = t[k].addr_start
            /\ freed[k].addr_end = t[k].addr_end
            /\ freed[k].type \notin OwnerTypes => t[k].type \notin OwnerTypes
      BY <2>4, <2>5, <2>7
    <3> QED
      BY <2>7, <3>1 DEF NoneTouchesFragment, Fragment, Content
  <2>11. /\ InOrder(u) /\ NoneTouchesFragment(Content(u))
         /\ \A x \in Content(freed) : x.type # "AVAILABLE" => x \in Content(u)
         /\ \A x \in Content(u) : x.type # "AVAILABLE" => x \in Content(freed)
         /\ \A a \in Nat : FreeAt(u, a) <=> FreeAt(freed, a)
    BY <2>7, <2>8, <2>9, <2>10, MergingOrders
  <2> HIDE DEF u
  <2>12. ASSUME NEW x \in Content(t), x # t[i], x.type # "AVAILABLE"
         PROVE  x \in Content(u)
    <3>1. PICK k \in DOMAIN t : x = t[k]
      BY DEF Content
    <3>2. x \in Content(freed)
      BY <2>7, <2>12, <3>1 DEF Content
    <3> QED
      BY <2>11, <2>12, <3>2
  <2>13. ASSUME NEW x \in Content(u), x.type # "AVAILABLE" PROVE x \in Content(t)
    <3>1. PICK k \in DOMAIN t : x = freed[k]
      BY <2>7, <2>11, <2>13 DEF Content
    <3> QED
      BY <2>5, <2>7, <2>13, <3>1 DEF Content
  <2>14. ASSUME NEW a \in Nat
         PROVE  FreeAt(freed, a) <=> \/ FreeAt(t, a)
                                     \/ t[i].addr_start <= a /\ a < t[i].addr_end
    BY <2>1, <2>3, <2>5, <2>7 DEF FreeAt
  <2>15. t[i] \in Content(t)
    BY <2>1 DEF Content
  <2>16. \A x \in Content(t) : x.type \notin {"AVAILABLE", "RESERVED"} => x \in Content(u)
    BY <2>3, <2>12
  <2>17. ASSUME NEW x \in Content(t), x.type = "RESERVED"
         PROVE  \/ x \in Content(u)
                \/ \A a \in Nat : x.addr_start <= a /\ a < x.addr_end => FreeAt(u, a)
    <3>1. CASE x = t[i]
      BY <2>11, <2>14, <3>1
    <3>2. CASE x # t[i]
      BY <2>12, <2>17, <3>2
    <3> QED
      BY <3>1, <3>2
  <2>18. ASSUME NEW a \in Nat
         PROVE  /\ FreeAt(t, a) => FreeAt(u, a)
                /\ FreeAt(u, a) =>
                     \/ FreeAt(t, a)
                     \/ \E x \in Content(t) : /\ x.type = "RESERVED"
                                              /\ x.addr_start <= a /\ a < x.addr_end
    BY <2>3, <2>11, <2>14, <2>15
  <2>19. Released(u, t)
    BY <2>11, <2>13, <2>16, <2>17, <2>18, Zenon DEF Released
  <2> QED
    BY <2>2, <2>19 DEF u
<1>3. CASE /\ above # {}
           /\ ~(t[i].addr_start = page /\ t[i].type = "RESERVED")
  <2>1. deallocate(t, addr) = t
    BY <1>3 DEF deallocate
  <2>2. Released(t, t)
    BY NothingReleased
  <2> QED
    BY <2>1, <2>2
<1> QED
  BY <1>1, <1>2, <1>3
==============================================================================
