----------------------------- MODULE LoopProofs -----------------------------
(***************************************************************************)
(* Facts about counting and division, used to reason about the C code.  A  *)
(* loop over a+1..m is a function on a..m that gives the state after each  *)
(* iteration.  Induction is over a set of numbers and not over a formula,  *)
(* which keeps every statement first-order.                                *)
(***************************************************************************)
EXTENDS Integers, FiniteSetsExt, Powers, WellFoundedInduction, TLAPS

(* Every nonempty set of natural numbers has a least element. *)
LEMMA LeastElement ==
  ASSUME NEW S \in SUBSET Nat, S # {}
  PROVE  \E x \in S : \A y \in S : x <= y
<1> DEFINE R == OpToRel(<, Nat)
<1>1. \A x, y \in Nat : x < y => <<x, y>> \in R
  BY DEF OpToRel
<1>2. PICK x \in S : \A y \in S : ~(<<y, x>> \in R)
  <2>1. IsWellFoundedOn(R, Nat)
    BY NatLessThanWellFounded
  <2> HIDE DEF R
  <2> QED
    BY <2>1, WFMin, Zenon
<1> HIDE DEF R
<1>3. ASSUME NEW y \in S PROVE x <= y
  <2>1. x \in Nat /\ y \in Nat /\ ~(y < x)
    BY <1>1, <1>2
  <2> QED
    BY <2>1
<1> QED
  BY <1>3

(* The first index for which something holds: what Min returns. *)
LEMMA MinIsLeast ==
  ASSUME NEW S \in SUBSET Nat, S # {}
  PROVE  Min(S) \in S /\ \A y \in S : Min(S) <= y
BY LeastElement DEF Min

(* The last index for which something holds: what Max returns.               *)
LEMMA MaxIsGreatest ==
  ASSUME NEW n \in Nat, NEW S \in SUBSET (0..n), S # {}
  PROVE  Max(S) \in S /\ \A y \in S : y <= Max(S)
<1> DEFINE D == {x \in Nat : \E y \in S : x = n - y}
<1>1. D \in SUBSET Nat /\ D # {}
  <2>1. PICK y \in S : y \in 0..n
    OBVIOUS
  <2>2. n - y \in D
    BY <2>1
  <2> QED
    BY <2>2
<1>2. PICK d \in D : \A e \in D : d <= e
  <2> HIDE DEF D
  <2> QED
    BY <1>1, LeastElement, Zenon
<1>3. PICK x \in S : d = n - x
  OBVIOUS
<1>4. \A y \in S : x >= y
  BY <1>2, <1>3
<1>5. \E z \in S : \A y \in S : z >= y
  BY <1>4
<1>6. Max(S) \in S /\ \A y \in S : Max(S) >= y
  BY <1>5, Zenon DEF Max
<1> QED
  BY <1>6

(* What holds before a loop and is kept by each iteration holds throughout. *)
LEMMA LoopInvariant ==
  ASSUME NEW a \in Nat, NEW m \in Nat, a <= m, NEW P \in SUBSET (a..m),
         a \in P, \A j \in (a + 1)..m : j - 1 \in P => j \in P
  PROVE  \A j \in a..m : j \in P
<1> SUFFICES ASSUME (a..m) \ P # {} PROVE FALSE
  OBVIOUS
<1>1. PICK x \in (a..m) \ P : \A y \in (a..m) \ P : x <= y
  <2>1. (a..m) \ P \in SUBSET Nat
    OBVIOUS
  <2> QED
    BY <2>1, LeastElement, Zenon
<1>2. x \in (a + 1)..m /\ x - 1 \in a..m
  OBVIOUS
<1>3. x - 1 \in P
  BY <1>1, <1>2
<1> QED
  BY <1>2, <1>3

\* f gives the state of a loop that starts in b and whose iteration j is G[j].
RunOf(f, a, m, b, G) ==
  f = [j \in a..m |-> IF j = a THEN b ELSE G[j][f[j - 1]]]

(* A loop has a run if its states go through sets S[a], ..., S[m]: each      *)
(* iteration's body maps the set before it to the one after it.  The run     *)
(* goes through these sets.                                                  *)
LEMMA LoopRunsThrough ==
  ASSUME NEW a \in Nat, NEW m \in Nat, a <= m, NEW S, NEW b \in S[a], NEW G,
         \A j \in (a + 1)..m : G[j] \in [S[j - 1] -> S[j]]
  PROVE  \E f : RunOf(f, a, m, b, G) /\ \A j \in a..m : f[j] \in S[j]
<1> DEFINE Run(k, f) ==
             /\ f = [j \in a..k |-> IF j = a THEN b ELSE G[j][f[j - 1]]]
             /\ \A j \in a..k : f[j] \in S[j]
           P == {k \in a..m : \E f : Run(k, f)}
<1>1. a \in P
  <2> DEFINE f == [j \in a..a |-> b]
  <2>1. Run(a, f)
    OBVIOUS
  <2>2. a \in a..m
    OBVIOUS
  <2> HIDE DEF f, Run
  <2> QED
    BY <2>1, <2>2
<1>2. ASSUME NEW k \in (a + 1)..m, k - 1 \in P
      PROVE  k \in P
  <2>1. PICK f : Run(k - 1, f)
    BY <1>2
  <2> DEFINE g == [j \in a..k |-> IF j = k THEN G[k][f[k - 1]] ELSE f[j]]
  <2>2. \A j \in a..k : g[j] \in S[j]
    <3>1. G[k] \in [S[k - 1] -> S[k]] /\ f[k - 1] \in S[k - 1]
      BY <2>1
    <3>2. G[k][f[k - 1]] \in S[k]
      BY <3>1
    <3>3. \A j \in a..k : j # k => f[j] \in S[j]
      BY <2>1
    <3> QED
      BY <3>2, <3>3
  <2>3. ASSUME NEW j \in a..k
        PROVE  g[j] = IF j = a THEN b ELSE G[j][g[j - 1]]
    <3>1. CASE j = k
      <4>1. k - 1 \in a..k /\ k - 1 # k /\ k # a
        OBVIOUS
      <4>2. g[k - 1] = f[k - 1] /\ g[k] = G[k][f[k - 1]]
        BY <4>1
      <4> HIDE DEF g
      <4> QED
        BY <3>1, <4>1, <4>2
    <3>2. CASE j # k
      <4>1. j \in a..(k - 1)
        BY <3>2
      <4>2. f[j] = IF j = a THEN b ELSE G[j][f[j - 1]]
        BY <2>1, <4>1
      <4>3. g[j] = f[j]
        BY <3>2
      <4>4. j # a => j - 1 \in a..k /\ j - 1 # k
        BY <4>1
      <4>5. j # a => g[j - 1] = f[j - 1]
        BY <4>4
      <4> HIDE DEF g
      <4> QED
        BY <4>2, <4>3, <4>5
    <3> QED
      BY <3>1, <3>2
  <2>4. g = [j \in a..k |-> IF j = a THEN b ELSE G[j][g[j - 1]]]
    BY <2>3
  <2>5. k \in a..m
    OBVIOUS
  <2>6. Run(k, g)
    <3> HIDE DEF g
    <3> QED
      BY <2>2, <2>4
  <2> HIDE DEF g, Run
  <2> QED
    BY <2>5, <2>6
<1>3. m \in P
  <2>1. P \in SUBSET (a..m)
    OBVIOUS
  <2> HIDE DEF P
  <2>2. \A j \in a..m : j \in P
    BY <1>1, <1>2, <2>1, LoopInvariant, Zenon
  <2> QED
    BY <2>2
<1>4. PICK f : Run(m, f)
  BY <1>3
<1> QED
  BY <1>4 DEF RunOf

(* The special case of one set.                                              *)
LEMMA LoopRuns ==
  ASSUME NEW S, NEW a \in Nat, NEW m \in Nat, a <= m, NEW b \in S,
         NEW G \in [(a + 1)..m -> [S -> S]]
  PROVE  \E f \in [a..m -> S] : RunOf(f, a, m, b, G)
<1> DEFINE T == [j \in a..m |-> S]
<1>1. b \in T[a] /\ \A j \in (a + 1)..m : G[j] \in [T[j - 1] -> T[j]]
  OBVIOUS
<1>2. \A j \in a..m : T[j] = S
  OBVIOUS
<1> HIDE DEF T
<1>3. PICK f : RunOf(f, a, m, b, G) /\ \A j \in a..m : f[j] \in T[j]
  BY <1>1, LoopRunsThrough
<1>4. f \in [a..m -> S]
  BY <1>2, <1>3 DEF RunOf
<1> QED
  BY <1>3, <1>4

------------------------------------------------------------------------------
(* Division with remainder, by any divisor.                                  *)
LEMMA Divide ==
  ASSUME NEW d \in Nat \ {0}, NEW x \in Nat
  PROVE  /\ x \div d \in Nat /\ x % d \in 0..(d - 1)
         /\ x = d * (x \div d) + (x % d)
OBVIOUS

LEMMA Quotient ==
  ASSUME NEW d \in Nat \ {0}, NEW q \in Nat, NEW r \in 0..(d - 1)
  PROVE  (d * q + r) \div d = q /\ (d * q + r) % d = r
OBVIOUS

LEMMA QuotientSmaller ==
  ASSUME NEW d \in Nat \ {0}, NEW x \in Nat
  PROVE  x \div d \in Nat /\ x \div d <= x
<1> DEFINE q == x \div d
           r == x % d
<1>1. q \in Nat /\ r \in Nat /\ x = d * q + r
  BY Divide
<1> HIDE DEF q, r
<1>2. q <= d * q + r
  BY <1>1
<1>3. q \in Nat /\ q <= x
  BY <1>1, <1>2
<1> QED
  BY <1>3 DEF q

(* Dividing twice is dividing by the product.                                *)
LEMMA DivideTwice ==
  \A x \in Nat : \A a, b \in Nat \ {0} : (x \div a) \div b = x \div (a * b)
<1> TAKE x \in Nat
<1> TAKE a, b \in Nat \ {0}
<1> DEFINE q == x \div a
           r == x % a
           p == q \div b
           o == q % b
<1>1. q \in Nat /\ r \in 0..(a - 1) /\ x = a * q + r
  BY Divide
<1>2. p \in Nat /\ o \in 0..(b - 1) /\ q = b * p + o
  <2> HIDE DEF q
  <2> QED
    BY <1>1, Divide
<1> HIDE DEF q, r, p, o
<1>3. a * b \in Nat \ {0}
  OBVIOUS
<1>4. a * o + r \in 0..(a * b - 1)
  <2>1. a * o \in Nat /\ a * (o + 1) = a * o + a
    BY <1>2
  <2>2. a * (o + 1) <= a * b
    BY <1>2
  <2> QED
    BY <1>1, <1>3, <2>1, <2>2
<1>5. x = (a * b) * p + (a * o + r)
  BY <1>1, <1>2
<1>6. x \div (a * b) = p
  <2> DEFINE d == a * b
             s == a * o + r
  <2> HIDE DEF d, s
  <2>1. d \in Nat \ {0} /\ s \in 0..(d - 1) /\ x = d * p + s
    BY <1>3, <1>4, <1>5 DEF d, s
  <2>2. x \div d = p
    BY <1>2, <2>1, Quotient
  <2> QED
    BY <2>2 DEF d
<1> QED
  BY <1>6 DEF p, q

(* The quotient is 0 below the divisor only.                                 *)
LEMMA DivideSmall ==
  ASSUME NEW x \in Nat, NEW d \in Nat \ {0}
  PROVE  x \div d = 0 <=> x < d
<1> DEFINE q == x \div d
<1>1. q \in Nat /\ x % d \in 0..(d - 1) /\ x = d * q + (x % d)
  BY Divide
<1>2. x < d => q = 0
  <2> SUFFICES ASSUME x < d PROVE q = 0
    OBVIOUS
  <2>1. x = d * 0 + x /\ x \in 0..(d - 1)
    OBVIOUS
  <2> QED
    BY <2>1, Quotient
<1> HIDE DEF q
<1>3. q = 0 => x < d
  <2> DEFINE r == x % d
  <2>1. q = 0 => x = d * 0 + r
    BY <1>1
  <2> HIDE DEF r
  <2> QED
    BY <1>1, <2>1 DEF r
<1> QED
  BY <1>2, <1>3 DEF q

------------------------------------------------------------------------------
(* Powers.                                                                   *)
LEMMA PowerRun ==
  ASSUME NEW b \in Nat \ {0}, NEW n \in Nat
  PROVE  \E f \in [0..n -> Nat \ {0}] :
           /\ f[0] = 1
           /\ \A j \in 1..n : f[j] = b * f[j - 1]
           /\ Power(b, n) = f[n]
<1> DEFINE S == Nat \ {0}
           B == [j \in 1..n |-> [x \in S |-> b * x]]
           power == CHOOSE f : f = [j \in 0..n |-> IF j = 0 THEN 1 ELSE b * f[j - 1]]
<1>1. PICK f \in [0..n -> S] : RunOf(f, 0, n, 1, B)
  <2>1. 1 \in S /\ 0 \in Nat /\ 0 <= n /\ B \in [(0 + 1)..n -> [S -> S]]
    OBVIOUS
  <2> HIDE DEF S, B
  <2> QED
    BY <2>1, LoopRuns
<1>2. f = [j \in 0..n |-> IF j = 0 THEN 1 ELSE b * f[j - 1]]
  <2>1. \A j \in 0..n : j # 0 => B[j][f[j - 1]] = b * f[j - 1]
    BY <1>1
  <2> HIDE DEF B
  <2> QED
    BY <1>1, <2>1 DEF RunOf
<1>3. power = [j \in 0..n |-> IF j = 0 THEN 1 ELSE b * power[j - 1]]
  BY <1>2, Zenon
<1>4. Power(b, n) = power[n]
  BY Zenon DEF Power
<1> HIDE DEF power
<1> DEFINE P == {j \in 0..n : power[j] = f[j]}
<1>5. 0 \in P
  BY <1>2, <1>3
<1>6. ASSUME NEW j \in (0 + 1)..n, j - 1 \in P PROVE j \in P
  <2>1. power[j] = b * power[j - 1] /\ f[j] = b * f[j - 1]
    BY <1>2, <1>3
  <2> QED
    BY <1>6, <2>1
<1>7. \A j \in 0..n : j \in P
  <2> HIDE DEF P
  <2>1. P \in SUBSET (0..n)
    BY DEF P
  <2>2. 0 \in Nat /\ 0 <= n
    OBVIOUS
  <2> QED
    BY <1>5, <1>6, <2>1, <2>2, LoopInvariant, Zenon
<1>8. power[n] = f[n]
  BY <1>7
<1>9. f[0] = 1 /\ \A j \in 1..n : f[j] = b * f[j - 1]
  BY <1>2
<1> QED
  BY <1>4, <1>8, <1>9

LEMMA PowerSteps ==
  ASSUME NEW b \in Nat \ {0}, NEW n \in Nat
  PROVE  /\ Power(b, n) \in Nat \ {0}
         /\ Power(b, 0) = 1
         /\ Power(b, n + 1) = b * Power(b, n)
<1>1. PICK f \in [0..n -> Nat \ {0}] :
        /\ f[0] = 1
        /\ \A j \in 1..n : f[j] = b * f[j - 1]
        /\ Power(b, n) = f[n]
  BY PowerRun
<1>2. PICK g \in [0..(n + 1) -> Nat \ {0}] :
        /\ g[0] = 1
        /\ \A j \in 1..(n + 1) : g[j] = b * g[j - 1]
        /\ Power(b, n + 1) = g[n + 1]
  <2>1. n + 1 \in Nat
    OBVIOUS
  <2> QED
    BY <2>1, PowerRun
<1>3. Power(b, 0) = 1
  <2>1. 0 \in Nat
    OBVIOUS
  <2> QED
    BY <2>1, PowerRun
<1> DEFINE P == {j \in 0..n : f[j] = g[j]}
<1>4. 0 \in P
  BY <1>1, <1>2
<1>5. ASSUME NEW j \in (0 + 1)..n, j - 1 \in P PROVE j \in P
  <2>1. f[j] = b * f[j - 1] /\ g[j] = b * g[j - 1]
    BY <1>1, <1>2
  <2> QED
    BY <1>5, <2>1
<1>6. \A j \in 0..n : j \in P
  <2> HIDE DEF P
  <2>1. P \in SUBSET (0..n)
    BY DEF P
  <2>2. 0 \in Nat /\ 0 <= n
    OBVIOUS
  <2> QED
    BY <1>4, <1>5, <2>1, <2>2, LoopInvariant, Zenon
<1>7. f[n] = g[n]
  BY <1>6
<1>8. g[n + 1] = b * g[n]
  BY <1>2
<1> QED
  BY <1>1, <1>2, <1>3, <1>7, <1>8

LEMMA PowerSum ==
  ASSUME NEW b \in Nat \ {0}, NEW m \in Nat, NEW n \in Nat
  PROVE  Power(b, m + n) = Power(b, m) * Power(b, n)
<1> DEFINE P == {j \in 0..n : Power(b, m + j) = Power(b, m) * Power(b, j)}
<1>1. 0 \in P
  BY PowerSteps
<1>2. ASSUME NEW j \in (0 + 1)..n, j - 1 \in P PROVE j \in P
  <2>1. /\ m + (j - 1) \in Nat /\ j - 1 \in Nat
        /\ (m + (j - 1)) + 1 = m + j /\ (j - 1) + 1 = j
    OBVIOUS
  <2>2. /\ Power(b, m + j) = b * Power(b, m + (j - 1))
        /\ Power(b, j) = b * Power(b, j - 1)
        /\ Power(b, m) \in Nat /\ Power(b, j - 1) \in Nat
    BY <2>1, PowerSteps
  <2>3. Power(b, m + (j - 1)) = Power(b, m) * Power(b, j - 1)
    BY <1>2
  <2>4. \A x, y \in Nat : b * (x * y) = x * (b * y)
    OBVIOUS
  <2> QED
    BY <2>2, <2>3, <2>4
<1>3. \A j \in 0..n : j \in P
  <2> HIDE DEF P
  <2>1. P \in SUBSET (0..n)
    BY DEF P
  <2>2. 0 \in Nat /\ 0 <= n
    OBVIOUS
  <2> QED
    BY <1>1, <1>2, <2>1, <2>2, LoopInvariant, Zenon
<1> QED
  BY <1>3
==============================================================================
