-------------------------- MODULE LedgerSumsProofs --------------------------
(***************************************************************************)
(* Facts about SumTo, for every table and every number of rows.  The       *)
(* induction on the number of rows is an argument by least counterexample  *)
(* (MinNat), which the provers can instantiate.                            *)
(***************************************************************************)
EXTENDS LedgerSums, WellFoundedInduction, TLAPS

(* A nonempty set of naturals has a least element.                         *)
LEMMA MinNat ==
    ASSUME NEW T \in SUBSET Nat, T # {}
    PROVE  \E m \in T : \A k \in T : m <= k
<1>1. PICK m \in T : \A k \in T : ~ (<<k, m>> \in OpToRel(<, Nat))
  BY WFMin, NatLessThanWellFounded, Zenon
<1>2. \A k \in T : ~(k < m)
  BY <1>1 DEF OpToRel
<1> QED
  BY <1>2

(* s is the function of partial sums of f up to n.                         *)
IsPartialSums(s, f, n) ==
    s = [i \in 0..n |-> IF i = 0 THEN 0 ELSE s[i - 1] + f[i]]

(* The recursive definition inside SumTo has a solution ...                *)
LEMMA PartialSumsExist ==
    ASSUME NEW f, NEW n \in Nat
    PROVE  \E s : IsPartialSums(s, f, n)
<1> DEFINE T == {k \in Nat : ~ \E s : IsPartialSums(s, f, k)}
<1>1. SUFFICES ASSUME T # {} PROVE FALSE
  OBVIOUS
<1>2. PICK m \in T : \A k \in T : m <= k
  BY MinNat, <1>1
<1>3. m # 0
  <2>1. IsPartialSums([i \in 0..0 |-> 0], f, 0)
    BY DEF IsPartialSums
  <2> QED
    BY <2>1
<1>4. PICK s : IsPartialSums(s, f, m - 1)
  <2>1. m - 1 \in Nat /\ m - 1 \notin T
    BY <1>2, <1>3
  <2> QED
    BY <2>1
<1>5. IsPartialSums([i \in 0..m |-> IF i = m THEN s[m - 1] + f[m] ELSE s[i]], f, m)
  BY <1>4, <1>3, m \in Nat DEF IsPartialSums
<1> QED
  BY <1>5, <1>2

(* ... and SumTo reads it off at n.                                        *)
LEMMA SumToIsPartialSum ==
    ASSUME NEW f, NEW n \in Nat
    PROVE  \E s : IsPartialSums(s, f, n) /\ SumTo(f, n) = s[n]
<1> DEFINE s0 == CHOOSE s : s = [i \in 0..n |-> IF i = 0 THEN 0 ELSE s[i - 1] + f[i]]
<1>1. SumTo(f, n) = s0[n]
  BY DEF SumTo
<1>2. IsPartialSums(s0, f, n)
  BY PartialSumsExist, Zenon DEF IsPartialSums
<1> QED
  BY <1>1, <1>2

(* Partial sums of one table agree wherever both are defined.              *)
LEMMA PartialSumsAgree ==
    ASSUME NEW f, NEW n \in Nat, NEW k \in Nat, n <= k,
           NEW s, NEW r, IsPartialSums(s, f, n), IsPartialSums(r, f, k)
    PROVE  \A i \in 0..n : s[i] = r[i]
<1> DEFINE T == {i \in 0..n : s[i] # r[i]}
<1>1. SUFFICES ASSUME T # {} PROVE FALSE
  OBVIOUS
<1> HIDE DEF T
<1>a. T \in SUBSET Nat
  BY DEF T
<1>2. PICK m \in T : \A j \in T : m <= j
  BY MinNat, <1>1, <1>a
<1>b. m \in 0..n /\ s[m] # r[m]
  BY <1>2 DEF T
<1>3. m # 0
  BY <1>b DEF IsPartialSums
<1>4. s[m - 1] = r[m - 1]
  BY <1>2, <1>b, <1>3 DEF T
<1>5. s[m] = s[m - 1] + f[m] /\ r[m] = r[m - 1] + f[m]
  BY <1>b, <1>3 DEF IsPartialSums
<1> QED
  BY <1>b, <1>4, <1>5

(* An empty table adds up to zero.                                         *)
LEMMA SumZero ==
    ASSUME NEW f
    PROVE  SumTo(f, 0) = 0
  BY SumToIsPartialSum DEF IsPartialSums

(* The last row is added to the sum of the rows before it.                 *)
LEMMA SumStep ==
    ASSUME NEW f, NEW n \in Nat, n # 0
    PROVE  SumTo(f, n) = SumTo(f, n - 1) + f[n]
<1>1. PICK s : IsPartialSums(s, f, n) /\ SumTo(f, n) = s[n]
  BY SumToIsPartialSum
<1>2. PICK r : IsPartialSums(r, f, n - 1) /\ SumTo(f, n - 1) = r[n - 1]
  BY SumToIsPartialSum
<1>3. s[n - 1] = r[n - 1]
  BY PartialSumsAgree, <1>1, <1>2, n - 1 \in Nat
<1> QED
  BY <1>1, <1>2, <1>3 DEF IsPartialSums

(* Sums are linear: if every row of g is the row of f plus the row of d,   *)
(* so is the sum.                                                          *)
LEMMA SumAdd ==
    ASSUME NEW n \in Nat, NEW f \in [1..n -> Int], NEW d \in [1..n -> Int],
           NEW g \in [1..n -> Int], \A i \in 1..n : g[i] = f[i] + d[i]
    PROVE  /\ SumTo(f, n) \in Int
           /\ SumTo(d, n) \in Int
           /\ SumTo(g, n) = SumTo(f, n) + SumTo(d, n)
<1> DEFINE Ok(m) == /\ SumTo(f, m) \in Int
                    /\ SumTo(d, m) \in Int
                    /\ SumTo(g, m) = SumTo(f, m) + SumTo(d, m)
           T == {m \in 0..n : ~Ok(m)}
<1>0. n \in 0..n
  OBVIOUS
<1>1. SUFFICES ASSUME T # {} PROVE FALSE
  BY <1>0
<1> HIDE DEF T, Ok
<1>a. T \in SUBSET Nat
  BY DEF T
<1>2. PICK m \in T : \A j \in T : m <= j
  BY MinNat, <1>1, <1>a
<1>b. m \in 0..n /\ ~Ok(m)
  BY <1>2 DEF T
<1>3. m # 0
  BY <1>b, SumZero DEF Ok
<1>4. Ok(m - 1)
  BY <1>2, <1>b, <1>3 DEF T
<1>5. /\ SumTo(f, m) = SumTo(f, m - 1) + f[m]
      /\ SumTo(d, m) = SumTo(d, m - 1) + d[m]
      /\ SumTo(g, m) = SumTo(g, m - 1) + g[m]
  <2>1. m \in Nat
    BY <1>b
  <2>2. SumTo(f, m) = SumTo(f, m - 1) + f[m]
    BY <2>1, <1>3, SumStep
  <2>3. SumTo(d, m) = SumTo(d, m - 1) + d[m]
    BY <2>1, <1>3, SumStep
  <2>4. SumTo(g, m) = SumTo(g, m - 1) + g[m]
    BY <2>1, <1>3, SumStep
  <2> QED
    BY <2>2, <2>3, <2>4
<1>6. f[m] \in Int /\ d[m] \in Int /\ g[m] = f[m] + d[m]
  BY <1>b, <1>3
<1>7. /\ SumTo(f, m - 1) \in Int
      /\ SumTo(d, m - 1) \in Int
      /\ SumTo(g, m - 1) = SumTo(f, m - 1) + SumTo(d, m - 1)
  BY <1>4 DEF Ok
<1>8. /\ SumTo(f, m) \in Int
      /\ SumTo(d, m) \in Int
      /\ SumTo(g, m) = SumTo(f, m) + SumTo(d, m)
  <2>1. ASSUME NEW a \in Int, NEW b \in Int, NEW x \in Int, NEW y \in Int
        PROVE  (a + b) + (x + y) = (a + x) + (b + y)
    BY <2>1
  <2>2. SumTo(f, m) \in Int /\ SumTo(d, m) \in Int
    BY <1>5, <1>6, <1>7
  <2>3. SumTo(g, m) = (SumTo(f, m - 1) + SumTo(d, m - 1)) + (f[m] + d[m])
    BY <1>5, <1>6, <1>7
  <2>4. SumTo(g, m) = (SumTo(f, m - 1) + f[m]) + (SumTo(d, m - 1) + d[m])
    BY <2>1, <2>3, <1>6, <1>7
  <2> QED
    BY <2>2, <2>4, <1>5
<1>9. Ok(m)
  BY <1>8 DEF Ok
<1> QED
  BY <1>b, <1>9

(* A sum of integers is an integer.                                        *)
LEMMA SumInt ==
    ASSUME NEW n \in Nat, NEW f \in [1..n -> Int]
    PROVE  SumTo(f, n) \in Int
<1> DEFINE z == [i \in 1..n |-> 0]
<1>1. z \in [1..n -> Int] /\ \A i \in 1..n : f[i] = f[i] + z[i]
  OBVIOUS
<1> QED
  BY <1>1, SumAdd

(* A sum of non-negative rows is non-negative.                             *)
LEMMA SumNonNegative ==
    ASSUME NEW n \in Nat, NEW f \in [1..n -> Nat]
    PROVE  SumTo(f, n) \in Nat
<1> DEFINE T == {m \in 0..n : SumTo(f, m) \notin Nat}
<1>1. SUFFICES ASSUME T # {} PROVE FALSE
  OBVIOUS
<1> HIDE DEF T
<1>a. T \in SUBSET Nat
  BY DEF T
<1>2. PICK m \in T : \A j \in T : m <= j
  BY MinNat, <1>1, <1>a
<1>b. m \in 0..n /\ SumTo(f, m) \notin Nat
  BY <1>2 DEF T
<1>3. m # 0
  BY <1>b, SumZero
<1>4. SumTo(f, m - 1) \in Nat
  BY <1>2, <1>b, <1>3 DEF T
<1>5. SumTo(f, m) = SumTo(f, m - 1) + f[m]
  BY <1>b, <1>3, SumStep
<1> QED
  BY <1>b, <1>3, <1>4, <1>5

(* Rows that are all zero add up to zero.                                  *)
LEMMA SumOfZeros ==
    ASSUME NEW n \in Nat, NEW f \in [1..n -> Int], \A i \in 1..n : f[i] = 0
    PROVE  SumTo(f, n) = 0
<1>1. \A i \in 1..n : f[i] = f[i] + f[i]
  OBVIOUS
<1>2. SumTo(f, n) \in Int /\ SumTo(f, n) = SumTo(f, n) + SumTo(f, n)
  BY <1>1, SumAdd
<1> QED
  BY <1>2

(* Equal rows have equal sums.                                             *)
LEMMA SumSame ==
    ASSUME NEW n \in Nat, NEW f \in [1..n -> Int], NEW g \in [1..n -> Int],
           \A i \in 1..n : f[i] = g[i]
    PROVE  SumTo(f, n) = SumTo(g, n)
<1>1. f = g
  OBVIOUS
<1> QED
  BY <1>1

(* Larger rows have a larger sum.                                          *)
LEMMA SumMonotonic ==
    ASSUME NEW n \in Nat, NEW f \in [1..n -> Int], NEW g \in [1..n -> Int],
           \A i \in 1..n : f[i] <= g[i]
    PROVE  SumTo(f, n) <= SumTo(g, n)
<1> DEFINE d == [i \in 1..n |-> g[i] - f[i]]
<1>1. d \in [1..n -> Int] /\ d \in [1..n -> Nat] /\ \A i \in 1..n : g[i] = f[i] + d[i]
  OBVIOUS
<1> HIDE DEF d
<1>2. SumTo(g, n) = SumTo(f, n) + SumTo(d, n) /\ SumTo(f, n) \in Int
  BY <1>1, SumAdd
<1>3. SumTo(d, n) \in Nat
  BY <1>1, SumNonNegative
<1> QED
  BY <1>2, <1>3

(* A table with one row that is not zero adds up to that row.              *)
LEMMA SumPoint ==
    ASSUME NEW n \in Nat, NEW f \in [1..n -> Int], NEW j \in 1..n,
           \A i \in 1..n : i # j => f[i] = 0
    PROVE  SumTo(f, n) = f[j]
<1> DEFINE T == {m \in 0..n : SumTo(f, m) # IF m < j THEN 0 ELSE f[j]}
<1>1. SUFFICES ASSUME T # {} PROVE FALSE
  OBVIOUS
<1> HIDE DEF T
<1>a. T \in SUBSET Nat
  BY DEF T
<1>2. PICK m \in T : \A k \in T : m <= k
  BY MinNat, <1>1, <1>a
<1>b. m \in 0..n /\ SumTo(f, m) # IF m < j THEN 0 ELSE f[j]
  BY <1>2 DEF T
<1>3. m # 0
  BY <1>b, SumZero
<1>4. SumTo(f, m - 1) = IF m - 1 < j THEN 0 ELSE f[j]
  BY <1>2, <1>b, <1>3 DEF T
<1>5. SumTo(f, m) = SumTo(f, m - 1) + f[m]
  BY <1>b, <1>3, SumStep
<1>6. f[j] \in Int /\ f[m] \in Int /\ (m # j => f[m] = 0)
  BY <1>b, <1>3
<1> QED
  BY <1>b, <1>3, <1>4, <1>5, <1>6

(* Changing one row changes the sum by as much.                            *)
LEMMA SumChangeOne ==
    ASSUME NEW n \in Nat, NEW f \in [1..n -> Int], NEW g \in [1..n -> Int],
           NEW j \in 1..n, \A i \in 1..n : i # j => g[i] = f[i]
    PROVE  SumTo(g, n) = SumTo(f, n) + (g[j] - f[j])
<1> DEFINE d == [i \in 1..n |-> g[i] - f[i]]
<1>1. d \in [1..n -> Int] /\ \A i \in 1..n : g[i] = f[i] + d[i]
  OBVIOUS
<1>2. \A i \in 1..n : i # j => d[i] = 0
  OBVIOUS
<1>d. d[j] = g[j] - f[j]
  OBVIOUS
<1> HIDE DEF d
<1>3. SumTo(g, n) = SumTo(f, n) + SumTo(d, n)
  BY <1>1, SumAdd
<1>4. SumTo(d, n) = d[j]
  BY <1>1, <1>2, SumPoint
<1> QED
  BY <1>3, <1>4, <1>d

(* No row of a table of non-negative rows is larger than the sum.          *)
LEMMA SumBoundsRow ==
    ASSUME NEW n \in Nat, NEW f \in [1..n -> Nat], NEW j \in 1..n
    PROVE  f[j] <= SumTo(f, n)
<1> DEFINE e == [i \in 1..n |-> IF i = j THEN f[j] ELSE 0]
<1>1. e \in [1..n -> Int] /\ f \in [1..n -> Int] /\ \A i \in 1..n : e[i] <= f[i]
  OBVIOUS
<1>2. \A i \in 1..n : i # j => e[i] = 0
  OBVIOUS
<1>3. e[j] = f[j]
  OBVIOUS
<1> HIDE DEF e
<1>4. SumTo(e, n) = f[j]
  BY <1>1, <1>2, <1>3, SumPoint
<1>5. SumTo(e, n) <= SumTo(f, n)
  BY <1>1, SumMonotonic
<1> QED
  BY <1>4, <1>5
=============================================================================
