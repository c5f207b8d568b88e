--------------------------- MODULE Regions_proofs ---------------------------
(***************************************************************************)
(* What the methods of DisjointMemoryRegion do to the addresses of a list, *)
(* and the cutting of a region into aligned powers of two.                 *)
(***************************************************************************)
EXTENDS Regions, SequenceTheorems, WellFoundedInduction, TLAPS

IntRegion == [base : Int, end : Int]

\* Removing one element of a sequence moves the later ones down.
LEMMA RemoveAtIs ==
  ASSUME NEW s \in Seq(IntRegion), NEW k \in DOMAIN s
  PROVE  /\ RemoveAt(s, k) \in Seq(IntRegion)
         /\ Len(RemoveAt(s, k)) = Len(s) - 1
         /\ \A i \in 1..Len(s) - 1 : RemoveAt(s, k)[i] = IF i < k THEN s[i] ELSE s[i + 1]
<1> DEFINE before == SubSeq(s, 1, k - 1)
           after == SubSeq(s, k + 1, Len(s))
<1>1. before \in Seq(IntRegion) /\ Len(before) = k - 1 /\ \A i \in 1..k - 1 : before[i] = s[i]
  OBVIOUS
<1>2. after \in Seq(IntRegion) /\ Len(after) = Len(s) - k /\ \A i \in 1..Len(s) - k : after[i] = s[k + i]
  OBVIOUS
<1>3. RemoveAt(s, k) = before \o after
  BY DEF RemoveAt
<1> HIDE DEF before, after
<1> QED
  BY <1>1, <1>2, <1>3

\* Inserting an element moves the later ones up.
LEMMA InsertAtIs ==
  ASSUME NEW s \in Seq(IntRegion), NEW k \in 1..Len(s) + 1, NEW x \in IntRegion
  PROVE  /\ InsertAt(s, k, x) \in Seq(IntRegion)
         /\ Len(InsertAt(s, k, x)) = Len(s) + 1
         /\ \A n \in 1..Len(s) + 1 :
              InsertAt(s, k, x)[n] = IF n < k THEN s[n] ELSE IF n = k THEN x ELSE s[n - 1]
<1> DEFINE before == SubSeq(s, 1, k - 1)
           after == SubSeq(s, k, Len(s))
<1>1. before \in Seq(IntRegion) /\ Len(before) = k - 1 /\ \A i \in 1..k - 1 : before[i] = s[i]
  OBVIOUS
<1>2. after \in Seq(IntRegion) /\ Len(after) = Len(s) - k + 1
        /\ \A i \in 1..Len(s) - k + 1 : after[i] = s[k + i - 1]
  OBVIOUS
<1>3. InsertAt(s, k, x) = before \o <<x>> \o after
  BY DEF InsertAt
<1> HIDE DEF before, after
<1> DEFINE start == before \o <<x>>
<1>4. start \in Seq(IntRegion) /\ Len(start) = k /\ \A i \in 1..k : start[i] = IF i < k THEN s[i] ELSE x
  BY <1>1
<1>5. InsertAt(s, k, x) = start \o after
  BY <1>3
<1> HIDE DEF start
<1> DEFINE all == start \o after
<1>6. all \in Seq(IntRegion) /\ Len(all) = Len(start) + Len(after)
        /\ \A i \in 1..Len(start) + Len(after) :
             all[i] = IF i <= Len(start) THEN start[i] ELSE after[i - Len(start)]
  BY <1>2, <1>4, ConcatProperties
<1> HIDE DEF all
<1>7. Len(all) = Len(s) + 1
  BY <1>2, <1>4, <1>6
<1>8. ASSUME NEW i \in 1..Len(s) + 1
      PROVE  all[i] = IF i < k THEN s[i] ELSE IF i = k THEN x ELSE s[i - 1]
  <2>1. CASE i <= k
    BY <2>1, <1>2, <1>4, <1>6
  <2>2. CASE i > k
    <3>1. all[i] = after[i - k] /\ i - k \in 1..Len(s) - k + 1
      BY <2>2, <1>2, <1>4, <1>6
    <3> QED
      BY <2>2, <3>1, <1>2
  <2> QED
    BY <2>1, <2>2
<1> QED
  BY <1>5, <1>6, <1>7, <1>8 DEF all

\* Replacing an element changes no other.
LEMMA ReplaceAtIs ==
  ASSUME NEW s \in Seq(IntRegion), NEW k \in DOMAIN s, NEW x \in IntRegion
  PROVE  /\ ReplaceAt(s, k, x) \in Seq(IntRegion)
         /\ Len(ReplaceAt(s, k, x)) = Len(s)
         /\ \A i \in 1..Len(s) : ReplaceAt(s, k, x)[i] = IF i = k THEN x ELSE s[i]
BY DEF ReplaceAt

\* A nonempty set of positions has a least one, so first fit finds a region.
LEMMA MinIsIn ==
  ASSUME NEW S \in SUBSET Nat, S # {}
  PROVE  Min(S) \in S /\ \A m \in S : Min(S) <= m
<1>1. PICK n \in S : \A m \in S : ~(<<m, n>> \in OpToRel(<, Nat))
  BY WFMin, NatLessThanWellFounded
<1>2. \A m \in S : ~(m < n)
  BY <1>1 DEF OpToRel
<1>3. \A m \in S : n <= m
  BY <1>2
<1> QED
  BY <1>3 DEF Min

\* The largest member of a bounded set of numbers is one of them.
LEMMA MaxIsIn ==
  ASSUME NEW S \in SUBSET Nat, S # {}, NEW bound \in Nat, \A m \in S : m <= bound
  PROVE  Max(S) \in S /\ \A m \in S : m <= Max(S)
<1> DEFINE above == {n \in Nat : \A m \in S : m <= n}
<1>1. above \in SUBSET Nat /\ above # {}
  OBVIOUS
<1>2. PICK n \in above : \A m \in above : ~(<<m, n>> \in OpToRel(<, Nat))
  BY <1>1, WFMin, NatLessThanWellFounded
<1>3. n \in Nat /\ (\A m \in S : m <= n) /\ \A m \in above : ~(m < n)
  BY <1>2 DEF OpToRel
<1>4. n \in S
  <2> SUFFICES ASSUME n \notin S PROVE FALSE
    OBVIOUS
  <2>1. \A m \in S : m \in Nat /\ m <= n /\ m # n
    BY <1>3
  <2>2. PICK j \in S : TRUE
    OBVIOUS
  <2>3. j \in Nat /\ j <= n /\ j # n
    BY <2>1, <2>2
  <2>4. n - 1 \in Nat
    BY <1>3, <2>3
  <2>5. \A m \in S : m <= n - 1
    BY <1>3, <2>1
  <2>6. n - 1 \in above
    BY <2>4, <2>5
  <2> QED
    BY <1>3, <2>6
<1>5. \A m \in S : n >= m
  BY <1>3
<1>6. Max(S) \in S /\ \A m \in S : Max(S) >= m
  BY <1>4, <1>5 DEF Max
<1> QED
  BY <1>6

-----------------------------------------------------------------------------
(* The addresses of a list *)

\* An address is covered if some region of the list has it.
LEMMA CoveredIs ==
  ASSUME NEW s, NEW a
  PROVE  a \in Covered(s) <=> \E n \in DOMAIN s : a \in Addresses(s[n])
BY DEF Covered

\* A list whose regions are pieces of the regions of a disjoint list, f giving the region of
\* each piece, is disjoint if the pieces of one region are.
LEMMA PiecesDisjoint ==
  ASSUME NEW s, NEW t, PairwiseDisjoint(s), NEW f \in [DOMAIN t -> DOMAIN s],
         \A n \in DOMAIN t : Addresses(t[n]) \subseteq Addresses(s[f[n]]),
         \A m, n \in DOMAIN t :
           m # n /\ f[m] = f[n] => Addresses(t[m]) \cap Addresses(t[n]) = {}
  PROVE  PairwiseDisjoint(t)
<1> SUFFICES ASSUME NEW m \in DOMAIN t, NEW n \in DOMAIN t, m # n
             PROVE  Addresses(t[m]) \cap Addresses(t[n]) = {}
  BY DEF PairwiseDisjoint
<1>1. CASE f[m] = f[n]
  BY <1>1
<1>2. CASE f[m] # f[n]
  <2>1. Addresses(s[f[m]]) \cap Addresses(s[f[n]]) = {}
    BY <1>2 DEF PairwiseDisjoint
  <2> QED
    BY <2>1
<1> QED
  BY <1>1, <1>2

\* t is s with the addresses X taken out of its region k: f gives the region of s that each
\* region of t is a piece of.
Pieces(s, t, k, X, f) ==
  /\ k \in DOMAIN s /\ X \subseteq Addresses(s[k])
  /\ f \in [DOMAIN t -> DOMAIN s]
  /\ \A n \in DOMAIN t : f[n] # k => Addresses(t[n]) = Addresses(s[f[n]])
  /\ \A n \in DOMAIN t : f[n] = k => Addresses(t[n]) \subseteq Addresses(s[k]) \ X
  /\ \A m, n \in DOMAIN t :
       m # n /\ f[m] = f[n] => f[m] = k /\ Addresses(t[m]) \cap Addresses(t[n]) = {}
  /\ \A m \in DOMAIN s : m # k => \E n \in DOMAIN t : f[n] = m
  /\ \A a \in Addresses(s[k]) \ X : \E n \in DOMAIN t : a \in Addresses(t[n])

\* Such a list is disjoint if s is, and lost exactly X.
LEMMA PiecesExact ==
  ASSUME NEW s, NEW t, NEW k, NEW X, NEW f, Pieces(s, t, k, X, f), PairwiseDisjoint(s)
  PROVE  /\ PairwiseDisjoint(t)
         /\ Covered(t) = Covered(s) \ X
<1> USE DEF Pieces
<1>1. PairwiseDisjoint(t)
  <2>1. \A n \in DOMAIN t : Addresses(t[n]) \subseteq Addresses(s[f[n]])
    OBVIOUS
  <2> QED
    BY <2>1, PiecesDisjoint
<1>2. ASSUME NEW n \in DOMAIN s, n # k
      PROVE  Addresses(s[n]) \cap X = {}
  BY <1>2 DEF PairwiseDisjoint
<1>3. ASSUME NEW a \in Covered(t)
      PROVE  a \in Covered(s) \ X
  <2>1. PICK n \in DOMAIN t : a \in Addresses(t[n])
    BY <1>3, CoveredIs
  <2>2. f[n] \in DOMAIN s
    OBVIOUS
  <2>3. CASE f[n] = k
    BY <2>1, <2>2, <2>3, CoveredIs
  <2>4. CASE f[n] # k
    BY <2>1, <2>2, <2>4, <1>2, CoveredIs
  <2> QED
    BY <2>3, <2>4
<1>4. ASSUME NEW a \in Covered(s) \ X
      PROVE  a \in Covered(t)
  <2>1. PICK m \in DOMAIN s : a \in Addresses(s[m])
    BY <1>4, CoveredIs
  <2>2. \E n \in DOMAIN t : a \in Addresses(t[n])
    <3>1. CASE m = k
      BY <2>1, <3>1, <1>4
    <3>2. CASE m # k
      <4>1. PICK n \in DOMAIN t : f[n] = m
        BY <3>2
      <4> QED
        BY <4>1, <3>2, <2>1
    <3> QED
      BY <3>1, <3>2
  <2> QED
    BY <2>2, CoveredIs
<1> QED
  BY <1>1, <1>3, <1>4

\* Cutting b..e-1 out of the region that holds it removes these addresses and no other,
\* and the regions stay disjoint (util.py:159-171).
LEMMA CutExact ==
  ASSUME NEW s \in Seq(IntRegion), NEW k \in DOMAIN s, NEW b \in Int, NEW e \in Int,
         s[k].base <= b, b <= e, e <= s[k].end,
         PairwiseDisjoint(s)
  PROVE  /\ Cut(s, k, b, e) \in Seq(IntRegion)
         /\ PairwiseDisjoint(Cut(s, k, b, e))
         /\ Covered(Cut(s, k, b, e)) = Covered(s) \ (b..e - 1)
<1> DEFINE t == Cut(s, k, b, e)
           X == b..e - 1
           low == MemoryRegion(s[k].base, b)
           high == MemoryRegion(e, s[k].end)
<1>1. s[k] \in IntRegion /\ Len(s) \in Nat /\ DOMAIN s = 1..Len(s) /\ k \in 1..Len(s)
  OBVIOUS
<1>2. low \in IntRegion /\ high \in IntRegion
  BY <1>1 DEF IntRegion, MemoryRegion
<1>3. /\ Addresses(low) \cap Addresses(high) = {}
      /\ Addresses(low) \subseteq Addresses(s[k]) \ X
      /\ Addresses(high) \subseteq Addresses(s[k]) \ X
      /\ Addresses(s[k]) \ X = Addresses(low) \cup Addresses(high)
      /\ s[k].base = b => Addresses(low) = {}
      /\ s[k].end = e => Addresses(high) = {}
  BY SMTT(40), <1>1, <1>2 DEF Addresses, MemoryRegion, IntRegion
<1>4. X \subseteq Addresses(s[k])
  BY <1>1 DEF Addresses, IntRegion
<1> SUFFICES t \in Seq(IntRegion) /\ PairwiseDisjoint(t) /\ Covered(t) = Covered(s) \ X
  OBVIOUS
<1>5. CASE s[k].base = b /\ s[k].end = e
  <2> DEFINE f == [n \in 1..Len(s) - 1 |-> IF n < k THEN n ELSE n + 1]
  <2>1. t = RemoveAt(s, k)
    BY <1>5 DEF Cut
  <2>2. Addresses(s[k]) \ X = {}
    BY <1>3, <1>5
  <2> HIDE DEF t, X, low, high
  <2>3. /\ t \in Seq(IntRegion) /\ Len(t) = Len(s) - 1
        /\ \A n \in 1..Len(s) - 1 : t[n] = IF n < k THEN s[n] ELSE s[n + 1]
    BY <2>1, RemoveAtIs
  <2>4. DOMAIN t = 1..Len(s) - 1
    BY <2>3
  <2>5. f \in [DOMAIN t -> DOMAIN s]
    BY <1>1, <2>4
  <2>6. \A n \in DOMAIN t : f[n] # k /\ t[n] = s[f[n]]
    BY <1>1, <2>3, <2>4
  <2>7. \A m, n \in DOMAIN t : m # n => f[m] # f[n]
    BY <1>1, <2>4
  <2>8. ASSUME NEW m \in DOMAIN s, m # k
        PROVE  \E n \in DOMAIN t : f[n] = m
    <3> DEFINE n == IF m < k THEN m ELSE m - 1
    <3>1. n \in DOMAIN t /\ f[n] = m
      BY <1>1, <2>4, <2>8
    <3> QED
      BY <3>1
  <2> HIDE DEF f
  <2>9. /\ \A n \in DOMAIN t : f[n] # k => Addresses(t[n]) = Addresses(s[f[n]])
        /\ \A n \in DOMAIN t : f[n] = k => Addresses(t[n]) \subseteq Addresses(s[k]) \ X
        /\ \A m, n \in DOMAIN t :
             m # n /\ f[m] = f[n] => f[m] = k /\ Addresses(t[m]) \cap Addresses(t[n]) = {}
        /\ \A m \in DOMAIN s : m # k => \E n \in DOMAIN t : f[n] = m
        /\ \A a \in Addresses(s[k]) \ X : \E n \in DOMAIN t : a \in Addresses(t[n])
    BY <2>2, <2>6, <2>7, <2>8
  <2>10. Pieces(s, t, k, X, f)
    BY <1>1, <1>4, <2>5, <2>9 DEF Pieces
  <2> QED
    BY <2>3, <2>10, PiecesExact
<1>6. CASE ~(s[k].base = b /\ s[k].end = e) /\ (s[k].base = b \/ s[k].end = e)
  <2> DEFINE r == IF s[k].base = b THEN high ELSE low
  <2>1. t = ReplaceAt(s, k, r)
    BY <1>6 DEF Cut
  <2>2. r \in IntRegion /\ Addresses(r) = Addresses(s[k]) \ X
    BY <1>2, <1>3, <1>6
  <2> HIDE DEF t, X, r, low, high
  <2>3. /\ t \in Seq(IntRegion) /\ Len(t) = Len(s)
        /\ \A n \in 1..Len(s) : t[n] = IF n = k THEN r ELSE s[n]
    <3>1. /\ ReplaceAt(s, k, r) \in Seq(IntRegion) /\ Len(ReplaceAt(s, k, r)) = Len(s)
          /\ \A n \in 1..Len(s) : ReplaceAt(s, k, r)[n] = IF n = k THEN r ELSE s[n]
      BY <2>2, ReplaceAtIs
    <3> QED
      BY <2>1, <3>1
  <2>4. DOMAIN t = DOMAIN s
    BY <1>1, <2>3
  <2> DEFINE f == [n \in DOMAIN s |-> n]
  <2>5. f \in [DOMAIN t -> DOMAIN s] /\ \A n \in DOMAIN t : f[n] = n
    BY <2>4
  <2> HIDE DEF f
  <2>6. /\ \A n \in DOMAIN t : f[n] # k => Addresses(t[n]) = Addresses(s[f[n]])
        /\ \A n \in DOMAIN t : f[n] = k => Addresses(t[n]) \subseteq Addresses(s[k]) \ X
        /\ \A m, n \in DOMAIN t :
             m # n /\ f[m] = f[n] => f[m] = k /\ Addresses(t[m]) \cap Addresses(t[n]) = {}
        /\ \A m \in DOMAIN s : m # k => \E n \in DOMAIN t : f[n] = m
        /\ \A a \in Addresses(s[k]) \ X : \E n \in DOMAIN t : a \in Addresses(t[n])
    BY <1>1, <2>2, <2>3, <2>4, <2>5
  <2>7. Pieces(s, t, k, X, f)
    BY <1>1, <1>4, <2>5, <2>6 DEF Pieces
  <2> QED
    BY <2>3, <2>7, PiecesExact
<1>7. CASE s[k].base # b /\ s[k].end # e
  <2> DEFINE u == ReplaceAt(s, k, low)
  <2>1. t = InsertAt(u, k + 1, high)
    BY <1>7 DEF Cut
  <2> HIDE DEF t, X, low, high
  <2>2. /\ u \in Seq(IntRegion) /\ Len(u) = Len(s)
        /\ \A n \in 1..Len(s) : u[n] = IF n = k THEN low ELSE s[n]
    BY <1>2, ReplaceAtIs
  <2> HIDE DEF u
  <2>3. k + 1 \in 1..Len(u) + 1
    BY <1>1, <2>2
  <2>4. /\ t \in Seq(IntRegion) /\ Len(t) = Len(u) + 1
        /\ \A n \in 1..Len(u) + 1 :
             t[n] = IF n < k + 1 THEN u[n] ELSE IF n = k + 1 THEN high ELSE u[n - 1]
    <3> DEFINE v == InsertAt(u, k + 1, high)
    <3>1. /\ v \in Seq(IntRegion) /\ Len(v) = Len(u) + 1
          /\ \A n \in 1..Len(u) + 1 :
               v[n] = IF n < k + 1 THEN u[n] ELSE IF n = k + 1 THEN high ELSE u[n - 1]
      BY <1>2, <2>2, <2>3, InsertAtIs
    <3> QED
      BY <2>1, <3>1
  <2>5. DOMAIN t = 1..Len(s) + 1
    BY <1>1, <2>2, <2>4
  <2>6. t[k] = low /\ t[k + 1] = high /\ k \in DOMAIN t /\ k + 1 \in DOMAIN t
    <3>1. k \in 1..Len(u) + 1 /\ k < k + 1 /\ k \in DOMAIN t /\ k + 1 \in DOMAIN t
      BY <1>1, <2>2, <2>5
    <3>2. t[k] = u[k] /\ u[k] = low
      BY <1>1, <2>2, <2>4, <3>1
    <3>3. t[k + 1] = high
      BY <1>1, <2>3, <2>4
    <3> QED
      BY <3>1, <3>2, <3>3
  <2> DEFINE f == [n \in 1..Len(s) + 1 |-> IF n <= k THEN n ELSE n - 1]
  <2>7. f \in [DOMAIN t -> DOMAIN s]
    BY <1>1, <2>5
  <2>8. \A n \in DOMAIN t : f[n] = k => n = k \/ n = k + 1
    BY <1>1, <2>5
  <2>9. ASSUME NEW n \in DOMAIN t, f[n] # k
        PROVE  t[n] = s[f[n]]
    <3>1. CASE n < k
      <4>1. n \in 1..Len(s) /\ n \in 1..Len(u) + 1 /\ n < k + 1 /\ f[n] = n
        BY <1>1, <2>2, <2>5, <3>1
      <4>2. t[n] = u[n] /\ u[n] = s[n]
        BY <1>1, <2>2, <2>4, <3>1, <4>1
      <4> QED
        BY <4>1, <4>2
    <3>2. CASE n > k + 1
      <4>1. /\ n \in 1..Len(u) + 1 /\ ~(n < k + 1) /\ n # k + 1
            /\ n - 1 \in 1..Len(s) /\ n - 1 # k /\ f[n] = n - 1
        BY <1>1, <2>2, <2>5, <3>2
      <4>2. t[n] = u[n - 1]
        BY <2>4, <4>1
      <4>3. u[n - 1] = s[n - 1]
        BY <2>2, <4>1
      <4> QED
        BY <4>1, <4>2, <4>3
    <3> QED
      BY <1>1, <2>5, <2>9, <3>1, <3>2
  <2>10. \A m, n \in DOMAIN t : m # n /\ f[m] = f[n] => f[m] = k
    BY <1>1, <2>5
  <2>11. ASSUME NEW m \in DOMAIN s, m # k
         PROVE  \E n \in DOMAIN t : f[n] = m
    <3> DEFINE n == IF m < k THEN m ELSE m + 1
    <3>1. n \in DOMAIN t /\ f[n] = m
      BY <1>1, <2>5, <2>11
    <3> QED
      BY <3>1
  <2> HIDE DEF f
  <2>12. \A m, n \in DOMAIN t :
           m # n /\ f[m] = f[n] => f[m] = k /\ Addresses(t[m]) \cap Addresses(t[n]) = {}
    <3> SUFFICES ASSUME NEW m \in DOMAIN t, NEW n \in DOMAIN t, m # n, f[m] = f[n]
                 PROVE  f[m] = k /\ Addresses(t[m]) \cap Addresses(t[n]) = {}
      OBVIOUS
    <3>1. f[m] = k
      BY <2>10
    <3>2. (m = k /\ n = k + 1) \/ (m = k + 1 /\ n = k)
      BY <2>8, <3>1
    <3> QED
      BY <1>3, <2>6, <3>1, <3>2
  <2>13. /\ \A n \in DOMAIN t : f[n] # k => Addresses(t[n]) = Addresses(s[f[n]])
         /\ \A n \in DOMAIN t : f[n] = k => Addresses(t[n]) \subseteq Addresses(s[k]) \ X
         /\ \A m \in DOMAIN s : m # k => \E n \in DOMAIN t : f[n] = m
         /\ \A a \in Addresses(s[k]) \ X : \E n \in DOMAIN t : a \in Addresses(t[n])
    BY <1>3, <2>6, <2>8, <2>9, <2>11
  <2>14. Pieces(s, t, k, X, f)
    BY <1>1, <1>4, <2>7, <2>12, <2>13 DEF Pieces
  <2> QED
    BY <2>4, <2>14, PiecesExact
<1> QED
  BY <1>5, <1>6, <1>7

\* A region that overlaps nothing can be put anywhere in a list.
LEMMA InsertAtExact ==
  ASSUME NEW s \in Seq(IntRegion), NEW i \in 1..Len(s) + 1, NEW x \in IntRegion,
         PairwiseDisjoint(s), Addresses(x) \cap Covered(s) = {}
  PROVE  /\ InsertAt(s, i, x) \in Seq(IntRegion)
         /\ PairwiseDisjoint(InsertAt(s, i, x))
         /\ Covered(InsertAt(s, i, x)) = Covered(s) \cup Addresses(x)
<1>1. Len(s) \in Nat /\ DOMAIN s = 1..Len(s)
  OBVIOUS
<1>2. s \in Seq(IntRegion) /\ i \in 1..Len(s) + 1 /\ x \in IntRegion
  OBVIOUS
<1> DEFINE t == InsertAt(s, i, x)
<1>3. /\ t \in Seq(IntRegion) /\ Len(t) = Len(s) + 1
      /\ \A n \in 1..Len(s) + 1 : t[n] = IF n < i THEN s[n] ELSE IF n = i THEN x ELSE s[n - 1]
  BY <1>2, InsertAtIs
<1> HIDE DEF t
<1> DEFINE f == [n \in 1..Len(s) + 1 |-> IF n < i THEN n ELSE n - 1]
<1>4. DOMAIN t = 1..Len(s) + 1 /\ i \in DOMAIN t /\ t[i] = x
  BY <1>1, <1>3
<1>5. \A n \in DOMAIN t : n # i => f[n] \in DOMAIN s /\ t[n] = s[f[n]]
  BY <1>1, <1>3, <1>4
<1>6. \A m, n \in DOMAIN t : m # n /\ m # i /\ n # i => f[m] # f[n]
  BY <1>1, <1>4
<1>7. ASSUME NEW m \in DOMAIN s
      PROVE  \E n \in DOMAIN t : n # i /\ f[n] = m
  <2> DEFINE n == IF m < i THEN m ELSE m + 1
  <2>1. n \in DOMAIN t /\ n # i /\ f[n] = m
    BY <1>1, <1>4
  <2> QED
    BY <2>1
<1> HIDE DEF f
<1>8. \A n \in DOMAIN s : Addresses(s[n]) \cap Addresses(x) = {}
  BY CoveredIs
<1>9. PairwiseDisjoint(t)
  <2> SUFFICES ASSUME NEW m \in DOMAIN t, NEW n \in DOMAIN t, m # n
               PROVE  Addresses(t[m]) \cap Addresses(t[n]) = {}
    BY DEF PairwiseDisjoint
  <2>1. CASE m = i
    BY <1>4, <1>5, <1>8, <2>1
  <2>2. CASE n = i
    BY <1>4, <1>5, <1>8, <2>2
  <2>3. CASE m # i /\ n # i
    BY <1>5, <1>6, <2>3 DEF PairwiseDisjoint
  <2> QED
    BY <2>1, <2>2, <2>3
<1>10. Covered(t) = Covered(s) \cup Addresses(x)
  <2>1. ASSUME NEW a \in Covered(t)
        PROVE  a \in Covered(s) \cup Addresses(x)
    <3>1. PICK n \in DOMAIN t : a \in Addresses(t[n])
      BY <2>1, CoveredIs
    <3> QED
      BY <3>1, <1>4, <1>5, CoveredIs
  <2>2. ASSUME NEW a \in Covered(s)
        PROVE  a \in Covered(t)
    <3>1. PICK m \in DOMAIN s : a \in Addresses(s[m])
      BY <2>2, CoveredIs
    <3>2. PICK n \in DOMAIN t : n # i /\ f[n] = m
      BY <1>7
    <3> QED
      BY <3>1, <3>2, <1>5, CoveredIs
  <2>3. Addresses(x) \subseteq Covered(t)
    BY <1>4, CoveredIs
  <2> QED
    BY <2>1, <2>2, <2>3
<1> QED
  BY <1>3, <1>9, <1>10 DEF t

\* Inserting a region that overlaps nothing adds its addresses (util.py:140-150).
LEMMA InsertExact ==
  ASSUME NEW s \in Seq(IntRegion), NEW b \in Int, NEW e \in Int,
         PairwiseDisjoint(s), (b..e - 1) \cap Covered(s) = {}
  PROVE  /\ InsertRegion(s, b, e).regions \in Seq(IntRegion)
         /\ PairwiseDisjoint(InsertRegion(s, b, e).regions)
         /\ Covered(InsertRegion(s, b, e).regions) = Covered(s) \cup (b..e - 1)
<1> DEFINE above == {n \in DOMAIN s : e < s[n].base}
           x == MemoryRegion(b, e)
<1>1. PICK i : i = IF above = {} THEN Len(s) + 1 ELSE Min(above)
  OBVIOUS
<1>2. i \in 1..Len(s) + 1
  <2>1. Len(s) \in Nat /\ DOMAIN s = 1..Len(s)
    OBVIOUS
  <2>2. CASE above = {}
    BY <1>1, <2>1, <2>2
  <2>3. CASE above # {}
    <3>1. above \in SUBSET Nat
      BY <2>1
    <3>2. i \in above
      BY <1>1, <2>3, <3>1, MinIsIn
    <3> QED
      BY <2>1, <3>2
  <2> QED
    BY <2>2, <2>3
<1>3. x \in IntRegion /\ Addresses(x) = b..e - 1
  BY DEF MemoryRegion, IntRegion, Addresses
<1>4. InsertRegion(s, b, e).regions = InsertAt(s, i, x)
  BY <1>1 DEF InsertRegion, Result
<1> HIDE DEF x
<1> QED
  BY <1>2, <1>3, <1>4, InsertAtExact

\* Removing addresses that one region holds takes exactly these; otherwise nothing
\* changes and remove_region raises (util.py:152-173).
THEOREM RemoveExact ==
  ASSUME NEW s \in Seq(IntRegion), NEW b \in Int, NEW e \in Int, b <= e, PairwiseDisjoint(s)
  PROVE  /\ RemoveRegion(s, b, e).regions \in Seq(IntRegion)
         /\ PairwiseDisjoint(RemoveRegion(s, b, e).regions)
         /\ Holding(s, b, e) = {} => /\ RemoveRegion(s, b, e).regions = s
                                     /\ RemoveRegion(s, b, e).raised = "not covered"
         /\ Holding(s, b, e) # {} =>
              /\ b..e - 1 \subseteq Covered(s)
              /\ Covered(RemoveRegion(s, b, e).regions) = Covered(s) \ (b..e - 1)
<1>1. CASE Holding(s, b, e) = {}
  BY <1>1 DEF RemoveRegion
<1>2. CASE Holding(s, b, e) # {}
  <2> DEFINE k == Min(Holding(s, b, e))
  <2>1. Holding(s, b, e) \in SUBSET Nat
    BY DEF Holding
  <2>2. k \in Holding(s, b, e)
    BY <1>2, <2>1, MinIsIn
  <2>3. k \in DOMAIN s /\ s[k].base <= b /\ e <= s[k].end
    BY <2>2 DEF Holding
  <2>4. RemoveRegion(s, b, e).regions = Cut(s, k, b, e)
    BY <1>2 DEF RemoveRegion, Result
  <2> HIDE DEF k
  <2>5. s[k] \in IntRegion
    BY <2>3
  <2>6. b..e - 1 \subseteq Addresses(s[k])
    BY <2>3, <2>5 DEF Addresses, IntRegion
  <2>7. b..e - 1 \subseteq Covered(s)
    BY <2>3, <2>6, CoveredIs
  <2>8. /\ Cut(s, k, b, e) \in Seq(IntRegion)
        /\ PairwiseDisjoint(Cut(s, k, b, e))
        /\ Covered(Cut(s, k, b, e)) = Covered(s) \ (b..e - 1)
    BY <2>3, CutExact
  <2> QED
    BY <1>2, <2>4, <2>7, <2>8
<1> QED
  BY <1>1, <1>2

\* allocate_from takes what it returns out of the free addresses (util.py:200-209).
LEMMA AllocateExact ==
  ASSUME NEW s \in Seq(IntRegion), NEW size \in Nat, NEW lower \in Int, PairwiseDisjoint(s),
         Fitting(s, size, lower) # {},
         NEW b, b = AllocatedBase(s, size, lower)
  PROVE  /\ b \in Int /\ lower <= b
         /\ AllocateFrom(s, size, lower).regions \in Seq(IntRegion)
         /\ PairwiseDisjoint(AllocateFrom(s, size, lower).regions)
         /\ b..b + size - 1 \subseteq Covered(s)
         /\ Covered(AllocateFrom(s, size, lower).regions) = Covered(s) \ (b..b + size - 1)
<1> DEFINE n == Min(Fitting(s, size, lower))
<1>1. Fitting(s, size, lower) \in SUBSET Nat
  BY DEF Fitting
<1>2. n \in Fitting(s, size, lower)
  BY <1>1, MinIsIn
<1>3. n \in DOMAIN s /\ size <= Size(s[n]) /\ s[n].base >= lower
  BY <1>2 DEF Fitting
<1>4. b = s[n].base
  BY DEF AllocatedBase
<1> HIDE DEF n
<1>5. s[n] \in IntRegion
  BY <1>3
<1>6. b \in Int /\ b + size <= s[n].end /\ lower <= b
  BY <1>3, <1>4, <1>5 DEF Size, IntRegion
<1>7. Holding(s, b, b + size) # {}
  BY <1>3, <1>4, <1>6 DEF Holding
<1>8. AllocateFrom(s, size, lower) = RemoveRegion(s, b, b + size)
  BY DEF AllocateFrom
<1>9. b + size \in Int /\ b <= b + size
  BY <1>6
<1> DEFINE e == b + size
<1>10. e \in Int /\ b <= e /\ Holding(s, b, e) # {}
  BY <1>7, <1>9
<1> HIDE DEF e
<1>11. /\ RemoveRegion(s, b, e).regions \in Seq(IntRegion)
       /\ PairwiseDisjoint(RemoveRegion(s, b, e).regions)
       /\ b..e - 1 \subseteq Covered(s)
       /\ Covered(RemoveRegion(s, b, e).regions) = Covered(s) \ (b..e - 1)
  BY <1>6, <1>10, RemoveExact
<1> QED
  BY <1>6, <1>8, <1>11 DEF e

-----------------------------------------------------------------------------
(* The order of a list, and what one region of it holds *)

\* The regions of a list after a cut: those of the list, and what is left of the cut one on
\* either side of the hole; a list in order stays in order, so _check does not fail
\* (util.py:128-138, 152-173).
LEMMA CutIs ==
  ASSUME NEW s \in Seq(IntRegion), NEW k \in DOMAIN s, NEW b \in Int, NEW e \in Int,
         s[k].base <= b, b <= e, e <= s[k].end,
         NEW t, t = Cut(s, k, b, e)
  PROVE  /\ t \in Seq(IntRegion)
         /\ \A m \in DOMAIN t : \E n \in DOMAIN s : s[n].base <= t[m].base /\ t[m].end <= s[n].end
         /\ \A n \in DOMAIN s : n # k => \E m \in DOMAIN t : t[m] = s[n]
         /\ b # s[k].base => \E m \in DOMAIN t : t[m] = MemoryRegion(s[k].base, b)
         /\ e # s[k].end => \E m \in DOMAIN t : t[m] = MemoryRegion(e, s[k].end)
         /\ Check(s) => Check(t)
<1> DEFINE low == MemoryRegion(s[k].base, b)
           high == MemoryRegion(e, s[k].end)
<1>1. Len(s) \in Nat /\ DOMAIN s = 1..Len(s) /\ k \in 1..Len(s)
  OBVIOUS
<1>2. \A n \in DOMAIN s : s[n] \in IntRegion /\ s[n].base \in Int /\ s[n].end \in Int
  <2> TAKE n \in DOMAIN s
  <2>1. s[n] \in IntRegion
    OBVIOUS
  <2> QED
    BY <2>1 DEF IntRegion
<1>3. /\ low \in IntRegion /\ low.base = s[k].base /\ low.end = b
      /\ high \in IntRegion /\ high.base = e /\ high.end = s[k].end
  BY <1>2 DEF IntRegion, MemoryRegion
<1>4. Check(s) <=> \A n \in 1..Len(s) - 1 : s[n + 1].base >= s[n].end
  BY DEF Check
<1> HIDE DEF low, high
<1>5. CASE s[k].base = b /\ s[k].end = e
  <2>1. t = RemoveAt(s, k)
    BY <1>5 DEF Cut
  <2>2. /\ t \in Seq(IntRegion) /\ Len(t) = Len(s) - 1
        /\ \A i \in 1..Len(s) - 1 : t[i] = IF i < k THEN s[i] ELSE s[i + 1]
    BY <2>1, RemoveAtIs
  <2>3. DOMAIN t = 1..Len(s) - 1
    BY <2>2
  <2>4. \A m \in DOMAIN t : \E n \in DOMAIN s : t[m] = s[n]
    <3> TAKE m \in DOMAIN t
    <3> DEFINE n == IF m < k THEN m ELSE m + 1
    <3>1. n \in DOMAIN s /\ t[m] = s[n]
      BY <1>1, <2>2, <2>3
    <3> QED
      BY <3>1
  <2>5. \A n \in DOMAIN s : n # k => \E m \in DOMAIN t : t[m] = s[n]
    <3> SUFFICES ASSUME NEW n \in DOMAIN s, n # k PROVE \E m \in DOMAIN t : t[m] = s[n]
      OBVIOUS
    <3> DEFINE m == IF n < k THEN n ELSE n - 1
    <3>1. m \in DOMAIN t /\ t[m] = s[n]
      BY <1>1, <2>2, <2>3
    <3> QED
      BY <3>1
  <2>6. ASSUME Check(s) PROVE Check(t)
    <3> SUFFICES ASSUME NEW i \in 1..Len(t) - 1 PROVE t[i + 1].base >= t[i].end
      BY DEF Check
    <3>1. i \in 1..Len(s) - 2 /\ i \in 1..Len(s) - 1 /\ i + 1 \in 1..Len(s) - 1
      BY <1>1, <2>2
    <3>2. s[i + 1].base >= s[i].end /\ s[i + 1 + 1].base >= s[i + 1].end
      BY <1>1, <1>4, <2>6, <3>1
    <3>3. t[i] = (IF i < k THEN s[i] ELSE s[i + 1])
          /\ t[i + 1] = (IF i + 1 < k THEN s[i + 1] ELSE s[i + 1 + 1])
      BY <2>2, <3>1
    <3>4. i \in DOMAIN s /\ i + 1 \in DOMAIN s /\ i + 1 + 1 \in DOMAIN s
      BY <1>1, <3>1
    <3>5. CASE i = k - 1
      <4>1. t[i] = s[i] /\ t[i + 1] = s[i + 1 + 1] /\ i + 1 = k
        BY <1>1, <3>1, <3>3, <3>5
      <4>2. s[i + 1].base <= s[i + 1].end
        BY <1>5, <4>1
      <4> QED
        BY <1>2, <3>2, <3>4, <4>1, <4>2
    <3>6. CASE i # k - 1
      BY <1>1, <3>1, <3>2, <3>3, <3>6
    <3> QED
      BY <3>5, <3>6
  <2>7. \A m \in DOMAIN t : \E n \in DOMAIN s : s[n].base <= t[m].base /\ t[m].end <= s[n].end
    <3> TAKE m \in DOMAIN t
    <3>1. PICK n \in DOMAIN s : t[m] = s[n]
      BY <2>4
    <3> QED
      BY <1>2, <3>1
  <2>8. b = s[k].base /\ e = s[k].end
    BY <1>5
  <2> QED
    BY <2>2, <2>5, <2>6, <2>7, <2>8
<1>7. ASSUME NEW x, t = ReplaceAt(s, k, x), x \in IntRegion,
             s[k].base <= x.base, x.end <= s[k].end,
             b # s[k].base => x = low, e # s[k].end => x = high
      PROVE  /\ t \in Seq(IntRegion)
             /\ \A m \in DOMAIN t :
                  \E n \in DOMAIN s : s[n].base <= t[m].base /\ t[m].end <= s[n].end
             /\ \A n \in DOMAIN s : n # k => \E m \in DOMAIN t : t[m] = s[n]
             /\ b # s[k].base => \E m \in DOMAIN t : t[m] = low
             /\ e # s[k].end => \E m \in DOMAIN t : t[m] = high
             /\ Check(s) => Check(t)
  <2>1. /\ t \in Seq(IntRegion) /\ Len(t) = Len(s)
        /\ \A i \in 1..Len(s) : t[i] = IF i = k THEN x ELSE s[i]
    <3>1. s \in Seq(IntRegion) /\ k \in DOMAIN s /\ x \in IntRegion
      BY <1>7
    <3> HIDE DEF IntRegion
    <3>2. /\ ReplaceAt(s, k, x) \in Seq(IntRegion)
          /\ Len(ReplaceAt(s, k, x)) = Len(s)
          /\ \A i \in 1..Len(s) : ReplaceAt(s, k, x)[i] = IF i = k THEN x ELSE s[i]
      BY ZenonT(40), <3>1, ReplaceAtIs
    <3> QED
      BY <1>7, <3>2
  <2>2. DOMAIN t = DOMAIN s /\ t[k] = x /\ \A i \in DOMAIN s : i # k => t[i] = s[i]
    BY <1>1, <2>1
  <2>3. \A m \in DOMAIN t : s[m].base <= t[m].base /\ t[m].end <= s[m].end
    BY <1>2, <1>7, <2>2
  <2>4. ASSUME Check(s) PROVE Check(t)
    <3> SUFFICES ASSUME NEW i \in 1..Len(t) - 1 PROVE t[i + 1].base >= t[i].end
      BY DEF Check
    <3>1. i \in DOMAIN s /\ i + 1 \in DOMAIN s /\ i \in 1..Len(s) - 1
      BY <1>1, <2>1
    <3>2. s[i + 1].base >= s[i].end
      BY <1>4, <2>4, <3>1
    <3>3. s[i + 1].base <= t[i + 1].base /\ t[i].end <= s[i].end
      BY <2>2, <2>3, <3>1
    <3>4. t[i] \in IntRegion /\ t[i + 1] \in IntRegion
      BY <2>1, <2>2, <3>1
    <3> QED
      <4>1. /\ t[i].end \in Int /\ t[i + 1].base \in Int
            /\ s[i].end \in Int /\ s[i + 1].base \in Int
        BY <1>2, <3>1, <3>4 DEF IntRegion
      <4> QED
        BY <3>2, <3>3, <4>1
  <2> QED
    BY <1>7, <2>1, <2>2, <2>3, <2>4
<1>8. CASE s[k].base # b /\ s[k].end # e
  <2> DEFINE u == ReplaceAt(s, k, low)
  <2>1. /\ u \in Seq(IntRegion) /\ Len(u) = Len(s)
        /\ \A i \in 1..Len(s) : u[i] = IF i = k THEN low ELSE s[i]
    BY <1>3, ReplaceAtIs
  <2>2. t = InsertAt(u, k + 1, high)
    BY <1>8 DEF Cut, low, high
  <2> HIDE DEF u
  <2>3. k + 1 \in 1..Len(u) + 1
    BY <1>1, <2>1
  <2>4. /\ t \in Seq(IntRegion) /\ Len(t) = Len(u) + 1
        /\ \A n \in 1..Len(u) + 1 :
             t[n] = IF n < k + 1 THEN u[n] ELSE IF n = k + 1 THEN high ELSE u[n - 1]
    <3> DEFINE v == InsertAt(u, k + 1, high)
    <3>1. u \in Seq(IntRegion) /\ high \in IntRegion
      BY <1>3, <2>1
    <3>2. /\ v \in Seq(IntRegion) /\ Len(v) = Len(u) + 1
          /\ \A n \in 1..Len(u) + 1 :
               v[n] = IF n < k + 1 THEN u[n] ELSE IF n = k + 1 THEN high ELSE u[n - 1]
      BY ZenonT(40), <2>3, <3>1, InsertAtIs
    <3> QED
      BY <2>2, <3>2
  <2>5. DOMAIN t = 1..Len(s) + 1
    BY <1>1, <2>1, <2>4
  <2>6. /\ \A n \in 1..k - 1 : t[n] = s[n]
        /\ t[k] = low /\ t[k + 1] = high
        /\ \A n \in k + 2..Len(s) + 1 : t[n] = s[n - 1]
    <3>1. \A n \in 1..k - 1 : t[n] = s[n]
      BY <1>1, <2>1, <2>4
    <3>2. t[k] = low
      BY <1>1, <2>1, <2>4
    <3>3. t[k + 1] = high
      BY <1>1, <2>1, <2>4
    <3>4. \A n \in k + 2..Len(s) + 1 : t[n] = s[n - 1]
      BY <1>1, <2>1, <2>4
    <3> QED
      BY <3>1, <3>2, <3>3, <3>4
  <2>7. \A m \in DOMAIN t : \E n \in DOMAIN s : s[n].base <= t[m].base /\ t[m].end <= s[n].end
    <3> TAKE m \in DOMAIN t
    <3> DEFINE n == IF m <= k THEN m ELSE m - 1
    <3>1. n \in DOMAIN s
      BY <1>1, <2>5
    <3>2. m \in 1..k - 1 \/ m = k \/ m = k + 1 \/ m \in k + 2..Len(s) + 1
      BY <1>1, <2>5
    <3>3. s[n].base <= t[m].base /\ t[m].end <= s[n].end
      <4>1. CASE m \in 1..k - 1
        <5>1. n = m /\ t[m] = s[n]
          BY <1>1, <2>6, <4>1
        <5> QED
          BY <1>2, <3>1, <5>1
      <4>2. CASE m = k
        <5>1. n = k /\ t[m] = low
          BY <1>1, <2>6, <4>2
        <5> QED
          BY <1>2, <1>3, <3>1, <5>1
      <4>3. CASE m = k + 1
        <5>1. n = k /\ t[m] = high
          BY <1>1, <2>6, <4>3
        <5> QED
          BY <1>2, <1>3, <3>1, <5>1
      <4>4. CASE m \in k + 2..Len(s) + 1
        <5>1. n = m - 1 /\ t[m] = s[n]
          BY <1>1, <2>6, <4>4
        <5> QED
          BY <1>2, <3>1, <5>1
      <4> QED
        BY <3>2, <4>1, <4>2, <4>3, <4>4
    <3> HIDE DEF n
    <3> QED
      BY <3>1, <3>3
  <2>8. \A n \in DOMAIN s : n # k => \E m \in DOMAIN t : t[m] = s[n]
    <3> SUFFICES ASSUME NEW n \in DOMAIN s, n # k PROVE \E m \in DOMAIN t : t[m] = s[n]
      OBVIOUS
    <3> DEFINE m == IF n < k THEN n ELSE n + 1
    <3>1. m \in DOMAIN t /\ t[m] = s[n]
      BY <1>1, <2>5, <2>6
    <3> QED
      BY <3>1
  <2>9. k \in DOMAIN t /\ k + 1 \in DOMAIN t
    BY <1>1, <2>5
  <2>10. ASSUME Check(s) PROVE Check(t)
    <3> SUFFICES ASSUME NEW i \in 1..Len(t) - 1 PROVE t[i + 1].base >= t[i].end
      BY DEF Check
    <3>1. i \in 1..Len(s)
      BY <1>1, <2>1, <2>4
    <3>2. \A n \in DOMAIN s : n + 1 \in DOMAIN s => s[n + 1].base >= s[n].end
      BY <1>1, <1>4, <2>10
    <3>3. CASE i \in 1..k - 2
      <4>1. t[i] = s[i] /\ t[i + 1] = s[i + 1] /\ i \in DOMAIN s /\ i + 1 \in DOMAIN s
        BY SMTT(40), <1>1, <2>6, <3>1, <3>3
      <4> QED
        BY <3>2, <4>1
    <3>4. CASE i = k - 1
      <4>1. t[i] = s[i] /\ t[i + 1] = low /\ i \in DOMAIN s /\ i + 1 \in DOMAIN s /\ i + 1 = k
        BY <1>1, <2>6, <3>1, <3>4
      <4> QED
        BY <1>2, <1>3, <3>2, <4>1
    <3>5. CASE i = k
      <4>1. t[i] = low /\ t[i + 1] = high
        BY <1>1, <2>6, <3>5
      <4> QED
        BY <1>2, <1>3, <4>1
    <3>6. CASE i = k + 1
      <4>1. i + 1 \in k + 2..Len(s) + 1 /\ i \in DOMAIN s /\ i + 1 - 1 = k + 1 /\ k + 1 \in DOMAIN s
        BY <1>1, <3>1, <3>6
      <4>2. t[i] = high /\ t[i + 1] = s[k + 1]
        BY <1>1, <2>6, <3>6, <4>1
      <4> QED
        BY <1>1, <1>2, <1>3, <3>2, <4>1, <4>2
    <3>7. CASE i \in k + 2..Len(s)
      <4>1. i + 1 \in k + 2..Len(s) + 1 /\ i \in k + 2..Len(s) + 1 /\ i + 1 - 1 = i
            /\ i - 1 \in DOMAIN s /\ i \in DOMAIN s /\ i - 1 + 1 = i
        BY <1>1, <3>1, <3>7
      <4>2. t[i] = s[i - 1] /\ t[i + 1] = s[i]
        BY SMTT(40), <2>6, <4>1
      <4>3. s[i].base >= s[i - 1].end
        BY <3>2, <4>1
      <4> QED
        BY <4>2, <4>3
    <3> QED
      BY <1>1, <3>1, <3>3, <3>4, <3>5, <3>6, <3>7
  <2> QED
    BY <2>4, <2>6, <2>7, <2>8, <2>9, <2>10 DEF low, high
<1>9. CASE s[k].base = b /\ s[k].end # e
  <2>1. t = ReplaceAt(s, k, high)
    BY <1>9 DEF Cut, high
  <2> QED
    BY <1>2, <1>3, <1>7, <1>9, <2>1 DEF low, high
<1>10. CASE s[k].base # b /\ s[k].end = e
  <2>1. t = ReplaceAt(s, k, low)
    BY <1>10 DEF Cut, low
  <2> QED
    BY <1>2, <1>3, <1>7, <1>10, <2>1 DEF low, high
<1> QED
  BY <1>5, <1>8, <1>9, <1>10

\* Every region of t is in one region of s.
Inside(t, s) ==
  \A m \in DOMAIN t : \E n \in DOMAIN s : s[n].base <= t[m].base /\ t[m].end <= s[n].end

LEMMA HeldBy ==
  ASSUME NEW s \in Seq(IntRegion), NEW b \in Int, NEW e \in Int
  PROVE  Holding(s, b, e) # {} <=> \E n \in DOMAIN s : s[n].base <= b /\ e <= s[n].end
BY DEF Holding

\* A removal leaves every region that one region held and that is beside the removed one in
\* one region, and does not fail if the list is in order and the removed region is in one
\* region of it.
LEMMA RemoveInOrder ==
  ASSUME NEW s \in Seq(IntRegion), NEW b \in Int, NEW e \in Int, b <= e,
         NEW result, result = RemoveRegion(s, b, e)
  PROVE  /\ result.regions \in Seq(IntRegion) /\ Inside(result.regions, s)
         /\ Check(s) => Check(result.regions)
         /\ Holding(s, b, e) = {} => result.regions = s /\ result.raised = "not covered"
         /\ Check(s) /\ Holding(s, b, e) # {} => result.raised = "ok"
         /\ \A c, d \in Int :
              /\ Holding(s, c, d) # {}
              /\ (d <= b /\ c < b) \/ (e <= c /\ e < d)
              => Holding(result.regions, c, d) # {}
<1>1. \A n \in DOMAIN s : s[n] \in IntRegion /\ s[n].base \in Int /\ s[n].end \in Int
  <2> TAKE n \in DOMAIN s
  <2>1. s[n] \in IntRegion
    OBVIOUS
  <2> QED
    BY <2>1 DEF IntRegion
<1>2. CASE Holding(s, b, e) = {}
  <2>1. RemoveRegion(s, b, e).regions = s /\ RemoveRegion(s, b, e).raised = "not covered"
    BY <1>2 DEF RemoveRegion
  <2>2. result.regions = s /\ result.raised = "not covered"
    BY <2>1
  <2>3. Inside(s, s)
    BY <1>1 DEF Inside
  <2> QED
    BY <1>2, <2>2, <2>3
<1>3. CASE Holding(s, b, e) # {}
  <2> DEFINE k == Min(Holding(s, b, e))
             t == Cut(s, k, b, e)
  <2>1. Holding(s, b, e) \in SUBSET Nat
    BY DEF Holding
  <2>2. k \in Holding(s, b, e)
    BY <1>3, <2>1, MinIsIn
  <2>3. k \in DOMAIN s /\ s[k].base <= b /\ e <= s[k].end
    BY <2>2 DEF Holding
  <2>4. result = Result(t)
    BY <1>3 DEF RemoveRegion
  <2>5. result.regions = t /\ (Check(t) => result.raised = "ok")
    BY <2>4 DEF Result
  <2> HIDE DEF k
  <2>6. /\ t \in Seq(IntRegion)
        /\ \A m \in DOMAIN t : \E n \in DOMAIN s : s[n].base <= t[m].base /\ t[m].end <= s[n].end
        /\ \A n \in DOMAIN s : n # k => \E m \in DOMAIN t : t[m] = s[n]
        /\ b # s[k].base => \E m \in DOMAIN t : t[m] = MemoryRegion(s[k].base, b)
        /\ e # s[k].end => \E m \in DOMAIN t : t[m] = MemoryRegion(e, s[k].end)
        /\ Check(s) => Check(t)
    BY <2>3, CutIs
  <2> HIDE DEF t
  <2>7. ASSUME NEW c \in Int, NEW d \in Int, Holding(s, c, d) # {},
               (d <= b /\ c < b) \/ (e <= c /\ e < d)
        PROVE  Holding(t, c, d) # {}
    <3>1. PICK n \in DOMAIN s : s[n].base <= c /\ d <= s[n].end
      BY <2>7, HeldBy
    <3>2. \E m \in DOMAIN t : t[m].base <= c /\ d <= t[m].end
      <4>1. CASE n # k
        BY <2>6, <3>1, <4>1
      <4>2. CASE n = k /\ d <= b /\ c < b
        <5>1. b # s[k].base
          BY <1>1, <2>3, <3>1, <4>2
        <5>2. PICK m \in DOMAIN t : t[m] = MemoryRegion(s[k].base, b)
          BY <2>6, <5>1
        <5>3. t[m].base = s[k].base /\ t[m].end = b
          BY <5>2 DEF MemoryRegion
        <5> QED
          BY <3>1, <4>2, <5>3
      <4>3. CASE n = k /\ e <= c /\ e < d
        <5>1. e # s[k].end
          BY <1>1, <2>3, <3>1, <4>3
        <5>2. PICK m \in DOMAIN t : t[m] = MemoryRegion(e, s[k].end)
          BY <2>6, <5>1
        <5>3. t[m].base = e /\ t[m].end = s[k].end
          BY <5>2 DEF MemoryRegion
        <5> QED
          BY <3>1, <4>3, <5>3
      <4> QED
        BY <2>7, <4>1, <4>2, <4>3
    <3> QED
      BY <2>6, <3>2, HeldBy
  <2>8. Inside(t, s)
    BY <2>6 DEF Inside
  <2> QED
    BY <1>3, <2>5, <2>6, <2>7, <2>8
<1> QED
  BY <1>2, <1>3

\* What allocate_from takes is in one region, above the limit it was given; when it finds
\* none that is large enough it changes nothing and raises (util.py:200-209).
LEMMA AllocateInOrder ==
  ASSUME NEW s \in Seq(IntRegion), NEW size \in Nat, NEW lower \in Int,
         NEW b, b = AllocatedBase(s, size, lower)
  PROVE  /\ Fitting(s, size, lower) = {} => AllocateFrom(s, size, lower).raised = "no space"
         /\ Fitting(s, size, lower) # {} =>
              /\ b \in Int /\ lower <= b
              /\ Holding(s, b, b + size) # {}
              /\ AllocateFrom(s, size, lower) = RemoveRegion(s, b, b + size)
<1>1. CASE Fitting(s, size, lower) = {}
  BY <1>1 DEF AllocateFrom
<1>2. CASE Fitting(s, size, lower) # {}
  <2> DEFINE n == Min(Fitting(s, size, lower))
  <2>1. Fitting(s, size, lower) \in SUBSET Nat
    BY DEF Fitting
  <2>2. n \in Fitting(s, size, lower)
    BY <1>2, <2>1, MinIsIn
  <2>3. n \in DOMAIN s /\ size <= Size(s[n]) /\ s[n].base >= lower
    BY <2>2 DEF Fitting
  <2>4. b = s[n].base
    BY DEF AllocatedBase
  <2>5. AllocateFrom(s, size, lower) = RemoveRegion(s, b, b + size)
    BY <1>2 DEF AllocateFrom
  <2> HIDE DEF n
  <2>6. s[n] \in IntRegion
    BY <2>3
  <2>7. b \in Int /\ lower <= b /\ b + size <= s[n].end
    BY <2>3, <2>4, <2>6 DEF IntRegion, Size
  <2>8. b + size \in Int /\ s[n].base <= b
    BY <2>4, <2>7
  <2>9. Holding(s, b, b + size) # {}
    BY <2>3, <2>7, <2>8, HeldBy
  <2> QED
    BY <1>2, <2>5, <2>7, <2>9
<1> QED
  BY <1>1, <1>2

-----------------------------------------------------------------------------
(* Multiples and powers of two *)

\* A number is its quotient times the divisor, and its rest.
LEMMA Division ==
  ASSUME NEW n \in Nat, NEW s \in Nat \ {0}
  PROVE  /\ n = (n \div s) * s + (n % s)
         /\ n \div s \in Nat /\ n % s \in 0..s - 1
OBVIOUS

LEMMA Grow ==
  ASSUME NEW a \in Nat, NEW b \in Nat, NEW s \in Nat, a <= b
  PROVE  a * s <= b * s
OBVIOUS

LEMMA Shrink ==
  ASSUME NEW a \in Nat, NEW b \in Nat, NEW s \in Nat \ {0}, a * s < b * s
  PROVE  a < b
OBVIOUS

LEMMA Distributes ==
  ASSUME NEW a \in Nat, NEW b \in Nat, NEW s \in Nat
  PROVE  (a + b) * s = a * s + b * s
OBVIOUS

\* n is aligned to s, as an object of size s at n is.
Multiple(n, s) == \E q \in Nat : n = q * s

LEMMA MultipleOfMultiple ==
  ASSUME NEW n \in Nat, NEW s \in Nat, NEW t \in Nat, Multiple(n, s), Multiple(s, t)
  PROVE  Multiple(n, t)
<1>1. PICK p \in Nat : n = p * s
  BY DEF Multiple
<1>2. PICK q \in Nat : s = q * t
  BY DEF Multiple
<1>3. n = (p * q) * t /\ p * q \in Nat
  BY <1>1, <1>2
<1> QED
  BY <1>3 DEF Multiple

LEMMA SumOfMultiples ==
  ASSUME NEW m \in Nat, NEW n \in Nat, NEW s \in Nat, Multiple(m, s), Multiple(n, s)
  PROVE  Multiple(m + n, s)
<1>1. PICK p \in Nat : m = p * s
  BY DEF Multiple
<1>2. PICK q \in Nat : n = q * s
  BY DEF Multiple
<1>3. m + n = (p + q) * s /\ p + q \in Nat
  BY <1>1, <1>2, Distributes
<1> QED
  BY <1>3 DEF Multiple

\* The next aligned address.
LEMMA RoundUpIs ==
  ASSUME NEW n \in Nat, NEW s \in Nat \ {0}
  PROVE  /\ RoundUp(n, s) \in Nat /\ n <= RoundUp(n, s)
         /\ Multiple(RoundUp(n, s), s)
<1>1. PICK q \in Nat, r \in 0..s - 1 : n = q * s + r /\ n % s = r
  BY Division
<1>2. (q + 1) * s = q * s + s /\ q * s \in Nat /\ q + 1 \in Nat
  OBVIOUS
<1>3. CASE r = 0
  <2>1. RoundUp(n, s) = q * s /\ n = q * s
    BY <1>1, <1>2, <1>3 DEF RoundUp
  <2> QED
    BY <1>2, <2>1 DEF Multiple
<1>4. CASE r # 0
  <2>1. RoundUp(n, s) = (q + 1) * s /\ n <= (q + 1) * s
    BY <1>1, <1>2, <1>4 DEF RoundUp
  <2>2. (q + 1) * s \in Nat
    BY <1>2
  <2> QED
    BY <1>2, <2>1, <2>2 DEF Multiple
<1> QED
  BY <1>3, <1>4

\* There is no aligned address between.
LEMMA RoundUpLeast ==
  ASSUME NEW n \in Nat, NEW s \in Nat \ {0}, NEW a \in Nat, Multiple(a, s), n <= a
  PROVE  RoundUp(n, s) <= a
<1>0. PICK p \in Nat : a = p * s
  BY DEF Multiple
<1>1. PICK q \in Nat, r \in 0..s - 1 : n = q * s + r /\ n % s = r
  BY Division
<1>2. (q + 1) * s = q * s + s /\ q * s \in Nat /\ p * s \in Nat
  OBVIOUS
<1>3. CASE r = 0
  BY <1>0, <1>1, <1>2, <1>3 DEF RoundUp
<1>4. CASE r # 0
  <2>1. q * s < p * s
    BY <1>0, <1>1, <1>2, <1>4
  <2>2. q < p
    BY <2>1, Shrink
  <2>3. (q + 1) * s <= p * s
    BY <2>2, Grow
  <2> QED
    BY <1>0, <1>1, <1>2, <1>4, <2>3 DEF RoundUp
<1> QED
  BY <1>3, <1>4

\* Divisible is what the % of the tool tests.
LEMMA MultipleIs ==
  ASSUME NEW n \in Nat, NEW s \in Nat \ {0}
  PROVE  Multiple(n, s) <=> n % s = 0
<1>1. ASSUME n % s = 0 PROVE Multiple(n, s)
  <2>1. n = (n \div s) * s /\ n \div s \in Nat
    BY <1>1, Division
  <2> QED
    BY <2>1 DEF Multiple
<1>2. ASSUME Multiple(n, s) PROVE n % s = 0
  <2>1. RoundUp(n, s) <= n
    BY <1>2, RoundUpLeast
  <2>2. n % s \in 0..s - 1
    BY Division
  <2> QED
    BY <2>1, <2>2 DEF RoundUp
<1> QED
  BY <1>1, <1>2

LEMMA MultipleIsMore ==
  ASSUME NEW n \in Nat \ {0}, NEW s \in Nat, Multiple(n, s)
  PROVE  s <= n
<1>1. PICK q \in Nat : n = q * s
  BY DEF Multiple
<1>2. q # 0
  BY <1>1
<1>3. 1 * s <= q * s
  BY <1>2, Grow
<1> QED
  BY <1>1, <1>3

LEMMA AlignedStays ==
  ASSUME NEW n \in Nat, NEW s \in Nat \ {0}, Multiple(n, s)
  PROVE  RoundUp(n, s) = n
BY MultipleIs DEF RoundUp

LEMMA MaxBelow ==
  ASSUME NEW S \in SUBSET Nat, S # {}, NEW bound \in Nat, \A m \in S : m <= bound
  PROVE  Max({-1} \cup S) \in S
<1> DEFINE T == {-1} \cup S
<1>1. PICK n \in S : \A m \in S : m <= n
  BY MaxIsIn
<1>2. n \in T /\ \A m \in T : n >= m
  BY <1>1
<1>3. Max(T) \in T /\ \A m \in T : Max(T) >= m
  BY <1>2 DEF Max
<1>4. Max(T) >= n
  BY <1>2, <1>3
<1> QED
  BY <1>1, <1>3, <1>4

\* The bits that give the sizes of padding and of pieces.
LEMMA LowestBit ==
  ASSUME PowersOfTwo, NEW n \in Nat \ {0}
  PROVE  Lsb(n) \in 0..WordBits /\ Multiple(n, 2^Lsb(n))
<1> DEFINE S == {k \in 0..WordBits : n % (2^k) = 0}
<1>1. WordBits \in Nat
  BY WordAssumption
<1>2. 0 \in S
  <2>1. 0 \in 0..WordBits /\ 2^0 = 1
    BY <1>1 DEF PowersOfTwo
  <2>2. n % 1 = 0
    OBVIOUS
  <2> QED
    BY <2>1, <2>2
<1>3. S \in SUBSET Nat /\ \A m \in S : m <= WordBits
  BY <1>1
<1>4. Max(S) \in S
  <2> HIDE DEF S
  <2> QED
    BY <1>1, <1>2, <1>3, MaxIsIn
<1>5. Lsb(n) = Max(S)
  BY DEF Lsb
<1>6. Lsb(n) \in 0..WordBits /\ n % (2^Lsb(n)) = 0
  BY <1>4, <1>5
<1>7. 2^Lsb(n) \in Nat \ {0}
  BY <1>6 DEF PowersOfTwo
<1> QED
  BY <1>6, <1>7, MultipleIs

LEMMA HighestBit ==
  ASSUME PowersOfTwo, NEW n \in Nat \ {0}
  PROVE  Msb(n) \in 0..WordBits /\ 2^Msb(n) <= n
<1> DEFINE S == {k \in 0..WordBits : 2^k <= n}
<1>1. WordBits \in Nat
  BY WordAssumption
<1>2. 0 \in S
  <2>1. 0 \in 0..WordBits /\ 2^0 = 1
    BY <1>1 DEF PowersOfTwo
  <2>2. 1 <= n
    OBVIOUS
  <2> QED
    BY <2>1, <2>2
<1>3. S \in SUBSET Nat /\ \A m \in S : m <= WordBits
  BY <1>1
<1>4. Max({-1} \cup S) \in S
  <2> HIDE DEF S
  <2> QED
    BY <1>1, <1>2, <1>3, MaxBelow
<1>5. Msb(n) = Max({-1} \cup S)
  BY DEF Msb
<1> QED
  BY <1>4, <1>5

LEMMA SmallerPower ==
  ASSUME PowersOfTwo, NEW i \in 0..WordBits, NEW j \in 0..i
  PROVE  /\ 2^i \in Nat \ {0} /\ 2^j \in Nat \ {0} /\ Multiple(2^i, 2^j) /\ 2^j <= 2^i
<1>1. j \in 0..WordBits
  BY WordAssumption
<1>2. 2^i \in Nat \ {0} /\ 2^j \in Nat \ {0} /\ (2^i) % (2^j) = 0
  BY <1>1 DEF PowersOfTwo
<1>3. Multiple(2^i, 2^j)
  BY <1>2, MultipleIs
<1> QED
  BY <1>2, <1>3, MultipleIsMore

-----------------------------------------------------------------------------
(* Multiples, and addresses that wrap *)

\* What divides a sum and one part divides the other part.
LEMMA DifferenceOfMultiples ==
  ASSUME NEW m \in Nat, NEW n \in Nat, NEW s \in Nat, Multiple(m + n, s), Multiple(n, s)
  PROVE  Multiple(m, s)
<1>1. PICK p \in Nat : m + n = p * s
  BY DEF Multiple
<1>2. PICK q \in Nat : n = q * s
  BY DEF Multiple
<1>3. CASE s = 0
  <2>1. m = 0 * s /\ 0 \in Nat
    BY <1>1, <1>3
  <2> QED
    BY <2>1 DEF Multiple
<1>4. CASE s # 0 /\ q <= p
  <2>1. p - q \in Nat /\ p = (p - q) + q
    BY <1>4
  <2>2. p * s = (p - q) * s + q * s
    <3> DEFINE d == p - q
    <3>1. (d + q) * s = d * s + q * s
      BY <2>1, Distributes
    <3> QED
      BY <2>1, <3>1
  <2>3. m = (p - q) * s
    <3> DEFINE a == (p - q) * s
               b == q * s
    <3>1. a \in Nat /\ b \in Nat
      BY <2>1
    <3>2. m + n = a + b /\ n = b
      BY <1>1, <1>2, <2>2
    <3> HIDE DEF a, b
    <3>3. m = a
      BY <3>1, <3>2
    <3> QED
      BY <3>3 DEF a
  <2> QED
    BY <2>1, <2>3 DEF Multiple
<1>5. CASE s # 0 /\ p < q
  <2>1. p + 1 <= q /\ p + 1 \in Nat
    BY <1>5
  <2>2. (p + 1) * s <= q * s
    BY <2>1, Grow
  <2>3. (p + 1) * s = p * s + 1 * s
    BY Distributes
  <2>4. 1 * s = s /\ p * s \in Nat
    OBVIOUS
  <2> QED
    BY <1>1, <1>2, <1>5, <2>2, <2>3, <2>4
<1> QED
  BY <1>3, <1>4, <1>5

-----------------------------------------------------------------------------
(* The kernel's addresses wrap *)

\* Words
LEMMA Wraps ==
  ASSUME NEW w \in Nat \ {0}, NEW n \in Int
  PROVE  /\ n \in 0..w - 1 => n % w = n
         /\ n \in w..2 * w - 1 => n % w = n - w
         /\ n \in (0 - w)..-1 => n % w = n + w
OBVIOUS

LEMMA WordIs ==
  ASSUME PowersOfTwo
  PROVE  WordSize \in Nat \ {0} /\ KernelVirtualBase \in Nat /\ KernelVirtualBase < WordSize
<1>1. WordBits \in 0..WordBits
  BY WordAssumption
<1>2. 2^WordBits \in Nat \ {0}
  BY <1>1 DEF PowersOfTwo
<1> QED
  BY <1>2, WordAssumption DEF WordSize

\* The kernel's address of a physical one.
LEMMA VaddrIs ==
  ASSUME PowersOfTwo, NEW p \in Nat, p < WordSize
  PROVE  /\ PaddrToKernelVaddr(p) \in 0..WordSize - 1
         /\ PaddrToKernelVaddr(p) = IF p + KernelVirtualBase < WordSize
                                    THEN p + KernelVirtualBase
                                    ELSE p + KernelVirtualBase - WordSize
<1> DEFINE w == WordSize
           n == p + KernelVirtualBase
<1>1. w \in Nat \ {0} /\ KernelVirtualBase \in Nat /\ KernelVirtualBase < w
  BY WordIs
<1>2. n \in Int /\ (n \in 0..w - 1 \/ n \in w..2 * w - 1)
  BY <1>1
<1>3. PaddrToKernelVaddr(p) = n % w
  BY DEF PaddrToKernelVaddr
<1>4. /\ n \in 0..w - 1 => n % w = n
      /\ n \in w..2 * w - 1 => n % w = n - w
  BY <1>1, <1>2, Wraps
<1> HIDE DEF w
<1> QED
  BY <1>1, <1>2, <1>3, <1>4 DEF w

\* Adding to the kernel's address, with overflow, is adding to the physical one.
LEMMA VaddrPlus ==
  ASSUME PowersOfTwo, NEW p \in Nat, NEW size \in Nat, p + size < WordSize
  PROVE  /\ KernelVaddrToPaddr(PaddrToKernelVaddr(p) + size) = p + size
         /\ (PaddrToKernelVaddr(p) + size) % WordSize = PaddrToKernelVaddr(p + size)
         /\ (PaddrToKernelVaddr(p + size) - PaddrToKernelVaddr(p)) % WordSize = size
<1> DEFINE w == WordSize
           base == KernelVirtualBase
           v == PaddrToKernelVaddr(p)
           q == p + size
           u == PaddrToKernelVaddr(q)
<1>1. w \in Nat \ {0} /\ base \in Nat /\ base < w
  BY WordIs
<1>2. p < w /\ q \in Nat /\ q < w
  BY <1>1
<1>3. v \in 0..w - 1 /\ v = IF p + base < w THEN p + base ELSE p + base - w
  BY <1>2, VaddrIs
<1>4. u \in 0..w - 1 /\ u = IF q + base < w THEN q + base ELSE q + base - w
  BY <1>2, VaddrIs
<1> HIDE DEF w, base, v, u
<1>5. KernelVaddrToPaddr(v + size) = ((v + size) - base) % w
  BY DEF KernelVaddrToPaddr, w, base
<1>6. ((v + size) - base) % w = q
  <2> DEFINE n == (v + size) - base
  <2>1. n \in Int /\ (n = q \/ n = q - w)
    BY <1>1, <1>2, <1>3
  <2>2. n \in 0..w - 1 \/ n \in (0 - w)..-1
    BY <1>1, <1>2, <2>1
  <2>3. /\ n \in 0..w - 1 => n % w = n
        /\ n \in (0 - w)..-1 => n % w = n + w
    BY <1>1, <2>1, Wraps
  <2> HIDE DEF n
  <2>4. n % w = q
    BY <1>1, <1>2, <2>1, <2>2, <2>3
  <2> QED
    BY <2>4 DEF n
<1>7. (v + size) % w = u
  <2> DEFINE n == v + size
  <2>1. n \in Int /\ (n = u \/ n = u + w)
    BY <1>1, <1>2, <1>3, <1>4
  <2>2. n \in 0..w - 1 \/ n \in w..2 * w - 1
    BY <1>1, <1>4, <2>1
  <2>3. /\ n \in 0..w - 1 => n % w = n
        /\ n \in w..2 * w - 1 => n % w = n - w
    BY <1>1, <2>1, Wraps
  <2> HIDE DEF n
  <2>4. n % w = u
    BY <1>1, <1>4, <2>1, <2>2, <2>3
  <2> QED
    BY <2>4 DEF n
<1>8. (u - v) % w = size
  <2> DEFINE n == u - v
  <2>1. n \in Int /\ (n = size \/ n = size - w)
    BY <1>1, <1>2, <1>3, <1>4
  <2>2. size < w
    BY <1>1, <1>2
  <2>3. n \in 0..w - 1 \/ n \in (0 - w)..-1
    BY <1>1, <2>1, <2>2
  <2>4. /\ n \in 0..w - 1 => n % w = n
        /\ n \in (0 - w)..-1 => n % w = n + w
    BY <1>1, <2>1, Wraps
  <2> HIDE DEF n
  <2>5. n % w = size
    BY <1>1, <2>1, <2>2, <2>3, <2>4
  <2> QED
    BY <2>5 DEF n
<1> QED
  BY <1>5, <1>6, <1>7, <1>8 DEF w, base, v, u

-----------------------------------------------------------------------------
(* The next piece of a region *)

\* Max of a set that has a number besides -1.
LEMMA MaxAndBelow ==
  ASSUME NEW S \in SUBSET Nat, S # {}, NEW bound \in Nat, \A m \in S : m <= bound
  PROVE  Max({-1} \cup S) = Max(S)
<1> DEFINE T == {-1} \cup S
<1>1. Max(S) \in S /\ \A m \in S : m <= Max(S)
  BY MaxIsIn
<1>2. Max(T) \in S
  BY MaxBelow
<1>3. Max(T) \in T /\ \A m \in T : Max(T) >= m
  <2>0. Max(S) \in Nat
    BY <1>1
  <2>1. Max(S) \in T /\ \A m \in T : Max(S) >= m
    <3>1. \A m \in T : m = -1 \/ m \in S
      OBVIOUS
    <3>2. \A m \in S : m \in Nat /\ Max(S) >= m
      BY <1>1
    <3> QED
      BY <1>1, <2>0, <3>1, <3>2
  <2> QED
    BY <2>1 DEF Max
<1>4. Max(T) >= Max(S) /\ Max(T) <= Max(S)
  BY <1>1, <1>2, <1>3
<1>5. Max(T) \in Nat /\ Max(S) \in Nat
  BY <1>1, <1>2
<1> QED
  BY <1>4, <1>5

\* The number of bits of a piece is no more than that of the size, or of the address.
LEMMA PieceBitsAre ==
  ASSUME PowersOfTwo, NEW v \in 0..WordSize - 1, NEW u \in 0..WordSize - 1, u # v,
         NEW d \in Nat \ {0}, d = (u - v) % WordSize
  PROVE  /\ PieceBits(v, u) \in 0..WordBits /\ 2^PieceBits(v, u) <= d
         /\ Multiple(v, 2^PieceBits(v, u))
         /\ \A c \in 0..WordBits :
              c <= MaxBits /\ Multiple(d, 2^c) /\ Multiple(v, 2^c) => c <= PieceBits(v, u)
<1> DEFINE top == Msb(d)
           low == IF v = 0 THEN {} ELSE {Lsb(v)}
           S == {top, MaxBits} \cup low
           bits == PieceBits(v, u)
<1>0. v \in Nat /\ WordBits \in Nat /\ MaxBits \in Nat
  BY WordAssumption, WordIs
<1>1. bits = Min(S)
  BY DEF PieceBits
<1>2. top \in 0..WordBits /\ 2^top <= d
  BY HighestBit
<1>3. v # 0 => low = {Lsb(v)} /\ Lsb(v) \in 0..WordBits /\ Multiple(v, 2^Lsb(v))
  BY <1>0, LowestBit
<1>4. v = 0 => low = {}
  OBVIOUS
<1> HIDE DEF top, low, bits
<1>5. S \in SUBSET Nat /\ S # {}
  BY <1>0, <1>2, <1>3, <1>4
<1>6. bits \in S /\ \A n \in S : bits <= n
  <2> HIDE DEF S
  <2> QED
    BY <1>1, <1>5, MinIsIn
<1>7. bits \in Nat /\ bits <= top /\ (v # 0 => bits <= Lsb(v))
  BY <1>3, <1>5, <1>6
<1>8. bits \in 0..WordBits /\ bits \in 0..top
  BY <1>0, <1>2, <1>7
<1>9. 2^bits \in Nat \ {0} /\ 2^top \in Nat /\ 2^bits <= 2^top
  BY <1>2, <1>8, SmallerPower
<1>10. 2^bits <= d
  <2> DEFINE a == 2^bits
             b == 2^top
  <2>1. a \in Nat /\ b \in Nat /\ a <= b /\ b <= d
    BY <1>2, <1>9
  <2> HIDE DEF a, b
  <2>2. a <= d
    BY <2>1
  <2> QED
    BY <2>2 DEF a
<1>11. Multiple(v, 2^bits)
  <2>1. CASE v = 0
    <3> DEFINE s == 2^bits
    <3>1. s \in Nat
      BY <1>9
    <3> HIDE DEF s
    <3>2. v = 0 * s /\ 0 \in Nat
      BY <2>1, <3>1
    <3>3. Multiple(v, s)
      BY <3>2 DEF Multiple
    <3> QED
      BY <3>3 DEF s
  <2>2. CASE v # 0
    <3>1. bits \in 0..Lsb(v) /\ Lsb(v) \in 0..WordBits
      BY <1>3, <1>7, <2>2
    <3>2. Multiple(2^Lsb(v), 2^bits) /\ 2^Lsb(v) \in Nat
      BY <3>1, SmallerPower
    <3> QED
      BY <1>0, <1>3, <1>9, <2>2, <3>2, MultipleOfMultiple
  <2> QED
    BY <2>1, <2>2
<1>12. ASSUME NEW c \in 0..WordBits, c <= MaxBits, Multiple(d, 2^c), Multiple(v, 2^c)
       PROVE  c <= bits
  <2>1. 2^c \in Nat \ {0}
    BY <1>12 DEF PowersOfTwo
  <2>2. c <= top
    <3> DEFINE T == {j \in 0..WordBits : 2^j <= d}
    <3>2. 2^c <= d
      BY <1>12, <2>1, MultipleIsMore
    <3>3. c \in T
      BY <3>2
    <3>0. \A m \in T : m \in 0..WordBits
      OBVIOUS
    <3>1. T \in SUBSET Nat /\ T # {} /\ \A m \in T : m <= WordBits
      <4> HIDE DEF T
      <4> QED
        BY <1>0, <3>0, <3>3
    <3>4. top = Max({-1} \cup T)
      BY DEF Msb, top
    <3> HIDE DEF T
    <3>5. Max({-1} \cup T) = Max(T)
      BY <1>0, <3>1, MaxAndBelow
    <3>6. \A m \in T : m <= Max(T)
      BY <1>0, <3>1, MaxIsIn
    <3> QED
      BY <3>3, <3>4, <3>5, <3>6
  <2>3. v # 0 => c <= Lsb(v)
    <3> SUFFICES ASSUME v # 0 PROVE c <= Lsb(v)
      OBVIOUS
    <3> DEFINE T == {j \in 0..WordBits : v % (2^j) = 0}
    <3>1. v % (2^c) = 0
      BY <1>0, <1>12, <2>1, MultipleIs
    <3>2. c \in T
      BY <3>1
    <3>0. \A m \in T : m \in 0..WordBits
      OBVIOUS
    <3>3. T \in SUBSET Nat /\ T # {} /\ \A m \in T : m <= WordBits
      <4> HIDE DEF T
      <4> QED
        BY <1>0, <3>0, <3>2
    <3>4. Lsb(v) = Max(T)
      BY DEF Lsb
    <3> HIDE DEF T
    <3>5. \A m \in T : m <= Max(T)
      BY <1>0, <3>3, MaxIsIn
    <3> QED
      BY <3>2, <3>4, <3>5
  <2>4. \A n \in S : c <= n
    BY <1>12, <1>3, <1>4, <2>2, <2>3
  <2> QED
    BY <1>6, <2>4
<1> QED
  BY <1>8, <1>10, <1>11, <1>12 DEF bits

\* A virtual address is as aligned as the physical one, up to the alignment of the window.
LEMMA VaddrAligned ==
  ASSUME PowersOfTwo, NEW p \in Nat, p < WordSize, NEW j \in 0..WordBits,
         Multiple(KernelVirtualBase, 2^j)
  PROVE  Multiple(p, 2^j) <=> Multiple(PaddrToKernelVaddr(p), 2^j)
<1> DEFINE w == WordSize
           base == KernelVirtualBase
           v == PaddrToKernelVaddr(p)
           s == 2^j
<1>1. w \in Nat \ {0} /\ base \in Nat
  BY WordIs
<1>2. v \in 0..w - 1 /\ v = IF p + base < w THEN p + base ELSE p + base - w
  BY VaddrIs
<1>3. s \in Nat \ {0} /\ Multiple(w, s)
  <2>1. WordBits \in 0..WordBits /\ j \in 0..WordBits
    BY WordAssumption
  <2> QED
    BY <2>1, SmallerPower DEF WordSize
<1>4. Multiple(base, s)
  OBVIOUS
<1> HIDE DEF w, base, v, s
<1>5. v \in Nat
  BY <1>2
<1>6. CASE v = p + base
  <2>1. Multiple(p, s) => Multiple(p + base, s)
    BY <1>1, <1>3, <1>4, SumOfMultiples
  <2>2. Multiple(p + base, s) => Multiple(p, s)
    BY <1>1, <1>3, <1>4, DifferenceOfMultiples
  <2> QED
    BY <1>6, <2>1, <2>2 DEF v, s
<1>7. CASE v + w = p + base
  <2>1. Multiple(p, s) => Multiple(p + base, s)
    BY <1>1, <1>3, <1>4, SumOfMultiples
  <2>2. Multiple(p + base, s) => Multiple(p, s)
    BY <1>1, <1>3, <1>4, DifferenceOfMultiples
  <2>3. Multiple(v, s) => Multiple(v + w, s)
    BY <1>1, <1>3, <1>5, SumOfMultiples
  <2>4. Multiple(v + w, s) => Multiple(v, s)
    BY <1>1, <1>3, <1>5, DifferenceOfMultiples
  <2> QED
    BY <1>7, <2>1, <2>2, <2>3, <2>4 DEF v, s
<1>8. v = p + base \/ v + w = p + base
  BY <1>1, <1>2, <1>5
<1> QED
  BY <1>6, <1>7, <1>8

\* The size of the first piece of p..e-1: it fits, divides the address of the piece, and is
\* a multiple of every size that all the addresses are multiples of.
LEMMA PieceIs ==
  ASSUME PowersOfTwo, NEW top \in Nat, WindowAligned(top),
         NEW p \in Nat, NEW e \in Nat, p < e, e <= top,
         NEW size, size = 2^PieceBits(PaddrToKernelVaddr(p), PaddrToKernelVaddr(e))
  PROVE  /\ size \in Nat \ {0} /\ p + size <= e /\ p % size = 0 /\ IsPowerOfTwo(size)
         /\ \A c \in 0..WordBits :
              /\ c <= MaxBits
              /\ Multiple(KernelVirtualBase, 2^c) /\ Multiple(p, 2^c) /\ Multiple(e, 2^c)
              => Multiple(size, 2^c)
<1> DEFINE v == PaddrToKernelVaddr(p)
           u == PaddrToKernelVaddr(e)
           d == e - p
           bits == PieceBits(v, u)
<1>1. WordSize \in Nat \ {0} /\ KernelVirtualBase \in Nat /\ e < WordSize /\ p < WordSize
      /\ d \in Nat \ {0} /\ p + d = e
  BY WordIs DEF WindowAligned
<1>2. v \in 0..WordSize - 1 /\ u \in 0..WordSize - 1
  BY <1>1, VaddrIs
<1>3. (u - v) % WordSize = d
  <2>1. PaddrToKernelVaddr(p + d) = u
    BY <1>1
  <2> HIDE DEF d, u
  <2>2. (PaddrToKernelVaddr(p + d) - v) % WordSize = d
    BY <1>1, VaddrPlus
  <2> QED
    BY <2>1, <2>2
<1> HIDE DEF d, v, u, bits
<1>4. u # v
  <2>1. v - v = 0 /\ 0 % WordSize = 0
    BY <1>1, <1>2
  <2> QED
    BY <1>1, <1>3, <2>1
<1>5. /\ bits \in 0..WordBits /\ 2^bits <= d /\ Multiple(v, 2^bits)
      /\ \A c \in 0..WordBits :
           c <= MaxBits /\ Multiple(d, 2^c) /\ Multiple(v, 2^c) => c <= bits
  BY <1>1, <1>2, <1>3, <1>4, PieceBitsAre DEF bits
<1>6. size = 2^bits
  BY DEF bits, v, u
<1>7. size \in Nat \ {0} /\ IsPowerOfTwo(size)
  BY <1>5, <1>6 DEF PowersOfTwo, IsPowerOfTwo
<1>8. p + size <= e
  BY <1>1, <1>5, <1>6, <1>7
<1>9. Multiple(p, size)
  <2>1. PICK i \in 0..WordBits :
          /\ KernelVirtualBase % (2^i) = 0
          /\ \A j \in i + 1..WordBits : top <= 2^j
    BY DEF WindowAligned
  <2>2. CASE bits <= i
    <3>1. bits \in 0..i /\ i \in 0..WordBits
      BY <1>5, <2>2
    <3>2. Multiple(2^i, 2^bits) /\ 2^i \in Nat \ {0} /\ 2^bits \in Nat
      BY <3>1, SmallerPower
    <3>3. Multiple(KernelVirtualBase, 2^i)
      BY <1>1, <2>1, <3>2, MultipleIs
    <3>4. Multiple(KernelVirtualBase, 2^bits)
      BY <1>1, <3>2, <3>3, MultipleOfMultiple
    <3>5. Multiple(p, 2^bits)
      BY <1>1, <1>5, <3>4, VaddrAligned DEF v
    <3> QED
      BY <1>6, <3>5
  <2>3. CASE bits > i
    <3>1. bits \in i + 1..WordBits
      BY <1>5, <2>3
    <3>2. top <= size
      BY <1>6, <2>1, <3>1
    <3>3. p = 0
      BY <1>7, <1>8, <3>2
    <3>4. 0 = 0 * size
      BY <1>7
    <3> QED
      BY <3>3, <3>4 DEF Multiple
  <2> QED
    BY <1>5, <2>1, <2>2, <2>3
<1>10. p % size = 0
  BY <1>7, <1>9, MultipleIs
<1>11. ASSUME NEW c \in 0..WordBits, c <= MaxBits,
              Multiple(KernelVirtualBase, 2^c), Multiple(p, 2^c), Multiple(e, 2^c)
       PROVE  Multiple(size, 2^c)
  <2>1. 2^c \in Nat
    BY DEF PowersOfTwo
  <2>2. Multiple(d + p, 2^c)
    <3>1. d + p = e
      BY <1>1
    <3> QED
      BY <1>11, <3>1
  <2>3. Multiple(d, 2^c)
    BY <1>1, <1>11, <2>1, <2>2, DifferenceOfMultiples
  <2>4. Multiple(v, 2^c)
    BY <1>1, <1>11, VaddrAligned DEF v
  <2>5. c \in 0..bits
    BY <1>5, <1>11, <2>3, <2>4
  <2> QED
    BY <1>5, <1>6, <2>5, SmallerPower
<1> QED
  BY <1>7, <1>8, <1>10, <1>11

-----------------------------------------------------------------------------
(* The loop over the pieces *)

\* How far an address of the kernel is below u, around the end of the word.
Below(v, u) == (u - v) % WordSize

\* The address after the first piece from v.
After(v, u) == (v + 2^PieceBits(v, u)) % WordSize

\* One step of aligned_power_of_two_regions towards the address u, if g does the others.
CutStep(g, u) ==
  [v \in 0..WordSize - 1 |->
     IF v = u THEN <<>>
     ELSE LET size == 2^PieceBits(v, u)
          IN  <<MemoryRegion(KernelVaddrToPaddr(v), KernelVaddrToPaddr(v + size))>>
                \o g[(v + size) % WordSize]]

LEMMA BelowIs ==
  ASSUME PowersOfTwo, NEW v \in 0..WordSize - 1, NEW u \in 0..WordSize - 1
  PROVE  /\ Below(v, u) = IF v <= u THEN u - v ELSE (u - v) + WordSize
         /\ Below(v, u) \in 0..WordSize - 1
<1> DEFINE w == WordSize
           n == u - v
<1>1. w \in Nat \ {0}
  BY WordIs
<1>2. Below(v, u) = n % w
  BY DEF Below
<1>3. v \in 0..w - 1 /\ u \in 0..w - 1
  OBVIOUS
<1> HIDE DEF w
<1>4. n \in Int /\ (n \in 0..w - 1 \/ n \in (0 - w)..-1)
  BY <1>1, <1>3
<1>5. /\ n \in 0..w - 1 => n % w = n
      /\ n \in (0 - w)..-1 => n % w = n + w
  BY <1>1, <1>4, Wraps
<1>6. Below(v, u) = IF v <= u THEN n ELSE n + w
  BY <1>1, <1>2, <1>3, <1>4, <1>5
<1>7. Below(v, u) \in 0..w - 1
  BY <1>1, <1>3, <1>6
<1> QED
  BY <1>6, <1>7 DEF w

\* A step comes nearer to the end.
LEMMA AfterIsNearer ==
  ASSUME PowersOfTwo, NEW v \in 0..WordSize - 1, NEW u \in 0..WordSize - 1, v # u
  PROVE  After(v, u) \in 0..WordSize - 1 /\ Below(After(v, u), u) < Below(v, u)
<1> DEFINE w == WordSize
           d == Below(v, u)
           bits == PieceBits(v, u)
           size == 2^bits
           n == After(v, u)
<1>1. w \in Nat \ {0} /\ v \in 0..w - 1 /\ u \in 0..w - 1
  BY WordIs
<1>2. d \in 0..w - 1 /\ d = IF v <= u THEN u - v ELSE (u - v) + w
  BY BelowIs
<1>3. d \in Nat \ {0}
  BY <1>1, <1>2
<1>4. bits \in 0..WordBits /\ size <= d
  BY <1>3, PieceBitsAre DEF Below
<1>5. size \in Nat \ {0}
  BY <1>4 DEF PowersOfTwo
<1>6. n = (v + size) % w
  BY DEF After
<1> HIDE DEF w, d, bits, size, n
<1>7. v + size \in Int /\ (v + size \in 0..w - 1 \/ v + size \in w..2 * w - 1)
  BY <1>1, <1>2, <1>4, <1>5
<1>8. /\ v + size \in 0..w - 1 => (v + size) % w = v + size
      /\ v + size \in w..2 * w - 1 => (v + size) % w = (v + size) - w
  BY <1>1, <1>7, Wraps
<1>9. n \in 0..w - 1 /\ n = IF v + size < w THEN v + size ELSE (v + size) - w
  BY <1>1, <1>5, <1>6, <1>7, <1>8
<1>10. Below(n, u) = IF n <= u THEN u - n ELSE (u - n) + w
  BY <1>1, <1>9, BelowIs DEF w
<1>11. Below(n, u) < d
  BY <1>1, <1>2, <1>4, <1>5, <1>9, <1>10
<1> QED
  BY <1>9, <1>11 DEF w, d, n

\* The recursion of aligned_power_of_two_regions ends, so there is a function that does it.
LEMMA CutsExist ==
  ASSUME PowersOfTwo, NEW u \in 0..WordSize - 1
  PROVE  \E g : g = CutStep(g, u)
<1> DEFINE D == 0..WordSize - 1
           Good(n, g) == \A v \in D : Below(v, u) <= n => g[v] = CutStep(g, u)[v]
           Bad == {n \in Nat : ~\E g : Good(n, g)}
<1>1. \A v \in D : Below(v, u) \in D /\ Below(v, u) \in Nat
  BY BelowIs
<1>2. ASSUME NEW n \in Nat, NEW g, \A v \in D : Below(v, u) < n => g[v] = CutStep(g, u)[v]
      PROVE  Good(n, CutStep(g, u))
  <2> DEFINE h == CutStep(g, u)
  <2> SUFFICES ASSUME NEW v \in D, Below(v, u) <= n
               PROVE  h[v] = CutStep(h, u)[v]
    OBVIOUS
  <2>1. CASE v = u
    BY <2>1 DEF CutStep
  <2>2. CASE v # u
    <3> DEFINE next == After(v, u)
    <3>1. next \in D /\ Below(next, u) < Below(v, u)
      BY <2>2, AfterIsNearer
    <3>2. Below(next, u) < n
      BY <1>1, <3>1
    <3>3. g[next] = h[next]
      BY <1>2, <3>1, <3>2
    <3>4. \A f : CutStep(f, u)[v] =
                   <<MemoryRegion(KernelVaddrToPaddr(v), KernelVaddrToPaddr(v + 2^PieceBits(v, u)))>>
                     \o f[next]
      BY <2>2 DEF CutStep, After
    <3> HIDE DEF next
    <3>5. h[v] = <<MemoryRegion(KernelVaddrToPaddr(v), KernelVaddrToPaddr(v + 2^PieceBits(v, u)))>>
                   \o g[next]
      BY <3>4
    <3> HIDE DEF h
    <3>6. CutStep(h, u)[v] =
            <<MemoryRegion(KernelVaddrToPaddr(v), KernelVaddrToPaddr(v + 2^PieceBits(v, u)))>>
              \o h[next]
      BY <3>4
    <3> QED
      BY <3>3, <3>5, <3>6
  <2> QED
    BY <2>1, <2>2
<1>3. Bad = {}
  <2> SUFFICES ASSUME Bad # {} PROVE FALSE
    OBVIOUS
  <2>1. Bad \in SUBSET Nat
    OBVIOUS
  <2>2. PICK n \in Bad : \A m \in Bad : n <= m
    <3> HIDE DEF Bad
    <3> QED
      BY <2>1, MinIsIn
  <2>3. n \in Nat /\ ~\E g : Good(n, g)
    BY <2>2
  <2>4. \E g : \A v \in D : Below(v, u) < n => g[v] = CutStep(g, u)[v]
    <3>1. CASE n = 0
      BY <1>1, <3>1
    <3>2. CASE n # 0
      <4>1. n - 1 \in Nat /\ ~(n <= n - 1)
        BY <2>3, <3>2
      <4>2. n - 1 \notin Bad
        BY <2>2, <4>1
      <4>3. PICK g : Good(n - 1, g)
        BY <4>1, <4>2
      <4>4. \A v \in D : Below(v, u) < n => Below(v, u) <= n - 1
        BY <1>1, <2>3
      <4> QED
        BY <4>3, <4>4
    <3> QED
      BY <3>1, <3>2
  <2>5. PICK g : \A v \in D : Below(v, u) < n => g[v] = CutStep(g, u)[v]
    BY <2>4
  <2>6. Good(n, CutStep(g, u))
    BY <1>2, <2>3, <2>5
  <2> QED
    BY <2>3, <2>6
<1>4. WordSize \in Nat
  BY WordIs
<1>5. PICK g : Good(WordSize, g)
  BY <1>3, <1>4
<1> DEFINE h == CutStep(g, u)
<1>6. Good(WordSize, h)
  <2>1. \A v \in D : Below(v, u) < WordSize => g[v] = CutStep(g, u)[v]
    BY <1>1, <1>4, <1>5
  <2> QED
    BY <1>2, <1>4, <2>1
<1>7. \A v \in D : h[v] = CutStep(h, u)[v]
  BY <1>1, <1>4, <1>6
<1>8. h = [v \in D |-> h[v]] /\ CutStep(h, u) = [v \in D |-> CutStep(h, u)[v]]
  BY DEF CutStep
<1> HIDE DEF h
<1>9. h = CutStep(h, u)
  BY <1>7, <1>8
<1> QED
  BY <1>9

\* AlignedPowerOfTwoRegions is such a loop, from the base to the end of the region.
LEMMA RegionsAreCuts ==
  ASSUME PowersOfTwo, NEW r, r.base \in Nat, r.end \in Nat,
         r.base < WordSize, r.end < WordSize
  PROVE  \E g : /\ g = CutStep(g, PaddrToKernelVaddr(r.end))
                /\ AlignedPowerOfTwoRegions(r) = g[PaddrToKernelVaddr(r.base)]
<1> DEFINE u == PaddrToKernelVaddr(r.end)
           it == CHOOSE g : g = CutStep(g, u)
<1>1. u \in 0..WordSize - 1
  BY VaddrIs
<1>2. \E g : g = CutStep(g, u)
  <2> HIDE DEF u
  <2> QED
    BY <1>1, CutsExist
<1>3. it = CutStep(it, u)
  BY <1>2
<1>4. AlignedPowerOfTwoRegions(r) = it[PaddrToKernelVaddr(r.base)]
  BY Zenon DEF AlignedPowerOfTwoRegions, CutStep
<1> QED
  BY <1>3, <1>4

-----------------------------------------------------------------------------
(* The regions that the loop makes *)

\* The regions of t, one after the other, are b..e-1; each has a power of two as its size,
\* which divides its address and is a multiple of unit.
Tiles(t, b, e, unit) ==
  /\ t \in Seq(IntRegion)
  /\ \A n \in 1..Len(t) :
       /\ IsPowerOfTwo(Size(t[n])) /\ t[n].base % Size(t[n]) = 0 /\ Multiple(Size(t[n]), unit)
       /\ b <= t[n].base /\ t[n].base < t[n].end /\ t[n].end <= e
       /\ t[n].base = IF n = 1 THEN b ELSE t[n - 1].end
  /\ IF Len(t) = 0 THEN b = e ELSE t[Len(t)].end = e
  /\ PairwiseDisjoint(t) /\ Covered(t) = b..e - 1

LEMMA NoTiles ==
  ASSUME NEW b \in Nat, NEW unit
  PROVE  Tiles(<<>>, b, b, unit)
<1>1. <<>> \in Seq(IntRegion) /\ Len(<<>>) = 0 /\ DOMAIN <<>> = {}
  OBVIOUS
<1>2. PairwiseDisjoint(<<>>) /\ Covered(<<>>) = {} /\ b..b - 1 = {}
  BY DEF PairwiseDisjoint, Covered
<1> QED
  BY <1>1, <1>2 DEF Tiles

LEMMA ConsIs ==
  ASSUME NEW x \in IntRegion, NEW t \in Seq(IntRegion)
  PROVE  /\ <<x>> \o t \in Seq(IntRegion) /\ Len(<<x>> \o t) = Len(t) + 1
         /\ (<<x>> \o t)[1] = x
         /\ \A n \in 1..Len(t) : (<<x>> \o t)[n + 1] = t[n]
OBVIOUS

\* One step of the loop puts a region in front of the others.
LEMMA OneMoreTile ==
  ASSUME NEW b \in Nat, NEW m \in Nat, NEW e \in Nat, NEW unit, NEW t, Tiles(t, m, e, unit),
         b < m, m <= e,
         NEW x, x = MemoryRegion(b, m),
         IsPowerOfTwo(m - b), b % (m - b) = 0, Multiple(m - b, unit)
  PROVE  Tiles(<<x>> \o t, b, e, unit)
<1> DEFINE all == <<x>> \o t
<1>1. x \in IntRegion /\ x.base = b /\ x.end = m /\ Size(x) = m - b /\ Addresses(x) = b..m - 1
  BY DEF MemoryRegion, IntRegion, Size, Addresses
<1>2. t \in Seq(IntRegion) /\ Len(t) \in Nat
  BY DEF Tiles
<1>3. /\ all \in Seq(IntRegion) /\ Len(all) = Len(t) + 1 /\ all[1] = x
      /\ \A n \in 1..Len(t) : all[n + 1] = t[n]
  BY <1>1, <1>2, ConsIs
<1> HIDE DEF all
<1>4. \A n \in 1..Len(all) : n = 1 \/ (n - 1 \in 1..Len(t) /\ all[n] = t[n - 1])
  <2> TAKE n \in 1..Len(all)
  <2>1. CASE n # 1
    <3>1. n - 1 \in 1..Len(t) /\ (n - 1) + 1 = n
      BY <1>2, <1>3, <2>1
    <3> QED
      BY <1>3, <3>1
  <2> QED
    BY <2>1
<1>5. \A n \in 1..Len(t) : /\ t[n] \in IntRegion /\ t[n].base \in Int /\ t[n].end \in Int
  <2> TAKE n \in 1..Len(t)
  <2>1. t[n] \in IntRegion
    BY <1>2
  <2> QED
    BY <2>1 DEF IntRegion
<1>6. ASSUME NEW n \in 1..Len(all)
      PROVE  /\ IsPowerOfTwo(Size(all[n])) /\ all[n].base % Size(all[n]) = 0
             /\ Multiple(Size(all[n]), unit)
             /\ b <= all[n].base /\ all[n].base < all[n].end /\ all[n].end <= e
             /\ all[n].base = IF n = 1 THEN b ELSE all[n - 1].end
  <2>1. CASE n = 1
    BY <1>1, <1>3, <2>1
  <2>2. CASE n # 1
    <3> DEFINE j == n - 1
    <3>1. j \in 1..Len(t) /\ all[n] = t[j] /\ n = j + 1
      BY <1>4, <2>2
    <3>2. /\ IsPowerOfTwo(Size(t[j])) /\ t[j].base % Size(t[j]) = 0 /\ Multiple(Size(t[j]), unit)
          /\ m <= t[j].base /\ t[j].base < t[j].end /\ t[j].end <= e
          /\ t[j].base = IF j = 1 THEN m ELSE t[j - 1].end
      BY <3>1 DEF Tiles
    <3>3. t[j].base = all[j].end
      <4>1. CASE j = 1
        BY <1>1, <1>3, <3>2, <4>1
      <4>2. CASE j # 1
        <5>1. j \in 1..Len(all)
          BY <1>2, <1>3, <3>1
        <5>2. all[j] = t[j - 1]
          BY <1>4, <4>2, <5>1
        <5> QED
          BY <3>2, <4>2, <5>2
      <4> QED
        BY <4>1, <4>2
    <3>4. b <= t[j].base
      BY <1>5, <3>1, <3>2
    <3> QED
      BY <2>2, <3>1, <3>2, <3>3, <3>4
  <2> QED
    BY <2>1, <2>2
<1>7. Len(all) # 0 /\ all[Len(all)].end = e
  <2>1. CASE Len(t) = 0
    <3>1. m = e
      BY <2>1 DEF Tiles
    <3> QED
      BY <1>1, <1>3, <2>1, <3>1
  <2>2. CASE Len(t) # 0
    <3>1. t[Len(t)].end = e
      BY <2>2 DEF Tiles
    <3>2. Len(t) \in 1..Len(t)
      BY <1>2, <2>2
    <3>3. all[Len(t) + 1] = t[Len(t)]
      BY <1>3, <3>2
    <3> QED
      BY <1>2, <1>3, <3>1, <3>3
  <2> QED
    BY <2>1, <2>2
<1>8. PairwiseDisjoint(t) /\ Covered(t) = m..e - 1
  BY DEF Tiles
<1>9. DOMAIN all = 1..Len(all) /\ DOMAIN t = 1..Len(t)
  BY <1>2, <1>3
<1>10. \A n \in 1..Len(t) : Addresses(t[n]) \cap Addresses(x) = {}
  <2> TAKE n \in 1..Len(t)
  <2>1. Addresses(t[n]) \subseteq m..e - 1
    BY <1>8, <1>9, CoveredIs
  <2> QED
    BY <1>1, <2>1
<1>11. PairwiseDisjoint(all)
  <2> SUFFICES ASSUME NEW i \in 1..Len(all), NEW j \in 1..Len(all), i # j
               PROVE  Addresses(all[i]) \cap Addresses(all[j]) = {}
    BY <1>9 DEF PairwiseDisjoint
  <2>1. CASE i = 1
    <3>1. j - 1 \in 1..Len(t) /\ all[j] = t[j - 1]
      BY <1>4, <2>1
    <3> QED
      BY <1>3, <1>10, <2>1, <3>1
  <2>2. CASE j = 1
    <3>1. i - 1 \in 1..Len(t) /\ all[i] = t[i - 1]
      BY <1>4, <2>2
    <3> QED
      BY <1>3, <1>10, <2>2, <3>1
  <2>3. CASE i # 1 /\ j # 1
    <3>1. i - 1 \in 1..Len(t) /\ all[i] = t[i - 1] /\ j - 1 \in 1..Len(t) /\ all[j] = t[j - 1]
      BY <1>4, <2>3
    <3>2. i - 1 # j - 1
      OBVIOUS
    <3> QED
      BY <1>8, <1>9, <3>1, <3>2 DEF PairwiseDisjoint
  <2> QED
    BY <2>1, <2>2, <2>3
<1>12. Covered(all) = Addresses(x) \cup Covered(t)
  <2>1. ASSUME NEW a \in Covered(all) PROVE a \in Addresses(x) \cup Covered(t)
    <3>1. PICK n \in 1..Len(all) : a \in Addresses(all[n])
      BY <1>9, <2>1, CoveredIs
    <3>2. CASE n = 1
      BY <1>3, <3>1, <3>2
    <3>3. CASE n # 1
      BY <1>4, <1>9, <3>1, <3>3, CoveredIs
    <3> QED
      BY <3>2, <3>3
  <2>2. Addresses(x) \subseteq Covered(all)
    <3>1. 1 \in 1..Len(all)
      BY <1>2, <1>3
    <3> QED
      BY <1>3, <1>9, <3>1, CoveredIs
  <2>3. ASSUME NEW a \in Covered(t) PROVE a \in Covered(all)
    <3>1. PICK n \in 1..Len(t) : a \in Addresses(t[n])
      BY <1>9, <2>3, CoveredIs
    <3>2. n + 1 \in 1..Len(all) /\ all[n + 1] = t[n]
      BY <1>2, <1>3
    <3> QED
      BY <1>9, <3>1, <3>2, CoveredIs
  <2> QED
    BY <2>1, <2>2, <2>3
<1>13. Covered(all) = b..e - 1
  BY <1>1, <1>8, <1>12
<1> QED
  BY <1>3, <1>6, <1>7, <1>11, <1>13 DEF Tiles, all

\* aligned_power_of_two_regions gives all of a region, in order (util.py:83-113).
LEMMA RegionsTile ==
  ASSUME PowersOfTwo, NEW top \in Nat, WindowAligned(top),
         NEW r, r.base \in Nat, r.end \in Nat, r.base <= r.end, r.end <= top,
         NEW c \in 0..WordBits, c <= MaxBits,
         Multiple(KernelVirtualBase, 2^c), Multiple(r.base, 2^c), Multiple(r.end, 2^c)
  PROVE  Tiles(AlignedPowerOfTwoRegions(r), r.base, r.end, 2^c)
<1> DEFINE e == r.end
           u == PaddrToKernelVaddr(e)
           V(p) == PaddrToKernelVaddr(p)
<1>1. e < WordSize /\ r.base < WordSize /\ WordSize \in Nat
  BY WordIs DEF WindowAligned
<1>2. PICK g : g = CutStep(g, u) /\ AlignedPowerOfTwoRegions(r) = g[V(r.base)]
  BY <1>1, RegionsAreCuts
<1> DEFINE Wrong == {d \in Nat : \E p \in r.base..e : /\ d = e - p /\ Multiple(p, 2^c)
                                                  /\ ~Tiles(g[V(p)], p, e, 2^c)}
<1>3. Wrong = {}
  <2> SUFFICES ASSUME Wrong # {} PROVE FALSE
    OBVIOUS
  <2>1. Wrong \in SUBSET Nat
    OBVIOUS
  <2>2. PICK d \in Wrong : \A x \in Wrong : d <= x
    <3> HIDE DEF Wrong
    <3> QED
      BY <2>1, MinIsIn
  <2>3. PICK p \in r.base..e : d = e - p /\ Multiple(p, 2^c) /\ ~Tiles(g[V(p)], p, e, 2^c)
    BY <2>2
  <2>4. p \in Nat /\ p <= e /\ e \in Nat
    OBVIOUS
  <2>5. V(p) \in 0..WordSize - 1 /\ u \in 0..WordSize - 1
    BY <1>1, <2>4, VaddrIs
  <2>6. CASE p = e
    <3>1. g[V(p)] = <<>>
      BY <1>2, <2>5, <2>6 DEF CutStep
    <3> QED
      BY <2>3, <2>4, <2>6, <3>1, NoTiles
  <2>7. CASE p < e
    <3> DEFINE size == 2^PieceBits(V(p), u)
               q == p + size
    <3>1. /\ size \in Nat \ {0} /\ q <= e /\ p % size = 0 /\ IsPowerOfTwo(size)
          /\ Multiple(size, 2^c)
      BY <2>3, <2>4, <2>7, PieceIs
    <3>2. q \in Nat /\ q < WordSize /\ p < WordSize
      BY <1>1, <2>4, <3>1
    <3>3. /\ KernelVaddrToPaddr(V(p) + size) = q /\ (V(p) + size) % WordSize = V(q)
      BY <2>4, <3>1, <3>2, VaddrPlus
    <3>4. KernelVaddrToPaddr(V(p)) = p
      <4>1. KernelVaddrToPaddr(V(p) + 0) = p + 0
        BY <2>4, <3>2, VaddrPlus
      <4>2. V(p) + 0 = V(p) /\ p + 0 = p
        BY <2>4, <2>5
      <4> QED
        BY <4>1, <4>2
    <3>5. V(p) # u
      <4>1. (V(p + (e - p)) - V(p)) % WordSize = e - p
        <5>1. e - p \in Nat /\ p + (e - p) < WordSize
          BY <1>1, <2>4
        <5> QED
          BY <2>4, <5>1, VaddrPlus
      <4>2. p + (e - p) = e /\ e - p # 0
        BY <2>4, <2>7
      <4>3. (u - V(p)) % WordSize = e - p
        BY <4>1, <4>2
      <4>4. V(p) = u => u - V(p) = 0
        BY <2>5
      <4>5. 0 % WordSize = 0
        BY WordIs
      <4> QED
        BY <4>2, <4>3, <4>4, <4>5
    <3> HIDE DEF size, q, u, e
    <3>6. g[V(p)] = <<MemoryRegion(KernelVaddrToPaddr(V(p)), KernelVaddrToPaddr(V(p) + size))>>
                      \o g[(V(p) + size) % WordSize]
      BY <1>2, <2>5, <3>5 DEF CutStep, size
    <3>7. g[V(p)] = <<MemoryRegion(p, q)>> \o g[V(q)]
      BY <3>3, <3>4, <3>6
    <3>8. Tiles(g[V(q)], q, e, 2^c)
      <4> SUFFICES ASSUME ~Tiles(g[V(q)], q, e, 2^c) PROVE FALSE
        OBVIOUS
      <4>1. 2^c \in Nat
        BY DEF PowersOfTwo
      <4>2. Multiple(q, 2^c)
        BY <2>3, <2>4, <3>1, <4>1, SumOfMultiples DEF q
      <4>3. q \in r.base..e /\ e - q \in Nat /\ e - q < d
        BY <2>3, <2>4, <3>1, <3>2 DEF q
      <4>4. e - q \in Wrong
        BY <4>2, <4>3
      <4>5. d <= e - q
        BY <2>2, <4>4
      <4> QED
        BY <2>3, <2>4, <4>3, <4>5
    <3>9. q - p = size /\ p < q
      BY <2>4, <3>1, <3>2 DEF q
    <3>10. Tiles(g[V(p)], p, e, 2^c)
      <4>1. IsPowerOfTwo(q - p) /\ p % (q - p) = 0 /\ Multiple(q - p, 2^c)
        BY <3>1, <3>9
      <4>2. PICK t : t = g[V(q)]
        OBVIOUS
      <4>3. PICK x : x = MemoryRegion(p, q)
        OBVIOUS
      <4>4. p \in Nat /\ q \in Nat /\ e \in Nat /\ p < q /\ q <= e
        BY <2>4, <3>1, <3>2, <3>9
      <4>5. Tiles(t, q, e, 2^c)
        BY <3>8, <4>2
      <4>6. Tiles(<<x>> \o t, p, e, 2^c)
        BY <4>1, <4>3, <4>4, <4>5, OneMoreTile
      <4> QED
        BY <3>7, <4>2, <4>3, <4>6
    <3> QED
      BY <2>3, <3>10
  <2> QED
    BY <2>4, <2>6, <2>7
<1>4. e - r.base \in Nat /\ r.base \in r.base..e
  OBVIOUS
<1>5. Tiles(g[V(r.base)], r.base, e, 2^c)
  BY <1>3, <1>4
<1> QED
  BY <1>2, <1>5

-----------------------------------------------------------------------------
(* Lists of untyped objects *)

\* The regions of t are disjoint untyped objects that cover exactly the addresses of A.
Exact(t, A) ==
  /\ t \in Seq(IntRegion)
  /\ \A n \in DOMAIN t :
       IsPowerOfTwo(Size(t[n])) /\ t[n].base % Size(t[n]) = 0 /\ t[n].base < t[n].end
  /\ PairwiseDisjoint(t) /\ Covered(t) = A

\* What is where in two lists, one after the other.
LEMMA ConcatIs ==
  ASSUME NEW t \in Seq(IntRegion), NEW u \in Seq(IntRegion)
  PROVE  /\ t \o u \in Seq(IntRegion)
         /\ \A n \in DOMAIN (t \o u) :
              \/ n \in DOMAIN t /\ (t \o u)[n] = t[n]
              \/ n - Len(t) \in DOMAIN u /\ (t \o u)[n] = u[n - Len(t)]
         /\ \A n \in DOMAIN t : n \in DOMAIN (t \o u) /\ (t \o u)[n] = t[n]
         /\ \A n \in DOMAIN u : n + Len(t) \in DOMAIN (t \o u) /\ (t \o u)[n + Len(t)] = u[n]
<1>1. /\ t \o u \in Seq(IntRegion) /\ Len(t \o u) = Len(t) + Len(u)
      /\ \A i \in 1..Len(t) + Len(u) :
           (t \o u)[i] = IF i <= Len(t) THEN t[i] ELSE u[i - Len(t)]
  BY ConcatProperties
<1>2. Len(t) \in Nat /\ Len(u) \in Nat /\ DOMAIN t = 1..Len(t) /\ DOMAIN u = 1..Len(u)
  OBVIOUS
<1> DEFINE all == t \o u
<1> HIDE DEF all
<1>3. DOMAIN all = 1..Len(t) + Len(u)
  BY <1>1, <1>2 DEF all
<1>4. \A i \in 1..Len(t) + Len(u) : all[i] = IF i <= Len(t) THEN t[i] ELSE u[i - Len(t)]
  BY <1>1 DEF all
<1>5. \A n \in DOMAIN all :
        \/ n \in DOMAIN t /\ all[n] = t[n]
        \/ n - Len(t) \in DOMAIN u /\ all[n] = u[n - Len(t)]
  BY <1>2, <1>3, <1>4
<1>6. \A n \in DOMAIN t : n \in DOMAIN all /\ all[n] = t[n]
  BY <1>2, <1>3, <1>4
<1>7. ASSUME NEW n \in DOMAIN u
      PROVE  n + Len(t) \in DOMAIN all /\ all[n + Len(t)] = u[n]
  <2>1. n + Len(t) \in 1..Len(t) + Len(u) /\ ~(n + Len(t) <= Len(t)) /\ (n + Len(t)) - Len(t) = n
    BY <1>2
  <2> QED
    BY <1>3, <1>4, <2>1
<1> QED
  BY <1>1, <1>5, <1>6, <1>7 DEF all

\* Two lists of untyped objects of different addresses are one list of them all.
LEMMA ConcatExact ==
  ASSUME NEW t, NEW u, NEW A, NEW B, Exact(t, A), Exact(u, B), A \cap B = {}
  PROVE  Exact(t \o u, A \cup B)
<1> DEFINE all == t \o u
<1>1. t \in Seq(IntRegion) /\ u \in Seq(IntRegion)
  BY DEF Exact
<1>2. /\ all \in Seq(IntRegion)
      /\ \A n \in DOMAIN all : \/ n \in DOMAIN t /\ all[n] = t[n]
                               \/ n - Len(t) \in DOMAIN u /\ all[n] = u[n - Len(t)]
      /\ \A n \in DOMAIN t : n \in DOMAIN all /\ all[n] = t[n]
      /\ \A n \in DOMAIN u : n + Len(t) \in DOMAIN all /\ all[n + Len(t)] = u[n]
  BY <1>1, ConcatIs
<1> HIDE DEF all
<1>3. \A n \in DOMAIN all : IsPowerOfTwo(Size(all[n])) /\ all[n].base % Size(all[n]) = 0
                              /\ all[n].base < all[n].end
  BY <1>2 DEF Exact
<1>4. Covered(t) = A /\ Covered(u) = B /\ PairwiseDisjoint(t) /\ PairwiseDisjoint(u)
  BY DEF Exact
<1>5. \A m \in DOMAIN t, n \in DOMAIN u : Addresses(t[m]) \cap Addresses(u[n]) = {}
  BY <1>4, CoveredIs
<1>6. ASSUME NEW m \in DOMAIN all, NEW n \in DOMAIN all, m # n
      PROVE  Addresses(all[m]) \cap Addresses(all[n]) = {}
  <2>1. CASE m \in DOMAIN t /\ all[m] = t[m] /\ n \in DOMAIN t /\ all[n] = t[n]
    BY <1>4, <1>6, <2>1 DEF PairwiseDisjoint
  <2>2. CASE /\ m - Len(t) \in DOMAIN u /\ all[m] = u[m - Len(t)]
             /\ n - Len(t) \in DOMAIN u /\ all[n] = u[n - Len(t)]
    <3>1. m - Len(t) # n - Len(t)
      <4>1. m \in Int /\ n \in Int /\ Len(t) \in Int
        BY <1>1, <1>2
      <4> QED
        BY <1>6, <4>1
    <3> QED
      BY <1>4, <2>2, <3>1 DEF PairwiseDisjoint
  <2> QED
    BY <1>2, <1>5, <2>1, <2>2
<1>7. Covered(all) = A \cup B
  <2>1. \A a \in Covered(all) : a \in Covered(t) \cup Covered(u)
    BY <1>2, CoveredIs
  <2>2. \A a \in Covered(t) : a \in Covered(all)
    BY <1>2, CoveredIs
  <2>3. \A a \in Covered(u) : a \in Covered(all)
    BY <1>2, CoveredIs
  <2> QED
    BY <1>4, <2>1, <2>2, <2>3
<1> QED
  BY <1>2, <1>3, <1>6, <1>7 DEF Exact, PairwiseDisjoint, all

LEMMA TilesExact ==
  ASSUME NEW t, NEW b, NEW e, NEW unit, Tiles(t, b, e, unit)
  PROVE  Exact(t, b..e - 1)
<1>1. t \in Seq(IntRegion) /\ DOMAIN t = 1..Len(t)
  BY DEF Tiles
<1> QED
  BY <1>1 DEF Tiles, Exact

\* Every region has the alignment 2^0.
LEMMA RegionExact ==
  ASSUME PowersOfTwo, NEW top \in Nat, WindowAligned(top),
         NEW r, r.base \in Nat, r.end \in Nat, r.base <= r.end, r.end <= top
  PROVE  Exact(AlignedPowerOfTwoRegions(r), Addresses(r))
<1>1. \A n \in Nat : Multiple(n, 2^0)
  <2> TAKE n \in Nat
  <2>1. 2^0 = 1 /\ n = n * 1
    BY DEF PowersOfTwo
  <2> QED
    BY <2>1 DEF Multiple
<1>2. 0 \in 0..WordBits /\ 0 <= MaxBits /\ KernelVirtualBase \in Nat
  BY WordAssumption, WordIs
<1>3. Tiles(AlignedPowerOfTwoRegions(r), r.base, r.end, 2^0)
  BY <1>1, <1>2, RegionsTile
<1> QED
  BY <1>3, TilesExact DEF Addresses

\* One step of FlattenSeq, if g does the earlier ones.
FlatStep(g, q) == [i \in 1..Len(q) |-> IF i = 1 THEN q[i] ELSE g[i - 1] \o q[i]]

LEMMA FlatExists ==
  ASSUME NEW q, Len(q) \in Nat
  PROVE  \E g : g = FlatStep(g, q)
<1> DEFINE D == 1..Len(q)
           Good(n, g) == \A i \in D : i <= n => g[i] = FlatStep(g, q)[i]
           Bad == {n \in Nat : ~\E g : Good(n, g)}
<1>1. ASSUME NEW n \in Nat, NEW g, \A i \in D : i < n => g[i] = FlatStep(g, q)[i]
      PROVE  Good(n, FlatStep(g, q))
  <2> DEFINE h == FlatStep(g, q)
  <2> SUFFICES ASSUME NEW i \in D, i <= n
               PROVE  h[i] = FlatStep(h, q)[i]
    OBVIOUS
  <2>1. CASE i = 1
    BY <2>1 DEF FlatStep
  <2>2. CASE i # 1
    <3>1. i - 1 \in D /\ i - 1 < n
      BY <2>2
    <3>2. g[i - 1] = h[i - 1]
      BY <1>1, <3>1
    <3>3. \A f : FlatStep(f, q)[i] = f[i - 1] \o q[i]
      BY <2>2 DEF FlatStep
    <3>4. h[i] = g[i - 1] \o q[i]
      BY <3>3
    <3> HIDE DEF h
    <3>5. FlatStep(h, q)[i] = h[i - 1] \o q[i]
      BY <3>3
    <3> QED
      BY <3>2, <3>4, <3>5
  <2> QED
    BY <2>1, <2>2
<1>2. Bad = {}
  <2> SUFFICES ASSUME Bad # {} PROVE FALSE
    OBVIOUS
  <2>1. Bad \in SUBSET Nat
    OBVIOUS
  <2>2. PICK n \in Bad : \A m \in Bad : n <= m
    <3> HIDE DEF Bad
    <3> QED
      BY <2>1, MinIsIn
  <2>3. n \in Nat /\ ~\E g : Good(n, g)
    BY <2>2
  <2>4. \E g : \A i \in D : i < n => g[i] = FlatStep(g, q)[i]
    <3>1. CASE n = 0
      BY <3>1
    <3>2. CASE n # 0
      <4>1. n - 1 \in Nat /\ ~(n <= n - 1)
        BY <2>3, <3>2
      <4>2. n - 1 \notin Bad
        BY <2>2, <4>1
      <4>3. PICK g : Good(n - 1, g)
        BY <4>1, <4>2
      <4>4. \A i \in D : i < n => i <= n - 1
        BY <2>3
      <4> QED
        BY <4>3, <4>4
    <3> QED
      BY <3>1, <3>2
  <2>5. PICK g : \A i \in D : i < n => g[i] = FlatStep(g, q)[i]
    BY <2>4
  <2>6. Good(n, FlatStep(g, q))
    BY <1>1, <2>3, <2>5
  <2> QED
    BY <2>3, <2>6
<1>3. PICK g : Good(Len(q), g)
  BY <1>2
<1> DEFINE h == FlatStep(g, q)
<1>4. Good(Len(q), h)
  <2>1. \A i \in D : i < Len(q) => g[i] = FlatStep(g, q)[i]
    BY <1>3
  <2> QED
    BY <1>1, <2>1
<1>5. \A i \in D : h[i] = FlatStep(h, q)[i]
  BY <1>4
<1>6. h = [i \in D |-> h[i]] /\ FlatStep(h, q) = [i \in D |-> FlatStep(h, q)[i]]
  BY DEF FlatStep
<1> HIDE DEF h
<1> QED
  BY <1>5, <1>6

\* The list of untyped objects of a list of regions (util.py:175-179).
LEMMA AllExact ==
  ASSUME PowersOfTwo, NEW top \in Nat, WindowAligned(top),
         NEW s \in Seq(IntRegion), PairwiseDisjoint(s),
         \A n \in DOMAIN s : 0 <= s[n].base /\ s[n].base <= s[n].end /\ s[n].end <= top
  PROVE  Exact(AllAlignedRegions(s), Covered(s))
<1> DEFINE q == [n \in DOMAIN s |-> AlignedPowerOfTwoRegions(s[n])]
           Upto(i) == UNION {Addresses(s[n]) : n \in 1..i}
<1>1. Len(s) \in Nat /\ DOMAIN s = 1..Len(s)
  OBVIOUS
<1>2. Len(q) = Len(s) /\ \A n \in 1..Len(s) : q[n] = AlignedPowerOfTwoRegions(s[n])
  BY <1>1
<1>3. \A n \in 1..Len(s) : Exact(q[n], Addresses(s[n]))
  <2> TAKE n \in 1..Len(s)
  <2>1. s[n] \in IntRegion
    BY <1>1
  <2>2. s[n].base \in Nat /\ s[n].end \in Nat /\ s[n].base <= s[n].end /\ s[n].end <= top
    <3>1. s[n].base \in Int /\ s[n].end \in Int
      BY <2>1 DEF IntRegion
    <3> QED
      BY <1>1, <3>1
  <2>3. Exact(AlignedPowerOfTwoRegions(s[n]), Addresses(s[n]))
    BY <2>2, RegionExact
  <2> QED
    BY <1>2, <2>3
<1>4. AllAlignedRegions(s) = FlattenSeq(q)
  BY DEF AllAlignedRegions
<1>5. CASE Len(s) = 0
  <2>1. q = <<>> /\ s = <<>>
    BY <1>1, <1>5
  <2>2. FlattenSeq(q) = q
    BY <1>2, <1>5 DEF FlattenSeq
  <2>3. Exact(<<>>, Covered(<<>>))
    <3>1. <<>> \in Seq(IntRegion) /\ DOMAIN <<>> = {}
      OBVIOUS
    <3> QED
      BY <3>1 DEF Exact, PairwiseDisjoint
  <2> QED
    BY <1>4, <2>1, <2>2, <2>3
<1>6. CASE Len(s) # 0
  <2> HIDE DEF q
  <2> DEFINE it == CHOOSE g : g = FlatStep(g, q)
  <2>1. FlattenSeq(q) = it[Len(q)]
    <3>1. Len(q) # 0
      BY <1>2, <1>6
    <3> QED
      BY <3>1, Zenon DEF FlattenSeq, FlatStep
  <2>2. it = FlatStep(it, q)
    BY <1>1, <1>2, FlatExists
  <2> HIDE DEF it
  <2>3. /\ \A i \in 1..Len(s) : it[i] = IF i = 1 THEN q[i] ELSE it[i - 1] \o q[i]
    BY <1>2, <2>2 DEF FlatStep
  <2> DEFINE Bad == {i \in 1..Len(s) : ~Exact(it[i], Upto(i))}
  <2>4. Bad = {}
    <3> SUFFICES ASSUME Bad # {} PROVE FALSE
      OBVIOUS
    <3>1. Bad \in SUBSET Nat
      OBVIOUS
    <3>2. PICK i \in Bad : \A j \in Bad : i <= j
      <4> HIDE DEF Bad
      <4> QED
        BY <3>1, MinIsIn
    <3>3. i \in 1..Len(s) /\ ~Exact(it[i], Upto(i))
      BY <3>2
    <3>4. CASE i = 1
      <4>1. Upto(1) = Addresses(s[1])
        OBVIOUS
      <4> QED
        BY <1>3, <2>3, <3>3, <3>4, <4>1
    <3>5. CASE i # 1
      <4>1. i - 1 \in 1..Len(s) /\ ~(i <= i - 1)
        BY <3>3, <3>5
      <4>2. Exact(it[i - 1], Upto(i - 1))
        BY <3>2, <4>1
      <4>3. Upto(i) = Upto(i - 1) \cup Addresses(s[i])
        <5>1. 1..i = (1..i - 1) \cup {i}
          BY <3>3
        <5> QED
          BY <5>1
      <4>4. Upto(i - 1) \cap Addresses(s[i]) = {}
        <5>1. \A n \in 1..i - 1 : n \in DOMAIN s /\ n # i
          BY <1>1, <3>3
        <5>2. \A n \in 1..i - 1 : Addresses(s[n]) \cap Addresses(s[i]) = {}
          BY <1>1, <3>3, <5>1 DEF PairwiseDisjoint
        <5> QED
          BY <5>2
      <4>5. it[i] = it[i - 1] \o q[i]
        BY <2>3, <3>3, <3>5
      <4> HIDE DEF Upto
      <4>6. Exact(it[i - 1] \o q[i], Upto(i - 1) \cup Addresses(s[i]))
        BY <1>3, <3>3, <4>2, <4>4, ConcatExact
      <4> QED
        BY <3>3, <4>3, <4>5, <4>6
    <3> QED
      BY <3>4, <3>5
  <2>5. Len(s) \in 1..Len(s)
    BY <1>1, <1>6
  <2>6. Exact(it[Len(s)], Upto(Len(s)))
    BY <2>4, <2>5
  <2>7. Upto(Len(s)) = Covered(s)
    BY <1>1 DEF Covered
  <2> QED
    BY <1>2, <1>4, <2>1, <2>6, <2>7
<1> QED
  BY <1>5, <1>6

-----------------------------------------------------------------------------
(* What a removal leaves *)

\* The regions after a removal are regions of before, or what is left of one on one side.
LEMMA RemovalLeaves ==
  ASSUME NEW s \in Seq(IntRegion), NEW b \in Int, NEW e \in Int
  PROVE  LET t == RemoveRegion(s, b, e).regions
         IN  \A m \in DOMAIN t : \E n \in DOMAIN s :
               \/ t[m] = s[n]
               \/ t[m] = MemoryRegion(s[n].base, b) /\ s[n].base < b /\ b <= s[n].end - (e - b)
               \/ t[m] = MemoryRegion(e, s[n].end) /\ e < s[n].end /\ s[n].base <= b
<1> SUFFICES ASSUME NEW t, t = RemoveRegion(s, b, e).regions
             PROVE  \A m \in DOMAIN t : \E n \in DOMAIN s :
               \/ t[m] = s[n]
               \/ t[m] = MemoryRegion(s[n].base, b) /\ s[n].base < b /\ b <= s[n].end - (e - b)
               \/ t[m] = MemoryRegion(e, s[n].end) /\ e < s[n].end /\ s[n].base <= b
  OBVIOUS
<1>1. CASE Holding(s, b, e) = {}
  <2>1. t = s
    BY <1>1 DEF RemoveRegion
  <2> QED
    BY <2>1
<1>2. CASE Holding(s, b, e) # {}
  <2> DEFINE k == Min(Holding(s, b, e))
             low == MemoryRegion(s[k].base, b)
             high == MemoryRegion(e, s[k].end)
  <2>1. Holding(s, b, e) \in SUBSET Nat
    BY DEF Holding
  <2>2. k \in Holding(s, b, e)
    BY <1>2, <2>1, MinIsIn
  <2>3. k \in DOMAIN s /\ s[k].base <= b /\ e <= s[k].end
    BY <2>2 DEF Holding
  <2>4. t = Cut(s, k, b, e)
    BY <1>2 DEF RemoveRegion, Result
  <2> HIDE DEF k
  <2>5. s[k] \in IntRegion /\ s[k].base \in Int /\ s[k].end \in Int
    <3>1. s[k] \in IntRegion
      BY <2>3
    <3> QED
      BY <3>1 DEF IntRegion
  <2>6. low \in IntRegion /\ high \in IntRegion
    BY <2>5 DEF MemoryRegion, IntRegion
  <2>7. Len(s) \in Nat /\ DOMAIN s = 1..Len(s)
    OBVIOUS
  <2> HIDE DEF low, high
  <2>8. CASE s[k].base = b /\ s[k].end = e
    <3>1. t = RemoveAt(s, k)
      BY <2>4, <2>8 DEF Cut
    <3>2. /\ t \in Seq(IntRegion) /\ Len(t) = Len(s) - 1
          /\ \A i \in 1..Len(s) - 1 : t[i] = IF i < k THEN s[i] ELSE s[i + 1]
      BY <2>3, <3>1, RemoveAtIs
    <3>5. DOMAIN t = 1..Len(s) - 1 /\ k \in 1..Len(s)
      <4>1. DOMAIN t = 1..Len(t)
        BY <3>2
      <4> QED
        BY <2>3, <2>7, <3>2, <4>1
    <3> TAKE m \in DOMAIN t
    <3>0. m \in 1..Len(s) - 1 /\ k \in 1..Len(s)
      BY <3>5
    <3> DEFINE n == IF m < k THEN m ELSE m + 1
    <3>4. n \in DOMAIN s
      BY <2>7, <3>0
    <3>3. n \in DOMAIN s /\ t[m] = s[n]
      BY <3>0, <3>4, <3>2
    <3> QED
      BY <3>3
  <2>9. ASSUME NEW x \in IntRegion, t = ReplaceAt(s, k, x)
        PROVE  \A m \in DOMAIN t : m \in DOMAIN s /\ (t[m] = s[m] \/ t[m] = x)
    <3>1. /\ ReplaceAt(s, k, x) \in Seq(IntRegion)
          /\ Len(ReplaceAt(s, k, x)) = Len(s)
          /\ \A i \in 1..Len(s) : ReplaceAt(s, k, x)[i] = IF i = k THEN x ELSE s[i]
      BY <2>3, ReplaceAtIs, Zenon
    <3> QED
      BY <2>7, <2>9, <3>1
  <2>10. CASE s[k].base = b /\ s[k].end # e
    <3>1. t = ReplaceAt(s, k, high)
      BY <2>4, <2>10 DEF Cut, high
    <3>2. \A m \in DOMAIN t : m \in DOMAIN s /\ (t[m] = s[m] \/ t[m] = high)
      BY <2>6, <2>9, <3>1
    <3>3. e < s[k].end
      BY <2>3, <2>5, <2>10
    <3> QED
      BY <2>3, <3>2, <3>3 DEF high
  <2>11. CASE s[k].base # b /\ s[k].end = e
    <3>1. t = ReplaceAt(s, k, low)
      BY <2>4, <2>11 DEF Cut, low
    <3>2. \A m \in DOMAIN t : m \in DOMAIN s /\ (t[m] = s[m] \/ t[m] = low)
      BY <2>6, <2>9, <3>1
    <3>3. s[k].base < b /\ b <= s[k].end - (e - b)
      BY <2>3, <2>5, <2>11
    <3> QED
      BY <2>3, <3>2, <3>3 DEF low
  <2>12. CASE s[k].base # b /\ s[k].end # e
    <3> DEFINE mid == ReplaceAt(s, k, low)
    <3>1. t = InsertAt(mid, k + 1, high)
      BY <2>4, <2>12 DEF Cut, low, high
    <3>2. /\ mid \in Seq(IntRegion) /\ Len(mid) = Len(s)
          /\ \A i \in 1..Len(s) : mid[i] = IF i = k THEN low ELSE s[i]
      BY ZenonT(40), <2>3, <2>6, ReplaceAtIs
    <3> HIDE DEF mid
    <3>3. k + 1 \in 1..Len(mid) + 1
      BY <2>3, <2>7, <3>2
    <3> DEFINE j == k + 1
               all == InsertAt(mid, j, high)
    <3>4. j \in 1..Len(mid) + 1
      BY <3>3
    <3> HIDE DEF j
    <3>5. /\ all \in Seq(IntRegion) /\ Len(all) = Len(mid) + 1
          /\ \A n \in 1..Len(mid) + 1 :
               all[n] = IF n < j THEN mid[n] ELSE IF n = j THEN high ELSE mid[n - 1]
      BY <2>6, <3>2, <3>4, InsertAtIs
    <3>6. t = all
      BY <3>1 DEF j
    <3> HIDE DEF all
    <3>7. \A m \in DOMAIN t : t[m] = high \/ \E i \in DOMAIN s : t[m] = mid[i]
      <4> TAKE m \in DOMAIN t
      <4>1. m \in 1..Len(s) + 1
        BY <3>2, <3>5, <3>6
      <4>2. CASE m < j
        <5>1. m \in DOMAIN s /\ t[m] = mid[m]
          BY <2>7, <3>2, <3>4, <3>5, <3>6, <4>1, <4>2
        <5> QED
          BY <5>1
      <4>3. CASE m > j
        <5>1. m - 1 \in DOMAIN s /\ t[m] = mid[m - 1]
          BY <2>7, <3>2, <3>4, <3>5, <3>6, <4>1, <4>3
        <5> QED
          BY <5>1
      <4>4. CASE m = j
        BY <3>2, <3>5, <3>6, <4>1, <4>4
      <4> QED
        BY <3>4, <4>1, <4>2, <4>3, <4>4
    <3>8. \A i \in DOMAIN s : mid[i] = low \/ mid[i] = s[i]
      BY <2>7, <3>2
    <3>9. e < s[k].end /\ s[k].base < b /\ b <= s[k].end - (e - b)
      BY <2>3, <2>5, <2>12
    <3> QED
      BY <2>3, <3>7, <3>8, <3>9 DEF low, high
  <2> QED
    BY <2>8, <2>10, <2>11, <2>12
<1> QED
  BY <1>1, <1>2

\* The regions have addresses, all of them below top.
Proper(s, top) == \A n \in DOMAIN s : 0 <= s[n].base /\ s[n].base < s[n].end /\ s[n].end <= top

\* A removal leaves regions that have addresses.
LEMMA RemovalProper ==
  ASSUME NEW s \in Seq(IntRegion), NEW b \in Int, NEW e \in Int, b <= e, NEW top \in Int,
         Proper(s, top)
  PROVE  Proper(RemoveRegion(s, b, e).regions, top)
<1> DEFINE t == RemoveRegion(s, b, e).regions
<1>1. \A m \in DOMAIN t : \E n \in DOMAIN s :
        \/ t[m] = s[n]
        \/ t[m] = MemoryRegion(s[n].base, b) /\ s[n].base < b /\ b <= s[n].end - (e - b)
        \/ t[m] = MemoryRegion(e, s[n].end) /\ e < s[n].end /\ s[n].base <= b
  BY RemovalLeaves
<1> HIDE DEF t
<1> SUFFICES ASSUME NEW m \in DOMAIN t
             PROVE  0 <= t[m].base /\ t[m].base < t[m].end /\ t[m].end <= top
  BY DEF Proper, t
<1>2. PICK n \in DOMAIN s :
        \/ t[m] = s[n]
        \/ t[m] = MemoryRegion(s[n].base, b) /\ s[n].base < b /\ b <= s[n].end - (e - b)
        \/ t[m] = MemoryRegion(e, s[n].end) /\ e < s[n].end /\ s[n].base <= b
  BY <1>1
<1>3. s[n].base \in Int /\ s[n].end \in Int
  <2>1. s[n] \in IntRegion
    OBVIOUS
  <2> QED
    BY <2>1 DEF IntRegion
<1>4. 0 <= s[n].base /\ s[n].base < s[n].end /\ s[n].end <= top
  BY DEF Proper
<1>5. \A c, d : MemoryRegion(c, d).base = c /\ MemoryRegion(c, d).end = d
  BY DEF MemoryRegion
<1> QED
  BY <1>2, <1>3, <1>4, <1>5

\* The regions after an insertion are those of before and the new one.
LEMMA InsertedAre ==
  ASSUME NEW s \in Seq(IntRegion), NEW b \in Int, NEW e \in Int
  PROVE  LET t == InsertRegion(s, b, e).regions
         IN  \A m \in DOMAIN t : t[m] = MemoryRegion(b, e) \/ \E n \in DOMAIN s : t[m] = s[n]
<1> DEFINE t == InsertRegion(s, b, e).regions
           above == {n \in DOMAIN s : e < s[n].base}
           x == MemoryRegion(b, e)
<1>1. PICK i : i = IF above = {} THEN Len(s) + 1 ELSE Min(above)
  OBVIOUS
<1>2. Len(s) \in Nat /\ DOMAIN s = 1..Len(s)
  OBVIOUS
<1>3. i \in 1..Len(s) + 1
  <2>1. CASE above = {}
    BY <1>1, <1>2, <2>1
  <2>2. CASE above # {}
    <3>1. above \in SUBSET Nat
      BY <1>2
    <3>2. i \in above
      BY <1>1, <2>2, <3>1, MinIsIn
    <3> QED
      BY <1>2, <3>2
  <2> QED
    BY <2>1, <2>2
<1>4. x \in IntRegion
  BY DEF MemoryRegion, IntRegion
<1>5. t = InsertAt(s, i, x)
  BY <1>1 DEF InsertRegion, Result
<1> HIDE DEF x, above
<1> DEFINE all == InsertAt(s, i, x)
<1>6. /\ all \in Seq(IntRegion) /\ Len(all) = Len(s) + 1
      /\ \A n \in 1..Len(s) + 1 :
           all[n] = IF n < i THEN s[n] ELSE IF n = i THEN x ELSE s[n - 1]
  BY ZenonT(40), <1>3, <1>4, InsertAtIs
<1>7. t = all
  BY <1>5
<1> HIDE DEF all, t
<1> SUFFICES ASSUME NEW m \in DOMAIN t PROVE t[m] = x \/ \E n \in DOMAIN s : t[m] = s[n]
  BY DEF x, t
<1>8. m \in 1..Len(s) + 1
  BY <1>6, <1>7
<1>9. CASE m < i
  <2>1. m \in DOMAIN s /\ t[m] = s[m]
    BY <1>2, <1>3, <1>6, <1>7, <1>8, <1>9
  <2> QED
    BY <2>1
<1>10. CASE m > i
  <2>1. m - 1 \in DOMAIN s /\ t[m] = s[m - 1]
    BY <1>2, <1>3, <1>6, <1>7, <1>8, <1>10
  <2> QED
    BY <2>1
<1>11. CASE m = i
  BY <1>6, <1>7, <1>8, <1>11
<1> QED
  BY <1>3, <1>8, <1>9, <1>10, <1>11
=============================================================================
