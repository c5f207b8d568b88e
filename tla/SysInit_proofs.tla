---------------------------- MODULE SysInit_proofs ----------------------------
(***************************************************************************)
(* For every description: what the tool has read, laid out, collected and  *)
(* planned is well-formed, the plan starts PDs after all the rest, no PD   *)
(* runs before the last of them is configured, and the images lie where    *)
(* memory is reserved for them.                                            *)
(***************************************************************************)
EXTENDS SysInit, SequenceTheorems, FiniteSetTheorems, WellFoundedInduction, TLAPS

-----------------------------------------------------------------------------
(* Lists *)

\* A sequence, of whatever elements.
IsList(s) == Len(s) \in Nat /\ s = [n \in 1..Len(s) |-> s[n]]

LEMMA ListIsSeq ==
  ASSUME NEW s, IsList(s), NEW S, \A n \in 1..Len(s) : s[n] \in S
  PROVE  s \in Seq(S)
BY DEF IsList

LEMMA SeqIsList ==
  ASSUME NEW S, NEW s \in Seq(S)
  PROVE  IsList(s) /\ DOMAIN s = 1..Len(s) /\ \A n \in 1..Len(s) : s[n] \in S
BY DEF IsList

LEMMA ListDomain ==
  ASSUME NEW s, IsList(s)
  PROVE  DOMAIN s = 1..Len(s) /\ s \in Seq(ToSet(s))
<1>1. DOMAIN s = 1..Len(s)
  BY DEF IsList
<1>2. \A n \in 1..Len(s) : s[n] \in ToSet(s)
  BY <1>1 DEF ToSet
<1> QED
  BY <1>1, <1>2, ListIsSeq

LEMMA FunctionIsList ==
  ASSUME NEW m \in Nat, NEW s, s = [n \in 1..m |-> s[n]]
  PROVE  IsList(s) /\ Len(s) = m
<1>1. s \in Seq({s[n] : n \in 1..m})
  OBVIOUS
<1>2. Len(s) = m
  BY <1>1
<1> QED
  BY <1>2 DEF IsList

LEMMA ConcatLists ==
  ASSUME NEW s, IsList(s), NEW t, IsList(t)
  PROVE  /\ IsList(s \o t)
         /\ ToSet(s \o t) = ToSet(s) \cup ToSet(t)
<1> DEFINE S == ToSet(s) \cup ToSet(t)
<1>1. s \in Seq(S) /\ t \in Seq(S) /\ DOMAIN s = 1..Len(s) /\ DOMAIN t = 1..Len(t)
  <2>1. \A n \in 1..Len(s) : s[n] \in S
    BY ListDomain DEF ToSet
  <2>2. \A n \in 1..Len(t) : t[n] \in S
    BY ListDomain DEF ToSet
  <2> HIDE DEF S
  <2> QED
    BY <2>1, <2>2, ListIsSeq, ListDomain
<1> HIDE DEF S
<1>2. /\ s \o t \in Seq(S) /\ Len(s \o t) = Len(s) + Len(t)
      /\ \A i \in 1..Len(s) + Len(t) : (s \o t)[i] = IF i <= Len(s) THEN s[i] ELSE t[i - Len(s)]
  BY <1>1, ConcatProperties
<1> DEFINE all == s \o t
<1>3. IsList(all)
  BY <1>2, SeqIsList
<1> HIDE DEF all
<1>4. /\ Len(all) = Len(s) + Len(t) /\ Len(s) \in Nat /\ Len(t) \in Nat /\ DOMAIN all = 1..Len(all)
      /\ \A i \in 1..Len(s) + Len(t) : all[i] = IF i <= Len(s) THEN s[i] ELSE t[i - Len(s)]
  BY <1>1, <1>2, <1>3, ListDomain DEF all
<1>5. ToSet(all) \subseteq ToSet(s) \cup ToSet(t)
  <2> SUFFICES ASSUME NEW i \in DOMAIN all PROVE all[i] \in ToSet(s) \cup ToSet(t)
    BY DEF ToSet
  <2>1. CASE i <= Len(s)
    BY <1>1, <1>4, <2>1 DEF ToSet
  <2>2. CASE ~(i <= Len(s))
    <3>1. i - Len(s) \in DOMAIN t /\ all[i] = t[i - Len(s)]
      BY <1>1, <1>4, <2>2
    <3> QED
      BY <3>1 DEF ToSet
  <2> QED
    BY <2>1, <2>2
<1>6. ToSet(s) \subseteq ToSet(all)
  <2> SUFFICES ASSUME NEW i \in DOMAIN s PROVE s[i] \in ToSet(all)
    BY DEF ToSet
  <2>1. i \in DOMAIN all /\ all[i] = s[i]
    BY <1>1, <1>4
  <2> QED
    BY <2>1 DEF ToSet
<1>7. ToSet(t) \subseteq ToSet(all)
  <2> SUFFICES ASSUME NEW i \in DOMAIN t PROVE t[i] \in ToSet(all)
    BY DEF ToSet
  <2>1. i + Len(s) \in DOMAIN all /\ ~(i + Len(s) <= Len(s)) /\ (i + Len(s)) - Len(s) = i
    BY <1>1, <1>4
  <2>2. all[i + Len(s)] = t[i]
    BY <1>4, <2>1
  <2> QED
    BY <2>1, <2>2 DEF ToSet
<1> QED
  BY <1>3, <1>5, <1>6, <1>7 DEF all

\* A nonempty set of numbers has a least one.
LEMMA LeastOf ==
  ASSUME NEW S \in SUBSET Nat, S # {}
  PROVE  \E n \in S : \A m \in S : n <= m
<1>1. PICK n \in S : \A m \in S : ~(<<m, n>> \in OpToRel(<, Nat))
  BY WFMin, NatLessThanWellFounded
<1>2. \A m \in S : ~(m < n)
  BY <1>1 DEF OpToRel
<1> QED
  BY <1>2

\* One step of FlattenSeq, if g does the earlier ones.
FlatStep(g, q) == [i \in 1..Len(q) |-> IF i = 1 THEN q[i] ELSE g[i - 1] \o q[i]]

LEMMA FlatExists ==
  ASSUME NEW q, Len(q) \in Nat
  PROVE  \E g : g = FlatStep(g, q)
<1> DEFINE D == 1..Len(q)
           Good(n, g) == \A i \in D : i <= n => g[i] = FlatStep(g, q)[i]
           Bad == {n \in Nat : ~\E g : Good(n, g)}
<1>1. ASSUME NEW n \in Nat, NEW g, \A i \in D : i < n => g[i] = FlatStep(g, q)[i]
      PROVE  Good(n, FlatStep(g, q))
  <2> DEFINE h == FlatStep(g, q)
  <2> SUFFICES ASSUME NEW i \in D, i <= n
               PROVE  h[i] = FlatStep(h, q)[i]
    OBVIOUS
  <2>1. CASE i = 1
    BY <2>1 DEF FlatStep
  <2>2. CASE i # 1
    <3>1. i - 1 \in D /\ i - 1 < n
      BY <2>2
    <3>2. g[i - 1] = h[i - 1]
      BY <1>1, <3>1
    <3>3. \A f : FlatStep(f, q)[i] = f[i - 1] \o q[i]
      BY <2>2 DEF FlatStep
    <3>4. h[i] = g[i - 1] \o q[i]
      BY <3>3
    <3> HIDE DEF h
    <3>5. FlatStep(h, q)[i] = h[i - 1] \o q[i]
      BY <3>3
    <3> QED
      BY <3>2, <3>4, <3>5
  <2> QED
    BY <2>1, <2>2
<1>2. Bad = {}
  <2> SUFFICES ASSUME Bad # {} PROVE FALSE
    OBVIOUS
  <2>1. Bad \in SUBSET Nat
    OBVIOUS
  <2>2. PICK n \in Bad : \A m \in Bad : n <= m
    <3> HIDE DEF Bad
    <3> QED
      BY <2>1, LeastOf
  <2>3. n \in Nat /\ ~\E g : Good(n, g)
    BY <2>2
  <2>4. \E g : \A i \in D : i < n => g[i] = FlatStep(g, q)[i]
    <3>1. CASE n = 0
      BY <3>1
    <3>2. CASE n # 0
      <4>1. n - 1 \in Nat /\ ~(n <= n - 1)
        BY <2>3, <3>2
      <4>2. n - 1 \notin Bad
        BY <2>2, <4>1
      <4>3. PICK g : Good(n - 1, g)
        BY <4>1, <4>2
      <4>4. \A i \in D : i < n => i <= n - 1
        BY <2>3
      <4> QED
        BY <4>3, <4>4
    <3> QED
      BY <3>1, <3>2
  <2>5. PICK g : \A i \in D : i < n => g[i] = FlatStep(g, q)[i]
    BY <2>4
  <2>6. Good(n, FlatStep(g, q))
    BY <1>1, <2>3, <2>5
  <2> QED
    BY <2>3, <2>6
<1>3. PICK g : Good(Len(q), g)
  BY <1>2
<1> DEFINE h == FlatStep(g, q)
<1>4. Good(Len(q), h)
  <2>1. \A i \in D : i < Len(q) => g[i] = FlatStep(g, q)[i]
    BY <1>3
  <2> QED
    BY <1>1, <2>1
<1>5. \A i \in D : h[i] = FlatStep(h, q)[i]
  BY <1>4
<1>6. h = [i \in D |-> h[i]] /\ FlatStep(h, q) = [i \in D |-> FlatStep(h, q)[i]]
  BY DEF FlatStep
<1> HIDE DEF h
<1> QED
  BY <1>5, <1>6

\* The lists that FlattenSeq goes through, and what is in them.
FlatThrough(q, it) ==
  /\ FlattenSeq(q) = it[Len(q)]
  /\ \A i \in 1..Len(q) : it[i] = IF i = 1 THEN q[i] ELSE it[i - 1] \o q[i]
  /\ \A i \in 1..Len(q) : IsList(it[i]) /\ ToSet(it[i]) = UNION {ToSet(q[n]) : n \in 1..i}

LEMMA FlatStages ==
  ASSUME NEW q, IsList(q), \A n \in 1..Len(q) : IsList(q[n]), Len(q) # 0
  PROVE  \E it : FlatThrough(q, it)
<1> DEFINE Upto(i) == UNION {ToSet(q[n]) : n \in 1..i}
           it == CHOOSE g : g = FlatStep(g, q)
<1>1. Len(q) \in Nat /\ DOMAIN q = 1..Len(q)
  BY ListDomain DEF IsList
<1>2. FlattenSeq(q) = it[Len(q)]
  BY Zenon DEF FlattenSeq, FlatStep
<1>3. it = FlatStep(it, q)
  BY <1>1, FlatExists
<1> HIDE DEF it
<1>4. \A i \in 1..Len(q) : it[i] = IF i = 1 THEN q[i] ELSE it[i - 1] \o q[i]
  BY <1>3 DEF FlatStep
<1> DEFINE Right(i) == IsList(it[i]) /\ ToSet(it[i]) = Upto(i)
           Bad == {i \in 1..Len(q) : ~Right(i)}
<1>5. Bad = {}
  <2> SUFFICES ASSUME Bad # {} PROVE FALSE
    OBVIOUS
  <2>1. Bad \in SUBSET Nat
    OBVIOUS
  <2>2. PICK i \in Bad : \A j \in Bad : i <= j
    <3> HIDE DEF Bad
    <3> QED
      BY <2>1, LeastOf
  <2>3. i \in 1..Len(q) /\ ~Right(i)
    BY <2>2
  <2>4. CASE i = 1
    <3>1. Upto(1) = ToSet(q[1])
      OBVIOUS
    <3> QED
      BY <1>4, <2>3, <2>4, <3>1
  <2>5. CASE i # 1
    <3>1. i - 1 \in 1..Len(q) /\ ~(i <= i - 1)
      BY <1>1, <2>3, <2>5
    <3>2. Right(i - 1)
      BY <2>2, <3>1
    <3>3. Upto(i) = Upto(i - 1) \cup ToSet(q[i])
      <4>1. 1..i = (1..i - 1) \cup {i}
        BY <1>1, <2>3
      <4> QED
        BY <4>1
    <3>4. it[i] = it[i - 1] \o q[i]
      BY <1>4, <2>3, <2>5
    <3> HIDE DEF Upto
    <3>5. IsList(it[i - 1] \o q[i]) /\ ToSet(it[i - 1] \o q[i]) = Upto(i - 1) \cup ToSet(q[i])
      BY <2>3, <3>2, ConcatLists
    <3> QED
      BY <2>3, <3>3, <3>4, <3>5
  <2> QED
    BY <2>4, <2>5
<1>6. \A i \in 1..Len(q) : Right(i)
  BY <1>5
<1>7. FlatThrough(q, it)
  BY <1>2, <1>4, <1>6 DEF FlatThrough
<1> QED
  BY <1>7

LEMMA FlatNone ==
  ASSUME NEW q, IsList(q), Len(q) = 0
  PROVE  FlattenSeq(q) = q /\ ToSet(q) = {}
<1>1. DOMAIN q = 1..0
  BY ListDomain
<1>2. ToSet(q) = {}
  BY <1>1 DEF ToSet
<1> QED
  BY <1>2 DEF FlattenSeq

\* The elements of several lists, in one.
LEMMA FlatLists ==
  ASSUME NEW q, IsList(q), \A n \in 1..Len(q) : IsList(q[n])
  PROVE  /\ IsList(FlattenSeq(q))
         /\ ToSet(FlattenSeq(q)) = UNION {ToSet(q[n]) : n \in 1..Len(q)}
<1>1. CASE Len(q) = 0
  <2>1. UNION {ToSet(q[n]) : n \in 1..Len(q)} = {}
    BY <1>1
  <2> QED
    BY <1>1, <2>1, FlatNone
<1>2. CASE Len(q) # 0
  <2>1. PICK it : FlatThrough(q, it)
    BY <1>2, FlatStages
  <2>2. Len(q) \in 1..Len(q)
    BY <1>2 DEF IsList
  <2> QED
    BY <2>1, <2>2 DEF FlatThrough
<1> QED
  BY <1>1, <1>2

\* No element of X is in the list twice.
Once(s, X) == \A i, j \in 1..Len(s) : s[i] \in X /\ s[i] = s[j] => i = j

LEMMA ConcatAt ==
  ASSUME NEW s, IsList(s), NEW t, IsList(t)
  PROVE  /\ IsList(s \o t) /\ Len(s \o t) = Len(s) + Len(t) /\ Len(s) \in Nat /\ Len(t) \in Nat
         /\ \A i \in 1..Len(s) + Len(t) : (s \o t)[i] = IF i <= Len(s) THEN s[i] ELSE t[i - Len(s)]
<1>1. s \in Seq(ToSet(s) \cup ToSet(t)) /\ t \in Seq(ToSet(s) \cup ToSet(t))
  <2>1. (\A n \in 1..Len(s) : s[n] \in ToSet(s)) /\ (\A n \in 1..Len(t) : t[n] \in ToSet(t))
    BY ListDomain DEF ToSet
  <2> QED
    BY <2>1, ListIsSeq
<1>2. /\ Len(s \o t) = Len(s) + Len(t) /\ Len(s) \in Nat /\ Len(t) \in Nat
      /\ \A i \in 1..Len(s) + Len(t) : (s \o t)[i] = IF i <= Len(s) THEN s[i] ELSE t[i - Len(s)]
  BY <1>1, ConcatProperties DEF IsList
<1> QED
  BY <1>2, ConcatLists

LEMMA ConcatOnce ==
  ASSUME NEW X, NEW s, IsList(s), Once(s, X), NEW t, IsList(t), Once(t, X),
         \A x \in ToSet(s) : x \in X => x \notin ToSet(t)
  PROVE  Once(s \o t, X)
<1>2. /\ Len(s \o t) = Len(s) + Len(t) /\ Len(s) \in Nat /\ Len(t) \in Nat
      /\ \A i \in 1..Len(s) + Len(t) : (s \o t)[i] = IF i <= Len(s) THEN s[i] ELSE t[i - Len(s)]
  BY ConcatAt
<1> DEFINE all == s \o t
<1> HIDE DEF all
<1>3. SUFFICES
               ASSUME NEW i \in 1..Len(s) + Len(t), NEW j \in 1..Len(s) + Len(t), all[i] \in X, all[i] = all[j]
               PROVE  i = j
  BY <1>2 DEF Once, all
<1>4. ASSUME NEW m \in 1..Len(s) + Len(t)
      PROVE  /\ m <= Len(s) => all[m] = s[m] /\ m \in 1..Len(s)
             /\ ~(m <= Len(s)) => all[m] = t[m - Len(s)] /\ m - Len(s) \in 1..Len(t)
  BY <1>2 DEF all
<1>5. (\A n \in 1..Len(s) : s[n] \in ToSet(s)) /\ (\A n \in 1..Len(t) : t[n] \in ToSet(t))
  BY ListDomain DEF ToSet
<1>6. CASE i <= Len(s) /\ j <= Len(s)
  <2>1. i \in 1..Len(s) /\ j \in 1..Len(s) /\ all[i] = s[i] /\ all[j] = s[j]
    BY <1>4, <1>6
  <2> QED
    BY <1>3, <2>1 DEF Once
<1>7. CASE ~(i <= Len(s)) /\ ~(j <= Len(s))
  <2>1. /\ i - Len(s) \in 1..Len(t) /\ j - Len(s) \in 1..Len(t)
        /\ all[i] = t[i - Len(s)] /\ all[j] = t[j - Len(s)]
    BY <1>4, <1>7
  <2>2. i - Len(s) = j - Len(s)
    BY <1>3, <2>1 DEF Once
  <2> QED
    BY <1>2, <2>2
<1>8. CASE i <= Len(s) /\ ~(j <= Len(s))
  <2>1. all[i] \in ToSet(s) /\ all[j] \in ToSet(t)
    BY <1>4, <1>5, <1>8
  <2> QED
    BY <1>3, <2>1
<1>9. CASE j <= Len(s) /\ ~(i <= Len(s))
  <2>1. all[j] \in ToSet(s) /\ all[i] \in ToSet(t)
    BY <1>4, <1>5, <1>9
  <2> QED
    BY <1>3, <2>1
<1> QED
  BY <1>6, <1>7, <1>8, <1>9

LEMMA FlatOnce ==
  ASSUME NEW X, NEW q, IsList(q), \A n \in 1..Len(q) : IsList(q[n]) /\ Once(q[n], X),
         \A m, n \in 1..Len(q) : m # n => \A x \in ToSet(q[m]) : x \in X => x \notin ToSet(q[n])
  PROVE  Once(FlattenSeq(q), X)
<1>1. CASE Len(q) = 0
  BY <1>1, FlatNone DEF Once
<1>2. CASE Len(q) # 0
  <2>0. PICK it : FlatThrough(q, it)
    BY <1>2, FlatStages
  <2>1. /\ FlattenSeq(q) = it[Len(q)]
        /\ \A i \in 1..Len(q) : it[i] = IF i = 1 THEN q[i] ELSE it[i - 1] \o q[i]
        /\ \A i \in 1..Len(q) : IsList(it[i]) /\ ToSet(it[i]) = UNION {ToSet(q[n]) : n \in 1..i}
    BY <2>0 DEF FlatThrough
  <2> DEFINE Bad == {i \in 1..Len(q) : ~Once(it[i], X)}
  <2>2. Bad = {}
    <3> SUFFICES ASSUME Bad # {} PROVE FALSE
      OBVIOUS
    <3>1. Bad \in SUBSET Nat
      BY DEF IsList
    <3>2. PICK i \in Bad : \A j \in Bad : i <= j
      <4> HIDE DEF Bad
      <4> QED
        BY <3>1, LeastOf
    <3>3. i \in 1..Len(q) /\ ~Once(it[i], X) /\ Len(q) \in Nat
      BY <3>2 DEF IsList
    <3>4. i # 1
      BY <2>1, <3>3
    <3>5. i - 1 \in 1..Len(q) /\ ~(i <= i - 1)
      BY <3>3, <3>4
    <3>6. Once(it[i - 1], X)
      BY <3>2, <3>5
    <3>7. \A x \in ToSet(it[i - 1]) : x \in X => x \notin ToSet(q[i])
      <4> TAKE x \in ToSet(it[i - 1])
      <4>0. ToSet(it[i - 1]) = UNION {ToSet(q[n]) : n \in 1..i - 1}
        BY <2>1, <3>5
      <4>1. PICK n \in 1..i - 1 : x \in ToSet(q[n])
        BY <4>0
      <4>2. n \in 1..Len(q) /\ n # i
        BY <3>3, <4>1
      <4> QED
        BY <3>3, <4>1, <4>2
    <3>8. it[i] = it[i - 1] \o q[i]
      BY <2>1, <3>3, <3>4
    <3>9. IsList(it[i - 1]) /\ IsList(q[i]) /\ Once(q[i], X)
      BY <2>1, <3>3, <3>5
    <3>10. Once(it[i - 1] \o q[i], X)
      BY <3>6, <3>7, <3>9, ConcatOnce
    <3> QED
      BY <3>3, <3>8, <3>10
  <2>3. Len(q) \in 1..Len(q)
    BY <1>2 DEF IsList
  <2> QED
    BY <2>1, <2>2, <2>3
<1> QED
  BY <1>1, <1>2

-----------------------------------------------------------------------------
(* Sums *)

\* One step of Total, if g does the earlier ones.
TotalStep(g, list) == [n \in 0..Len(list) |-> IF n = 0 THEN 0 ELSE g[n - 1] + list[n]]

LEMMA TotalExists ==
  ASSUME NEW list, Len(list) \in Nat
  PROVE  \E g : g = TotalStep(g, list)
<1> DEFINE D == 0..Len(list)
           Good(n, g) == \A i \in D : i <= n => g[i] = TotalStep(g, list)[i]
           Bad == {n \in Nat : ~\E g : Good(n, g)}
<1>1. ASSUME NEW n \in Nat, NEW g, \A i \in D : i < n => g[i] = TotalStep(g, list)[i]
      PROVE  Good(n, TotalStep(g, list))
  <2> DEFINE h == TotalStep(g, list)
  <2> SUFFICES ASSUME NEW i \in D, i <= n
               PROVE  h[i] = TotalStep(h, list)[i]
    OBVIOUS
  <2>1. CASE i = 0
    BY <2>1 DEF TotalStep
  <2>2. CASE i # 0
    <3>1. i - 1 \in D /\ i - 1 < n
      BY <2>2
    <3>2. g[i - 1] = h[i - 1]
      BY <1>1, <3>1
    <3>3. \A f : TotalStep(f, list)[i] = f[i - 1] + list[i]
      BY <2>2 DEF TotalStep
    <3>4. h[i] = g[i - 1] + list[i]
      BY <3>3
    <3> HIDE DEF h
    <3>5. TotalStep(h, list)[i] = h[i - 1] + list[i]
      BY <3>3
    <3> QED
      BY <3>2, <3>4, <3>5
  <2> QED
    BY <2>1, <2>2
<1>2. Bad = {}
  <2> SUFFICES ASSUME Bad # {} PROVE FALSE
    OBVIOUS
  <2>1. Bad \in SUBSET Nat
    OBVIOUS
  <2>2. PICK n \in Bad : \A m \in Bad : n <= m
    <3> HIDE DEF Bad
    <3> QED
      BY <2>1, LeastOf
  <2>3. n \in Nat /\ ~\E g : Good(n, g)
    BY <2>2
  <2>4. \E g : \A i \in D : i < n => g[i] = TotalStep(g, list)[i]
    <3>1. CASE n = 0
      BY <3>1
    <3>2. CASE n # 0
      <4>1. n - 1 \in Nat /\ ~(n <= n - 1)
        BY <2>3, <3>2
      <4>2. n - 1 \notin Bad
        BY <2>2, <4>1
      <4>3. PICK g : Good(n - 1, g)
        BY <4>1, <4>2
      <4>4. \A i \in D : i < n => i <= n - 1
        BY <2>3
      <4> QED
        BY <4>3, <4>4
    <3> QED
      BY <3>1, <3>2
  <2>5. PICK g : \A i \in D : i < n => g[i] = TotalStep(g, list)[i]
    BY <2>4
  <2>6. Good(n, TotalStep(g, list))
    BY <1>1, <2>3, <2>5
  <2> QED
    BY <2>3, <2>6
<1>3. PICK g : Good(Len(list), g)
  BY <1>2
<1> DEFINE h == TotalStep(g, list)
<1>4. Good(Len(list), h)
  <2>1. \A i \in D : i < Len(list) => g[i] = TotalStep(g, list)[i]
    BY <1>3
  <2> QED
    BY <1>1, <2>1
<1>5. \A i \in D : h[i] = TotalStep(h, list)[i]
  BY <1>4
<1>6. h = [i \in D |-> h[i]] /\ TotalStep(h, list) = [i \in D |-> TotalStep(h, list)[i]]
  BY DEF TotalStep
<1> HIDE DEF h
<1> QED
  BY <1>5, <1>6

\* The sums of the first n of m numbers.
Sums(u, m, v) == u[0] = 0 /\ \A n \in 1..m : u[n] = u[n - 1] + v[n]

LEMMA TotalIs ==
  ASSUME NEW m \in Nat, NEW v, v = [n \in 1..m |-> v[n]]
  PROVE  \E u : Sums(u, m, v) /\ Total(v) = u[m]
<1>1. Len(v) = m
  BY FunctionIsList
<1> DEFINE it == CHOOSE g : g = TotalStep(g, v)
<1>2. Total(v) = it[Len(v)]
  BY Zenon DEF Total, TotalStep
<1>3. it = TotalStep(it, v)
  BY <1>1, TotalExists
<1> HIDE DEF it
<1>4. \A n \in 0..m : it[n] = IF n = 0 THEN 0 ELSE it[n - 1] + v[n]
  BY <1>1, <1>3 DEF TotalStep
<1>5. Sums(it, m, v)
  <2>1. it[0] = 0
    BY <1>4
  <2>2. \A n \in 1..m : n \in 0..m /\ n # 0
    OBVIOUS
  <2>3. \A n \in 1..m : it[n] = it[n - 1] + v[n]
    BY <1>4, <2>2
  <2> QED
    BY <2>1, <2>3 DEF Sums
<1> QED
  BY <1>1, <1>2, <1>5

LEMMA SumsAre ==
  ASSUME NEW m \in Nat, NEW v, \A n \in 1..m : v[n] \in Int, NEW u, Sums(u, m, v)
  PROVE  \A n \in 0..m : u[n] \in Int
<1> DEFINE Bad == {n \in 0..m : u[n] \notin Int}
<1> SUFFICES ASSUME Bad # {} PROVE FALSE
  OBVIOUS
<1>1. Bad \in SUBSET Nat
  OBVIOUS
<1>2. PICK n \in Bad : \A j \in Bad : n <= j
  <2> HIDE DEF Bad
  <2> QED
    BY <1>1, LeastOf
<1>3. n # 0 /\ n - 1 \in 0..m /\ n \in 1..m
  BY <1>2 DEF Sums
<1>4. u[n - 1] \in Int
  BY <1>2, <1>3
<1>5. u[n] = u[n - 1] + v[n]
  BY <1>3 DEF Sums
<1> QED
  BY <1>2, <1>3, <1>4, <1>5

\* The sums of a beginning are the beginning of the sums.
LEMMA SumsAgree ==
  ASSUME NEW m \in Nat, NEW v, \A n \in 1..m : v[n] \in Int, NEW k \in 0..m,
         NEW u, Sums(u, m, v), NEW w, Sums(w, k, v)
  PROVE  u[k] = w[k]
<1> DEFINE Bad == {n \in 0..k : u[n] # w[n]}
<1> SUFFICES ASSUME Bad # {} PROVE FALSE
  OBVIOUS
<1>1. Bad \in SUBSET Nat
  OBVIOUS
<1>2. PICK n \in Bad : \A j \in Bad : n <= j
  <2> HIDE DEF Bad
  <2> QED
    BY <1>1, LeastOf
<1>3. n # 0 /\ n - 1 \in 0..k /\ n \in 1..k /\ n \in 1..m
  BY <1>2 DEF Sums
<1>4. u[n - 1] = w[n - 1]
  BY <1>2, <1>3
<1>5. u[n] = u[n - 1] + v[n] /\ w[n] = w[n - 1] + v[n]
  BY <1>3 DEF Sums
<1> QED
  BY <1>2, <1>4, <1>5

\* A sum of numbers grows, and the totals of the beginnings are its stages.
LEMMA TotalStages ==
  ASSUME NEW m \in Nat, NEW v, \A n \in 1..m : v[n] \in Nat
  PROVE  \E u : /\ \A n \in 0..m : u[n] \in Nat
                /\ \A k \in 0..m : Total([n \in 1..k |-> v[n]]) = u[k]
                /\ \A i, j \in 0..m : i <= j => u[i] <= u[j]
                /\ \A n \in 1..m : u[n] = u[n - 1] + v[n]
<1> DEFINE Begin(k) == [n \in 1..k |-> v[n]]
<1>1. ASSUME NEW k \in 0..m
      PROVE  \E u : Sums(u, k, v) /\ Total(Begin(k)) = u[k]
  <2> DEFINE b == Begin(k)
  <2>1. b = [n \in 1..k |-> b[n]] /\ \A n \in 1..k : b[n] = v[n]
    OBVIOUS
  <2> HIDE DEF b
  <2>2. PICK u : Sums(u, k, b) /\ Total(b) = u[k]
    <3>1. k \in Nat
      OBVIOUS
    <3> QED
      BY <2>1, <3>1, TotalIs
  <2>3. Sums(u, k, v)
    BY <2>1, <2>2 DEF Sums
  <2> QED
    BY <2>2, <2>3 DEF b
<1> HIDE DEF Begin
<1>2. PICK u : Sums(u, m, v) /\ Total(Begin(m)) = u[m]
  BY <1>1
<1>3. \A n \in 0..m : u[n] \in Int
  BY <1>2, SumsAre
<1>4. ASSUME NEW k \in 0..m
      PROVE  Total(Begin(k)) = u[k]
  <2>1. PICK w : Sums(w, k, v) /\ Total(Begin(k)) = w[k]
    BY <1>1
  <2>2. \A n \in 1..m : v[n] \in Int
    OBVIOUS
  <2> QED
    BY <1>2, <2>1, <2>2, SumsAgree
<1>5. \A n \in 1..m : u[n] = u[n - 1] + v[n]
  BY <1>2 DEF Sums
<1>6. \A i, j \in 0..m : i <= j => u[i] <= u[j]
  <2> SUFFICES ASSUME NEW i \in 0..m PROVE \A j \in 0..m : i <= j => u[i] <= u[j]
    OBVIOUS
  <2> DEFINE Bad == {j \in 0..m : i <= j /\ ~(u[i] <= u[j])}
  <2> SUFFICES ASSUME Bad # {} PROVE FALSE
    OBVIOUS
  <2>1. Bad \in SUBSET Nat
    OBVIOUS
  <2>2. PICK j \in Bad : \A k \in Bad : j <= k
    <3> HIDE DEF Bad
    <3> QED
      BY <2>1, LeastOf
  <2>3. j # i
    BY <1>3, <2>2
  <2>4. j - 1 \in 0..m /\ i <= j - 1 /\ ~(j <= j - 1) /\ j \in 1..m
    BY <2>2, <2>3
  <2>5. u[i] <= u[j - 1]
    BY <2>2, <2>4
  <2>6. u[j] = u[j - 1] + v[j] /\ u[i] \in Int /\ u[j - 1] \in Int /\ v[j] \in Nat
    BY <1>3, <1>5, <2>4
  <2> QED
    BY <2>2, <2>5, <2>6
<1>7. \A n \in 0..m : u[n] \in Nat
  <2> TAKE n \in 0..m
  <2>1. u[0] = 0 /\ 0 \in 0..m /\ 0 <= n /\ u[n] \in Int
    BY <1>2, <1>3 DEF Sums
  <2>2. u[0] <= u[n]
    BY <1>6, <2>1
  <2> QED
    BY <2>1, <2>2
<1> QED
  BY <1>4, <1>5, <1>6, <1>7 DEF Begin

-----------------------------------------------------------------------------
(* The description *)

RegionNames == {<<"mr", name>> : name \in STRING}
MapType == [mr : RegionNames, vaddr : Int, perms : SUBSET {"r", "w", "x"}]
PdType ==
  [name : DOMAIN Images, priority : 0..254, pd_id : 0..255, threads : Nat, pp : BOOLEAN,
   root_ppc : BOOLEAN, timeouts : BOOLEAN, parent : Nat, partition : Int, image : BOOLEAN,
   maps : Seq(MapType), irqs : Seq([irq : Int, id : 0..62]), setvars : Seq(STRING)]
MrType == [name : RegionNames, page : PageSizes, count : Int, phys : Int]
ChannelType == [a : STRING, ida : 0..62, b : STRING, idb : 0..62]

\* What has been read: a PD is inside one that was read before it.
Described ==
  /\ document \in Documents /\ at \in 1..Len(document) + 1
  /\ pds \in Seq(PdType) /\ \A p \in DOMAIN pds : pds[p].parent \in 0..p - 1
  /\ mrs \in Seq(MrType) /\ channels \in Seq(ChannelType) /\ partitions \in Seq([id : Int])
  /\ open \in Seq(0..Len(pds)) /\ (partitions = <<>> => \A n \in DOMAIN open : open[n] # InPartition)

MapsNamed == \A p \in DOMAIN pds : \A map \in ToSet(pds[p].maps) : MapOk(map)

\* If FirstFailure finds none, each check holds.
LEMMA CheckHolds ==
  ASSUME NEW checks, DOMAIN checks \subseteq Nat, FirstFailure(checks) = "ok",
         \A m \in DOMAIN checks : checks[m][2] # "ok", NEW n \in DOMAIN checks
  PROVE  checks[n][1]
<1> DEFINE failed == {m \in DOMAIN checks : ~checks[m][1]}
<1>1. CASE n \notin failed
  BY <1>1
<1>2. CASE n \in failed
  <2>1. failed \in SUBSET Nat /\ failed \subseteq DOMAIN checks /\ failed # {}
    BY <1>2
  <2>2. FirstFailure(checks) = checks[Min(failed)][2]
    BY <2>1 DEF FirstFailure
  <2> HIDE DEF failed
  <2>3. \E k \in failed : \A m \in failed : k <= m
    BY <2>1, LeastOf
  <2>4. Min(failed) \in failed
    BY <2>3 DEF Min
  <2> QED
    BY <2>1, <2>2, <2>4
<1> QED
  BY <1>1, <1>2

LEMMA TwoChecks ==
  ASSUME NEW a, NEW b, a[2] # "ok", b[2] # "ok", FirstFailure(<<a, b>>) = "ok"
  PROVE  a[1] /\ b[1]
<1> DEFINE checks == <<a, b>>
<1>1. DOMAIN checks = 1..2 /\ checks[1] = a /\ checks[2] = b /\ FirstFailure(checks) = "ok"
  OBVIOUS
<1> HIDE DEF checks
<1>2. \A n \in 1..2 : n = 1 \/ n = 2
  OBVIOUS
<1>3. \A n \in DOMAIN checks : checks[n][2] # "ok"
  BY <1>1, <1>2
<1>4. 1 \in DOMAIN checks /\ 2 \in DOMAIN checks /\ DOMAIN checks \subseteq Nat
  BY <1>1
<1>5. checks[1][1] /\ checks[2][1]
  BY <1>1, <1>3, <1>4, CheckHolds, Zenon
<1> QED
  BY <1>1, <1>5, Zenon

LEMMA ThreeChecks ==
  ASSUME NEW a, NEW b, NEW c, a[2] # "ok", b[2] # "ok", c[2] # "ok", FirstFailure(<<a, b, c>>) = "ok"
  PROVE  a[1] /\ b[1] /\ c[1]
<1> DEFINE checks == <<a, b, c>>
<1>1. DOMAIN checks = 1..3 /\ checks[1] = a /\ checks[2] = b /\ checks[3] = c /\ FirstFailure(checks) = "ok"
  OBVIOUS
<1> HIDE DEF checks
<1>2. \A n \in 1..3 : n = 1 \/ n = 2 \/ n = 3
  OBVIOUS
<1>3. \A n \in DOMAIN checks : checks[n][2] # "ok"
  BY <1>1, <1>2
<1>4. 1 \in DOMAIN checks /\ 2 \in DOMAIN checks /\ 3 \in DOMAIN checks /\ DOMAIN checks \subseteq Nat
  BY <1>1
<1>5. checks[1][1] /\ checks[2][1] /\ checks[3][1]
  BY <1>1, <1>3, <1>4, CheckHolds, Zenon
<1> QED
  BY <1>1, <1>5, Zenon

LEMMA FiveChecks ==
  ASSUME NEW a, NEW b, NEW c, NEW d, NEW e, a[2] # "ok", b[2] # "ok", c[2] # "ok", d[2] # "ok",
         e[2] # "ok", FirstFailure(<<a, b, c, d, e>>) = "ok"
  PROVE  a[1] /\ b[1] /\ c[1] /\ d[1] /\ e[1]
<1> DEFINE checks == <<a, b, c, d, e>>
<1>1. /\ DOMAIN checks = 1..5 /\ checks[1] = a /\ checks[2] = b /\ checks[3] = c /\ checks[4] = d
      /\ checks[5] = e /\ FirstFailure(checks) = "ok"
  OBVIOUS
<1> HIDE DEF checks
<1>2. \A n \in 1..5 : n = 1 \/ n = 2 \/ n = 3 \/ n = 4 \/ n = 5
  OBVIOUS
<1>3. \A n \in DOMAIN checks : checks[n][2] # "ok"
  BY <1>1, <1>2
<1>4. /\ 1 \in DOMAIN checks /\ 2 \in DOMAIN checks /\ 3 \in DOMAIN checks /\ 4 \in DOMAIN checks
      /\ 5 \in DOMAIN checks /\ DOMAIN checks \subseteq Nat
  BY <1>1
<1>5. checks[1][1] /\ checks[2][1] /\ checks[3][1] /\ checks[4][1] /\ checks[5][1]
  BY <1>1, <1>3, <1>4, CheckHolds, Zenon
<1> QED
  BY <1>1, <1>5, Zenon

LEMMA ElementIs ==
  ASSUME Described, NEW tag, Element(tag)
  PROVE  /\ document[at] \in Elements /\ document[at].tag = tag /\ pc = "parse"
         /\ at + 1 \in 1..Len(document) + 1
         /\ tag = "protection_domain" => document[at].name \in DOMAIN Images
<1>1. document \in Seq(Elements) /\ at \in 1..Len(document) /\ document[at].tag = tag /\ pc = "parse"
  BY DocumentsAssumption DEF Described, Element
<1>2. at \in DOMAIN document
  BY <1>1
<1> QED
  BY <1>1, <1>2, ImagesAssumption DEF Described

LEMMA ElementTypes ==
  ASSUME NEW e \in Elements
  PROVE  /\ e.tag = "memory_region" =>
              e \in [tag : {"memory_region"}, name : STRING, size : Int, page : Int, phys : Int]
         /\ e.tag = "partition" => e \in [tag : {"partition"}, id : Int, length : Int]
         /\ e.tag = "protection_domain" =>
              e \in [tag : {"protection_domain"}, name : STRING, priority : Int, budget : Int,
                     period : Int, pd_id : Int, threads : Int, pp : BOOLEAN, root_pp : BOOLEAN,
                     timeouts : BOOLEAN]
         /\ e.tag = "map" => e \in [tag : {"map"}, mr : STRING, vaddr : Int, perms : SUBSET {"r", "w", "x"}]
         /\ e.tag = "irq" => e \in [tag : {"irq"}, irq : Int, id : Int]
         /\ e.tag = "setvar" => e \in [tag : {"setvar"}, region : STRING]
         /\ e.tag = "channel" => e \in [tag : {"channel"}, ends : Seq([pd : STRING, id : Int])]
BY DEF Elements

\* What remains as it was.
LEMMA DescribedUnchanged ==
  ASSUME Described, UNCHANGED <<document, at, open, pds, mrs, channels, partitions>>
  PROVE  Described'
BY DEF Described

LEMMA ReadMemoryRegionDescribed ==
  ASSUME Described, ReadMemoryRegion
  PROVE  Described'
<1> DEFINE e == document[at]
           read == [name |-> <<"mr", e.name>>, page |-> e.page, count |-> e.size \div e.page,
                    phys |-> e.phys]
<1>1. e \in [tag : {"memory_region"}, name : STRING, size : Int, page : Int, phys : Int]
      /\ at + 1 \in 1..Len(document) + 1
  BY ElementIs, ElementTypes DEF ReadMemoryRegion
<1>2. CASE raised' # "ok"
  BY <1>2, DescribedUnchanged DEF ReadMemoryRegion, Accept
<1>3. CASE raised' = "ok"
  <2> DEFINE a == <<e.page \in PageSizes, "page size">>
             b == <<e.size % e.page = 0, "size">>
             c == <<e.phys = None \/ e.phys % e.page = 0, "phys_addr">>
  <2>1. FirstFailure(<<a, b, c>>) = "ok" /\ mrs' = Append(mrs, read) /\ at' = at + 1
        /\ UNCHANGED <<document, open, pds, channels, partitions>>
    BY <1>3 DEF ReadMemoryRegion, Accept
  <2>2. a[2] # "ok" /\ b[2] # "ok" /\ c[2] # "ok" /\ (a[1] => e.page \in PageSizes)
    OBVIOUS
  <2> HIDE DEF a, b, c
  <2>3. e.page \in PageSizes
    BY <2>1, <2>2, ThreeChecks, Zenon
  <2> HIDE DEF e
  <2>4. e.size \div e.page \in Int
    BY <1>1, <2>3, DocumentsAssumption
  <2>5. read \in MrType
    BY <1>1, <2>3, <2>4 DEF MrType, RegionNames
  <2> HIDE DEF read
  <2>6. mrs' \in Seq(MrType)
    BY <2>1, <2>5 DEF Described
  <2> QED
    BY <1>1, <2>1, <2>6 DEF Described
<1> QED
  BY <1>2, <1>3

LEMMA OpenOne ==
  ASSUME Described
  PROVE  /\ Len(pds) \in Nat /\ DOMAIN pds = 1..Len(pds)
         /\ open # <<>> => Last(open) \in 0..Len(pds)
         /\ InPD => Last(open) \in DOMAIN pds
<1>1. Len(pds) \in Nat /\ DOMAIN pds = 1..Len(pds) /\ open \in Seq(0..Len(pds))
  BY DEF Described
<1>2. open # <<>> => Last(open) \in 0..Len(pds)
  BY <1>1 DEF Last
<1> QED
  BY <1>1, <1>2 DEF InPD, InPartition

LEMMA LastOf ==
  ASSUME NEW S, NEW s \in Seq(S), s # <<>>
  PROVE  Last(s) \in S /\ Len(s) \in DOMAIN s
BY DEF Last

LEMMA OpenPartitionDescribed ==
  ASSUME Described, OpenPartition
  PROVE  Described'
<1> DEFINE e == document[at]
<1>1. e \in [tag : {"partition"}, id : Int, length : Int] /\ at + 1 \in 1..Len(document) + 1
  BY ElementIs, ElementTypes DEF OpenPartition
<1>2. CASE raised' # "ok"
  BY <1>2, DescribedUnchanged DEF OpenPartition, Accept
<1>3. CASE raised' = "ok"
  <2>1. /\ partitions' = Append(partitions, [id |-> e.id]) /\ at' = at + 1 /\ open' = <<InPartition>>
        /\ UNCHANGED <<document, pds, mrs, channels>>
    BY <1>3 DEF OpenPartition, Accept
  <2>2. e.id \in Int
    BY <1>1
  <2> HIDE DEF e
  <2>3. partitions' \in Seq([id : Int]) /\ partitions' # <<>>
    <3>1. partitions \in Seq([id : Int]) /\ [id |-> e.id] \in [id : Int]
      BY <2>2 DEF Described
    <3> QED
      BY <2>1, <3>1, AppendProperties
  <2>4. open' \in Seq(0..Len(pds))
    <3>1. InPartition \in 0..Len(pds)
      BY OpenOne DEF InPartition
    <3> QED
      BY <2>1, <3>1
  <2> QED
    BY <1>1, <2>1, <2>3, <2>4 DEF Described
<1> QED
  BY <1>2, <1>3

\* The record of a PD that has just been opened.
NewPd(pd, parent, partition) ==
  [name |-> pd.name, priority |-> pd.priority, pd_id |-> IF parent = NoParent THEN 0 ELSE pd.pd_id,
   threads |-> pd.threads, pp |-> pd.pp, root_ppc |-> pd.root_pp, timeouts |-> pd.timeouts,
   parent |-> parent, partition |-> partition, image |-> FALSE, maps |-> <<>>, irqs |-> <<>>,
   setvars |-> <<>>]

LEMMA OpenPDDescribed ==
  ASSUME Described, OpenPD
  PROVE  Described'
<1> DEFINE e == document[at]
           parent == IF InPD THEN Last(open) ELSE NoParent
           partition == CASE InPD -> pds[parent].partition
                          [] open = <<>> -> 0
                          [] OTHER -> Last(partitions).id
           read == NewPd(e, parent, partition)
           a == <<e.priority \in Priorities, "priority">>
           b == <<parent # NoParent => e.pd_id \in 0..255, "pd_id">>
           c == <<e.threads > 0 => parent = NoParent, "threads of a child">>
           d == <<e.threads >= 0, "threads">>
           f == <<e.budget <= e.period, "budget">>
<1>1. /\ e \in [tag : {"protection_domain"}, name : STRING, priority : Int, budget : Int,
                period : Int, pd_id : Int, threads : Int, pp : BOOLEAN, root_pp : BOOLEAN,
                timeouts : BOOLEAN]
      /\ at + 1 \in 1..Len(document) + 1 /\ e.name \in DOMAIN Images
  <2>1. Element("protection_domain")
    BY DEF OpenPD
  <2> HIDE DEF e
  <2>2. e \in Elements /\ e.tag = "protection_domain" /\ at + 1 \in 1..Len(document) + 1
        /\ e.name \in DOMAIN Images
    BY <2>1, ElementIs DEF e
  <2> QED
    BY <2>2, ElementTypes
<1>2. CASE raised' # "ok"
  BY <1>2, DescribedUnchanged DEF OpenPD, Accept
<1>3. CASE raised' = "ok"
  <2>1. /\ FirstFailure(<<a, b, c, d, f>>) = "ok" /\ pds' = Append(pds, read) /\ at' = at + 1
        /\ open' = Append(open, Len(pds) + 1) /\ UNCHANGED <<document, mrs, channels, partitions>>
    BY <1>3 DEF OpenPD, Accept, NewPd
  <2>2. parent \in 0..Len(pds) /\ (InPD => parent \in DOMAIN pds) /\ DOMAIN pds = 1..Len(pds)
        /\ Len(pds) \in Nat
    BY OpenOne DEF NoParent
  <2>3. partition \in Int
    <3>1. CASE InPD
      <4>1. pds[parent] \in PdType
        BY <2>2, <3>1 DEF Described
      <4>2. pds[parent].partition \in Int
        BY <4>1 DEF PdType
      <4> QED
        BY <3>1, <4>2
    <3>2. CASE ~InPD /\ open = <<>>
      BY <3>2
    <3>3. CASE ~InPD /\ open # <<>>
      <4>1. open[Len(open)] = InPartition /\ Len(open) \in DOMAIN open
        BY <3>3 DEF InPD, Last, Described
      <4>2. partitions # <<>> /\ partitions \in Seq([id : Int])
        BY <4>1 DEF Described
      <4>3. Last(partitions) \in [id : Int]
        BY <4>2, LastOf
      <4>4. Last(partitions).id \in Int
        BY <4>3
      <4> QED
        BY <3>3, <4>4
    <3> QED
      BY <3>1, <3>2, <3>3
  <2>4. /\ a[2] # "ok" /\ b[2] # "ok" /\ c[2] # "ok" /\ d[2] # "ok" /\ f[2] # "ok"
        /\ a[1] => e.priority \in Priorities
        /\ b[1] => (parent # NoParent => e.pd_id \in 0..255)
        /\ d[1] => e.threads >= 0
    OBVIOUS
  <2> HIDE DEF a, b, c, d, f
  <2>5. e.priority \in Priorities /\ (parent # NoParent => e.pd_id \in 0..255) /\ e.threads >= 0
    <3>1. FirstFailure(<<a, b, c, d, f>>) = "ok"
      BY <2>1
    <3>2. a[2] # "ok" /\ b[2] # "ok" /\ c[2] # "ok" /\ d[2] # "ok" /\ f[2] # "ok"
      BY <2>4
    <3>3. a[1] /\ b[1] /\ c[1] /\ d[1] /\ f[1]
      BY <3>1, <3>2, FiveChecks, SMTT(30)
    <3> QED
      BY <2>4, <3>3, Zenon
  <2> HIDE DEF e, parent, partition
  <2>6. read \in PdType /\ read.parent = parent
    BY <1>1, <2>2, <2>3, <2>5 DEF PdType, NewPd, Priorities
  <2> HIDE DEF read
  <2>7. /\ pds' \in Seq(PdType) /\ Len(pds') = Len(pds) + 1
        /\ \A p \in 1..Len(pds) + 1 : pds'[p] = IF p <= Len(pds) THEN pds[p] ELSE read
    BY <2>1, <2>6 DEF Described
  <2>8. \A p \in DOMAIN pds' : pds'[p].parent \in 0..p - 1
    <3> SUFFICES ASSUME NEW p \in DOMAIN pds' PROVE pds'[p].parent \in 0..p - 1
      OBVIOUS
    <3>1. p \in 1..Len(pds) + 1
      BY <2>7, <2>2
    <3>2. CASE p <= Len(pds)
      BY <2>2, <2>7, <3>1, <3>2 DEF Described
    <3>3. CASE ~(p <= Len(pds))
      <4>1. p = Len(pds) + 1 /\ pds'[p] = read
        BY <2>2, <2>7, <3>1, <3>3
      <4> QED
        BY <2>2, <2>6, <4>1
    <3> QED
      BY <3>2, <3>3
  <2>9. open' \in Seq(0..Len(pds'))
    <3>1. open \in Seq(0..Len(pds) + 1) /\ Len(pds) + 1 \in 0..Len(pds) + 1
      <4>1. \A n \in 1..Len(open) : open[n] \in 0..Len(pds) + 1
        BY <2>2 DEF Described
      <4>2. IsList(open)
        BY SeqIsList DEF Described
      <4> QED
        BY <2>2, <4>1, <4>2, ListIsSeq
    <3> QED
      BY <2>1, <2>7, <3>1
  <2>10. partitions' = <<>> => \A n \in DOMAIN open' : open'[n] # InPartition
    <3> SUFFICES ASSUME partitions = <<>>, NEW n \in DOMAIN open' PROVE open'[n] # InPartition
      BY <2>1
    <3>1. open \in Seq(0..Len(pds)) /\ \A m \in DOMAIN open : open[m] # InPartition
      BY DEF Described
    <3>2. CASE n \in DOMAIN open
      BY <2>1, <3>1, <3>2
    <3>3. CASE n \notin DOMAIN open
      BY <2>1, <2>2, <3>1, <3>3 DEF InPartition
    <3> QED
      BY <3>2, <3>3
  <2> QED
    BY <1>1, <2>1, <2>7, <2>8, <2>9, <2>10 DEF Described
<1> QED
  BY <1>2, <1>3

\* A PD that is changed and stays where it is; elements can end.
LEMMA PdChanged ==
  ASSUME Described, NEW p \in DOMAIN pds, NEW pd \in PdType, pd.parent = pds[p].parent,
         pds' = [pds EXCEPT ![p] = pd], at' \in 1..Len(document) + 1,
         UNCHANGED <<document, mrs, channels, partitions>>,
         open' \in Seq(0..Len(pds)), \A n \in DOMAIN open' : \E m \in DOMAIN open : open'[n] = open[m]
  PROVE  Described'
<1>1. pds \in Seq(PdType) /\ \A q \in DOMAIN pds : pds[q].parent \in 0..q - 1
  BY DEF Described
<1>2. pds' \in Seq(PdType) /\ DOMAIN pds' = DOMAIN pds /\ Len(pds') = Len(pds)
  BY <1>1
<1>3. \A q \in DOMAIN pds' : pds'[q].parent \in 0..q - 1
  BY <1>1, <1>2
<1>4. partitions' = <<>> => \A n \in DOMAIN open' : open'[n] # InPartition
  BY DEF Described
<1> QED
  BY <1>2, <1>3, <1>4 DEF Described

\* An element inside a PD changes only what it says.
LEMMA ReadInPDDescribed ==
  ASSUME Described, InPD, at + 1 \in 1..Len(document) + 1, NEW pd \in PdType,
         pd.parent = pds[Last(open)].parent,
         pds' = [pds EXCEPT ![Last(open)] = pd], at' = at + 1,
         UNCHANGED <<document, open, mrs, channels, partitions>>
  PROVE  Described'
<1>1. Last(open) \in DOMAIN pds
  BY OpenOne
<1>2. open' \in Seq(0..Len(pds)) /\ \A n \in DOMAIN open' : \E m \in DOMAIN open : open'[n] = open[m]
  BY DEF Described
<1> QED
  BY <1>1, <1>2, PdChanged

\* A PD of which only these fields are not as they were.
PdOf(pd, threads, image, list, irqs, setvars) ==
  [name |-> pd.name, priority |-> pd.priority, pd_id |-> pd.pd_id, threads |-> threads, pp |-> pd.pp,
   root_ppc |-> pd.root_ppc, timeouts |-> pd.timeouts, parent |-> pd.parent,
   partition |-> pd.partition, image |-> image, maps |-> list, irqs |-> irqs, setvars |-> setvars]

LEMMA PdWith ==
  ASSUME NEW pd \in PdType
  PROVE  /\ \A b \in BOOLEAN :
              LET new == [pd EXCEPT !.image = b]
              IN  new \in PdType /\ new.parent = pd.parent
         /\ \A list \in Seq(MapType) :
              LET new == [pd EXCEPT !.maps = list]
              IN  new \in PdType /\ new.parent = pd.parent
         /\ \A list \in Seq([irq : Int, id : 0..62]) :
              LET new == [pd EXCEPT !.irqs = list]
              IN  new \in PdType /\ new.parent = pd.parent
         /\ \A list \in Seq(STRING) :
              LET new == [pd EXCEPT !.setvars = list]
              IN  new \in PdType /\ new.parent = pd.parent
         /\ \A n \in Nat :
              LET new == [pd EXCEPT !.threads = n]
              IN  new \in PdType /\ new.parent = pd.parent
<1> DEFINE Good(new) == new \in PdType /\ new.parent = pd.parent
<1>1. pd = PdOf(pd, pd.threads, pd.image, pd.maps, pd.irqs, pd.setvars)
  BY DEF PdType, PdOf
<1>2. \A threads \in Nat, image \in BOOLEAN, list \in Seq(MapType),
         irqs \in Seq([irq : Int, id : 0..62]), setvars \in Seq(STRING) :
        Good(PdOf(pd, threads, image, list, irqs, setvars))
  BY DEF PdType, PdOf
<1>3. /\ pd.threads \in Nat /\ pd.image \in BOOLEAN /\ pd.maps \in Seq(MapType)
      /\ pd.irqs \in Seq([irq : Int, id : 0..62]) /\ pd.setvars \in Seq(STRING)
  BY DEF PdType
<1> HIDE DEF Good
<1>4. ASSUME NEW b \in BOOLEAN
      PROVE  Good([pd EXCEPT !.image = b])
  <2>1. [pd EXCEPT !.image = b] = PdOf(pd, pd.threads, b, pd.maps, pd.irqs, pd.setvars)
    BY <1>1 DEF PdOf
  <2>2. Good(PdOf(pd, pd.threads, b, pd.maps, pd.irqs, pd.setvars))
    BY <1>2, <1>3
  <2> QED
    BY <2>1, <2>2, Zenon
<1>5. ASSUME NEW list \in Seq(MapType)
      PROVE  Good([pd EXCEPT !.maps = list])
  <2>1. [pd EXCEPT !.maps = list] = PdOf(pd, pd.threads, pd.image, list, pd.irqs, pd.setvars)
    BY <1>1 DEF PdOf
  <2>2. Good(PdOf(pd, pd.threads, pd.image, list, pd.irqs, pd.setvars))
    BY <1>2, <1>3
  <2> QED
    BY <2>1, <2>2, Zenon
<1>6. ASSUME NEW list \in Seq([irq : Int, id : 0..62])
      PROVE  Good([pd EXCEPT !.irqs = list])
  <2>1. [pd EXCEPT !.irqs = list] = PdOf(pd, pd.threads, pd.image, pd.maps, list, pd.setvars)
    BY <1>1 DEF PdOf
  <2>2. Good(PdOf(pd, pd.threads, pd.image, pd.maps, list, pd.setvars))
    BY <1>2, <1>3
  <2> QED
    BY <2>1, <2>2, Zenon
<1>7. ASSUME NEW list \in Seq(STRING)
      PROVE  Good([pd EXCEPT !.setvars = list])
  <2>1. [pd EXCEPT !.setvars = list] = PdOf(pd, pd.threads, pd.image, pd.maps, pd.irqs, list)
    BY <1>1 DEF PdOf
  <2>2. Good(PdOf(pd, pd.threads, pd.image, pd.maps, pd.irqs, list))
    BY <1>2, <1>3
  <2> QED
    BY <2>1, <2>2, Zenon
<1>8. ASSUME NEW n \in Nat
      PROVE  Good([pd EXCEPT !.threads = n])
  <2>1. [pd EXCEPT !.threads = n] = PdOf(pd, n, pd.image, pd.maps, pd.irqs, pd.setvars)
    BY <1>1 DEF PdOf
  <2>2. Good(PdOf(pd, n, pd.image, pd.maps, pd.irqs, pd.setvars))
    BY <1>2, <1>3
  <2> QED
    BY <2>1, <2>2, Zenon
<1> QED
  BY <1>4, <1>5, <1>6, <1>7, <1>8, Zenon DEF Good

LEMMA ReadProgramImageDescribed ==
  ASSUME Described, ReadProgramImage
  PROVE  Described'
<1> DEFINE p == Last(open)
           pd == [pds[p] EXCEPT !.image = TRUE]
<1>1. InPD /\ p \in DOMAIN pds /\ at + 1 \in 1..Len(document) + 1
  BY OpenOne, ElementIs DEF ReadProgramImage, ReadInPD
<1>2. CASE raised' # "ok"
  BY <1>2, DescribedUnchanged DEF ReadProgramImage, ReadInPD, Accept
<1>3. CASE raised' = "ok"
  <2>1. pds' = [pds EXCEPT ![p] = pd] /\ at' = at + 1 /\ UNCHANGED <<document, open, mrs, channels, partitions>>
    BY <1>3 DEF ReadProgramImage, ReadInPD, Accept
  <2>2. pds[p] \in PdType
    BY <1>1 DEF Described
  <2>3. pd \in PdType /\ pd.parent = pds[p].parent
    BY <2>2, PdWith
  <2> HIDE DEF pd
  <2> QED
    BY <1>1, <2>1, <2>3, ReadInPDDescribed
<1> QED
  BY <1>2, <1>3

LEMMA ReadMapDescribed ==
  ASSUME Described, ReadMap
  PROVE  Described'
<1> DEFINE p == Last(open)
           e == document[at]
           read == [mr |-> <<"mr", e.mr>>, vaddr |-> e.vaddr, perms |-> e.perms]
           pd == [pds[p] EXCEPT !.maps = Append(@, read)]
<1>1. /\ InPD /\ p \in DOMAIN pds /\ at + 1 \in 1..Len(document) + 1
      /\ e \in [tag : {"map"}, mr : STRING, vaddr : Int, perms : SUBSET {"r", "w", "x"}]
  BY OpenOne, ElementIs, ElementTypes DEF ReadMap, ReadInPD
<1>2. CASE raised' # "ok"
  BY <1>2, DescribedUnchanged DEF ReadMap, ReadInPD, Accept
<1>3. CASE raised' = "ok"
  <2>1. pds' = [pds EXCEPT ![p] = pd] /\ at' = at + 1 /\ UNCHANGED <<document, open, mrs, channels, partitions>>
    BY <1>3 DEF ReadMap, ReadInPD, Accept
  <2>2. pds[p] \in PdType
    BY <1>1 DEF Described
  <2> HIDE DEF e
  <2>3. read \in MapType
    BY <1>1 DEF MapType, RegionNames
  <2> HIDE DEF read
  <2>4. Append(pds[p].maps, read) \in Seq(MapType)
    <3>1. pds[p].maps \in Seq(MapType)
      BY <2>2 DEF PdType
    <3> QED
      BY <2>3, <3>1
  <2>5. pd \in PdType /\ pd.parent = pds[p].parent
    BY <2>2, <2>4, PdWith
  <2> HIDE DEF pd
  <2> QED
    BY <1>1, <2>1, <2>5, ReadInPDDescribed
<1> QED
  BY <1>2, <1>3

LEMMA ReadIrqDescribed ==
  ASSUME Described, ReadIrq
  PROVE  Described'
<1> DEFINE p == Last(open)
           e == document[at]
           read == [irq |-> e.irq, id |-> e.id]
           pd == [pds[p] EXCEPT !.irqs = Append(@, read)]
           a == <<e.id < 63, "id">>
           b == <<e.id >= 0, "id">>
<1>1. /\ InPD /\ p \in DOMAIN pds /\ at + 1 \in 1..Len(document) + 1
      /\ e \in [tag : {"irq"}, irq : Int, id : Int]
  BY OpenOne, ElementIs, ElementTypes DEF ReadIrq, ReadInPD
<1>2. CASE raised' # "ok"
  BY <1>2, DescribedUnchanged DEF ReadIrq, ReadInPD, Accept
<1>3. CASE raised' = "ok"
  <2>1. /\ FirstFailure(<<a, b>>) = "ok" /\ pds' = [pds EXCEPT ![p] = pd] /\ at' = at + 1
        /\ UNCHANGED <<document, open, mrs, channels, partitions>>
    BY <1>3 DEF ReadIrq, ReadInPD, Accept
  <2>2. a[2] # "ok" /\ b[2] # "ok" /\ (a[1] => e.id < 63) /\ (b[1] => e.id >= 0)
    OBVIOUS
  <2>3. pds[p] \in PdType
    BY <1>1 DEF Described
  <2> HIDE DEF a, b
  <2>4. e.id < 63 /\ e.id >= 0
    BY <2>1, <2>2, TwoChecks, Zenon
  <2> HIDE DEF e
  <2>5. read \in [irq : Int, id : 0..62]
    <3>1. e.irq \in Int /\ e.id \in Int
      BY <1>1
    <3> QED
      BY <2>4, <3>1
  <2> HIDE DEF read
  <2>6. Append(pds[p].irqs, read) \in Seq([irq : Int, id : 0..62])
    <3>1. pds[p].irqs \in Seq([irq : Int, id : 0..62])
      BY <2>3 DEF PdType
    <3> QED
      BY <2>5, <3>1
  <2>7. pd \in PdType /\ pd.parent = pds[p].parent
    BY <2>3, <2>6, PdWith
  <2> HIDE DEF pd
  <2> QED
    BY <1>1, <2>1, <2>7, ReadInPDDescribed
<1> QED
  BY <1>2, <1>3

LEMMA ReadSetvarDescribed ==
  ASSUME Described, ReadSetvar
  PROVE  Described'
<1> DEFINE p == Last(open)
           e == document[at]
           pd == [pds[p] EXCEPT !.setvars = Append(@, e.region)]
<1>1. /\ InPD /\ p \in DOMAIN pds /\ at + 1 \in 1..Len(document) + 1
      /\ e \in [tag : {"setvar"}, region : STRING]
  BY OpenOne, ElementIs, ElementTypes DEF ReadSetvar, ReadInPD
<1>2. CASE raised' # "ok"
  BY <1>2, DescribedUnchanged DEF ReadSetvar, ReadInPD, Accept
<1>3. CASE raised' = "ok"
  <2>1. pds' = [pds EXCEPT ![p] = pd] /\ at' = at + 1 /\ UNCHANGED <<document, open, mrs, channels, partitions>>
    BY <1>3 DEF ReadSetvar, ReadInPD, Accept
  <2>2. pds[p] \in PdType
    BY <1>1 DEF Described
  <2>3. e.region \in STRING
    BY <1>1
  <2> HIDE DEF e
  <2>4. Append(pds[p].setvars, e.region) \in Seq(STRING)
    <3>1. pds[p].setvars \in Seq(STRING)
      BY <2>2 DEF PdType
    <3> QED
      BY <2>3, <3>1
  <2>5. pd \in PdType /\ pd.parent = pds[p].parent
    BY <2>2, <2>4, PdWith
  <2> HIDE DEF pd
  <2> QED
    BY <1>1, <2>1, <2>5, ReadInPDDescribed
<1> QED
  BY <1>2, <1>3

LEMMA ClosePDDescribed ==
  ASSUME Described, ClosePD
  PROVE  Described'
<1> DEFINE p == Last(open)
           number == Cardinality(Children(p))
           threads == IF pds[p].threads <= number THEN 0 ELSE pds[p].threads
           pd == [pds[p] EXCEPT !.threads = threads]
<1>1. InPD /\ p \in DOMAIN pds /\ at + 1 \in 1..Len(document) + 1 /\ open # <<>>
  BY OpenOne, ElementIs DEF ClosePD, InPD
<1>2. CASE raised' # "ok"
  BY <1>2, DescribedUnchanged DEF ClosePD, Accept
<1>3. CASE raised' = "ok"
  <2>1. /\ pds' = [pds EXCEPT ![p] = pd] /\ at' = at + 1 /\ open' = Front(open)
        /\ UNCHANGED <<document, mrs, channels, partitions>>
    BY <1>3 DEF ClosePD, Accept
  <2>2. pds[p] \in PdType
    BY <1>1 DEF Described
  <2>3. threads \in Nat
    BY <2>2 DEF PdType
  <2> HIDE DEF threads
  <2>4. pd \in PdType /\ pd.parent = pds[p].parent
    BY <2>2, <2>3, PdWith
  <2>5. open' \in Seq(0..Len(pds)) /\ \A n \in DOMAIN open' : \E m \in DOMAIN open : open'[n] = open[m]
    <3>1. open \in Seq(0..Len(pds)) /\ Len(open) \in Nat /\ Len(open) # 0
      BY <1>1 DEF Described
    <3> DEFINE k == Len(open) - 1
    <3>2. open' = [n \in 1..k |-> open[n]] /\ k \in Nat
      BY <2>1, <3>1 DEF Front
    <3>3. DOMAIN open' = 1..k /\ \A n \in 1..k : open'[n] = open[n] /\ n \in DOMAIN open
      BY <3>1, <3>2
    <3>4. IsList(open') /\ Len(open') = k
      BY <3>2, FunctionIsList
    <3>5. \A n \in 1..Len(open') : open'[n] \in 0..Len(pds)
      BY <3>1, <3>3, <3>4
    <3> QED
      BY <3>3, <3>4, <3>5, ListIsSeq
  <2> HIDE DEF pd
  <2> QED
    BY <1>1, <2>1, <2>4, <2>5, PdChanged
<1> QED
  BY <1>2, <1>3

LEMMA ClosePartitionDescribed ==
  ASSUME Described, ClosePartition
  PROVE  Described'
<1>1. at + 1 \in 1..Len(document) + 1
  BY ElementIs DEF ClosePartition
<1>2. CASE raised' # "ok"
  BY <1>2, DescribedUnchanged DEF ClosePartition, Accept
<1>3. CASE raised' = "ok"
  <2>1. at' = at + 1 /\ open' = <<>> /\ UNCHANGED <<document, pds, mrs, channels, partitions>>
    BY <1>3 DEF ClosePartition, Accept
  <2> QED
    BY <1>1, <2>1 DEF Described
<1> QED
  BY <1>2, <1>3

LEMMA ReadChannelDescribed ==
  ASSUME Described, ReadChannel
  PROVE  Described'
<1> DEFINE e == document[at]
           ends == e.ends
           read == [a |-> ends[1].pd, ida |-> ends[1].id, b |-> ends[2].pd, idb |-> ends[2].id]
           a == <<\A n \in DOMAIN ends : ends[n].id \in 0..62, "id">>
           b == <<Len(ends) = 2, "two ends">>
<1>1. e \in [tag : {"channel"}, ends : Seq([pd : STRING, id : Int])] /\ at + 1 \in 1..Len(document) + 1
  BY ElementIs, ElementTypes DEF ReadChannel
<1>2. CASE raised' # "ok"
  BY <1>2, DescribedUnchanged DEF ReadChannel, Accept
<1>3. CASE raised' = "ok"
  <2>1. /\ FirstFailure(<<a, b>>) = "ok" /\ channels' = Append(channels, read) /\ at' = at + 1
        /\ UNCHANGED <<document, open, pds, mrs, partitions>>
    BY <1>3 DEF ReadChannel, Accept
  <2>2. /\ a[2] # "ok" /\ b[2] # "ok" /\ (a[1] => \A n \in DOMAIN ends : ends[n].id \in 0..62)
        /\ b[1] => Len(ends) = 2
    OBVIOUS
  <2> HIDE DEF a, b
  <2>3. (\A n \in DOMAIN ends : ends[n].id \in 0..62) /\ Len(ends) = 2
    BY <2>1, <2>2, TwoChecks, Zenon
  <2>4. ends \in Seq([pd : STRING, id : Int])
    BY <1>1
  <2> HIDE DEF e, ends
  <2>5. 1 \in DOMAIN ends /\ 2 \in DOMAIN ends
    BY <2>3, <2>4
  <2>6. ends[1] \in [pd : STRING, id : Int] /\ ends[2] \in [pd : STRING, id : Int]
    BY <2>4, <2>5, SeqIsList
  <2>7. read \in ChannelType
    BY <2>3, <2>5, <2>6 DEF ChannelType
  <2> HIDE DEF read
  <2>8. channels' \in Seq(ChannelType)
    BY <2>1, <2>7 DEF Described
  <2> QED
    BY <1>1, <2>1, <2>8 DEF Described
<1> QED
  BY <1>2, <1>3

LEMMA EndOfDocumentDescribed ==
  ASSUME Described, EndOfDocument
  PROVE  Described'
<1>1. partitions' \in Seq([id : Int]) /\ (partitions' = <<>> => partitions = <<>>)
  <2>1. partitions' = partitions \/ partitions' = <<[id |-> 0]>>
    BY DEF EndOfDocument
  <2>2. partitions \in Seq([id : Int])
    BY DEF Described
  <2>3. [id |-> 0] \in [id : Int]
    OBVIOUS
  <2>4. <<[id |-> 0]>> \in Seq([id : Int]) /\ <<[id |-> 0]>> # <<>>
    BY <2>3
  <2> QED
    BY <2>1, <2>2, <2>4
<1>2. UNCHANGED <<document, at, open, pds, mrs, channels>>
  BY DEF EndOfDocument
<1> QED
  BY <1>1, <1>2 DEF Described

LEMMA ReadDescribed ==
  ASSUME Described, ReadDescription
  PROVE  Described'
<1>1. CASE CheckDescription
  BY <1>1, DescribedUnchanged DEF CheckDescription, description
<1> QED
  BY <1>1, ReadMemoryRegionDescribed, OpenPartitionDescribed, OpenPDDescribed, ReadProgramImageDescribed,
     ReadMapDescribed, ReadIrqDescribed, ReadSetvarDescribed, ClosePDDescribed, ClosePartitionDescribed,
     ReadChannelDescribed, EndOfDocumentDescribed DEF ReadDescription

\* A map that the description is accepted with is of a region of it.
LEMMA MapsChecked ==
  ASSUME CheckDescription, raised' = "ok"
  PROVE  MapsNamed
<1> DEFINE c1 == <<Distinct(partitions, LAMBDA pt : pt.id), "duplicate partition">>
           c2 == <<\A n \in DOMAIN partitions : Cardinality(TopLevel(partitions[n].id)) <= 62, "too many PDs">>
           c3 == <<Distinct(pds, LAMBDA pd : pd.name), "duplicate PD">>
           c4 == <<\A p \in DOMAIN pds : [id |-> pds[p].partition] \in ToSet(partitions), "KeyError">>
           c5 == <<Distinct(mrs, LAMBDA mr : mr.name), "duplicate region">>
           c6 == <<\A cc \in ToSet(channels) : {cc.a, cc.b} \subseteq PdNames, "invalid PD name">>
           c7 == <<Distinct(AllIrqs, LAMBDA irq : irq.irq), "duplicate irq">>
           c8 == <<\A p \in DOMAIN pds : Distinct(pds[p].irqs, LAMBDA irq : irq.id), "duplicate irq id">>
           c9 == <<\A n \in DOMAIN channels : ChannelIdsFree(n), "duplicate channel id">>
           c10 == <<\A p \in DOMAIN pds : \A map \in ToSet(pds[p].maps) : MapOk(map), "invalid map">>
           checks == <<c1, c2, c3, c4, c5, c6, c7, c8, c9, c10>>
<1>1. FirstFailure(checks) = "ok"
  BY DEF CheckDescription
<1>2. /\ c1[2] # "ok" /\ c2[2] # "ok" /\ c3[2] # "ok" /\ c4[2] # "ok" /\ c5[2] # "ok" /\ c6[2] # "ok"
      /\ c7[2] # "ok" /\ c8[2] # "ok" /\ c9[2] # "ok" /\ c10[2] # "ok"
  OBVIOUS
<1>3. c10[1] => \A p \in DOMAIN pds : \A map \in ToSet(pds[p].maps) : MapOk(map)
  OBVIOUS
<1> HIDE DEF c1, c2, c3, c4, c5, c6, c7, c8, c9, c10
<1>4. /\ DOMAIN checks = 1..10 /\ checks[1] = c1 /\ checks[2] = c2 /\ checks[3] = c3 /\ checks[4] = c4
      /\ checks[5] = c5 /\ checks[6] = c6 /\ checks[7] = c7 /\ checks[8] = c8 /\ checks[9] = c9
      /\ checks[10] = c10
  OBVIOUS
<1> HIDE DEF checks
<1>5. \A n \in 1..10 : \/ n = 1 \/ n = 2 \/ n = 3 \/ n = 4 \/ n = 5 \/ n = 6 \/ n = 7 \/ n = 8 \/ n = 9
                       \/ n = 10
  OBVIOUS
<1>6. \A n \in DOMAIN checks : checks[n][2] # "ok"
  BY <1>2, <1>4, <1>5
<1>7. 10 \in DOMAIN checks /\ DOMAIN checks \subseteq Nat
  BY <1>4
<1>8. checks[10][1]
  BY <1>1, <1>6, <1>7, CheckHolds, Zenon
<1>9. c10[1]
  BY <1>4, <1>8, Zenon
<1> QED
  BY <1>3, <1>9, Zenon DEF MapsNamed

-----------------------------------------------------------------------------
(* Finite sets and lists of what is in them *)

LEMMA FiniteImage ==
  ASSUME NEW S, IsFiniteSet(S), NEW f
  PROVE  IsFiniteSet({f[x] : x \in S})
<1> DEFINE T == {f[x] : x \in S}
           g == [x \in S |-> f[x]]
<1>1. g \in Surjection(S, T)
  BY DEF Surjection
<1> QED
  BY <1>1, FS_Surjection

LEMMA FiniteList ==
  ASSUME NEW s, IsList(s)
  PROVE  IsFiniteSet(ToSet(s)) /\ IsFiniteSet(DOMAIN s)
<1>1. DOMAIN s = 1..Len(s) /\ Len(s) \in Nat
  BY ListDomain DEF IsList
<1>2. IsFiniteSet(DOMAIN s)
  BY <1>1, FS_Interval
<1>3. ToSet(s) = {s[n] : n \in DOMAIN s}
  BY DEF ToSet
<1> QED
  BY <1>2, <1>3, FiniteImage

LEMMA FunctionElements ==
  ASSUME NEW m \in Nat, NEW s, s = [n \in 1..m |-> s[n]]
  PROVE  IsList(s) /\ Len(s) = m /\ ToSet(s) = {s[n] : n \in 1..m}
<1>1. DOMAIN s = 1..m
  OBVIOUS
<1> QED
  BY <1>1, FunctionIsList DEF ToSet

LEMMA SeqElements ==
  ASSUME NEW S, NEW s \in Seq(S)
  PROVE  IsList(s) /\ ToSet(s) \subseteq S
<1>1. IsList(s) /\ DOMAIN s = 1..Len(s) /\ \A n \in 1..Len(s) : s[n] \in S
  BY SeqIsList
<1> QED
  BY <1>1 DEF ToSet

LEMMA OneElement ==
  ASSUME NEW x
  PROVE  IsList(<<x>>) /\ Len(<<x>>) = 1 /\ ToSet(<<x>>) = {x}
<1> DEFINE s == <<x>>
<1>1. s = [n \in 1..1 |-> s[n]] /\ s[1] = x
  OBVIOUS
<1> HIDE DEF s
<1>2. IsList(s) /\ Len(s) = 1 /\ ToSet(s) = {s[n] : n \in 1..1}
  BY <1>1, FunctionElements
<1>3. ToSet(s) = {x}
  BY <1>1, <1>2
<1> QED
  BY <1>2, <1>3 DEF s

LEMMA TwoElements ==
  ASSUME NEW x, NEW y
  PROVE  IsList(<<x, y>>) /\ ToSet(<<x, y>>) = {x, y}
<1> DEFINE s == <<x, y>>
<1>1. s = [n \in 1..2 |-> s[n]] /\ s[1] = x /\ s[2] = y
  OBVIOUS
<1> HIDE DEF s
<1>2. IsList(s) /\ ToSet(s) = {s[n] : n \in 1..2}
  BY <1>1, FunctionElements
<1>3. ToSet(s) = {x, y}
  <2>1. 1..2 = {1, 2}
    OBVIOUS
  <2> QED
    BY <1>1, <1>2, <2>1
<1> QED
  BY <1>2, <1>3 DEF s

LEMMA NoElement == IsList(<<>>) /\ Len(<<>>) = 0 /\ ToSet(<<>>) = {}
<1> DEFINE s == <<>>
<1>1. s = [n \in 1..0 |-> s[n]]
  OBVIOUS
<1> HIDE DEF s
<1>2. IsList(s) /\ Len(s) = 0 /\ ToSet(s) = {s[n] : n \in 1..0}
  BY <1>1, FunctionElements
<1> QED
  BY <1>2 DEF s

\* The elements of the lists of a function.
LEMMA FlatElements ==
  ASSUME NEW m \in Nat, NEW q, q = [n \in 1..m |-> q[n]], \A n \in 1..m : IsList(q[n])
  PROVE  /\ IsList(FlattenSeq(q))
         /\ \A x \in ToSet(FlattenSeq(q)) : \E n \in 1..m : x \in ToSet(q[n])
<1>1. IsList(q) /\ Len(q) = m
  BY FunctionIsList
<1>2. IsList(FlattenSeq(q)) /\ ToSet(FlattenSeq(q)) = UNION {ToSet(q[n]) : n \in 1..m}
  BY <1>1, FlatLists
<1> QED
  BY <1>2

LEMMA InOrderList ==
  ASSUME NEW S, IsFiniteSet(S)
  PROVE  IsList(InOrder(S))
<1>1. Cardinality(S) \in Nat
  BY FS_CardinalityType
<1> DEFINE s == InOrder(S)
<1>2. s = [n \in 1..Cardinality(S) |-> s[n]]
  BY SMTT(40) DEF InOrder, Sorted
<1> HIDE DEF s
<1> QED
  BY <1>1, <1>2, FunctionIsList DEF s

-----------------------------------------------------------------------------
(* Lists of invocations *)

\* An invocation that starts nothing.
QuietOps ==
  {"Retype", "IrqControlGet", "Mint", "Copy", "TableMap", "PageMap", "AsidPoolAssign",
   "IrqSetNotification", "ConfigureFlags", "SetTimeoutEndpoint", "SetFaultHandler", "SetCSpace",
   "SchedContextBind", "SetSchedParams", "SetSpace", "SetIPCBuffer", "WriteRegisters",
   "BindNotification", "DomainSet"}
Quiet(inv) ==
  DOMAIN inv = {"op", "args", "count", "incr"} /\ inv.op \in QuietOps /\ inv.count \in Nat \ {0}
Quiets(s) == IsList(s) /\ \A inv \in ToSet(s) : Quiet(inv)

LEMMA QuietDo ==
  ASSUME NEW op \in QuietOps, NEW args
  PROVE  Quiet(Do(op, args))
BY DEF Quiet, Do

LEMMA QuietMint ==
  /\ \A cnode, dest, src, badge : Quiet(Mint(cnode, dest, src, badge))
  /\ \A cnode, dest, src : Quiet(Copy(cnode, dest, src))
  /\ \A level, table, vspace, vaddr : Quiet(Map(level, table, vspace, vaddr))
BY QuietDo DEF Mint, Copy, Map, QuietOps

LEMMA QuietRepeat ==
  ASSUME NEW inv, Quiet(inv), NEW count \in Int, NEW incr
  PROVE  Quiet(Repeat(inv, count, incr))
<1> DEFINE more == [inv EXCEPT !.count = count, !.incr = incr]
<1>1. more.op = inv.op /\ DOMAIN more = DOMAIN inv /\ more.count = count
  BY DEF Quiet
<1>2. CASE count > 1
  <2>1. Repeat(inv, count, incr) = more /\ count \in Nat \ {0}
    BY <1>2 DEF Repeat
  <2> HIDE DEF more
  <2> QED
    BY <1>1, <2>1 DEF Quiet
<1>3. CASE ~(count > 1)
  BY <1>3 DEF Repeat
<1> QED
  BY <1>2, <1>3

LEMMA QuietConcat ==
  ASSUME NEW s, Quiets(s), NEW t, Quiets(t)
  PROVE  Quiets(s \o t)
BY ConcatLists DEF Quiets

LEMMA QuietOne ==
  ASSUME NEW inv, Quiet(inv)
  PROVE  Quiets(<<inv>>)
BY OneElement DEF Quiets

LEMMA QuietNone == Quiets(<<>>)
BY NoElement DEF Quiets

LEMMA QuietList ==
  ASSUME NEW m \in Nat, NEW s, s = [n \in 1..m |-> s[n]], \A n \in 1..m : Quiet(s[n])
  PROVE  Quiets(s)
BY FunctionElements DEF Quiets

LEMMA QuietFlat ==
  ASSUME NEW m \in Nat, NEW q, q = [n \in 1..m |-> q[n]], \A n \in 1..m : Quiets(q[n])
  PROVE  Quiets(FlattenSeq(q))
<1>1. \A n \in 1..m : IsList(q[n])
  BY DEF Quiets
<1>2. IsList(FlattenSeq(q)) /\ \A x \in ToSet(FlattenSeq(q)) : \E n \in 1..m : x \in ToSet(q[n])
  BY <1>1, FlatElements
<1> QED
  BY <1>2 DEF Quiets

LEMMA QuietTwo ==
  ASSUME NEW a, Quiet(a), NEW b, Quiet(b)
  PROVE  Quiets(<<a, b>>)
BY TwoElements DEF Quiets

-----------------------------------------------------------------------------
(* Regions and maps *)

RegionOk(mr) == mr.page \in Nat \ {0} /\ mr.count \in Int

\* Every map is of a region.
RegionsOk ==
  /\ IsList(regions) /\ \A mr \in ToSet(regions) : RegionOk(mr)
  /\ \A p \in DOMAIN pds : \A m \in ToSet(MapsOf(p)) : \E mr \in ToSet(regions) : mr.name = m.mr

MapsOk == IsList(maps) /\ \A m \in ToSet(maps) : RegionOk(m.mr)

LEMMA Rounded ==
  ASSUME NEW n \in Int, NEW x \in Nat \ {0}
  PROVE  RoundUp(n, x) \in Int /\ RoundDown(n, x) \in Int /\ n \div x \in Int
<1>1. n \div x \in Int /\ (n + x - 1) \div x \in Int
  OBVIOUS
<1> HIDE DEF RoundUp
<1>2. (n \div x) * x \in Int /\ ((n + x - 1) \div x) * x \in Int
  BY <1>1
<1> QED
  BY <1>1, <1>2 DEF RoundUp, RoundDown

LEMMA PagesConstants ==
  Page \in Nat \ {0} /\ LargePage \in Nat \ {0} /\ TlsAlign \in Nat \ {0} /\ TableSpan \in Nat \ {0}
  /\ DirectorySpan \in Nat \ {0} /\ UpperSpan \in Nat \ {0}
BY LayoutAssumption

LEMMA MrOk ==
  ASSUME NEW name, NEW size \in Int, NEW phys
  PROVE  RegionOk(Mr(name, size, phys)) /\ Mr(name, size, phys).name = name
BY PagesConstants DEF RegionOk, Mr

LEMMA PdFields ==
  ASSUME Described, NEW p \in DOMAIN pds
  PROVE  /\ pds[p].threads \in Nat /\ pds[p].pd_id \in 0..255 /\ pds[p].parent \in 0..p - 1
         /\ IsList(pds[p].maps) /\ IsList(pds[p].irqs)
         /\ \A irq \in ToSet(pds[p].irqs) : irq \in [irq : Int, id : 0..62]
         /\ pds[p].name \in DOMAIN Images /\ p \in Nat \ {0} /\ Len(pds) \in Nat /\ DOMAIN pds = 1..Len(pds)
         /\ pds[p].parent # NoParent => pds[p].parent \in DOMAIN pds
<1>1. pds[p] \in PdType /\ pds[p].parent \in 0..p - 1 /\ DOMAIN pds = 1..Len(pds) /\ Len(pds) \in Nat
  BY DEF Described
<1>2. /\ pds[p].threads \in Nat /\ pds[p].pd_id \in 0..255 /\ pds[p].name \in DOMAIN Images
      /\ pds[p].maps \in Seq(MapType) /\ pds[p].irqs \in Seq([irq : Int, id : 0..62])
  BY <1>1 DEF PdType
<1>3. IsList(pds[p].maps) /\ IsList(pds[p].irqs)
  BY <1>2, SeqIsList
<1>4. \A irq \in ToSet(pds[p].irqs) : irq \in [irq : Int, id : 0..62]
  BY ZenonT(40), <1>2, SeqElements
<1>5. p \in Nat \ {0} /\ (pds[p].parent # NoParent => pds[p].parent \in DOMAIN pds)
  BY <1>1 DEF NoParent
<1> QED
  BY <1>1, <1>2, <1>3, <1>4, <1>5

LEMMA AllIs ==
  ASSUME Described
  PROVE  /\ Len(pds) \in Nat /\ DOMAIN pds = 1..Len(pds)
         /\ All = [p \in 1..Len(pds) |-> p] /\ DOMAIN All = 1..Len(pds)
BY OpenOne DEF All

LEMMA StacksOf ==
  ASSUME Described, NEW p \in DOMAIN pds
  PROVE  ThreadsIn(p) \in Nat /\ Stacks(p) \in Nat
<1>1. ThreadsIn(p) \in Nat
  BY PdFields DEF ThreadsIn
<1> QED
  BY <1>1 DEF Stacks

LEMMA SegmentsOf ==
  ASSUME Described, NEW p \in DOMAIN pds
  PROVE  /\ Segments(p) \in Seq([vaddr : Nat, size : Nat, perms : SUBSET {"r", "w", "x"}])
         /\ Images[pds[p].name].tls \in Nat
BY PdFields, ImagesAssumption DEF Segments

LEMMA AreasList ==
  ASSUME Described, NEW p \in DOMAIN pds
  PROVE  IsList(Areas(p)) /\ \A a \in ToSet(Areas(p)) : RegionOk(a.mr) /\ a.mr.name[1] # "elf"
<1> DEFINE tls == [mr |-> Mr(<<"tls", p>>, AllocTls(p), None), vaddr |-> TlsStart]
           ipc == [mr |-> Mr(<<"ipc", p>>, IpcBuffers(p), None), vaddr |-> TlsEnd]
           stack(n) == [mr |-> Mr(<<"stack", p, n>>, Page, None), vaddr |-> ThreadStack(n - 1)]
           stacks == [n \in 1..Stacks(p) |-> stack(n)]
<1>1. Stacks(p) \in Nat /\ ThreadsIn(p) \in Nat /\ Page \in Nat \ {0}
  BY StacksOf, PagesConstants
<1>2. AllocTls(p) \in Int
  <2> DEFINE one == RoundUp(Images[pds[p].name].tls, TlsAlign)
             n == IF ThreadsIn(p) > 0 THEN one * ThreadsIn(p) ELSE one
  <2>1. one \in Int
    <3>1. Images[pds[p].name].tls \in Int /\ TlsAlign \in Nat \ {0}
      BY SegmentsOf, PagesConstants
    <3> QED
      BY <3>1, Rounded
  <2> HIDE DEF one
  <2>2. n \in Int
    BY <1>1, <2>1
  <2>3. AllocTls(p) = RoundUp(n, Page)
    BY DEF AllocTls, one
  <2> HIDE DEF n
  <2> QED
    BY <1>1, <2>2, <2>3, Rounded
<1>3. IpcBuffers(p) \in Int
  BY <1>1 DEF IpcBuffers
<1>4. RegionOk(tls.mr) /\ RegionOk(ipc.mr) /\ \A n \in 1..Stacks(p) : RegionOk(stack(n).mr)
  BY <1>1, <1>2, <1>3, MrOk
<1>9. tls.mr.name[1] # "elf" /\ ipc.mr.name[1] # "elf" /\ \A n \in 1..Stacks(p) : stack(n).mr.name[1] # "elf"
  BY DEF Mr
<1> HIDE DEF tls, ipc, stack
<1>5. IsList(<<tls, ipc>>) /\ ToSet(<<tls, ipc>>) = {tls, ipc}
  BY TwoElements
<1>6. IsList(stacks) /\ ToSet(stacks) = {stack(n) : n \in 1..Stacks(p)}
  <2>1. stacks = [n \in 1..Stacks(p) |-> stacks[n]] /\ \A n \in 1..Stacks(p) : stacks[n] = stack(n)
    OBVIOUS
  <2> HIDE DEF stacks
  <2>2. IsList(stacks) /\ ToSet(stacks) = {stacks[n] : n \in 1..Stacks(p)}
    BY <1>1, <2>1, FunctionElements
  <2> QED
    BY <2>1, <2>2
<1> HIDE DEF stacks
<1>7. Areas(p) = <<tls, ipc>> \o stacks
  BY DEF Areas, tls, ipc, stack, stacks
<1>8. IsList(Areas(p)) /\ ToSet(Areas(p)) = {tls, ipc} \cup {stack(n) : n \in 1..Stacks(p)}
  BY <1>5, <1>6, <1>7, ConcatLists
<1> QED
  BY <1>4, <1>8, <1>9

LEMMA SegmentOf ==
  ASSUME Described, NEW p \in DOMAIN pds, NEW n \in DOMAIN Segments(p)
  PROVE  Segments(p)[n] \in [vaddr : Nat, size : Nat, perms : SUBSET {"r", "w", "x"}]
<1> DEFINE S == [vaddr : Nat, size : Nat, perms : SUBSET {"r", "w", "x"}]
<1>1. Segments(p) \in Seq(S)
  BY SegmentsOf
<1> HIDE DEF S
<1>2. Segments(p)[n] \in S
  BY <1>1
<1> QED
  BY <1>2 DEF S

LEMMA SegmentSizes ==
  ASSUME Described, NEW p \in DOMAIN pds, NEW n \in DOMAIN Segments(p)
  PROVE  SegmentSize(Segments(p)[n]) \in Int
<1> DEFINE seg == Segments(p)[n]
<1>1. seg \in [vaddr : Nat, size : Nat, perms : SUBSET {"r", "w", "x"}]
  BY SegmentOf
<1>2. seg.vaddr \in Int /\ seg.vaddr + seg.size \in Int
  BY <1>1
<1> HIDE DEF seg
<1>3. RoundUp(seg.vaddr + seg.size, Page) \in Int /\ RoundDown(seg.vaddr, Page) \in Int
  BY <1>2, PagesConstants, Rounded
<1>4. SegmentSize(seg) \in Int
  BY <1>3 DEF SegmentSize, SegmentBase
<1> QED
  BY <1>4 DEF seg

ElfMr(p, n) == Mr(<<"elf", p, n>>, SegmentSize(Segments(p)[n]), PhysNext(p, n))

\* The regions of one PD, one for each segment.
LEMMA OwnElfRegions ==
  ASSUME Described, NEW p \in DOMAIN pds
  PROVE  LET own == [n \in DOMAIN Segments(p) |-> ElfMr(p, n)]
         IN  /\ IsList(own) /\ DOMAIN own = DOMAIN Segments(p)
             /\ ToSet(own) = {ElfMr(p, n) : n \in DOMAIN Segments(p)}
<1> DEFINE own == [n \in DOMAIN Segments(p) |-> ElfMr(p, n)]
<1>1. Len(Segments(p)) \in Nat /\ DOMAIN Segments(p) = 1..Len(Segments(p))
  BY SegmentsOf
<1>2. /\ own = [n \in 1..Len(Segments(p)) |-> own[n]]
      /\ \A n \in 1..Len(Segments(p)) : own[n] = ElfMr(p, n)
  BY <1>1
<1> HIDE DEF own
<1>3. IsList(own) /\ ToSet(own) = {own[n] : n \in 1..Len(Segments(p))}
  BY <1>1, <1>2, FunctionElements
<1>4. DOMAIN own = DOMAIN Segments(p)
  BY <1>1, <1>2
<1>5. ToSet(own) = {ElfMr(p, n) : n \in DOMAIN Segments(p)}
  BY <1>1, <1>2, <1>3
<1> QED
  BY <1>3, <1>4, <1>5 DEF own

LEMMA ElfRegionsList ==
  ASSUME Described
  PROVE  /\ IsList(ElfMrs) /\ \A mr \in ToSet(ElfMrs) : RegionOk(mr)
         /\ ToSet(ElfMrs) = UNION {{ElfMr(p, n) : n \in DOMAIN Segments(p)} : p \in DOMAIN pds}
         /\ \A p \in DOMAIN pds : \A n \in DOMAIN Segments(p) :
              \E mr \in ToSet(ElfMrs) : mr.name = <<"elf", p, n>>
<1> DEFINE q == Each(All, LAMBDA p : [n \in DOMAIN Segments(p) |->
                  Mr(<<"elf", p, n>>, SegmentSize(Segments(p)[n]), PhysNext(p, n))])
           own(p) == [n \in DOMAIN Segments(p) |-> ElfMr(p, n)]
           m == Len(pds)
<1>1. m \in Nat /\ DOMAIN pds = 1..m
  BY AllIs
<1>2. q = [p \in 1..m |-> q[p]] /\ \A p \in 1..m : q[p] = own(p)
  BY AllIs DEF Each, ElfMr
<1>3. ElfMrs = FlattenSeq(q)
  BY DEF ElfMrs, Flat
<1>4. ASSUME NEW p \in 1..m
      PROVE  IsList(own(p)) /\ ToSet(own(p)) = {ElfMr(p, n) : n \in DOMAIN Segments(p)}
  BY <1>1, OwnElfRegions
<1> HIDE DEF q, own, m
<1>5. IsList(q) /\ Len(q) = m
  BY <1>1, <1>2, FunctionIsList
<1>6. IsList(ElfMrs) /\ ToSet(ElfMrs) = UNION {ToSet(q[p]) : p \in 1..m}
  <2>1. \A p \in 1..Len(q) : IsList(q[p])
    BY <1>2, <1>4, <1>5
  <2> QED
    BY <1>3, <1>5, <2>1, FlatLists
<1>7. ToSet(ElfMrs) = UNION {{ElfMr(p, n) : n \in DOMAIN Segments(p)} : p \in DOMAIN pds}
  BY <1>1, <1>2, <1>4, <1>6
<1>8. ASSUME NEW p \in DOMAIN pds, NEW n \in DOMAIN Segments(p)
      PROVE  RegionOk(ElfMr(p, n)) /\ ElfMr(p, n).name = <<"elf", p, n>>
  BY SegmentSizes, MrOk DEF ElfMr
<1>9. \A mr \in ToSet(ElfMrs) : RegionOk(mr)
  BY <1>7, <1>8
<1>10. ASSUME NEW p \in DOMAIN pds, NEW n \in DOMAIN Segments(p)
       PROVE  \E mr \in ToSet(ElfMrs) : mr.name = <<"elf", p, n>>
  BY <1>7, <1>8
<1> QED
  BY <1>6, <1>7, <1>9, <1>10

LEMMA AreaRegions ==
  ASSUME Described
  PROVE  LET list == Flat(All, LAMBDA p : Each(Areas(p), LAMBDA a : a.mr))
         IN  /\ IsList(list) /\ \A mr \in ToSet(list) : RegionOk(mr) /\ mr.name[1] # "elf"
             /\ \A p \in DOMAIN pds : \A a \in ToSet(Areas(p)) : a.mr \in ToSet(list)
<1> DEFINE own(p) == Each(Areas(p), LAMBDA a : a.mr)
           q == Each(All, LAMBDA p : Each(Areas(p), LAMBDA a : a.mr))
           m == Len(pds)
           list == FlattenSeq(q)
<1>1. m \in Nat /\ DOMAIN pds = 1..m
  BY AllIs
<1>2. q = [p \in 1..m |-> q[p]] /\ \A p \in 1..m : q[p] = own(p)
  BY AllIs DEF Each
<1>3. ASSUME NEW p \in 1..m
      PROVE  IsList(own(p)) /\ ToSet(own(p)) = {a.mr : a \in ToSet(Areas(p))}
  <2> DEFINE s == own(p)
             k == Len(Areas(p))
  <2>1. k \in Nat /\ DOMAIN Areas(p) = 1..k /\ ToSet(Areas(p)) = {Areas(p)[n] : n \in 1..k}
    BY <1>1, AreasList, ListDomain DEF IsList, ToSet
  <2>2. s = [n \in 1..k |-> s[n]] /\ \A n \in 1..k : s[n] = Areas(p)[n].mr
    BY <2>1 DEF Each
  <2> HIDE DEF s, k
  <2>3. IsList(s) /\ ToSet(s) = {s[n] : n \in 1..k}
    BY <2>1, <2>2, FunctionElements
  <2>4. ToSet(s) = {a.mr : a \in ToSet(Areas(p))}
    BY <2>1, <2>2, <2>3
  <2> QED
    BY <2>3, <2>4 DEF s
<1> HIDE DEF q, own, m
<1>5. IsList(q) /\ Len(q) = m
  BY <1>1, <1>2, FunctionIsList
<1>6. IsList(list) /\ ToSet(list) = UNION {ToSet(q[p]) : p \in 1..m}
  <2>1. \A p \in 1..Len(q) : IsList(q[p])
    BY <1>2, <1>3, <1>5
  <2> QED
    BY <1>5, <2>1, FlatLists
<1> HIDE DEF list
<1>7. ToSet(list) = UNION {{a.mr : a \in ToSet(Areas(p))} : p \in 1..m}
  BY <1>2, <1>3, <1>6
<1>8. \A mr \in ToSet(list) : RegionOk(mr) /\ mr.name[1] # "elf"
  BY <1>1, <1>7, AreasList
<1>9. \A p \in DOMAIN pds : \A a \in ToSet(Areas(p)) : a.mr \in ToSet(list)
  BY <1>1, <1>7
<1> QED
  BY <1>6, <1>8, <1>9 DEF list, Flat, q

LEMMA MapsList ==
  ASSUME Described, NEW p \in DOMAIN pds
  PROVE  /\ IsList(MapsOf(p))
         /\ \A m \in ToSet(MapsOf(p)) : \/ m \in ToSet(pds[p].maps)
                                        \/ \E n \in DOMAIN Segments(p) : m.mr = <<"elf", p, n>>
                                        \/ \E a \in ToSet(Areas(p)) : m.mr = a.mr.name
<1> DEFINE elf == ElfMaps(p)
           area(a) == [mr |-> a.mr.name, vaddr |-> a.vaddr, perms |-> {"r", "w"}]
           own == Each(Areas(p), LAMBDA a : [mr |-> a.mr.name, vaddr |-> a.vaddr, perms |-> {"r", "w"}])
           k == Len(Segments(p))
           j == Len(Areas(p))
<1>1. IsList(pds[p].maps)
  BY PdFields
<1>2. IsList(elf) /\ \A m \in ToSet(elf) : \E n \in DOMAIN Segments(p) : m.mr = <<"elf", p, n>>
  <2>1. k \in Nat /\ DOMAIN Segments(p) = 1..k
    BY SegmentsOf
  <2>2. elf = [n \in 1..k |-> elf[n]] /\ \A n \in 1..k : elf[n].mr = <<"elf", p, n>>
    BY <2>1 DEF ElfMaps
  <2> HIDE DEF elf, k
  <2>3. IsList(elf) /\ ToSet(elf) = {elf[n] : n \in 1..k}
    BY <2>1, <2>2, FunctionElements
  <2> QED
    BY <2>1, <2>2, <2>3
<1>3. IsList(own) /\ \A m \in ToSet(own) : \E a \in ToSet(Areas(p)) : m.mr = a.mr.name
  <2>1. j \in Nat /\ DOMAIN Areas(p) = 1..j /\ \A n \in 1..j : Areas(p)[n] \in ToSet(Areas(p))
    BY AreasList, ListDomain DEF IsList, ToSet
  <2>2. own = [n \in 1..j |-> own[n]] /\ \A n \in 1..j : own[n].mr = Areas(p)[n].mr.name
    BY <2>1 DEF Each
  <2> HIDE DEF own, j
  <2>3. IsList(own) /\ ToSet(own) = {own[n] : n \in 1..j}
    BY <2>1, <2>2, FunctionElements
  <2> QED
    BY <2>1, <2>2, <2>3
<1>4. MapsOf(p) = (pds[p].maps \o elf) \o own
  BY DEF MapsOf
<1> HIDE DEF elf, own
<1> DEFINE all == (pds[p].maps \o elf) \o own
<1>5. IsList(all) /\ ToSet(all) = (ToSet(pds[p].maps) \cup ToSet(elf)) \cup ToSet(own)
  BY <1>1, <1>2, <1>3, ConcatLists
<1> HIDE DEF all
<1>6. MapsOf(p) = all
  BY <1>4 DEF all
<1> QED
  BY <1>2, <1>3, <1>5, <1>6

LEMMA RegionsLaid ==
  ASSUME Described, MapsNamed
  PROVE  /\ IsList(AllMrs) /\ \A mr \in ToSet(AllMrs) : RegionOk(mr)
         /\ \A p \in DOMAIN pds : \A m \in ToSet(MapsOf(p)) : \E mr \in ToSet(AllMrs) : mr.name = m.mr
<1> DEFINE areas == Flat(All, LAMBDA p : Each(Areas(p), LAMBDA a : a.mr))
           all == (mrs \o ElfMrs) \o areas
<1>1. IsList(mrs) /\ \A mr \in ToSet(mrs) : RegionOk(mr)
  <2>1. mrs \in Seq(MrType)
    BY DEF Described
  <2>2. \A mr \in MrType : RegionOk(mr)
    BY DocumentsAssumption DEF MrType, RegionOk
  <2> QED
    BY <2>1, <2>2, SeqElements
<1>2. /\ IsList(ElfMrs) /\ \A mr \in ToSet(ElfMrs) : RegionOk(mr)
      /\ \A p \in DOMAIN pds : \A n \in DOMAIN Segments(p) :
           \E mr \in ToSet(ElfMrs) : mr.name = <<"elf", p, n>>
  BY ElfRegionsList
<1>3. /\ IsList(areas) /\ \A mr \in ToSet(areas) : RegionOk(mr)
      /\ \A p \in DOMAIN pds : \A a \in ToSet(Areas(p)) : a.mr \in ToSet(areas)
  BY AreaRegions
<1>4. AllMrs = all
  BY DEF AllMrs
<1> HIDE DEF areas
<1>5. IsList(all) /\ ToSet(all) = (ToSet(mrs) \cup ToSet(ElfMrs)) \cup ToSet(areas)
  BY <1>1, <1>2, <1>3, ConcatLists
<1> HIDE DEF all
<1>6. ASSUME NEW p \in DOMAIN pds, NEW m \in ToSet(MapsOf(p))
      PROVE  \E mr \in ToSet(all) : mr.name = m.mr
  <2>1. CASE m \in ToSet(pds[p].maps)
    <3>1. PICK n \in DOMAIN mrs : mrs[n].name = m.mr
      BY <2>1 DEF MapsNamed, MapOk
    <3>2. mrs[n] \in ToSet(mrs)
      BY <3>1 DEF ToSet
    <3> QED
      BY <1>5, <3>1, <3>2
  <2>2. CASE \E n \in DOMAIN Segments(p) : m.mr = <<"elf", p, n>>
    BY <1>2, <1>5, <2>2
  <2>3. CASE \E a \in ToSet(Areas(p)) : m.mr = a.mr.name
    BY <1>3, <1>5, <2>3
  <2> QED
    BY <2>1, <2>2, <2>3, MapsList
<1> QED
  BY <1>1, <1>2, <1>3, <1>4, <1>5, <1>6

LEMMA MapsLaid ==
  ASSUME Described, RegionsOk
  PROVE  LET list == Flat(All, LAMBDA p : Each(MapsOf(p), LAMBDA m :
                       [pd |-> p, mr |-> Region(m.mr), vaddr |-> m.vaddr, perms |-> m.perms]))
         IN  IsList(list) /\ \A m \in ToSet(list) : RegionOk(m.mr)
<1> DEFINE own(p) == Each(MapsOf(p), LAMBDA m :
                       [pd |-> p, mr |-> Region(m.mr), vaddr |-> m.vaddr, perms |-> m.perms])
           q == Each(All, LAMBDA p : Each(MapsOf(p), LAMBDA m :
                  [pd |-> p, mr |-> Region(m.mr), vaddr |-> m.vaddr, perms |-> m.perms]))
           k == Len(pds)
           list == FlattenSeq(q)
<1>1. k \in Nat /\ DOMAIN pds = 1..k
  BY AllIs
<1>2. q = [p \in 1..k |-> q[p]] /\ \A p \in 1..k : q[p] = own(p)
  BY AllIs DEF Each
<1>3. ASSUME NEW p \in 1..k
      PROVE  IsList(own(p)) /\ \A m \in ToSet(own(p)) : RegionOk(m.mr)
  <2> DEFINE s == own(p)
             j == Len(MapsOf(p))
  <2>1. j \in Nat /\ DOMAIN MapsOf(p) = 1..j /\ \A n \in 1..j : MapsOf(p)[n] \in ToSet(MapsOf(p))
    BY <1>1, MapsList, ListDomain DEF IsList, ToSet
  <2>2. s = [n \in 1..j |-> s[n]] /\ \A n \in 1..j : s[n].mr = Region(MapsOf(p)[n].mr)
    BY <2>1 DEF Each
  <2>3. \A n \in 1..j : RegionOk(Region(MapsOf(p)[n].mr))
    <3> TAKE n \in 1..j
    <3>1. \E mr \in ToSet(regions) : mr.name = MapsOf(p)[n].mr
      BY <1>1, <2>1 DEF RegionsOk
    <3>2. Region(MapsOf(p)[n].mr) \in ToSet(regions)
      BY <3>1 DEF Region
    <3> QED
      BY <3>2 DEF RegionsOk
  <2> HIDE DEF s, j
  <2>4. IsList(s) /\ ToSet(s) = {s[n] : n \in 1..j}
    BY <2>1, <2>2, FunctionElements
  <2>5. \A m \in ToSet(s) : RegionOk(m.mr)
    BY <2>2, <2>3, <2>4
  <2> QED
    BY <2>4, <2>5 DEF s
<1> HIDE DEF q, own, k
<1>4. IsList(list) /\ \A m \in ToSet(list) : \E p \in 1..k : m \in ToSet(q[p])
  <2>1. \A p \in 1..k : IsList(q[p])
    BY <1>2, <1>3
  <2> QED
    BY <1>1, <1>2, <2>1, FlatElements
<1>5. \A m \in ToSet(list) : RegionOk(m.mr)
  BY <1>2, <1>3, <1>4
<1> QED
  BY <1>4, <1>5 DEF Flat, q

-----------------------------------------------------------------------------
(* Objects *)

LEMMA VaddrsFinite ==
  ASSUME MapsOk, NEW p
  PROVE  IsFiniteSet(Vaddrs(p))
<1> DEFINE M == {m \in ToSet(maps) : m.pd = p}
           f == [m \in M |-> VaddrsOf(m)]
<1>1. IsFiniteSet(M)
  <2>1. IsFiniteSet(ToSet(maps)) /\ M \in SUBSET ToSet(maps)
    BY FiniteList DEF MapsOk
  <2> HIDE DEF M
  <2> QED
    BY <2>1, FS_Subset
<1>2. ASSUME NEW m \in M
      PROVE  IsFiniteSet(VaddrsOf(m))
  <2> DEFINE K == 0..m.mr.count - 1
             g == [k \in K |-> [vaddr |-> m.vaddr + k * m.mr.page, page |-> m.mr.page]]
  <2>1. m.mr.count - 1 \in Int
    BY DEF MapsOk, RegionOk
  <2>2. IsFiniteSet(K)
    BY <2>1, FS_Interval
  <2>3. VaddrsOf(m) = {g[k] : k \in K}
    BY DEF VaddrsOf
  <2> HIDE DEF K, g
  <2> QED
    BY <2>2, <2>3, FiniteImage
<1>3. IsFiniteSet({f[m] : m \in M}) /\ \A T \in {f[m] : m \in M} : IsFiniteSet(T)
  <2>1. \A T \in {f[m] : m \in M} : IsFiniteSet(T)
    BY <1>2
  <2> HIDE DEF f, M
  <2> QED
    BY <1>1, <2>1, FiniteImage
<1>4. Vaddrs(p) = UNION {f[m] : m \in M}
  BY DEF Vaddrs
<1> HIDE DEF f, M
<1> QED
  BY <1>3, <1>4, FS_UNION

LEMMA TablesList ==
  ASSUME Described, MapsOk, NEW span, NEW sizes
  PROVE  IsList(Tables(span, sizes))
<1> DEFINE at_(p) == {RoundDown(v.vaddr, span) : v \in {w \in Vaddrs(p) : w.page \in sizes}}
           own(p) == Each(InOrder({RoundDown(v.vaddr, span) : v \in {w \in Vaddrs(p) : w.page \in sizes}}),
                          LAMBDA vaddr : <<p, vaddr>>)
           q == Each(All, LAMBDA p :
                  Each(InOrder({RoundDown(v.vaddr, span) : v \in {w \in Vaddrs(p) : w.page \in sizes}}),
                       LAMBDA vaddr : <<p, vaddr>>))
           k == Len(pds)
<1>1. k \in Nat /\ DOMAIN pds = 1..k
  BY AllIs
<1>2. q = [p \in 1..k |-> q[p]] /\ \A p \in 1..k : q[p] = own(p)
  BY AllIs DEF Each
<1>3. ASSUME NEW p \in 1..k
      PROVE  IsList(own(p))
  <2>1. IsFiniteSet(at_(p))
    <3> DEFINE V == {w \in Vaddrs(p) : w.page \in sizes}
               f == [v \in V |-> RoundDown(v.vaddr, span)]
    <3>1. IsFiniteSet(V)
      <4>1. V \in SUBSET Vaddrs(p)
        OBVIOUS
      <4> HIDE DEF V
      <4> QED
        BY <4>1, VaddrsFinite, FS_Subset
    <3>2. at_(p) = {f[v] : v \in V}
      OBVIOUS
    <3> HIDE DEF V, f, at_
    <3> QED
      BY <3>1, <3>2, FiniteImage
  <2> DEFINE list == InOrder(at_(p))
             j == Len(list)
             s == Each(list, LAMBDA vaddr : <<p, vaddr>>)
  <2>2. own(p) = s
    OBVIOUS
  <2>3. IsList(list)
    BY <2>1, InOrderList
  <2> HIDE DEF list
  <2>4. j \in Nat /\ DOMAIN list = 1..j
    BY <2>3, ListDomain DEF IsList
  <2>5. s = [n \in 1..j |-> s[n]]
    BY <2>4 DEF Each
  <2> HIDE DEF j, s, own
  <2> QED
    BY <2>2, <2>4, <2>5, FunctionIsList
<1> HIDE DEF q, own, k
<1>4. \A p \in 1..k : IsList(q[p])
  BY <1>2, <1>3
<1>5. IsList(FlattenSeq(q))
  BY <1>1, <1>2, <1>4, FlatElements
<1> QED
  BY <1>5 DEF Tables, Flat, q

\* Some of the PDs.
LEMMA PdsWhere ==
  ASSUME Described
  PROVE  /\ IsList(WithEp) /\ \A p \in ToSet(WithEp) : p \in DOMAIN pds
         /\ IsList(WithThreads) /\ \A p \in ToSet(WithThreads) : p \in DOMAIN pds /\ pds[p].threads > 0
<1> DEFINE k == Len(pds)
           eps == Each(All, LAMBDA e : IF NeedsEp(e) THEN <<e>> ELSE <<>>)
           roots == Each(All, LAMBDA e : IF pds[e].threads > 0 THEN <<e>> ELSE <<>>)
<1>1. k \in Nat /\ DOMAIN pds = 1..k
  BY AllIs
<1>2. /\ eps = [p \in 1..k |-> eps[p]] /\ \A p \in 1..k : eps[p] = IF NeedsEp(p) THEN <<p>> ELSE <<>>
      /\ roots = [p \in 1..k |-> roots[p]]
      /\ \A p \in 1..k : roots[p] = IF pds[p].threads > 0 THEN <<p>> ELSE <<>>
  BY AllIs DEF Each
<1>3. WithEp = FlattenSeq(eps) /\ WithThreads = FlattenSeq(roots)
  BY DEF WithEp, WithThreads, Pds, Where, Flat
<1> HIDE DEF eps, roots, k
<1>4. \A p \in 1..k : IsList(eps[p]) /\ \A e \in ToSet(eps[p]) : e = p
  BY <1>2, OneElement, NoElement
<1>5. \A p \in 1..k : IsList(roots[p]) /\ \A e \in ToSet(roots[p]) : e = p /\ pds[p].threads > 0
  BY <1>2, OneElement, NoElement
<1>6. IsList(WithEp) /\ \A e \in ToSet(WithEp) : \E p \in 1..k : e \in ToSet(eps[p])
  BY <1>1, <1>2, <1>3, <1>4, FlatElements
<1>7. IsList(WithThreads) /\ \A e \in ToSet(WithThreads) : \E p \in 1..k : e \in ToSet(roots[p])
  BY <1>1, <1>2, <1>3, <1>5, FlatElements
<1>8. ASSUME NEW e \in ToSet(WithEp)
      PROVE  e \in DOMAIN pds
  BY <1>1, <1>4, <1>6
<1>9. ASSUME NEW e \in ToSet(WithThreads)
      PROVE  e \in DOMAIN pds /\ pds[e].threads > 0
  <2>1. PICK p \in 1..k : e \in ToSet(roots[p])
    BY <1>7
  <2> QED
    BY <1>1, <1>5, <2>1
<1> QED
  BY <1>6, <1>7, <1>8, <1>9

LEMMA FixedList ==
  ASSUME RegionsOk
  PROVE  IsList(Fixed)
<1> DEFINE R == {m \in ToSet(regions) : m.phys # None}
           own(mr) == {[phys |-> mr.phys + (k - 1) * mr.page, page |-> <<"page", mr.name, k>>] : k \in 1..mr.count}
           f == [mr \in R |-> own(mr)]
<1>1. IsFiniteSet(R)
  <2>1. IsFiniteSet(ToSet(regions)) /\ R \in SUBSET ToSet(regions)
    BY FiniteList DEF RegionsOk
  <2> HIDE DEF R
  <2> QED
    BY <2>1, FS_Subset
<1>2. ASSUME NEW mr \in R
      PROVE  IsFiniteSet(own(mr))
  <2> DEFINE K == 1..mr.count
             g == [k \in K |-> [phys |-> mr.phys + (k - 1) * mr.page, page |-> <<"page", mr.name, k>>]]
  <2>1. mr.count \in Int
    BY DEF RegionsOk, RegionOk
  <2>2. IsFiniteSet(K)
    BY <2>1, FS_Interval
  <2>3. own(mr) = {g[k] : k \in K}
    OBVIOUS
  <2> HIDE DEF K, g, own
  <2> QED
    BY <2>2, <2>3, FiniteImage
<1>3. FixedPages = UNION {f[mr] : mr \in R}
  <2>1. FixedPages = UNION {own(mr) : mr \in R}
    BY Zenon DEF FixedPages
  <2> HIDE DEF R, own
  <2> QED
    BY <2>1
<1>4. IsFiniteSet(FixedPages)
  <2>1. \A T \in {f[mr] : mr \in R} : IsFiniteSet(T)
    BY <1>2
  <2> HIDE DEF f, R, own
  <2> QED
    BY ZenonT(40), <1>1, <1>3, <2>1, FiniteImage, FS_UNION
<1> DEFINE list == Sorted(FixedPages, LAMBDA x : x.phys)
           m == Cardinality(FixedPages)
           s == Each(list, LAMBDA x : x.page)
<1>5. m \in Nat
  BY <1>4, FS_CardinalityType
<1>6. DOMAIN list = 1..m
  BY DEF Sorted
<1>7. Fixed = s
  BY DEF Fixed
<1>8. s = [n \in 1..m |-> s[n]]
  BY <1>6 DEF Each
<1> HIDE DEF s, m
<1> QED
  BY <1>5, <1>7, <1>8, FunctionIsList

LEMMA ThreadObjectsList ==
  ASSUME Described
  PROVE  IsList(Flat(WithThreads, ThreadObjects))
<1> DEFINE q == Each(WithThreads, ThreadObjects)
           k == Len(WithThreads)
<1>1. k \in Nat /\ DOMAIN WithThreads = 1..k
  BY PdsWhere, ListDomain DEF IsList
<1>2. q = [n \in 1..k |-> q[n]] /\ \A n \in 1..k : q[n] = ThreadObjects(WithThreads[n])
  BY <1>1 DEF Each
<1> HIDE DEF q, k
<1>3. ASSUME NEW p
      PROVE  IsList(ThreadObjects(p))
  <2> DEFINE s == ThreadObjects(p)
  <2>1. s = [n \in 1..4 |-> s[n]]
    BY DEF ThreadObjects
  <2> HIDE DEF s
  <2> QED
    BY <2>1, FunctionIsList DEF s
<1>4. \A n \in 1..k : IsList(q[n])
  BY <1>2, <1>3
<1>5. IsList(FlattenSeq(q))
  BY <1>1, <1>2, <1>4, FlatElements
<1> QED
  BY <1>5 DEF Flat, q

\* The objects are in lists.
LEMMA ObjectsCollected ==
  ASSUME Described, RegionsOk
  PROVE  IsList(ObjectLists)
<1> DEFINE pages == <<Regular(LargePage), Regular(Page)>>
           fixed == Each(Fixed, LAMBDA page : <<page>>)
           others == << Made("tcb", All), Made("sc", All), Made("reply", All), Made("ep", WithEp),
                        Made("ntfn", All), Made("vspace", All), Made("ud", Uds), Made("d", Ds),
                        Made("pt", Pts), Made("cnode", All) >>
           threads == Flat(WithThreads, ThreadObjects)
<1>1. IsList(pages)
  BY TwoElements
<1>2. IsList(fixed)
  <2> DEFINE k == Len(Fixed)
  <2>1. k \in Nat /\ DOMAIN Fixed = 1..k
    BY FixedList, ListDomain DEF IsList
  <2>2. fixed = [n \in 1..k |-> fixed[n]]
    BY <2>1 DEF Each
  <2> HIDE DEF fixed, k
  <2> QED
    BY <2>1, <2>2, FunctionIsList
<1>3. IsList(others)
  <2>1. others = [n \in 1..10 |-> others[n]]
    OBVIOUS
  <2> HIDE DEF others
  <2> QED
    BY <2>1, FunctionIsList
<1>4. IsList(threads)
  BY ThreadObjectsList
<1> DEFINE all == ((pages \o fixed) \o others) \o threads
<1>5. ObjectLists = all
  BY DEF ObjectLists
<1> HIDE DEF pages, fixed, others, threads
<1>6. IsList(all)
  BY <1>1, <1>2, <1>3, <1>4, ConcatLists
<1> QED
  BY <1>5, <1>6

LEMMA NonEmptyLists ==
  ASSUME NEW lists, IsList(lists)
  PROVE  IsList(Where(lists, LAMBDA list : list # <<>>))
<1> DEFINE q == Each(lists, LAMBDA e : IF e # <<>> THEN <<e>> ELSE <<>>)
           k == Len(lists)
<1>1. k \in Nat /\ DOMAIN lists = 1..k
  BY ListDomain DEF IsList
<1>2. q = [n \in 1..k |-> q[n]] /\ \A n \in 1..k : q[n] = <<lists[n]>> \/ q[n] = <<>>
  BY <1>1 DEF Each
<1> HIDE DEF q, k
<1>3. \A n \in 1..k : IsList(q[n])
  BY <1>2, OneElement, NoElement
<1>4. IsList(FlattenSeq(q))
  BY <1>1, <1>2, <1>3, FlatElements
<1> QED
  BY <1>4 DEF Where, Flat, q

-----------------------------------------------------------------------------
(* The parts of the plan *)

\* The lists that the plan is made from.
Ready == Described /\ MapsOk /\ IsList(objects)

LEMMA Domains ==
  ASSUME Ready
  PROVE  /\ DOMAIN All = 1..Len(pds) /\ Len(pds) \in Nat /\ \A p \in 1..Len(pds) : All[p] = p
         /\ DOMAIN pds = 1..Len(pds)
         /\ DOMAIN maps = 1..Len(maps) /\ Len(maps) \in Nat
         /\ DOMAIN objects = 1..Len(objects) /\ Len(objects) \in Nat
         /\ DOMAIN channels = 1..Len(channels) /\ Len(channels) \in Nat
         /\ DOMAIN partitions = 1..Len(partitions) /\ Len(partitions) \in Nat
         /\ DOMAIN WithThreads = 1..Len(WithThreads) /\ Len(WithThreads) \in Nat
<1>1. DOMAIN All = 1..Len(pds) /\ Len(pds) \in Nat /\ DOMAIN pds = 1..Len(pds)
      /\ \A p \in 1..Len(pds) : All[p] = p
  BY AllIs DEF Ready
<1>2. DOMAIN maps = 1..Len(maps) /\ Len(maps) \in Nat
  BY ListDomain DEF Ready, MapsOk, IsList
<1>3. DOMAIN objects = 1..Len(objects) /\ Len(objects) \in Nat
  BY ListDomain DEF Ready, IsList
<1>4. DOMAIN channels = 1..Len(channels) /\ Len(channels) \in Nat
      /\ DOMAIN partitions = 1..Len(partitions) /\ Len(partitions) \in Nat
  BY DEF Ready, Described
<1>5. DOMAIN WithThreads = 1..Len(WithThreads) /\ Len(WithThreads) \in Nat
  BY PdsWhere, ListDomain DEF Ready, IsList
<1> QED
  BY <1>1, <1>2, <1>3, <1>4, <1>5

LEMMA IrqsList ==
  ASSUME Ready
  PROVE  DOMAIN IrqList = 1..Len(IrqList) /\ Len(IrqList) \in Nat
<1> DEFINE q == Each(All, LAMBDA p : Each(pds[p].irqs, LAMBDA i : [pd |-> p, irq |-> i.irq, id |-> i.id]))
           own(p) == Each(pds[p].irqs, LAMBDA i : [pd |-> p, irq |-> i.irq, id |-> i.id])
           k == Len(pds)
<1>1. k \in Nat /\ q = [p \in 1..k |-> q[p]] /\ \A p \in 1..k : q[p] = own(p)
  BY Domains DEF Each
<1>2. ASSUME NEW p \in 1..k
      PROVE  IsList(own(p))
  <2> DEFINE s == own(p)
             j == Len(pds[p].irqs)
  <2>1. j \in Nat /\ DOMAIN pds[p].irqs = 1..j
    BY Domains, PdFields, ListDomain DEF Ready, IsList
  <2>2. s = [n \in 1..j |-> s[n]]
    BY <2>1 DEF Each
  <2> HIDE DEF s, j
  <2> QED
    BY <2>1, <2>2, FunctionIsList DEF s
<1> HIDE DEF q, own, k
<1>3. \A p \in 1..k : IsList(q[p])
  BY <1>1, <1>2
<1>4. IsList(FlattenSeq(q))
  BY <1>1, <1>3, FlatElements
<1>5. IsList(IrqList)
  BY <1>4 DEF IrqList, Flat, q
<1> QED
  BY <1>5, ListDomain DEF IsList

LEMMA ChildrenList ==
  ASSUME Ready, NEW p
  PROVE  DOMAIN InOrder(Children(p)) = 1..Len(InOrder(Children(p))) /\ Len(InOrder(Children(p))) \in Nat
<1>1. IsFiniteSet(DOMAIN pds)
  BY Domains, FS_Interval
<1>2. IsFiniteSet(Children(p))
  BY <1>1, FS_Subset DEF Children
<1> QED
  BY <1>2, InOrderList, ListDomain DEF IsList

LEMMA QuietRetypes ==
  ASSUME Ready
  PROVE  Quiets(Retypes)
<1> DEFINE s == Retypes
<1>1. s = [n \in 1..Len(objects) |-> s[n]]
      /\ \A n \in 1..Len(objects) :
           s[n] = Do("Retype", [dest |-> slotOf[objects[n][1]], objects |-> objects[n]])
  BY Domains DEF Retypes, Each
<1>2. \A n \in 1..Len(objects) : Quiet(s[n])
  BY <1>1, QuietDo DEF QuietOps
<1> HIDE DEF s
<1> QED
  BY <1>1, <1>2, Domains, QuietList DEF s

LEMMA QuietIrqs ==
  ASSUME Ready
  PROVE  /\ Quiets(CreateIrqHandlers) /\ Quiets(MintIrqNotifications) /\ Quiets(MintIrqHandlers)
         /\ Quiets(AssociateIrqs)
<1> DEFINE k == Len(IrqList)
<1>0. k \in Nat /\ DOMAIN IrqList = 1..k
  BY IrqsList
<1>1. Quiets(CreateIrqHandlers)
  <2> DEFINE s == CreateIrqHandlers
  <2>1. s = [n \in 1..k |-> s[n]]
        /\ \A n \in 1..k : s[n] = Do("IrqControlGet", [irq |-> IrqList[n].irq, dest |-> IrqCap(n)])
    BY <1>0 DEF CreateIrqHandlers
  <2>2. \A n \in 1..k : Quiet(s[n])
    BY <2>1, QuietDo DEF QuietOps
  <2> HIDE DEF s, k
  <2> QED
    BY <1>0, <2>1, <2>2, QuietList DEF s
<1>2. Quiets(MintIrqNotifications)
  <2> DEFINE s == MintIrqNotifications
  <2>1. s = [n \in 1..k |-> s[n]]
        /\ \A n \in 1..k : s[n] = Mint(SystemCNode, IrqNtfnCap(n), Ntfn(IrqList[n].pd), NtfnBadge(IrqList[n].id))
    BY <1>0 DEF MintIrqNotifications
  <2>2. \A n \in 1..k : Quiet(s[n])
    BY <2>1, QuietMint
  <2> HIDE DEF s, k
  <2> QED
    BY <1>0, <2>1, <2>2, QuietList DEF s
<1>3. Quiets(MintIrqHandlers)
  <2> DEFINE s == MintIrqHandlers
  <2>1. s = [n \in 1..k |-> s[n]]
        /\ \A n \in 1..k : s[n] = Mint(CNode(IrqList[n].pd), IrqSlot + IrqList[n].id, IrqCap(n), 0)
    BY <1>0 DEF MintIrqHandlers
  <2>2. \A n \in 1..k : Quiet(s[n])
    BY <2>1, QuietMint
  <2> HIDE DEF s, k
  <2> QED
    BY <1>0, <2>1, <2>2, QuietList DEF s
<1>4. Quiets(AssociateIrqs)
  <2> DEFINE s == AssociateIrqs
  <2>1. s = [n \in 1..k |-> s[n]]
        /\ \A n \in 1..k :
             s[n] = Do("IrqSetNotification", [handler |-> IrqCap(n), notification |-> IrqNtfnCap(n)])
    BY <1>0 DEF AssociateIrqs
  <2>2. \A n \in 1..k : Quiet(s[n])
    BY <2>1, QuietDo DEF QuietOps
  <2> HIDE DEF s, k
  <2> QED
    BY <1>0, <2>1, <2>2, QuietList DEF s
<1> QED
  BY <1>1, <1>2, <1>3, <1>4

\* The threads of a PD that are no PDs, and the PDs of a partition.
LEMMA SpawnableThreads ==
  ASSUME Ready, NEW p \in DOMAIN pds
  PROVE  Cardinality(Children(p)) \in Nat /\ Spawnable(p) \in Int
<1>1. IsFiniteSet(1..Len(pds)) /\ Children(p) \subseteq 1..Len(pds)
  BY Domains, FS_Interval DEF Children
<1>2. Cardinality(Children(p)) \in Nat
  BY <1>1, FS_Subset, FS_CardinalityType
<1>3. pds[p].threads \in Nat
  BY PdFields DEF Ready
<1> QED
  BY <1>2, <1>3 DEF Spawnable

LEMMA PdsNumbered ==
  ASSUME Ready, NEW id
  PROVE  NumPds(id) \in Nat
<1>1. IsFiniteSet(1..Len(pds)) /\ {p \in DOMAIN pds : pds[p].partition = id} \subseteq 1..Len(pds)
  BY Domains, FS_Interval
<1> QED
  BY <1>1, FS_Subset, FS_CardinalityType DEF NumPds

LEMMA QuietMaps ==
  ASSUME Ready
  PROVE  Quiets(MintPages) /\ Quiets(MapPages)
<1> DEFINE k == Len(maps)
           mint(n) == Repeat(Mint(SystemCNode, FrameCap(n), slotOf[<<"page", maps[n].mr.name, 1>>], 0),
                             maps[n].mr.count, [dest |-> 1, src |-> 1])
           put(n) == Repeat(Do("PageMap", [page |-> FrameCap(n), vspace |-> VSpace(maps[n].pd),
                                           vaddr |-> maps[n].vaddr, perms |-> maps[n].perms]),
                            maps[n].mr.count, [page |-> 1, vaddr |-> maps[n].mr.page])
<1>0. k \in Nat /\ DOMAIN maps = 1..k
  BY Domains
<1>1. \A n \in 1..k : Quiet(mint(n)) /\ Quiet(put(n))
  <2> TAKE n \in 1..k
  <2>1. maps[n].mr.count \in Int
    <3>1. maps[n] \in ToSet(maps)
      BY <1>0 DEF ToSet
    <3> QED
      BY <3>1 DEF Ready, MapsOk, RegionOk
  <2> QED
    BY <2>1, QuietMint, QuietDo, QuietRepeat DEF QuietOps
<1>2. Quiets(MintPages)
  <2> DEFINE s == MintPages
  <2>1. s = [n \in 1..k |-> s[n]] /\ \A n \in 1..k : s[n] = mint(n)
    BY <1>0 DEF MintPages
  <2> HIDE DEF mint
  <2>2. \A n \in 1..k : Quiet(s[n])
    BY <1>1, <2>1
  <2> HIDE DEF s, k
  <2> QED
    BY <1>0, <2>1, <2>2, QuietList DEF s
<1>3. Quiets(MapPages)
  <2> DEFINE s == MapPages
  <2>1. s = [n \in 1..k |-> s[n]] /\ \A n \in 1..k : s[n] = put(n)
    BY <1>0 DEF MapPages
  <2> HIDE DEF put
  <2>2. \A n \in 1..k : Quiet(s[n])
    BY <1>1, <2>1
  <2> HIDE DEF s, k
  <2> QED
    BY <1>0, <2>1, <2>2, QuietList DEF s
<1> QED
  BY <1>2, <1>3

LEMMA QuietByPd ==
  ASSUME Ready
  PROVE  Quiets(MintFaultEndpoints) /\ Quiets(MintInput) /\ Quiets(WriteRegisters) /\ Quiets(SetIpcBuffers)
<1> DEFINE k == Len(pds)
           fault(p) == IF Parented(p)
                       THEN Mint(SystemCNode, FaultCap(p), Ep(pds[p].parent), FaultBadge(pds[p].pd_id))
                       ELSE Mint(SystemCNode, FaultCap(p), Ep(p), FaultRootBadge)
           input(p) == Mint(CNode(p), InputSlot, IF NeedsEp(p) THEN Ep(p) ELSE Ntfn(p), 0)
           registers(p) == Do("WriteRegisters", [tcb |-> Tcb(p), entry |-> Images[pds[p].name].entry,
                                                 x0 |-> pds[p].pd_id, x1 |-> 1])
           buffer(p) == Repeat(Do("SetIPCBuffer", [tcb |-> Tcb(p), buffer |-> TlsEnd, frame |-> IpcFrameCap(p)]),
                               Stacks(p), [buffer |-> Page, frame |-> 1])
<1>0. k \in Nat /\ DOMAIN All = 1..k /\ \A p \in 1..k : All[p] = p
  BY Domains
<1>1. \A p \in 1..k : Quiet(fault(p)) /\ Quiet(input(p)) /\ Quiet(registers(p)) /\ Quiet(buffer(p))
  <2> TAKE p \in 1..k
  <2>1. Stacks(p) \in Int
    BY Domains, StacksOf DEF Ready
  <2> QED
    BY <2>1, QuietMint, QuietDo, QuietRepeat DEF QuietOps
<1>2. Quiets(MintFaultEndpoints)
  <2> DEFINE s == MintFaultEndpoints
  <2>1. s = [n \in 1..k |-> s[n]] /\ \A n \in 1..k : s[n] = fault(All[n])
    BY <1>0 DEF MintFaultEndpoints, Each
  <2> HIDE DEF fault
  <2>2. \A n \in 1..k : Quiet(s[n])
    BY <1>0, <1>1, <2>1
  <2> HIDE DEF s, k
  <2> QED
    BY <1>0, <2>1, <2>2, QuietList DEF s
<1>3. Quiets(MintInput)
  <2> DEFINE s == MintInput
  <2>1. s = [n \in 1..k |-> s[n]] /\ \A n \in 1..k : s[n] = input(All[n])
    BY <1>0 DEF MintInput, Each
  <2> HIDE DEF input
  <2>2. \A n \in 1..k : Quiet(s[n])
    BY <1>0, <1>1, <2>1
  <2> HIDE DEF s, k
  <2> QED
    BY <1>0, <2>1, <2>2, QuietList DEF s
<1>4. Quiets(WriteRegisters)
  <2> DEFINE s == WriteRegisters
  <2>1. s = [n \in 1..k |-> s[n]] /\ \A n \in 1..k : s[n] = registers(All[n])
    BY <1>0 DEF WriteRegisters, Each
  <2> HIDE DEF registers
  <2>2. \A n \in 1..k : Quiet(s[n])
    BY <1>0, <1>1, <2>1
  <2> HIDE DEF s, k
  <2> QED
    BY <1>0, <2>1, <2>2, QuietList DEF s
<1>5. Quiets(SetIpcBuffers)
  <2> DEFINE s == SetIpcBuffers
  <2>1. s = [n \in 1..k |-> s[n]] /\ \A n \in 1..k : s[n] = buffer(All[n])
    BY <1>0 DEF SetIpcBuffers, Each
  <2> HIDE DEF buffer
  <2>2. \A n \in 1..k : Quiet(s[n])
    BY <1>0, <1>1, <2>1
  <2> HIDE DEF s, k
  <2> QED
    BY <1>0, <2>1, <2>2, QuietList DEF s
<1> QED
  BY <1>2, <1>3, <1>4, <1>5

\* One invocation repeated for all PDs.
LEMMA QuietAll ==
  ASSUME Ready, NEW inv, Quiet(inv), NEW incr
  PROVE  Quiets(AllRepeated(inv, incr))
BY Domains, QuietRepeat, QuietOne DEF AllRepeated

LEMMA QuietRepeated ==
  ASSUME Ready
  PROVE  /\ Quiets(AssignAsids) /\ Quiets(MintReply) /\ Quiets(MintVSpace) /\ Quiets(SetSpaces)
         /\ Quiets(BindNotifications)
<1>1. Quiets(AssignAsids)
  BY QuietDo, QuietAll DEF AssignAsids, QuietOps
<1>2. Quiets(MintReply)
  BY QuietMint, QuietAll DEF MintReply
<1>3. Quiets(MintVSpace)
  BY QuietMint, QuietAll DEF MintVSpace
<1>4. Quiets(SetSpaces)
  BY QuietDo, QuietAll DEF SetSpaces, QuietOps
<1>5. Quiets(BindNotifications)
  BY QuietDo, QuietAll DEF BindNotifications, QuietOps
<1> QED
  BY <1>1, <1>2, <1>3, <1>4, <1>5

LEMMA QuietSchedParams ==
  ASSUME Ready
  PROVE  Quiets(SetSchedParams)
<1> DEFINE k == Len(pds)
           flags(p) == Do("ConfigureFlags", [sc |-> Sc(p)])
           timeout(p) == Do("SetTimeoutEndpoint", [tcb |-> Tcb(p), fault |-> FaultCap(p)])
           own(p) == <<flags(p)>> \o IF TimeoutsHandled(p) THEN <<timeout(p)>> ELSE <<>>
           q == Each(All, LAMBDA p :
                  << Do("ConfigureFlags", [sc |-> Sc(p)]) >>
                  \o IF TimeoutsHandled(p)
                     THEN << Do("SetTimeoutEndpoint", [tcb |-> Tcb(p), fault |-> FaultCap(p)]) >>
                     ELSE <<>>)
           params(p) == Do("SetSchedParams", [tcb |-> Tcb(p), priority |-> pds[p].priority, sc |-> Sc(p)])
           s == Each(All, LAMBDA p : Do("SetSchedParams", [tcb |-> Tcb(p), priority |-> pds[p].priority,
                                                            sc |-> Sc(p)]))
<1>0. k \in Nat /\ DOMAIN All = 1..k
  BY Domains
<1>1. \A p : Quiet(flags(p)) /\ Quiet(timeout(p)) /\ Quiet(params(p))
  BY QuietDo DEF QuietOps
<1>2. q = [n \in 1..k |-> q[n]] /\ \A n \in 1..k : q[n] = own(All[n])
  BY <1>0 DEF Each
<1>3. s = [n \in 1..k |-> s[n]] /\ \A n \in 1..k : s[n] = params(All[n])
  BY <1>0 DEF Each
<1>4. SetSchedParams = FlattenSeq(q) \o s
  BY DEF SetSchedParams, Flat
<1> HIDE DEF q, s, flags, timeout, params, k
<1>5. \A p : Quiets(own(p))
  <2> TAKE p
  <2>1. Quiets(<<flags(p)>>) /\ Quiets(<<timeout(p)>>) /\ Quiets(<<>>)
    BY <1>1, QuietOne, QuietNone
  <2> QED
    BY <2>1, QuietConcat
<1> HIDE DEF own
<1>6. Quiets(FlattenSeq(q))
  BY <1>0, <1>2, <1>5, QuietFlat
<1>7. Quiets(s)
  <2>1. \A n \in 1..k : Quiet(s[n])
    BY <1>1, <1>3
  <2> QED
    BY <1>0, <1>3, <2>1, QuietList
<1> QED
  BY <1>4, <1>6, <1>7, QuietConcat

LEMMA QuietDomains ==
  ASSUME Ready
  PROVE  Quiets(SetDomains) /\ Quiets(SetThreadDomains)
<1> DEFINE own(n) == Repeat(Do("DomainSet",
                               [domain |-> partitions[n].id,
                                tcb |-> Tcb(1) + Sum(SubSeq(partitions, 1, n - 1), LAMBDA pt : NumPds(pt.id))]),
                            NumPds(partitions[n].id), [tcb |-> 1])
           threads(p) == Repeat(Do("DomainSet", [domain |-> pds[p].partition,
                                                 tcb |-> Thread("thread tcb", p, Cardinality(Children(p)))]),
                                Spawnable(p), [tcb |-> 1])
<1>0. Len(partitions) \in Nat /\ DOMAIN partitions = 1..Len(partitions)
      /\ Len(WithThreads) \in Nat /\ DOMAIN WithThreads = 1..Len(WithThreads)
  BY Domains
<1>1. Quiets(SetDomains)
  <2> DEFINE s == SetDomains
             k == Len(partitions)
  <2>1. s = [n \in 1..k |-> s[n]] /\ \A n \in 1..k : s[n] = own(n)
    BY <1>0 DEF SetDomains
  <2>2. \A n \in 1..k : Quiet(own(n))
    BY PdsNumbered, QuietDo, QuietRepeat DEF QuietOps
  <2> HIDE DEF own
  <2>3. \A n \in 1..k : Quiet(s[n])
    BY <2>1, <2>2
  <2> HIDE DEF s, k
  <2> QED
    BY <1>0, <2>1, <2>3, QuietList DEF s, k
<1>2. Quiets(SetThreadDomains)
  <2> DEFINE s == SetThreadDomains
             k == Len(WithThreads)
  <2>1. s = [n \in 1..k |-> s[n]] /\ \A n \in 1..k : s[n] = threads(WithThreads[n])
    BY <1>0 DEF SetThreadDomains, Each
  <2>2. \A p \in DOMAIN pds : Quiet(threads(p))
    BY SpawnableThreads, QuietDo, QuietRepeat DEF QuietOps
  <2> HIDE DEF threads
  <2>3. \A n \in 1..k : WithThreads[n] \in DOMAIN pds
    BY <1>0, PdsWhere DEF ToSet, Ready
  <2>4. \A n \in 1..k : Quiet(s[n])
    BY <2>1, <2>2, <2>3
  <2> HIDE DEF s, k
  <2> QED
    BY <1>0, <2>1, <2>4, QuietList DEF s, k
<1> QED
  BY <1>1, <1>2

LEMMA QuietTables ==
  ASSUME Ready
  PROVE  Quiets(MapTables)
<1> DEFINE level(name, list) == Each(list, LAMBDA t : Map(name, slotOf[<<name, t>>], VSpace(t[1]), t[2]))
<1>1. ASSUME NEW name, NEW list, IsList(list)
      PROVE  Quiets(level(name, list))
  <2> DEFINE s == level(name, list)
             k == Len(list)
  <2>1. k \in Nat /\ DOMAIN list = 1..k
    BY <1>1, ListDomain DEF IsList
  <2>2. s = [n \in 1..k |-> s[n]]
        /\ \A n \in 1..k : s[n] = Map(name, slotOf[<<name, list[n]>>], VSpace(list[n][1]), list[n][2])
    BY <2>1 DEF Each
  <2> HIDE DEF s, k
  <2>3. \A n \in 1..k : Quiet(s[n])
    <3> TAKE n \in 1..k
    <3>1. Quiet(Map(name, slotOf[<<name, list[n]>>], VSpace(list[n][1]), list[n][2]))
      BY QuietMint
    <3> QED
      BY <2>2, <3>1
  <2> QED
    BY <2>1, <2>2, <2>3, QuietList DEF s
<1>2. IsList(Uds) /\ IsList(Ds) /\ IsList(Pts)
  BY TablesList DEF Ready, Uds, Ds, Pts
<1>3. MapTables = (level("ud", Uds) \o level("d", Ds)) \o level("pt", Pts)
  BY DEF MapTables
<1> HIDE DEF level
<1>4. Quiets(level("ud", Uds)) /\ Quiets(level("d", Ds)) /\ Quiets(level("pt", Pts))
  BY <1>1, <1>2
<1> QED
  BY <1>3, <1>4, QuietConcat

LEMMA QuietChannels ==
  ASSUME Ready
  PROVE  Quiets(MintChannels)
<1> DEFINE k == Len(channels)
           own(cc) == LET a == Named(cc.a)
                          b == Named(cc.b)
                      IN  <<MintEnd(a, cc.ida, b, cc.idb), MintEnd(b, cc.idb, a, cc.ida)>>
                          \o MintProcedure(a, cc.ida, b, cc.idb) \o MintProcedure(b, cc.idb, a, cc.ida)
           q == Each(channels, LAMBDA cc :
                  LET a == Named(cc.a)
                      b == Named(cc.b)
                  IN  <<MintEnd(a, cc.ida, b, cc.idb), MintEnd(b, cc.idb, a, cc.ida)>>
                      \o MintProcedure(a, cc.ida, b, cc.idb) \o MintProcedure(b, cc.idb, a, cc.ida))
<1>0. k \in Nat /\ DOMAIN channels = 1..k
  BY Domains
<1>1. q = [n \in 1..k |-> q[n]] /\ \A n \in 1..k : q[n] = own(channels[n])
  BY <1>0 DEF Each
<1>2. MintChannels = FlattenSeq(q)
  BY DEF MintChannels, Flat
<1>3. ASSUME NEW cc
      PROVE  Quiets(own(cc))
  <2> DEFINE a == Named(cc.a)
             b == Named(cc.b)
             ends == <<MintEnd(a, cc.ida, b, cc.idb), MintEnd(b, cc.idb, a, cc.ida)>>
             to == MintProcedure(a, cc.ida, b, cc.idb)
             from == MintProcedure(b, cc.idb, a, cc.ida)
  <2>1. Quiets(ends)
    <3>1. Quiet(MintEnd(a, cc.ida, b, cc.idb)) /\ Quiet(MintEnd(b, cc.idb, a, cc.ida))
      BY QuietMint DEF MintEnd
    <3> QED
      BY <3>1, QuietTwo
  <2>2. ASSUME NEW x, NEW id, NEW y, NEW idy
        PROVE  Quiets(MintProcedure(x, id, y, idy))
    <3>1. Quiets(<<Mint(CNode(x), EpSlot + id, Ep(y), PpcBadge(idy))>>) /\ Quiets(<<>>)
      BY QuietMint, QuietOne, QuietNone
    <3> QED
      BY <3>1 DEF MintProcedure
  <2>3. Quiets(to) /\ Quiets(from)
    BY <2>2
  <2>4. own(cc) = (ends \o to) \o from
    OBVIOUS
  <2> HIDE DEF ends, to, from, own
  <2> QED
    BY <2>1, <2>3, <2>4, QuietConcat
<1> HIDE DEF q, own, k
<1>4. \A n \in 1..k : Quiets(q[n])
  BY <1>1, <1>3
<1> QED
  BY <1>0, <1>1, <1>2, <1>4, QuietFlat

LEMMA QuietChild ==
  ASSUME NEW p, NEW c
  PROVE  Quiets(MintChild(p, c))
<1> DEFINE id == pds[c].pd_id
           n == pds[p].threads
           root == <<Mint(CNode(c), RootEpSlot, Ep(p), RootPpcBadge(id))>>
           tcb == <<Mint(CNode(p), TcbSlot + id, Tcb(c), 0)>>
           sc == Mint(CNode(p), ThreadSc(n, id), Sc(c), 0)
           cspace == Mint(CNode(p), ThreadCSpace(n, id), CNode(c), 0)
           reply == Copy(CNode(p), ThreadReply(n, id), Reply(c))
           more == <<sc, cspace, reply>>
<1>1. Quiets(root) /\ Quiets(tcb)
  BY QuietMint, QuietOne
<1>2. Quiets(more)
  <2>1. Quiet(sc) /\ Quiet(cspace) /\ Quiet(reply)
    BY QuietMint
  <2> HIDE DEF sc, cspace, reply
  <2>2. more = [k \in 1..3 |-> more[k]] /\ more[1] = sc /\ more[2] = cspace /\ more[3] = reply
    OBVIOUS
  <2>3. \A k \in 1..3 : k = 1 \/ k = 2 \/ k = 3
    OBVIOUS
  <2> HIDE DEF more
  <2>4. \A k \in 1..3 : Quiet(more[k])
    BY <2>1, <2>2, <2>3
  <2> QED
    BY <2>2, <2>4, QuietList
<1>3. Quiets(IF AcceptsRootPpc(p) THEN root ELSE <<>>) /\ Quiets(IF n > 0 THEN more ELSE <<>>)
  <2> HIDE DEF root, more
  <2> QED
    BY <1>1, <1>2, QuietNone
<1>4. MintChild(p, c) = ((IF AcceptsRootPpc(p) THEN root ELSE <<>>) \o tcb) \o IF n > 0 THEN more ELSE <<>>
  BY DEF MintChild
<1> HIDE DEF root, tcb, more, n
<1> QED
  BY <1>1, <1>3, <1>4, QuietConcat

LEMMA QuietThreads ==
  ASSUME Ready, NEW p \in DOMAIN pds
  PROVE  Quiets(MintThreads(p))
<1> DEFINE n == pds[p].threads
           k == Cardinality(Children(p))
           given(slot, type) == Spawned(p, Mint(CNode(p), slot, Thread(type, p, k), 0), [dest |-> 1, src |-> 1])
           i1 == given(TcbSlot + k, "thread tcb")
           i2 == given(ThreadSc(n, k), "thread sc")
           i3 == Spawned(p, Do("SchedContextBind", [sc |-> Thread("thread sc", p, k), tcb |-> Thread("thread tcb", p, k)]),
                         [sc |-> 1, tcb |-> 1])
           i4 == given(ThreadCSpace(n, k), "thread cnode")
           i5 == Copy(CNode(p), SelfCNodeSlot, CNode(p))
           i6 == Copy(CNode(p), SelfTcbSlot, Tcb(p))
           i7 == Spawned(p, Copy(CNode(p), ThreadReply(n, k), Thread("thread reply", p, k)), [dest |-> 1, src |-> 1])
           i8 == Copy(CNode(p), SchedControlSlot, SchedControl)
           own == << i1, i2, i3, i4, i5, i6, i7, i8 >>
           children == Each(InOrder(Children(p)), LAMBDA c : Mint(CNode(p), PdVSpace(n, pds[c].pd_id), VSpace(c), 0))
<1>1. \A inv, incr : Quiet(inv) => Quiet(Spawned(p, inv, incr))
  BY SpawnableThreads, QuietRepeat DEF Spawned
<1>2. Quiets(MintThreadEndpoints(p)) /\ Quiets(MintThreadFaults(p))
  <2>1. Quiets(MintThreadEndpoints(p))
    BY <1>1, QuietMint, QuietDo, QuietTwo DEF MintThreadEndpoints, QuietOps
  <2>2. Quiets(MintThreadFaults(p))
    BY <1>1, QuietMint, QuietDo, QuietTwo DEF MintThreadFaults, QuietOps
  <2> QED
    BY <2>1, <2>2
<1>3. Quiets(own)
  <2>1. Quiet(i1) /\ Quiet(i2) /\ Quiet(i4)
    BY <1>1, QuietMint
  <2>2. Quiet(i3) /\ Quiet(i7)
    BY <1>1, QuietMint, QuietDo DEF QuietOps
  <2>3. Quiet(i5) /\ Quiet(i6) /\ Quiet(i8)
    BY QuietMint
  <2> HIDE DEF i1, i2, i3, i4, i5, i6, i7, i8
  <2>4. /\ own = [m \in 1..8 |-> own[m]]
        /\ own[1] = i1 /\ own[2] = i2 /\ own[3] = i3 /\ own[4] = i4 /\ own[5] = i5 /\ own[6] = i6
        /\ own[7] = i7 /\ own[8] = i8
    OBVIOUS
  <2>5. \A m \in 1..8 : m = 1 \/ m = 2 \/ m = 3 \/ m = 4 \/ m = 5 \/ m = 6 \/ m = 7 \/ m = 8
    OBVIOUS
  <2> HIDE DEF own
  <2>6. \A m \in 1..8 : Quiet(own[m])
    BY <2>1, <2>2, <2>3, <2>4, <2>5
  <2> QED
    BY <2>4, <2>6, QuietList
<1>4. Quiets(children)
  <2> DEFINE s == children
             list == InOrder(Children(p))
             j == Len(list)
  <2>1. j \in Nat /\ DOMAIN list = 1..j
    BY ChildrenList
  <2>2. s = [m \in 1..j |-> s[m]]
        /\ \A m \in 1..j : s[m] = Mint(CNode(p), PdVSpace(n, pds[list[m]].pd_id), VSpace(list[m]), 0)
    BY <2>1 DEF Each
  <2>3. \A m \in 1..j : Quiet(s[m])
    BY <2>2, QuietMint
  <2> HIDE DEF s, j
  <2> QED
    BY <2>1, <2>2, <2>3, QuietList DEF s
<1>5. Quiets(IF AcceptsRootPpc(p) THEN MintThreadEndpoints(p) ELSE <<>>)
  BY <1>2, QuietNone
<1>6. MintThreads(p) = (((IF AcceptsRootPpc(p) THEN MintThreadEndpoints(p) ELSE <<>>) \o MintThreadFaults(p))
                          \o own) \o children
  BY DEF MintThreads
<1> HIDE DEF own, children
<1> QED
  BY <1>2, <1>3, <1>4, <1>5, <1>6, QuietConcat

LEMMA QuietCSpaces ==
  ASSUME Ready
  PROVE  Quiets(SetUpRootCSpaces)
<1> DEFINE k == Len(pds)
           children(p) == Flat(InOrder(Children(p)), LAMBDA c : MintChild(p, c))
           own(p) == children(p) \o IF pds[p].threads > 0 THEN MintThreads(p) ELSE <<>>
           q == Each(All, LAMBDA p : Flat(InOrder(Children(p)), LAMBDA c : MintChild(p, c))
                                       \o IF pds[p].threads > 0 THEN MintThreads(p) ELSE <<>>)
<1>0. k \in Nat /\ DOMAIN All = 1..k
  BY Domains
<1>1. q = [n \in 1..k |-> q[n]] /\ \A n \in 1..k : q[n] = own(All[n])
  BY <1>0 DEF Each
<1>2. SetUpRootCSpaces = FlattenSeq(q)
  BY DEF SetUpRootCSpaces, Flat
<1>3. ASSUME NEW p
      PROVE  Quiets(children(p))
  <2> DEFINE list == InOrder(Children(p))
             j == Len(list)
             s == Each(list, LAMBDA c : MintChild(p, c))
  <2>1. j \in Nat /\ DOMAIN list = 1..j
    BY ChildrenList
  <2>2. s = [m \in 1..j |-> s[m]] /\ \A m \in 1..j : s[m] = MintChild(p, list[m])
    BY <2>1 DEF Each
  <2>3. \A m \in 1..j : Quiets(s[m])
    BY <2>2, QuietChild
  <2>4. children(p) = FlattenSeq(s)
    BY DEF Flat
  <2> HIDE DEF s, j, children
  <2> QED
    BY <2>1, <2>2, <2>3, <2>4, QuietFlat
<1> HIDE DEF children
<1>4. \A p \in DOMAIN pds : Quiets(own(p))
  <2> TAKE p \in DOMAIN pds
  <2>1. Quiets(IF pds[p].threads > 0 THEN MintThreads(p) ELSE <<>>)
    BY QuietThreads, QuietNone
  <2> QED
    BY <1>3, <2>1, QuietConcat
<1>5. \A n \in 1..k : All[n] \in DOMAIN pds
  BY Domains
<1> HIDE DEF q, own, k
<1>6. \A n \in 1..k : Quiets(q[n])
  BY <1>1, <1>4, <1>5
<1> QED
  BY <1>0, <1>1, <1>2, <1>6, QuietFlat

\* All of the plan but its last two invocations.
LEMMA QuietPlan ==
  ASSUME Ready
  PROVE  Quiets(CapInvocations) /\ Quiets(TcbInvocations)
<1>1. /\ Quiets(Retypes) /\ Quiets(CreateIrqHandlers) /\ Quiets(AssignAsids) /\ Quiets(MintPages)
      /\ Quiets(MintIrqNotifications) /\ Quiets(MintFaultEndpoints) /\ Quiets(MintInput)
      /\ Quiets(MintReply) /\ Quiets(MintVSpace) /\ Quiets(MintIrqHandlers) /\ Quiets(SetUpRootCSpaces)
      /\ Quiets(MintChannels) /\ Quiets(AssociateIrqs) /\ Quiets(MapTables) /\ Quiets(MapPages)
  BY QuietRetypes, QuietIrqs, QuietMaps, QuietByPd, QuietRepeated, QuietCSpaces, QuietChannels, QuietTables
<1>2. /\ Quiets(SetSchedParams) /\ Quiets(SetSpaces) /\ Quiets(SetIpcBuffers) /\ Quiets(WriteRegisters)
      /\ Quiets(BindNotifications) /\ Quiets(SetDomains) /\ Quiets(SetThreadDomains)
  BY QuietSchedParams, QuietByPd, QuietRepeated, QuietDomains
<1>3. Quiets(CapInvocations)
  <2>1. Quiets(Retypes \o CreateIrqHandlers \o AssignAsids \o MintPages \o MintIrqNotifications
               \o MintFaultEndpoints \o MintInput)
    BY <1>1, QuietConcat
  <2> DEFINE first == Retypes \o CreateIrqHandlers \o AssignAsids \o MintPages \o MintIrqNotifications
                      \o MintFaultEndpoints \o MintInput
  <2>2. CapInvocations = first \o MintReply \o MintVSpace \o MintIrqHandlers
                         \o SetUpRootCSpaces \o MintChannels \o AssociateIrqs \o MapTables \o MapPages
    BY DEF CapInvocations
  <2> HIDE DEF first
  <2>3. Quiets(first)
    BY <2>1 DEF first
  <2> QED
    BY <1>1, <2>2, <2>3, QuietConcat
<1>4. Quiets(TcbInvocations)
  BY <1>2, QuietConcat DEF TcbInvocations
<1> QED
  BY <1>3, <1>4

-----------------------------------------------------------------------------
(* The order of the plan *)

Starts == {"Resume", "Suspend"}

\* What starts PDs comes after all the rest, and the suspension of the init task is the last.
InOrderToStart(list) ==
  /\ IsList(list) /\ Len(list) > 0 /\ list[Len(list)].op = "Suspend"
  /\ \A n \in 1..Len(list) : list[n].op \in QuietOps \cup Starts /\ list[n].count \in Nat \ {0}
  /\ \A m, n \in 1..Len(list) : m <= n /\ list[m].op \in Starts => list[n].op \in Starts

LEMMA ConcatIndex ==
  ASSUME NEW s, IsList(s), NEW x
  PROVE  LET all == s \o <<x>>
         IN  /\ IsList(all) /\ Len(all) = Len(s) + 1 /\ all[Len(s) + 1] = x
             /\ \A i \in 1..Len(s) : all[i] = s[i]
<1> DEFINE S == ToSet(s) \cup {x}
           t == <<x>>
           all == s \o t
<1>1. s \in Seq(S) /\ Len(s) \in Nat
  <2>1. \A n \in 1..Len(s) : s[n] \in S
    BY ListDomain DEF ToSet
  <2> HIDE DEF S
  <2> QED
    BY <2>1, ListIsSeq DEF IsList
<1>2. t \in Seq(S) /\ Len(t) = 1 /\ t[1] = x
  OBVIOUS
<1> HIDE DEF S, t
<1>3. /\ s \o t \in Seq(S) /\ Len(s \o t) = Len(s) + Len(t)
      /\ \A i \in 1..Len(s) + Len(t) : (s \o t)[i] = IF i <= Len(s) THEN s[i] ELSE t[i - Len(s)]
  BY <1>1, <1>2, ConcatProperties
<1>4. all \in Seq(S) /\ Len(all) = Len(s) + 1
      /\ \A i \in 1..Len(s) + 1 : all[i] = IF i <= Len(s) THEN s[i] ELSE t[i - Len(s)]
  BY <1>2, <1>3
<1> HIDE DEF all
<1>5. IsList(all)
  BY <1>4, SeqIsList
<1>6. all[Len(s) + 1] = x
  <2> DEFINE k == Len(s)
  <2>1. k + 1 \in 1..k + 1 /\ ~(k + 1 <= k) /\ k + 1 - k = 1
    BY <1>1
  <2> QED
    BY <1>2, <1>4, <2>1
<1>7. \A i \in 1..Len(s) : all[i] = s[i]
  BY <1>1, <1>4
<1> QED
  BY <1>4, <1>5, <1>6, <1>7 DEF all, t

LEMMA PlanInOrder ==
  ASSUME Ready
  PROVE  InOrderToStart(SystemInvocations)
<1> DEFINE most == CapInvocations \o TcbInvocations
           resume == Repeat(Do("Resume", [tcb |-> Tcb(1)]), Len(pds), [tcb |-> 1])
           suspend == Do("Suspend", [tcb |-> InitTcb])
           before == most \o <<resume>>
           all == before \o <<suspend>>
           k == Len(most)
<1>1. SystemInvocations = all
  BY DEF SystemInvocations, ResumeAll, AllRepeated, SuspendSelf
<1>2. Quiets(most)
  BY QuietPlan, QuietConcat
<1>3. resume.op = "Resume" /\ suspend.op = "Suspend" /\ resume.count \in Nat \ {0} /\ suspend.count = 1
  BY Domains DEF Repeat, Do
<1> HIDE DEF most, resume, suspend
<1>4. k \in Nat /\ IsList(most)
      /\ \A n \in 1..k : most[n].op \in QuietOps /\ most[n].op \notin Starts /\ most[n].count \in Nat \ {0}
  <2>1. IsList(most) /\ DOMAIN most = 1..k /\ k \in Nat
    BY <1>2, ListDomain DEF Quiets, IsList
  <2>2. \A n \in 1..k : most[n] \in ToSet(most)
    BY <2>1 DEF ToSet
  <2>3. QuietOps \cap Starts = {}
    BY DEF QuietOps, Starts
  <2> QED
    BY <1>2, <2>1, <2>2, <2>3 DEF Quiets, Quiet
<1>5. IsList(before) /\ Len(before) = k + 1 /\ before[k + 1] = resume /\ \A n \in 1..k : before[n] = most[n]
  BY <1>4, ConcatIndex
<1> HIDE DEF k, before
<1>6. /\ IsList(all) /\ Len(all) = k + 1 + 1 /\ all[k + 1 + 1] = suspend
      /\ \A n \in 1..k + 1 : all[n] = before[n]
  BY <1>5, ConcatIndex
<1> HIDE DEF all
<1>7. \A n \in 1..k : all[n].op \in QuietOps /\ all[n].op \notin Starts /\ all[n].count \in Nat \ {0}
  BY <1>4, <1>5, <1>6
<1>8. /\ all[k + 1].op \in Starts /\ all[k + 2].op = "Suspend"
      /\ all[k + 1].count \in Nat \ {0} /\ all[k + 2].count \in Nat \ {0}
  BY <1>3, <1>4, <1>5, <1>6 DEF Starts
<1>9. Len(all) = k + 2 /\ \A n \in 1..k + 2 : n \in 1..k \/ n = k + 1 \/ n = k + 2
  BY <1>4, <1>6
<1>10. \A m, n \in 1..Len(all) : m <= n /\ all[m].op \in Starts => all[n].op \in Starts
  <2> SUFFICES ASSUME NEW m \in 1..k + 2, NEW n \in 1..k + 2, m <= n, all[m].op \in Starts
               PROVE  all[n].op \in Starts
    BY <1>9
  <2>1. ~(m \in 1..k)
    BY <1>7
  <2>2. n = k + 1 \/ n = k + 2
    BY <1>4, <1>9, <2>1
  <2> QED
    BY <1>8, <2>2 DEF Starts
<1>11. \A n \in 1..Len(all) : all[n].op \in QuietOps \cup Starts /\ all[n].count \in Nat \ {0}
  <2>1. all[k + 2].op \in Starts
    BY <1>8 DEF Starts
  <2> QED
    BY <1>7, <1>8, <1>9, <2>1
<1> QED
  BY <1>1, <1>4, <1>6, <1>8, <1>9, <1>10, <1>11 DEF InOrderToStart

-----------------------------------------------------------------------------
(* The steps of the init task *)

KernelFields == {"cspace", "tcb", "configured", "mapped", "tables", "asids", "irqs"}
TcbFields == {"sc", "cspace", "vspace", "ntfn", "fault", "timeout", "buffer", "frame", "domain",
              "priority", "entry", "x0", "running"}
KernelOk ==
  DOMAIN kernel = KernelFields /\ \A t \in DOMAIN kernel.tcb : DOMAIN kernel.tcb[t] = TcbFields

\* An iteration of an invocation: it has been accepted or not.
Turn(op) ==
  /\ pc = "boot" /\ plan[step].op = op /\ UNCHANGED <<description, raised, objectVars, plan>>
  /\ pc' \in {"boot", "boot failed", "running"} /\ (pc' = "boot" => op # "Suspend")
  /\ step' = step \/ step' = step + 1

\* No thread runs that did not run before.
NoStart ==
  /\ DOMAIN kernel' = KernelFields
  /\ \A t \in DOMAIN kernel'.tcb :
       /\ DOMAIN kernel'.tcb[t] = TcbFields
       /\ kernel'.tcb[t].running => t \in DOMAIN kernel.tcb /\ kernel.tcb[t].running

LEMMA NothingStarts ==
  ASSUME KernelOk, DOMAIN kernel' = DOMAIN kernel, kernel'.tcb = kernel.tcb
  PROVE  NoStart
BY DEF KernelOk, NoStart

\* A TCB of which some fields are written starts nothing, if running is not one of them.
LEMMA TcbWritten ==
  ASSUME KernelOk, NEW x, NEW tcb, kernel' = [kernel EXCEPT !.tcb[x] = tcb],
         DOMAIN tcb = DOMAIN kernel.tcb[x], tcb.running = kernel.tcb[x].running
  PROVE  NoStart
<1>1. DOMAIN kernel' = KernelFields /\ kernel'.tcb = [kernel.tcb EXCEPT ![x] = tcb]
  BY DEF KernelOk, KernelFields
<1>2. DOMAIN kernel'.tcb = DOMAIN kernel.tcb
      /\ \A t \in DOMAIN kernel.tcb : kernel'.tcb[t] = IF t = x THEN tcb ELSE kernel.tcb[t]
  BY <1>1
<1> QED
  BY <1>1, <1>2 DEF KernelOk, NoStart

\* What an iteration does, whichever the invocation.
LEMMA PerformTurn ==
  ASSUME NEW STATE op, NEW STATE accepted, NEW STATE result, Perform(op, accepted, result)
  PROVE  Turn(op) /\ (kernel' = kernel \/ kernel' = result)
<1>1. CASE accepted
  BY <1>1 DEF Perform, Turn
<1>2. CASE ~accepted
  BY <1>2 DEF Perform, Turn
<1> QED
  BY <1>1, <1>2

LEMMA TcbTurn ==
  ASSUME KernelOk, NEW STATE op, NEW STATE accepted, NEW STATE x, NEW STATE tcb,
         Perform(op, accepted, [kernel EXCEPT !.tcb[x] = tcb]),
         DOMAIN tcb = DOMAIN kernel.tcb[x], tcb.running = kernel.tcb[x].running
  PROVE  Turn(op) /\ NoStart
<1>1. Turn(op) /\ (kernel' = kernel \/ kernel' = [kernel EXCEPT !.tcb[x] = tcb])
  BY PerformTurn
<1> QED
  BY <1>1, NothingStarts, TcbWritten

LEMMA OtherTurn ==
  ASSUME KernelOk, NEW STATE op, NEW STATE accepted, NEW STATE result,
         Perform(op, accepted, result), DOMAIN result = DOMAIN kernel, result.tcb = kernel.tcb
  PROVE  Turn(op) /\ NoStart
<1>1. Turn(op) /\ (kernel' = kernel \/ kernel' = result)
  BY PerformTurn
<1> QED
  BY <1>1, NothingStarts

LEMMA SetCSpaceTurn ==
  ASSUME KernelOk, SetCSpace
  PROVE  Turn("SetCSpace") /\ NoStart
<1> DEFINE x == Obj("tcb")
           tcb == [kernel.tcb[x] EXCEPT !.cspace = Obj("cspace")]
           accepted == Is("tcb", {"tcb", "thread tcb"}) /\ Is("cspace", {"cnode", "thread cnode"})
<1>1. Perform("SetCSpace", accepted, [kernel EXCEPT !.tcb[x] = tcb])
  BY DEF SetCSpace, OnTcb
<1>2. DOMAIN tcb = DOMAIN kernel.tcb[x] /\ tcb.running = kernel.tcb[x].running
  OBVIOUS
<1> HIDE DEF accepted, tcb, x
<1> QED
  BY <1>1, <1>2, TcbTurn

LEMMA SetFaultHandlerTurn ==
  ASSUME KernelOk, SetFaultHandler
  PROVE  Turn("SetFaultHandler") /\ NoStart
<1> DEFINE x == Obj("tcb")
           tcb == [kernel.tcb[x] EXCEPT !.fault = CapOf(Arg("fault"))]
           more == Is("fault", {"ep"})
           accepted == Is("tcb", {"tcb", "thread tcb"}) /\ more
<1>1. Perform("SetFaultHandler", accepted, [kernel EXCEPT !.tcb[x] = tcb])
  BY DEF SetFaultHandler, OnTcb
<1>2. DOMAIN tcb = DOMAIN kernel.tcb[x] /\ tcb.running = kernel.tcb[x].running
  OBVIOUS
<1> HIDE DEF accepted, tcb, x
<1> QED
  BY <1>1, <1>2, TcbTurn

LEMMA SetTimeoutEndpointTurn ==
  ASSUME KernelOk, SetTimeoutEndpoint
  PROVE  Turn("SetTimeoutEndpoint") /\ NoStart
<1> DEFINE x == Obj("tcb")
           tcb == [kernel.tcb[x] EXCEPT !.timeout = CapOf(Arg("fault"))]
           more == Is("fault", {"ep"})
           accepted == Is("tcb", {"tcb", "thread tcb"}) /\ more
<1>1. Perform("SetTimeoutEndpoint", accepted, [kernel EXCEPT !.tcb[x] = tcb])
  BY DEF SetTimeoutEndpoint, OnTcb
<1>2. DOMAIN tcb = DOMAIN kernel.tcb[x] /\ tcb.running = kernel.tcb[x].running
  OBVIOUS
<1> HIDE DEF accepted, tcb, x
<1> QED
  BY <1>1, <1>2, TcbTurn

LEMMA SchedContextBindTurn ==
  ASSUME KernelOk, SchedContextBind
  PROVE  Turn("SchedContextBind") /\ NoStart
<1> DEFINE x == Obj("tcb")
           tcb == [kernel.tcb[x] EXCEPT !.sc = Obj("sc")]
           more == Is("sc", {"sc", "thread sc"}) /\ Unbound(Obj("sc")) /\ kernel.tcb[x].sc = NoObject
           accepted == Is("tcb", {"tcb", "thread tcb"}) /\ more
<1>1. Perform("SchedContextBind", accepted, [kernel EXCEPT !.tcb[x] = tcb])
  BY DEF SchedContextBind, OnTcb
<1>2. DOMAIN tcb = DOMAIN kernel.tcb[x] /\ tcb.running = kernel.tcb[x].running
  OBVIOUS
<1> HIDE DEF accepted, tcb, x
<1> QED
  BY <1>1, <1>2, TcbTurn

LEMMA SetSchedParamsOfTurn ==
  ASSUME KernelOk, SetSchedParamsOf
  PROVE  Turn("SetSchedParams") /\ NoStart
<1> DEFINE x == Obj("tcb")
           tcb == [kernel.tcb[x] EXCEPT !.sc = Obj("sc"), !.priority = Arg("priority"), !.fault = NoCap]
           more == Is("sc", {"sc", "thread sc"}) /\ Unbound(Obj("sc")) /\ kernel.tcb[x].sc = NoObject
           accepted == Is("tcb", {"tcb", "thread tcb"}) /\ more
<1>1. Perform("SetSchedParams", accepted, [kernel EXCEPT !.tcb[x] = tcb])
  BY DEF SetSchedParamsOf, OnTcb
<1>2. DOMAIN tcb = DOMAIN kernel.tcb[x] /\ tcb.running = kernel.tcb[x].running
  OBVIOUS
<1> HIDE DEF accepted, tcb, x
<1> QED
  BY <1>1, <1>2, TcbTurn

LEMMA SetSpaceTurn ==
  ASSUME KernelOk, SetSpace
  PROVE  Turn("SetSpace") /\ NoStart
<1> DEFINE x == Obj("tcb")
           tcb == [kernel.tcb[x] EXCEPT !.fault = CapOf(Arg("fault")), !.cspace = Obj("cspace"),
                                          !.vspace = Obj("vspace")]
           more == Is("fault", {"ep"}) /\ Is("cspace", {"cnode"}) /\ Is("vspace", {"vspace"})
                       /\ Obj("vspace") \in kernel.asids
           accepted == Is("tcb", {"tcb", "thread tcb"}) /\ more
<1>1. Perform("SetSpace", accepted, [kernel EXCEPT !.tcb[x] = tcb])
  BY DEF SetSpace, OnTcb
<1>2. DOMAIN tcb = DOMAIN kernel.tcb[x] /\ tcb.running = kernel.tcb[x].running
  OBVIOUS
<1> HIDE DEF accepted, tcb, x
<1> QED
  BY <1>1, <1>2, TcbTurn

LEMMA SetIPCBufferTurn ==
  ASSUME KernelOk, SetIPCBuffer
  PROVE  Turn("SetIPCBuffer") /\ NoStart
<1> DEFINE x == Obj("tcb")
           tcb == [kernel.tcb[x] EXCEPT !.buffer = Arg("buffer"), !.frame = Obj("frame")]
           more == Is("frame", {"page"})
           accepted == Is("tcb", {"tcb", "thread tcb"}) /\ more
<1>1. Perform("SetIPCBuffer", accepted, [kernel EXCEPT !.tcb[x] = tcb])
  BY DEF SetIPCBuffer, OnTcb
<1>2. DOMAIN tcb = DOMAIN kernel.tcb[x] /\ tcb.running = kernel.tcb[x].running
  OBVIOUS
<1> HIDE DEF accepted, tcb, x
<1> QED
  BY <1>1, <1>2, TcbTurn

LEMMA WriteRegistersOfTurn ==
  ASSUME KernelOk, WriteRegistersOf
  PROVE  Turn("WriteRegisters") /\ NoStart
<1> DEFINE x == Obj("tcb")
           tcb == [kernel.tcb[x] EXCEPT !.entry = Arg("entry"), !.x0 = Arg("x0")]
           accepted == Is("tcb", {"tcb", "thread tcb"}) /\ TRUE
<1>1. Perform("WriteRegisters", accepted, [kernel EXCEPT !.tcb[x] = tcb])
  BY DEF WriteRegistersOf, OnTcb
<1>2. DOMAIN tcb = DOMAIN kernel.tcb[x] /\ tcb.running = kernel.tcb[x].running
  OBVIOUS
<1> HIDE DEF accepted, tcb, x
<1> QED
  BY <1>1, <1>2, TcbTurn

LEMMA BindNotificationTurn ==
  ASSUME KernelOk, BindNotification
  PROVE  Turn("BindNotification") /\ NoStart
<1> DEFINE x == Obj("tcb")
           tcb == [kernel.tcb[x] EXCEPT !.ntfn = Obj("notification")]
           more == Is("notification", {"ntfn"}) /\ kernel.tcb[x].ntfn = NoObject
                       /\ \A t \in DOMAIN kernel.tcb : kernel.tcb[t].ntfn # Obj("notification")
           accepted == Is("tcb", {"tcb", "thread tcb"}) /\ more
<1>1. Perform("BindNotification", accepted, [kernel EXCEPT !.tcb[x] = tcb])
  BY DEF BindNotification, OnTcb
<1>2. DOMAIN tcb = DOMAIN kernel.tcb[x] /\ tcb.running = kernel.tcb[x].running
  OBVIOUS
<1> HIDE DEF accepted, tcb, x
<1> QED
  BY <1>1, <1>2, TcbTurn

LEMMA DomainSetTurn ==
  ASSUME KernelOk, DomainSet
  PROVE  Turn("DomainSet") /\ NoStart
<1> DEFINE x == Obj("tcb")
           tcb == [kernel.tcb[x] EXCEPT !.domain = Arg("domain")]
           more == Arg("domain") \in 0..NumDomains - 1
           accepted == Is("tcb", {"tcb", "thread tcb"}) /\ more
<1>1. Perform("DomainSet", accepted, [kernel EXCEPT !.tcb[x] = tcb])
  BY DEF DomainSet, OnTcb
<1>2. DOMAIN tcb = DOMAIN kernel.tcb[x] /\ tcb.running = kernel.tcb[x].running
  OBVIOUS
<1> HIDE DEF accepted, tcb, x
<1> QED
  BY <1>1, <1>2, TcbTurn

LEMMA CapsTurn ==
  ASSUME KernelOk, NEW op, MintOrCopy(op)
  PROVE  Turn(op) /\ NoStart
<1> DEFINE cnode == Obj("cnode")
           cap == [obj |-> Obj("src"), badge |-> IF Is("src", {"ep", "ntfn"}) THEN Arg("badge") ELSE 0]
           held == Put(cnode, Arg("dest"), cap)
           result == [kernel EXCEPT !.cspace[cnode] = held]
           accepted == /\ Is("cnode", {"system", "cnode", "thread cnode"}) /\ Known(Arg("src"))
                       /\ Free(cnode, Arg("dest"))
<1>1. Perform(op, accepted, result)
  BY DEF MintOrCopy
<1> HIDE DEF accepted, held, cnode
<1>2. DOMAIN result = DOMAIN kernel /\ result.tcb = kernel.tcb
  BY DEF KernelOk
<1> HIDE DEF result
<1> QED
  BY <1>1, <1>2, OtherTurn

LEMMA IrqControlGetTurn ==
  ASSUME KernelOk, IrqControlGet
  PROVE  Turn("IrqControlGet") /\ NoStart
<1> DEFINE held == Put(System, Arg("dest"), [obj |-> <<"irq", Arg("irq")>>, badge |-> 0])
           irqs == Joined(kernel.irqs, [irq \in {Arg("irq")} |-> NoCap])
           result == [kernel EXCEPT !.cspace[System] = held, !.irqs = irqs]
           accepted == Arg("irq") \notin DOMAIN kernel.irqs /\ Free(System, Arg("dest"))
<1>1. Perform("IrqControlGet", accepted, result)
  BY DEF IrqControlGet
<1> HIDE DEF accepted, held, irqs
<1>2. DOMAIN result = DOMAIN kernel /\ result.tcb = kernel.tcb
  BY DEF KernelOk
<1> HIDE DEF result
<1> QED
  BY <1>1, <1>2, OtherTurn

LEMMA ConfigureFlagsTurn ==
  ASSUME KernelOk, ConfigureFlags
  PROVE  Turn("ConfigureFlags") /\ NoStart
<1> DEFINE result == [kernel EXCEPT !.configured = @ \cup {Obj("sc")}]
<1>1. Perform("ConfigureFlags", Is("sc", {"sc"}), result)
  BY DEF ConfigureFlags
<1>2. DOMAIN result = DOMAIN kernel /\ result.tcb = kernel.tcb
  BY DEF KernelOk
<1> HIDE DEF result
<1> QED
  BY <1>1, <1>2, OtherTurn

LEMMA IrqSetNotificationTurn ==
  ASSUME KernelOk, IrqSetNotification
  PROVE  Turn("IrqSetNotification") /\ NoStart
<1> DEFINE irq == Obj("handler")[2]
           result == [kernel EXCEPT !.irqs[irq] = CapOf(Arg("notification"))]
           accepted == Is("handler", {"irq"}) /\ Is("notification", {"ntfn"})
<1>1. Perform("IrqSetNotification", accepted, result)
  BY DEF IrqSetNotification
<1> HIDE DEF accepted, irq
<1>2. DOMAIN result = DOMAIN kernel /\ result.tcb = kernel.tcb
  BY DEF KernelOk
<1> HIDE DEF result
<1> QED
  BY <1>1, <1>2, OtherTurn

LEMMA AsidPoolAssignTurn ==
  ASSUME KernelOk, AsidPoolAssign
  PROVE  Turn("AsidPoolAssign") /\ NoStart
<1> DEFINE result == [kernel EXCEPT !.asids = @ \cup {Obj("vspace")}]
           accepted == Is("vspace", {"vspace"}) /\ Obj("vspace") \notin kernel.asids
<1>1. Perform("AsidPoolAssign", accepted, result)
  BY DEF AsidPoolAssign
<1> HIDE DEF accepted
<1>2. DOMAIN result = DOMAIN kernel /\ result.tcb = kernel.tcb
  BY DEF KernelOk
<1> HIDE DEF result
<1> QED
  BY <1>1, <1>2, OtherTurn

LEMMA TableMapTurn ==
  ASSUME KernelOk, TableMap
  PROVE  Turn("TableMap") /\ NoStart
<1> DEFINE table == <<Value("level"), Obj("vspace"), Arg("vaddr")>>
           result == [kernel EXCEPT !.tables = @ \cup {table}]
           accepted == /\ Is("table", {Value("level")}) /\ Is("vspace", {"vspace"})
                       /\ Obj("vspace") \in kernel.asids /\ table \notin kernel.tables
                       /\ Above(Value("level"), Obj("vspace"), Arg("vaddr")) \subseteq kernel.tables
<1>1. Perform("TableMap", accepted, result)
  BY DEF TableMap
<1> HIDE DEF accepted, table
<1>2. DOMAIN result = DOMAIN kernel /\ result.tcb = kernel.tcb
  BY DEF KernelOk
<1> HIDE DEF result
<1> QED
  BY <1>1, <1>2, OtherTurn

LEMMA PageMapTurn ==
  ASSUME KernelOk, NEW replace, PageMap(replace)
  PROVE  Turn("PageMap") /\ NoStart
<1> DEFINE page == [page |-> Obj("page"), vaddr |-> Arg("vaddr"), perms |-> Value("perms"),
                    size |-> Region(Obj("page")[2]).page]
           vspace == Obj("vspace")
           large == page.size = LargePage
           pages == {e \in kernel.mapped[vspace] : Meet(e, page)}
           table == {t \in kernel.tables : large /\ t = <<"pt", vspace, page.vaddr>>}
           mapped == (kernel.mapped[vspace] \ pages) \cup {page}
           result == [kernel EXCEPT !.mapped[vspace] = mapped, !.tables = @ \ table]
           accepted == /\ Is("page", {"page"}) /\ Is("vspace", {"vspace"}) /\ vspace \in kernel.asids
                       /\ pages \cup table # {} => replace
                       /\ Above(IF large THEN "pt" ELSE "page", vspace, page.vaddr) \subseteq kernel.tables
<1>1. Perform("PageMap", accepted, result)
  BY DEF PageMap
<1> HIDE DEF accepted, mapped, table, vspace
<1>2. DOMAIN result = DOMAIN kernel /\ result.tcb = kernel.tcb
  BY DEF KernelOk
<1> HIDE DEF result
<1> QED
  BY <1>1, <1>2, OtherTurn

LEMMA RetypeTurn ==
  ASSUME KernelOk, Retype
  PROVE  Turn("Retype") /\ NoStart
<1> DEFINE list == Value("objects")
           Of(types) == {o \in ToSet(list) : o[1] \in types}
           slots == Arg("dest")..Arg("dest") + Len(list) - 1
           caps == [slot \in slots |-> [obj |-> list[slot - Arg("dest") + 1], badge |-> 0]]
           cspace == [kernel.cspace EXCEPT ![System] = Joined(kernel.cspace[System], caps)]
           old == DOMAIN kernel.tcb
           new == Of({"tcb", "thread tcb"})
           cspaces == Joined(cspace, [o \in Of({"cnode", "thread cnode"}) |-> <<>>])
           tcb == [t \in old \cup new |-> IF t \in old THEN kernel.tcb[t] ELSE Blank]
           mapped == Joined(kernel.mapped, [o \in Of({"vspace"}) |-> {}])
           result == [kernel EXCEPT !.cspace = cspaces, !.tcb = tcb, !.mapped = mapped]
           accepted == \A slot \in slots : Free(System, slot)
<1>1. Perform("Retype", accepted, result)
  BY DEF Retype
<1>2. DOMAIN Blank = TcbFields /\ Blank.running = FALSE
  BY DEF Blank, TcbFields
<1> HIDE DEF accepted, cspaces, mapped, new
<1>3. /\ DOMAIN kernel.tcb \subseteq DOMAIN tcb
      /\ \A t \in DOMAIN tcb : tcb[t] = IF t \in DOMAIN kernel.tcb THEN kernel.tcb[t] ELSE Blank
  OBVIOUS
<1> HIDE DEF tcb
<1>4. DOMAIN result = KernelFields /\ result.tcb = tcb
  BY DEF KernelOk, KernelFields
<1> HIDE DEF result
<1>5. Turn("Retype") /\ (kernel' = kernel \/ kernel' = result)
  BY <1>1, PerformTurn
<1>6. CASE kernel' = result
  <2>1. DOMAIN kernel' = KernelFields /\ kernel'.tcb = tcb
    BY <1>4, <1>6
  <2>2. ASSUME NEW t \in DOMAIN kernel'.tcb
        PROVE  /\ DOMAIN kernel'.tcb[t] = TcbFields
               /\ kernel'.tcb[t].running => t \in DOMAIN kernel.tcb /\ kernel.tcb[t].running
    <3>1. CASE t \in DOMAIN kernel.tcb
      BY <1>3, <2>1, <3>1 DEF KernelOk
    <3>2. CASE t \notin DOMAIN kernel.tcb
      BY <1>2, <1>3, <2>1, <3>2
    <3> QED
      BY <3>1, <3>2
  <2> QED
    BY <1>5, <2>1, <2>2 DEF NoStart
<1> QED
  BY <1>5, <1>6, NothingStarts

\* What runs finds nothing changed.
Steady ==
  /\ [kernel' EXCEPT !.tcb = <<>>] = [kernel EXCEPT !.tcb = <<>>]
  /\ \A t \in DOMAIN kernel.tcb :
       [kernel'.tcb[t] EXCEPT !.running = TRUE] = [kernel.tcb[t] EXCEPT !.running = TRUE]

LEMMA StartsOne ==
  ASSUME KernelOk, Resume
  PROVE  Turn("Resume") /\ KernelOk' /\ Steady
<1> DEFINE x == Obj("tcb")
           one == [kernel.tcb[x] EXCEPT !.running = TRUE]
           tcb == [kernel.tcb EXCEPT ![x] = one]
           result == [kernel EXCEPT !.tcb = tcb]
           accepted == Is("tcb", {"tcb", "thread tcb"}) /\ TRUE
<1>1. Perform("Resume", accepted, result)
  BY DEF Resume, OnTcb
<1> HIDE DEF accepted, x
<1>2. Turn("Resume") /\ (kernel' = kernel \/ kernel' = result)
  <2> HIDE DEF result
  <2> QED
    BY <1>1, PerformTurn
<1>3. CASE kernel' = kernel
  BY <1>2, <1>3 DEF KernelOk, Steady
<1>4. CASE kernel' = result
  <2>1. DOMAIN one = DOMAIN kernel.tcb[x] /\ [one EXCEPT !.running = TRUE] = one
    OBVIOUS
  <2>2. DOMAIN tcb = DOMAIN kernel.tcb
        /\ \A t \in DOMAIN kernel.tcb : tcb[t] = IF t = x THEN one ELSE kernel.tcb[t]
    <3> HIDE DEF one
    <3> QED
      OBVIOUS
  <2>3. \A t \in DOMAIN kernel.tcb :
          DOMAIN tcb[t] = TcbFields
          /\ [tcb[t] EXCEPT !.running = TRUE] = [kernel.tcb[t] EXCEPT !.running = TRUE]
    <3> TAKE t \in DOMAIN kernel.tcb
    <3>1. CASE t = x
      <4>1. tcb[t] = one
        BY <2>2, <3>1
      <4> HIDE DEF tcb
      <4>2. DOMAIN tcb[t] = TcbFields
        BY <2>1, <3>1, <4>1 DEF KernelOk
      <4>3. [tcb[t] EXCEPT !.running = TRUE] = one
        BY <2>1, <4>1
      <4> QED
        BY <3>1, <4>2, <4>3
    <3>2. CASE t # x
      BY <2>2, <3>2 DEF KernelOk
    <3> QED
      BY <3>1, <3>2
  <2> HIDE DEF tcb, one
  <2>4. DOMAIN result = KernelFields /\ result.tcb = tcb
        /\ [result EXCEPT !.tcb = <<>>] = [kernel EXCEPT !.tcb = <<>>]
    <3>1. DOMAIN kernel = KernelFields
      BY DEF KernelOk
    <3>2. DOMAIN result = KernelFields /\ result.tcb = tcb
      BY <3>1 DEF KernelFields
    <3>3. [result EXCEPT !.tcb = <<>>] = [kernel EXCEPT !.tcb = <<>>]
      OBVIOUS
    <3> QED
      BY <3>2, <3>3
  <2> HIDE DEF result
  <2> QED
    BY <1>2, <1>4, <2>2, <2>3, <2>4 DEF KernelOk, Steady
<1> QED
  BY <1>2, <1>3, <1>4

LEMMA StartsNothing ==
  ASSUME KernelOk, Suspend
  PROVE  Turn("Suspend") /\ KernelOk' /\ Steady
<1>1. Turn("Suspend") /\ kernel' = kernel
  BY PerformTurn DEF Suspend
<1> QED
  BY <1>1 DEF KernelOk, Steady

\* An invocation that is not one of the last two starts nothing, and those change nothing
\* that what runs could find.
LEMMA TurnTaken ==
  ASSUME KernelOk, SysInitStep
  PROVE  \E op : Turn(op) /\ ((NoStart /\ op \notin Starts) \/ (KernelOk' /\ Steady /\ op \in Starts))
<1> DEFINE Taken(op) ==
             Turn(op) /\ ((NoStart /\ op \notin Starts) \/ (KernelOk' /\ Steady /\ op \in Starts))
<1>1. ASSUME NEW op, Turn(op), NoStart, op \notin Starts
      PROVE  \E o : Taken(o)
  <2>1. Taken(op)
    BY <1>1
  <2> HIDE DEF Taken
  <2> QED
    BY <2>1
<1>2. Resume \/ Suspend => \E op : Taken(op)
  BY StartsOne, StartsNothing DEF Starts
<1> HIDE DEF Taken
<1>3. Retype \/ IrqControlGet \/ MintOrCopy("Mint") \/ MintOrCopy("Copy")
      => \E op : Taken(op)
  <2>1. {"Retype", "IrqControlGet", "Mint", "Copy"} \cap Starts = {}
    BY DEF Starts
  <2> QED
    BY <1>1, <2>1, RetypeTurn, IrqControlGetTurn, CapsTurn
<1>4. SetCSpace \/ SetFaultHandler \/ SetTimeoutEndpoint \/ SchedContextBind \/ SetSchedParamsOf
      => \E op : Taken(op)
  <2>1. {"SetCSpace", "SetFaultHandler", "SetTimeoutEndpoint", "SchedContextBind", "SetSchedParams"}
          \cap Starts = {}
    BY DEF Starts
  <2> QED
    BY <1>1, <2>1, SetCSpaceTurn, SetFaultHandlerTurn, SetTimeoutEndpointTurn,
       SchedContextBindTurn, SetSchedParamsOfTurn
<1>5. SetSpace \/ SetIPCBuffer \/ WriteRegistersOf \/ BindNotification \/ DomainSet
      => \E op : Taken(op)
  <2>1. {"SetSpace", "SetIPCBuffer", "WriteRegisters", "BindNotification", "DomainSet"} \cap Starts = {}
    BY DEF Starts
  <2> QED
    BY <1>1, <2>1, SetSpaceTurn, SetIPCBufferTurn, WriteRegistersOfTurn, BindNotificationTurn,
       DomainSetTurn
<1>6. ConfigureFlags \/ IrqSetNotification \/ AsidPoolAssign \/ TableMap \/ PageMap(TRUE) \/ PageMap(FALSE)
      => \E op : Taken(op)
  <2>1. {"ConfigureFlags", "IrqSetNotification", "AsidPoolAssign", "TableMap", "PageMap"} \cap Starts = {}
    BY DEF Starts
  <2> QED
    BY <1>1, <2>1, ConfigureFlagsTurn, IrqSetNotificationTurn, AsidPoolAssignTurn, TableMapTurn,
       PageMapTurn
<1> QED
  BY <1>2, <1>3, <1>4, <1>5, <1>6 DEF SysInitStep, Taken

-----------------------------------------------------------------------------
(* The whole run *)

LEMMA MapsOfUnchanged ==
  ASSUME UNCHANGED description
  PROVE  \A p : MapsOf(p)' = MapsOf(p)
BY DEF description, MapsOf, ElfMaps, Areas, Segments, SegmentBase, Mr, AllocTls, ThreadsIn, Stacks, IpcBuffers,
       ThreadStack, Each

LEMMA RegionsKept ==
  ASSUME UNCHANGED <<description, regions>>, RegionsOk
  PROVE  RegionsOk'
<1>1. pds' = pds /\ regions' = regions
  BY DEF description
<1> QED
  BY <1>1, MapsOfUnchanged DEF RegionsOk, IsList, RegionOk

Built == {"map", "collect", "allocate", "plan"}
Planned == {"size", "link", "boot"}

\* While it is read, the description is well-formed; while it is built, so is what has been
\* built; and the plan that is booted is in order, so that once a PD has been started nothing
\* but starting is left to do.
IInv ==
  /\ Described /\ KernelOk
  /\ pc \in Built \cup Planned \cup {"build"} => MapsNamed
  /\ pc \in Built => RegionsOk
  /\ pc \in Built \ {"map"} => MapsOk
  /\ pc \in {"allocate", "plan"} => IsList(objects)
  /\ pc \in Planned => InOrderToStart(plan)
  /\ pc \in {"parse", "check", "build", "size", "link"} \cup Built => step = 1 /\ ~Started
  /\ pc = "boot" => step \in 1..Len(plan) /\ (Started => plan[step].op \in Starts)

LEMMA BuiltPcs ==
  /\ Built = {"map", "collect", "allocate", "plan"} /\ Planned = {"size", "link", "boot"}
  /\ Built \ {"map"} = {"collect", "allocate", "plan"}
BY DEF Built, Planned

LEMMA InitIInv == Init => IInv
<1> SUFFICES ASSUME Init
             PROVE  IInv
  OBVIOUS
<1>1. Described
  <2>1. /\ document \in Documents /\ at = 1 /\ open = <<>>
        /\ pds = <<>> /\ mrs = <<>> /\ channels = <<>> /\ partitions = <<>>
    BY DEF Init, DescriptionInit
  <2>2. Len(document) \in Nat
    BY <2>1, DocumentsAssumption, SeqIsList DEF IsList
  <2>3. at \in 1..Len(document) + 1
    BY <2>1, <2>2
  <2>4. /\ pds \in Seq(PdType) /\ mrs \in Seq(MrType) /\ channels \in Seq(ChannelType)
        /\ partitions \in Seq([id : Int]) /\ open \in Seq(0..Len(pds))
        /\ DOMAIN pds = {} /\ DOMAIN open = {}
    BY <2>1
  <2> QED
    BY <2>1, <2>3, <2>4 DEF Described
<1>2. pc = "parse" /\ step = 1
  BY DEF Init, DescriptionInit
<1>3. KernelOk /\ ~Started
  <2>1. DOMAIN kernel = KernelFields /\ kernel.tcb = <<>>
    BY DEF Init, KernelFields
  <2>2. DOMAIN kernel.tcb = {}
    BY <2>1
  <2> QED
    BY <2>1, <2>2 DEF KernelOk, Started
<1> QED
  BY <1>1, <1>2, <1>3, BuiltPcs DEF IInv

\* Nothing is started while the system is built.
LEMMA KernelKept ==
  ASSUME UNCHANGED <<step, kernel>>
  PROVE  (KernelOk' <=> KernelOk) /\ (Started' <=> Started) /\ step' = step
BY DEF KernelOk, Started

LEMMA DescriptionKept ==
  ASSUME UNCHANGED description
  PROVE  (Described' <=> Described) /\ (MapsNamed' <=> MapsNamed)
<1>1. Described' <=> Described
  BY DEF description, Described
<1>2. MapsNamed' <=> MapsNamed
  BY DEF description, MapsNamed, MapOk
<1> QED
  BY <1>1, <1>2

\* Where the reading of the description leads.
LEMMA ReadPcs ==
  ASSUME ReadDescription
  PROVE  IF CheckDescription THEN pc = "check" /\ pc' \in {"build", "refused"}
                             ELSE pc = "parse" /\ pc' \in {"parse", "check", "refused"}
<1>1. CASE CheckDescription
  BY <1>1 DEF CheckDescription
<1>2. CASE ~CheckDescription
  <2>1. pc = "parse"
    BY <1>2 DEF ReadDescription, ReadMemoryRegion, OpenPartition, OpenPD, ReadProgramImage, ReadMap, ReadIrq,
                ReadSetvar, ClosePD, ClosePartition, ReadChannel, EndOfDocument, ReadInPD, Element
  <2>2. CASE ReadMemoryRegion \/ OpenPartition \/ OpenPD
    BY <1>2, <2>1, <2>2 DEF ReadMemoryRegion, OpenPartition, OpenPD, Accept
  <2>3. CASE ReadProgramImage \/ ReadMap \/ ReadIrq \/ ReadSetvar
    BY <1>2, <2>1, <2>3 DEF ReadProgramImage, ReadMap, ReadIrq, ReadSetvar, ReadInPD, Accept
  <2>4. CASE ClosePD \/ ClosePartition \/ ReadChannel
    BY <1>2, <2>1, <2>4 DEF ClosePD, ClosePartition, ReadChannel, Accept
  <2>5. CASE EndOfDocument
    BY <1>2, <2>1, <2>5 DEF EndOfDocument
  <2> QED
    BY <1>2, <2>2, <2>3, <2>4, <2>5 DEF ReadDescription
<1> QED
  BY <1>1, <1>2

LEMMA ReadIInv ==
  ASSUME IInv, ReadDescription, UNCHANGED <<objectVars, plan, step, iter, kernel>>
  PROVE  IInv'
<1>1. Described'
  BY ReadDescribed DEF IInv
<1>2. KernelOk' /\ (Started' <=> Started) /\ step' = step
  BY KernelKept DEF IInv
<1>3. CASE CheckDescription
  <2>1. /\ pc = "check" /\ pc' \in {"build", "refused"} /\ (pc' = "build" => raised' = "ok")
        /\ UNCHANGED description
    BY <1>3 DEF CheckDescription
  <2>2. pc' = "build" => MapsNamed'
    BY <1>3, <2>1, MapsChecked, DescriptionKept
  <2> QED
    BY <1>1, <1>2, <2>1, <2>2, BuiltPcs DEF IInv
<1>4. CASE ~CheckDescription
  <2>1. pc = "parse" /\ pc' \in {"parse", "check", "refused"}
    BY <1>4, ReadPcs
  <2> QED
    BY <1>1, <1>2, <2>1, BuiltPcs DEF IInv
<1> QED
  BY <1>3, <1>4

\* What a step of the build leaves as it was.
LEMMA BuildKept ==
  ASSUME IInv, UNCHANGED <<description, step, iter, kernel>>
  PROVE  /\ Described' /\ KernelOk' /\ step' = step /\ (Started' <=> Started)
         /\ (MapsNamed => MapsNamed') /\ (regions' = regions /\ RegionsOk => RegionsOk')
<1>1. Described' /\ (MapsNamed => MapsNamed')
  BY DescriptionKept DEF IInv
<1>2. KernelOk' /\ (Started' <=> Started) /\ step' = step
  BY KernelKept DEF IInv
<1>3. regions' = regions /\ RegionsOk => RegionsOk'
  BY RegionsKept
<1> QED
  BY <1>1, <1>2, <1>3

LEMMA LayOutIInv ==
  ASSUME IInv, LayOut, UNCHANGED <<plan, step, iter, kernel>>
  PROVE  IInv'
<1>1. UNCHANGED <<description, step, iter, kernel>>
  BY DEF LayOut
<1>2. pc = "build" /\ pc' \in {"map", "refused"} /\ (pc' = "map" => regions' = AllMrs)
  BY DEF LayOut, Build
<1>3. ~Started /\ step = 1 /\ Described /\ MapsNamed
  BY <1>2 DEF IInv
<1>4. pc' = "map" => RegionsOk'
  <2> SUFFICES ASSUME regions' = AllMrs
               PROVE  RegionsOk'
    BY <1>2
  <2>1. /\ IsList(regions') /\ \A mr \in ToSet(regions') : RegionOk(mr)
        /\ \A p \in DOMAIN pds : \A m \in ToSet(MapsOf(p)) : \E mr \in ToSet(regions') : mr.name = m.mr
    BY <1>3, RegionsLaid
  <2>2. pds' = pds /\ \A p : MapsOf(p)' = MapsOf(p)
    BY <1>1, MapsOfUnchanged DEF description
  <2> QED
    BY <2>1, <2>2 DEF RegionsOk, IsList, RegionOk
<1> QED
  BY <1>1, <1>2, <1>3, <1>4, BuildKept, BuiltPcs DEF IInv

LEMMA MapRegionsIInv ==
  ASSUME IInv, MapRegions, UNCHANGED <<plan, step, iter, kernel>>
  PROVE  IInv'
<1>1. UNCHANGED <<description, step, iter, kernel>> /\ regions' = regions /\ pc = "map" /\ pc' = "collect"
  BY DEF MapRegions
<1>2. ~Started /\ step = 1 /\ Described /\ MapsNamed /\ RegionsOk
  BY <1>1, BuiltPcs DEF IInv
<1>3. MapsOk'
  <2>1. IsList(maps') /\ \A m \in ToSet(maps') : RegionOk(m.mr)
    BY <1>2, MapsLaid DEF MapRegions
  <2> QED
    BY <2>1 DEF MapsOk, IsList, RegionOk
<1> QED
  BY <1>1, <1>2, <1>3, BuildKept, BuiltPcs DEF IInv

LEMMA CollectIInv ==
  ASSUME IInv, CollectObjects, UNCHANGED <<plan, step, iter, kernel>>
  PROVE  IInv'
<1>1. /\ UNCHANGED <<description, step, iter, kernel>> /\ regions' = regions /\ maps' = maps
      /\ pc = "collect" /\ pc' \in {"allocate", "refused"}
      /\ pc' = "allocate" => objects' = Where(ObjectLists, LAMBDA list : list # <<>>)
  BY DEF CollectObjects, Build
<1>2. ~Started /\ step = 1 /\ Described /\ MapsNamed /\ RegionsOk /\ MapsOk
  BY <1>1, BuiltPcs DEF IInv
<1>3. pc' = "allocate" => IsList(objects)'
  <2>1. IsList(Where(ObjectLists, LAMBDA list : list # <<>>))
    BY <1>2, ObjectsCollected, NonEmptyLists
  <2>2. pc' = "allocate" => IsList(objects')
    BY <1>1, <2>1
  <2> QED
    BY <2>2 DEF IsList
<1>4. MapsOk'
  BY <1>1, <1>2 DEF MapsOk, IsList, RegionOk
<1> QED
  BY <1>1, <1>2, <1>3, <1>4, BuildKept, BuiltPcs DEF IInv

LEMMA AllocateIInv ==
  ASSUME IInv, AllocateObjects, UNCHANGED <<plan, step, iter, kernel>>
  PROVE  IInv'
<1>1. /\ UNCHANGED <<description, step, iter, kernel>> /\ regions' = regions /\ maps' = maps
      /\ objects' = objects /\ pc = "allocate" /\ pc' = "plan"
  BY DEF AllocateObjects
<1>2. ~Started /\ step = 1 /\ Described /\ MapsNamed /\ RegionsOk /\ MapsOk /\ IsList(objects)
  BY <1>1, BuiltPcs DEF IInv
<1>3. MapsOk' /\ IsList(objects)'
  BY <1>1, <1>2 DEF MapsOk, IsList, RegionOk
<1> QED
  BY <1>1, <1>2, <1>3, BuildKept, BuiltPcs DEF IInv

LEMMA MakePlanIInv ==
  ASSUME IInv, MakePlan, UNCHANGED <<step, iter, kernel>>
  PROVE  IInv'
<1>1. /\ UNCHANGED <<description, step, iter, kernel>> /\ pc = "plan" /\ pc' \in {"size", "refused"}
      /\ pc' = "size" => plan' = SystemInvocations
  BY DEF MakePlan, Build
<1>2. ~Started /\ step = 1 /\ Described /\ MapsNamed /\ Ready
  BY <1>1, BuiltPcs DEF IInv, Ready
<1>3. pc' = "size" => InOrderToStart(plan)'
  <2>1. pc' = "size" => InOrderToStart(plan')
    BY <1>1, <1>2, PlanInOrder
  <2> QED
    BY <2>1 DEF InOrderToStart, IsList, Starts
<1> QED
  BY <1>1, <1>2, <1>3, BuildKept, BuiltPcs DEF IInv

LEMMA SizeIInv ==
  ASSUME IInv, Size, UNCHANGED <<step, iter, kernel>>
  PROVE  IInv'
<1>1. /\ UNCHANGED <<description, step, iter, kernel>> /\ plan' = plan /\ pc = "size"
      /\ pc' \in {"link", "build"}
  BY DEF Size
<1>2. ~Started /\ step = 1 /\ Described /\ MapsNamed /\ InOrderToStart(plan)
  BY <1>1, BuiltPcs DEF IInv
<1>3. InOrderToStart(plan)'
  BY <1>1, <1>2 DEF InOrderToStart, IsList, Starts
<1> QED
  BY <1>1, <1>2, <1>3, BuildKept, BuiltPcs DEF IInv

LEMMA LinkIInv ==
  ASSUME IInv, Link, UNCHANGED <<step, iter, kernel>>
  PROVE  IInv'
<1>1. /\ UNCHANGED <<description, step, iter, kernel>> /\ plan' = plan /\ pc = "link"
      /\ pc' \in {"boot", "refused"}
  BY DEF Link, Build
<1>2. ~Started /\ step = 1 /\ Described /\ MapsNamed /\ InOrderToStart(plan)
  BY <1>1, BuiltPcs DEF IInv
<1>3. InOrderToStart(plan)'
  BY <1>1, <1>2 DEF InOrderToStart, IsList, Starts
<1>4. step \in 1..Len(plan)
  BY <1>2 DEF InOrderToStart, IsList
<1>5. (step \in 1..Len(plan))'
  BY <1>1, <1>4
<1> QED
  BY <1>1, <1>2, <1>3, <1>5, BuildKept, BuiltPcs DEF IInv

\* An iteration that is not one of starting starts nothing; and after one that is, only
\* starting is left, because of the order of the plan.
LEMMA StepIInv ==
  ASSUME IInv, SysInitStep
  PROVE  IInv'
<1>1. PICK op : Turn(op) /\ ((NoStart /\ op \notin Starts) \/ (KernelOk' /\ Steady /\ op \in Starts))
  BY TurnTaken DEF IInv
<1>2. /\ pc = "boot" /\ plan[step].op = op /\ UNCHANGED description /\ plan' = plan
      /\ pc' \in {"boot", "boot failed", "running"} /\ (pc' = "boot" => op # "Suspend")
      /\ step' = step \/ step' = step + 1
  BY <1>1 DEF Turn
<1>3. Described /\ MapsNamed /\ InOrderToStart(plan) /\ step \in 1..Len(plan)
      /\ (Started => plan[step].op \in Starts)
  BY <1>2, BuiltPcs DEF IInv
<1>4. Described' /\ MapsNamed' /\ InOrderToStart(plan)'
  BY <1>2, <1>3, DescriptionKept DEF InOrderToStart, IsList, Starts
<1>5. KernelOk'
  BY <1>1 DEF KernelOk, NoStart
<1>6. pc' = "boot" => step' \in 1..Len(plan)
  <2> HAVE pc' = "boot"
  <2>1. Len(plan) \in Nat /\ step # Len(plan)
    BY <1>2, <1>3 DEF InOrderToStart, IsList
  <2> QED
    BY <1>2, <1>3, <2>1
<1>7. pc' = "boot" /\ Started' => plan[step'].op \in Starts
  <2> SUFFICES ASSUME pc' = "boot", Started'
               PROVE  plan[step'].op \in Starts
    OBVIOUS
  <2>1. op \in Starts
    <3>1. CASE NoStart
      <4>1. Started
        BY <3>1 DEF Started, NoStart
      <4> QED
        BY <1>2, <1>3, <4>1
    <3>2. CASE op \in Starts
      BY <3>2
    <3> QED
      BY <1>1, <3>1, <3>2
  <2>2. step' \in 1..Len(plan) /\ step <= step'
    BY <1>2, <1>3, <1>6
  <2> QED
    BY <1>2, <1>3, <2>1, <2>2 DEF InOrderToStart
<1> QED
  BY <1>2, <1>4, <1>5, <1>6, <1>7, BuiltPcs DEF IInv

LEMMA Inductive == IInv /\ [Next]_vars => IInv'
<1> SUFFICES ASSUME IInv, [Next]_vars
             PROVE  IInv'
  OBVIOUS
<1>1. CASE ReadDescription /\ UNCHANGED <<objectVars, plan, step, iter, kernel>>
  BY <1>1, ReadIInv
<1>2. CASE (LayOut \/ MapRegions \/ CollectObjects \/ AllocateObjects) /\ UNCHANGED <<plan, step, iter, kernel>>
  BY <1>2, LayOutIInv, MapRegionsIInv, CollectIInv, AllocateIInv
<1>3. CASE (MakePlan \/ Size \/ Link) /\ UNCHANGED <<step, iter, kernel>>
  BY <1>3, MakePlanIInv, SizeIInv, LinkIInv
<1>4. CASE SysInitStep
  BY <1>4, StepIInv
<1>5. CASE UNCHANGED vars
  <2>1. UNCHANGED <<description, pc, raised, plan, step, iter, kernel>> /\ UNCHANGED objectVars
    BY <1>5 DEF vars
  <2>2. regions' = regions /\ maps' = maps /\ objects' = objects
    BY <2>1 DEF objectVars
  <2>3. /\ Described' /\ KernelOk' /\ step' = step /\ (Started' <=> Started)
        /\ (MapsNamed => MapsNamed') /\ (RegionsOk => RegionsOk')
    BY <2>1, <2>2, BuildKept
  <2>4. (MapsOk => MapsOk') /\ (IsList(objects) => IsList(objects)')
    BY <2>2 DEF MapsOk, IsList, RegionOk
  <2>5. /\ InOrderToStart(plan) => InOrderToStart(plan)'
        /\ plan[step].op \in Starts => (plan[step].op \in Starts)'
        /\ step \in 1..Len(plan) => (step \in 1..Len(plan))'
    BY <2>1 DEF InOrderToStart, IsList, Starts
  <2> QED
    BY <2>1, <2>3, <2>4, <2>5, BuiltPcs DEF IInv
<1> QED
  BY <1>1, <1>2, <1>3, <1>4, <1>5 DEF Next

\* While a PD runs, the init task does nothing but start others.
LEMMA StartedSteady ==
  ASSUME IInv, [Next]_vars, Started
  PROVE  Steady
<1>1. CASE kernel' = kernel
  BY <1>1 DEF Steady
<1>2. CASE SysInitStep
  <2>1. PICK op : Turn(op) /\ ((NoStart /\ op \notin Starts) \/ (KernelOk' /\ Steady /\ op \in Starts))
    BY <1>2, TurnTaken DEF IInv
  <2>2. pc = "boot" /\ plan[step].op = op
    BY <2>1 DEF Turn
  <2>3. op \in Starts
    BY <2>2 DEF IInv
  <2> QED
    BY <2>1, <2>3
<1> QED
  BY <1>1, <1>2 DEF Next, vars

\* A PD that runs while the init task still resumes others finds every capability, address
\* space, interrupt and TCB as it will remain (the order of the invocations in build_system,
\* lines 1962 to 1990, and the loop of sysinit/src/main.c), for every description, every
\* memory layout and every number of PDs.
THEOREM SettledBeforeRunning == Spec => ConfiguredBeforeRunning
<1>1. Init => IInv
  BY InitIInv
<1>2. IInv /\ [Next]_vars => IInv'
  BY Inductive
<1>3. IInv /\ [Next]_vars => (Started => Steady)
  BY StartedSteady
<1>4. (Started => Steady)
      <=> (Started => /\ [kernel' EXCEPT !.tcb = <<>>] = [kernel EXCEPT !.tcb = <<>>]
                      /\ \A t \in DOMAIN kernel.tcb :
                           [kernel'.tcb[t] EXCEPT !.running = TRUE] = [kernel.tcb[t] EXCEPT !.running = TRUE])
  BY DEF Steady
<1> QED
  BY <1>1, <1>2, <1>3, <1>4, PTL DEF Spec, ConfiguredBeforeRunning

-----------------------------------------------------------------------------
(* The image *)

LEMMA Division ==
  ASSUME NEW n \in Nat, NEW s \in Nat \ {0}
  PROVE  /\ n = (n \div s) * s + (n % s)
         /\ n \div s \in Nat /\ n % s \in 0..s - 1
OBVIOUS

LEMMA RoundsTo ==
  ASSUME NEW n \in Nat, NEW s \in Nat \ {0}
  PROVE  /\ \E d \in Nat : RoundUp(n, s) = d * s /\ d * s \in Nat /\ n <= d * s /\ d * s <= n + s - 1
         /\ \E d \in Nat : RoundDown(n, s) = d * s /\ d * s \in Nat /\ d * s <= n
<1>1. \E d \in Nat : RoundUp(n, s) = d * s /\ d * s \in Nat /\ n <= d * s /\ d * s <= n + s - 1
  <2> DEFINE m == n + s - 1
             d == m \div s
  <2>1. m \in Nat
    OBVIOUS
  <2>2. RoundUp(n, s) = d * s
    BY DEF RoundUp
  <2>3. n <= m - (s - 1)
    OBVIOUS
  <2> HIDE DEF m
  <2>4. m = d * s + (m % s) /\ d \in Nat /\ m % s \in 0..s - 1
    BY <2>1, Division
  <2> HIDE DEF d
  <2>5. d * s \in Nat
    BY <2>4
  <2>6. d * s <= m /\ m - (s - 1) <= d * s
    BY <2>1, <2>4, <2>5
  <2>7. n <= d * s /\ d * s <= n + s - 1
    BY <2>3, <2>5, <2>6 DEF m
  <2> QED
    BY <2>2, <2>4, <2>5, <2>7
<1>2. \E d \in Nat : RoundDown(n, s) = d * s /\ d * s \in Nat /\ d * s <= n
  <2> DEFINE d == n \div s
  <2>1. RoundDown(n, s) = d * s
    BY DEF RoundDown
  <2>2. n = d * s + (n % s) /\ d \in Nat /\ n % s \in 0..s - 1
    BY Division
  <2> HIDE DEF d
  <2>3. d * s \in Nat
    BY <2>2
  <2> QED
    BY <2>1, <2>2, <2>3
<1> QED
  BY <1>1, <1>2

LEMMA DivExact ==
  ASSUME NEW q \in Nat, NEW s \in Nat \ {0}
  PROVE  (q * s) \div s = q
<1> DEFINE n == q * s
           d == n \div s
<1>1. n \in Nat
  OBVIOUS
<1> HIDE DEF n
<1>2. n = d * s + (n % s) /\ d \in Nat /\ n % s \in 0..s - 1
  BY <1>1, Division
<1> HIDE DEF d
<1>3. d * s \in Nat /\ d * s <= n /\ n < d * s + s
  BY <1>1, <1>2
<1>4. (d + 1) * s = d * s + s /\ (q + 1) * s = q * s + s /\ q * s = n
  BY <1>2 DEF n
<1>5. q * s < (d + 1) * s /\ d * s < (q + 1) * s
  BY <1>1, <1>3, <1>4
<1>6. \A a, b \in Nat : a * s < b * s => a < b
  OBVIOUS
<1>7. q < d + 1 /\ d < q + 1
  BY <1>2, <1>5, <1>6
<1>8. q = d
  BY <1>2, <1>7
<1> QED
  BY <1>8 DEF d, n

\* The table takes no more than its pages.
LEMMA TableInPages ==
  ASSUME NEW words \in Nat, NEW pages \in Nat, words <= pages * WordsPerPage
  PROVE  RoundUp(words * Page, WordsPerPage) \div WordsPerPage <= pages * Page
<1> DEFINE n == words * Page
           top == pages * Page
<1>1. Page \in Nat \ {0} /\ WordsPerPage \in Nat \ {0}
  BY PagesConstants, WordsAssumption
<1>2. n \in Nat /\ top \in Nat /\ n <= top * WordsPerPage
  <2>1. words * Page <= (pages * WordsPerPage) * Page
    BY <1>1
  <2>2. (pages * WordsPerPage) * Page = (pages * Page) * WordsPerPage
    BY <1>1
  <2>3. words * Page \in Nat /\ pages * Page \in Nat
    BY <1>1
  <2> QED
    BY <2>1, <2>2, <2>3
<1> HIDE DEF n, top
<1>3. PICK d \in Nat : /\ RoundUp(n, WordsPerPage) = d * WordsPerPage /\ d * WordsPerPage \in Nat
                       /\ d * WordsPerPage <= n + WordsPerPage - 1
  BY <1>1, <1>2, RoundsTo
<1>4. RoundUp(n, WordsPerPage) \div WordsPerPage = d
  BY <1>1, <1>3, DivExact
<1>5. (top + 1) * WordsPerPage = top * WordsPerPage + WordsPerPage /\ top * WordsPerPage \in Nat
  BY <1>1, <1>2
<1>6. d * WordsPerPage < (top + 1) * WordsPerPage
  BY <1>1, <1>2, <1>3, <1>5
<1>7. \A a, b \in Nat : a * WordsPerPage < b * WordsPerPage => a < b
  BY <1>1
<1>8. d < top + 1
  BY <1>2, <1>3, <1>6, <1>7
<1>9. d <= top
  BY <1>2, <1>3, <1>8
<1> QED
  BY <1>4, <1>9 DEF n, top

\* The region of a segment is a number of pages and covers the segment's addresses.
LEMMA SegmentCovered ==
  ASSUME Described, NEW p \in DOMAIN pds, NEW n \in DOMAIN Segments(p)
  PROVE  LET seg == Segments(p)[n]
         IN  /\ SegmentSize(seg) \in Nat /\ seg.size \in Nat /\ seg.size <= SegmentSize(seg)
             /\ (SegmentSize(seg) \div Page) * Page = SegmentSize(seg)
             /\ SegmentBase(seg) <= seg.vaddr /\ seg.vaddr + seg.size <= SegmentBase(seg) + SegmentSize(seg)
<1> DEFINE seg == Segments(p)[n]
<1>1. seg \in [vaddr : Nat, size : Nat, perms : SUBSET {"r", "w", "x"}]
  BY SegmentOf
<1>2. seg.vaddr \in Nat /\ seg.size \in Nat /\ seg.vaddr + seg.size \in Nat /\ Page \in Nat \ {0}
  BY <1>1, PagesConstants
<1> HIDE DEF seg
<1>3. PICK a \in Nat : RoundUp(seg.vaddr + seg.size, Page) = a * Page /\ a * Page \in Nat /\ seg.vaddr + seg.size <= a * Page
  BY <1>2, RoundsTo
<1>4. PICK b \in Nat : RoundDown(seg.vaddr, Page) = b * Page /\ b * Page \in Nat /\ b * Page <= seg.vaddr
  BY <1>2, RoundsTo
<1>5. SegmentBase(seg) = b * Page /\ SegmentSize(seg) = a * Page - b * Page
  BY <1>3, <1>4 DEF SegmentSize, SegmentBase
<1>6. b * Page <= a * Page
  BY <1>2, <1>3, <1>4
<1>7. b <= a
  BY <1>2, <1>6
<1>8. a - b \in Nat /\ (a - b) * Page = a * Page - b * Page
  BY <1>2, <1>7
<1>9. ((a - b) * Page) \div Page = a - b
  BY <1>2, <1>8, DivExact
<1> QED
  BY <1>2, <1>3, <1>4, <1>5, <1>6, <1>8, <1>9 DEF seg

LEMMA Beginning ==
  ASSUME NEW S, NEW s \in Seq(S), NEW k \in 0..Len(s)
  PROVE  SubSeq(s, 1, k) = [i \in 1..k |-> s[i]]
<1> DEFINE b == SubSeq(s, 1, k)
<1>1. 1 \in 1..Len(s) + 1 /\ k \in 1 - 1..Len(s) /\ k - 1 + 1 = k
  OBVIOUS
<1>2. b \in Seq(S) /\ Len(b) = k /\ \A i \in 1..k : b[i] = s[1 + i - 1]
  BY <1>1, SubSeqProperties
<1>3. \A i \in 1..k : 1 + i - 1 = i
  OBVIOUS
<1> HIDE DEF b
<1>4. b = [i \in 1..k |-> b[i]]
  BY <1>2, SeqIsList DEF IsList
<1> QED
  BY <1>2, <1>3, <1>4 DEF b

\* What the segments of a PD take, the first n of them and all.
LEMMA OwnStages ==
  ASSUME Described, NEW p \in DOMAIN pds
  PROVE  \E u : /\ \A n \in 0..Len(Segments(p)) : u[n] \in Nat
                /\ \A i, j \in 0..Len(Segments(p)) : i <= j => u[i] <= u[j]
                /\ \A n \in DOMAIN Segments(p) :
                     /\ Sum(SubSeq(Segments(p), 1, n - 1), SegmentSize) = u[n - 1]
                     /\ u[n] = u[n - 1] + SegmentSize(Segments(p)[n])
                /\ Sum(Segments(p), SegmentSize) = u[Len(Segments(p))]
<1> DEFINE s == Segments(p)
           m == Len(s)
           v == [n \in 1..m |-> SegmentSize(s[n])]
<1>1. /\ s \in Seq([vaddr : Nat, size : Nat, perms : SUBSET {"r", "w", "x"}])
      /\ m \in Nat /\ DOMAIN s = 1..m
  BY SegmentsOf
<1>2. \A n \in 1..m : v[n] \in Nat /\ v[n] = SegmentSize(s[n])
  BY <1>1, SegmentCovered
<1> HIDE DEF v
<1>3. PICK u : /\ \A n \in 0..m : u[n] \in Nat
               /\ \A k \in 0..m : Total([n \in 1..k |-> v[n]]) = u[k]
               /\ \A i, j \in 0..m : i <= j => u[i] <= u[j]
               /\ \A n \in 1..m : u[n] = u[n - 1] + v[n]
  <2> HIDE DEF m, s
  <2> QED
    BY <1>1, <1>2, TotalStages
<1>4. ASSUME NEW n \in 1..m
      PROVE  Sum(SubSeq(s, 1, n - 1), SegmentSize) = u[n - 1]
  <2> DEFINE b == SubSeq(s, 1, n - 1)
  <2>1. n - 1 \in 0..m
    BY <1>1
  <2>2. b = [i \in 1..n - 1 |-> s[i]]
    <3> HIDE DEF s, m
    <3> QED
      BY <1>1, <2>1, Beginning DEF m
  <2>3. \A i \in 1..n - 1 : i \in 1..m
    BY <1>1
  <2>4. DOMAIN b = 1..n - 1 /\ \A i \in 1..n - 1 : b[i] = s[i]
    BY <2>2
  <2> HIDE DEF b, s, m
  <2>5. Each(b, SegmentSize) = [i \in 1..n - 1 |-> v[i]]
    BY <1>2, <2>3, <2>4 DEF Each
  <2>6. Sum(b, SegmentSize) = u[n - 1]
    BY <1>3, <2>1, <2>5 DEF Sum
  <2> QED
    BY <2>6 DEF b
<1>5. Sum(s, SegmentSize) = u[m]
  <2> HIDE DEF s, m
  <2>1. Each(s, SegmentSize) = [i \in 1..m |-> v[i]]
    BY <1>1, <1>2 DEF Each
  <2>2. m \in 0..m
    BY <1>1
  <2> QED
    BY <1>3, <2>1, <2>2 DEF Sum
<1>6. \A n \in DOMAIN s : /\ Sum(SubSeq(s, 1, n - 1), SegmentSize) = u[n - 1]
                          /\ u[n] = u[n - 1] + SegmentSize(s[n])
  <2> HIDE DEF s, m
  <2> QED
    BY <1>1, <1>2, <1>3, <1>4
<1> QED
  BY <1>3, <1>5, <1>6

OwnSize(p) == Sum(Segments(p), SegmentSize)

LEMMA PdElfSizeIs ==
  ASSUME NEW p
  PROVE  PdElfSize(p) = OwnSize(p)
BY DEF PdElfSize, OwnSize, Sum, Each, SegmentSize, SegmentBase

\* The same for the PDs.
LEMMA AllStages ==
  ASSUME Described
  PROVE  \E u : /\ \A n \in 0..Len(pds) : u[n] \in Nat
                /\ \A i, j \in 0..Len(pds) : i <= j => u[i] <= u[j]
                /\ \A p \in DOMAIN pds :
                     /\ Sum(SubSeq(All, 1, p - 1), LAMBDA q : Sum(Segments(q), SegmentSize)) = u[p - 1]
                     /\ u[p] = u[p - 1] + OwnSize(p)
                /\ Sum(All, PdElfSize) = u[Len(pds)]
<1> DEFINE m == Len(pds)
           v == [p \in 1..m |-> OwnSize(p)]
<1>1. m \in Nat /\ DOMAIN pds = 1..m /\ All = [p \in 1..m |-> p]
  BY AllIs
<1>2. \A p \in 1..m : v[p] \in Nat /\ v[p] = OwnSize(p)
  <2> TAKE p \in 1..m
  <2>1. PICK u : /\ \A n \in 0..Len(Segments(p)) : u[n] \in Nat
                 /\ Sum(Segments(p), SegmentSize) = u[Len(Segments(p))]
    BY <1>1, OwnStages
  <2>2. Len(Segments(p)) \in 0..Len(Segments(p))
    BY <1>1, SegmentsOf
  <2> QED
    BY <2>1, <2>2 DEF OwnSize
<1> HIDE DEF v, m
<1>3. PICK u : /\ \A n \in 0..m : u[n] \in Nat
               /\ \A k \in 0..m : Total([n \in 1..k |-> v[n]]) = u[k]
               /\ \A i, j \in 0..m : i <= j => u[i] <= u[j]
               /\ \A n \in 1..m : u[n] = u[n - 1] + v[n]
  BY <1>1, <1>2, TotalStages
<1>4. ASSUME NEW p \in 1..m
      PROVE  Sum(SubSeq(All, 1, p - 1), LAMBDA q : Sum(Segments(q), SegmentSize)) = u[p - 1]
  <2> DEFINE b == SubSeq(All, 1, p - 1)
  <2>1. p - 1 \in 0..m /\ All \in Seq(Nat) /\ Len(All) = m
    BY <1>1
  <2>2. b = [i \in 1..p - 1 |-> All[i]]
    BY <2>1, Beginning
  <2>3. \A i \in 1..p - 1 : i \in 1..m
    BY <1>1
  <2>4. DOMAIN b = 1..p - 1 /\ \A i \in 1..p - 1 : b[i] = i
    BY <1>1, <2>2, <2>3
  <2> HIDE DEF b
  <2>5. Each(b, LAMBDA q : Sum(Segments(q), SegmentSize)) = [i \in 1..p - 1 |-> v[i]]
    <3>1. Each(b, LAMBDA q : Sum(Segments(q), SegmentSize)) = [i \in 1..p - 1 |-> OwnSize(i)]
      BY <2>4 DEF Each, OwnSize
    <3> QED
      BY <1>2, <2>3, <3>1
  <2>6. Sum(b, LAMBDA q : Sum(Segments(q), SegmentSize)) = Total(Each(b, LAMBDA q : Sum(Segments(q), SegmentSize)))
    BY DEF Sum
  <2>7. Sum(b, LAMBDA q : Sum(Segments(q), SegmentSize)) = u[p - 1]
    BY <1>3, <2>1, <2>5, <2>6
  <2> QED
    BY <2>7 DEF b
<1>5. Sum(All, PdElfSize) = u[m]
  <2>1. Each(All, PdElfSize) = [i \in 1..m |-> v[i]]
    <3>1. Each(All, PdElfSize) = [i \in 1..m |-> PdElfSize(i)]
      BY <1>1 DEF Each
    <3> QED
      BY <1>2, <3>1, PdElfSizeIs
  <2>2. m \in 0..m
    BY <1>1
  <2> QED
    BY <1>3, <2>1, <2>2 DEF Sum
<1>6. \A p \in DOMAIN pds : u[p] = u[p - 1] + OwnSize(p)
  BY <1>1, <1>2, <1>3
<1> QED
  BY <1>1, <1>3, <1>4, <1>5, <1>6 DEF m

\* The segments are placed between the invocation table and the end of the reserved region, one
\* after the other.
LEMMA PhysPlaces ==
  ASSUME Described, tablePages \in Nat
  PROVE  /\ TableEnd \in Nat /\ ReservedEnd \in Nat /\ TableEnd <= ReservedEnd
         /\ \A p \in DOMAIN pds : \A n \in DOMAIN Segments(p) :
              /\ PhysNext(p, n) \in Nat /\ TableEnd <= PhysNext(p, n)
              /\ PhysNext(p, n) + SegmentSize(Segments(p)[n]) <= ReservedEnd
         /\ \A p, q \in DOMAIN pds : \A n \in DOMAIN Segments(p) : \A m \in DOMAIN Segments(q) :
              p < q \/ (p = q /\ n < m) =>
                PhysNext(p, n) + SegmentSize(Segments(p)[n]) <= PhysNext(q, m)
<1> DEFINE k == Len(pds)
<1>1. k \in Nat /\ DOMAIN pds = 1..k
  BY AllIs
<1>2. PICK all : /\ \A n \in 0..k : all[n] \in Nat
                 /\ \A i, j \in 0..k : i <= j => all[i] <= all[j]
                 /\ \A p \in DOMAIN pds :
                      /\ Sum(SubSeq(All, 1, p - 1), LAMBDA q : Sum(Segments(q), SegmentSize)) = all[p - 1]
                      /\ all[p] = all[p - 1] + OwnSize(p)
                 /\ Sum(All, PdElfSize) = all[k]
  BY AllStages
<1> HIDE DEF k
<1>3. TableEnd \in Nat /\ ReservedEnd = TableEnd + all[k]
  <2>1. ReservedBase \in Nat /\ tablePages * Page \in Nat
    BY PagesConstants, LayoutAssumption
  <2>2. all[k] \in Nat
    BY <1>1, <1>2
  <2> DEFINE t == tablePages * Page
  <2> HIDE DEF t
  <2>3. TableEnd = ReservedBase + t /\ ReservedEnd = ReservedBase + (t + all[k]) /\ t \in Nat
    BY <1>2, <2>1 DEF TableEnd, ReservedEnd, ReservedSize, t
  <2> QED
    BY <2>1, <2>2, <2>3
<1>4. all[k] \in Nat
  BY <1>1, <1>2
<1>5. ASSUME NEW p \in DOMAIN pds, NEW n \in DOMAIN Segments(p)
      PROVE  /\ p - 1 \in 0..k /\ p \in 0..k /\ all[p - 1] \in Nat /\ all[p] \in Nat
             /\ PhysNext(p, n) \in Nat
             /\ TableEnd + all[p - 1] <= PhysNext(p, n)
             /\ PhysNext(p, n) + SegmentSize(Segments(p)[n]) <= TableEnd + all[p]
             /\ \A m \in DOMAIN Segments(p) :
                  n < m => PhysNext(p, n) + SegmentSize(Segments(p)[n]) <= PhysNext(p, m)
  <2> DEFINE l == Len(Segments(p))
  <2>1. p - 1 \in 0..k /\ p \in 0..k
    BY <1>1
  <2>2. all[p - 1] \in Nat /\ all[p] \in Nat
    BY <1>2, <2>1
  <2>3. l \in Nat /\ DOMAIN Segments(p) = 1..l
    BY SegmentsOf
  <2>4. PICK u : /\ \A i \in 0..l : u[i] \in Nat
                 /\ \A i, j \in 0..l : i <= j => u[i] <= u[j]
                 /\ \A i \in DOMAIN Segments(p) :
                      /\ Sum(SubSeq(Segments(p), 1, i - 1), SegmentSize) = u[i - 1]
                      /\ u[i] = u[i - 1] + SegmentSize(Segments(p)[i])
                 /\ Sum(Segments(p), SegmentSize) = u[l]
    BY OwnStages
  <2> HIDE DEF l
  <2>5. all[p] = all[p - 1] + u[l] /\ u[l] \in Nat
    <3>1. l \in 0..l
      BY <2>3
    <3>2. OwnSize(p) = u[l] /\ u[l] \in Nat
      BY <2>4, <3>1 DEF OwnSize
    <3>3. all[p] = all[p - 1] + OwnSize(p)
      BY <1>2
    <3> QED
      BY <3>2, <3>3
  <2>6. ASSUME NEW i \in DOMAIN Segments(p)
        PROVE  /\ PhysNext(p, i) = (TableEnd + all[p - 1]) + u[i - 1]
               /\ u[i - 1] \in Nat /\ u[i] \in Nat /\ u[i] <= u[l]
               /\ u[i] = u[i - 1] + SegmentSize(Segments(p)[i]) /\ SegmentSize(Segments(p)[i]) \in Nat
    <3>1. i - 1 \in 0..l /\ i \in 0..l /\ i <= l /\ l \in 0..l
      BY <2>3
    <3>2. PhysNext(p, i) = (TableEnd + all[p - 1]) + u[i - 1]
      BY <1>2, <2>4 DEF PhysNext
    <3>3. SegmentSize(Segments(p)[i]) \in Nat
      BY SegmentCovered
    <3> QED
      BY <2>4, <3>1, <3>2, <3>3
  <2>7. /\ PhysNext(p, n) \in Nat /\ TableEnd + all[p - 1] <= PhysNext(p, n)
        /\ PhysNext(p, n) + SegmentSize(Segments(p)[n]) <= TableEnd + all[p]
    BY <1>3, <2>2, <2>5, <2>6
  <2>8. ASSUME NEW m \in DOMAIN Segments(p), n < m
        PROVE  PhysNext(p, n) + SegmentSize(Segments(p)[n]) <= PhysNext(p, m)
    <3>1. n \in 0..l /\ m - 1 \in 0..l /\ n <= m - 1
      BY <2>3, <2>8
    <3>2. u[n] <= u[m - 1]
      BY <2>4, <3>1
    <3>3. /\ PhysNext(p, n) = (TableEnd + all[p - 1]) + u[n - 1] /\ u[n - 1] \in Nat
          /\ u[n] = u[n - 1] + SegmentSize(Segments(p)[n]) /\ SegmentSize(Segments(p)[n]) \in Nat
          /\ PhysNext(p, m) = (TableEnd + all[p - 1]) + u[m - 1] /\ u[m - 1] \in Nat
      BY <2>6
    <3> QED
      BY <1>3, <2>2, <3>2, <3>3
  <2> QED
    BY <2>1, <2>2, <2>7, <2>8
<1>6. ASSUME NEW p \in DOMAIN pds, NEW n \in DOMAIN Segments(p)
      PROVE  /\ PhysNext(p, n) \in Nat /\ TableEnd <= PhysNext(p, n)
             /\ PhysNext(p, n) + SegmentSize(Segments(p)[n]) <= ReservedEnd
  <2>1. p <= k /\ k \in 0..k
    BY <1>1
  <2>2. all[p] <= all[k]
    BY <1>2, <1>5, <2>1
  <2>3. SegmentSize(Segments(p)[n]) \in Nat
    BY SegmentCovered
  <2> QED
    BY <1>3, <1>4, <1>5, <2>2, <2>3
<1>7. ASSUME NEW p \in DOMAIN pds, NEW q \in DOMAIN pds,
             NEW n \in DOMAIN Segments(p), NEW m \in DOMAIN Segments(q), p < q
      PROVE  PhysNext(p, n) + SegmentSize(Segments(p)[n]) <= PhysNext(q, m)
  <2>1. p <= q - 1
    BY <1>1, <1>7
  <2>2. all[p] <= all[q - 1]
    BY <1>2, <1>5, <2>1
  <2>3. SegmentSize(Segments(p)[n]) \in Nat
    BY SegmentCovered
  <2>4. /\ PhysNext(p, n) + SegmentSize(Segments(p)[n]) <= TableEnd + all[p] /\ all[p] \in Nat
        /\ PhysNext(p, n) \in Nat
    BY <1>5
  <2>5. TableEnd + all[q - 1] <= PhysNext(q, m) /\ all[q - 1] \in Nat /\ PhysNext(q, m) \in Nat
    BY <1>5
  <2> QED
    BY <1>3, <2>2, <2>3, <2>4, <2>5
<1> QED
  BY <1>3, <1>4, <1>5, <1>6, <1>7

\* No segment has two regions.
LEMMA ElfMrsOnce ==
  ASSUME Described
  PROVE  Once(ElfMrs, ToSet(ElfMrs))
<1> DEFINE q == Each(All, LAMBDA p : [n \in DOMAIN Segments(p) |->
                  Mr(<<"elf", p, n>>, SegmentSize(Segments(p)[n]), PhysNext(p, n))])
           own(p) == [n \in DOMAIN Segments(p) |-> ElfMr(p, n)]
           m == Len(pds)
           X == ToSet(ElfMrs)
<1>1. m \in Nat /\ DOMAIN pds = 1..m
  BY AllIs
<1>2. q = [p \in 1..m |-> q[p]] /\ \A p \in 1..m : q[p] = own(p)
  BY AllIs DEF Each, ElfMr
<1>3. ElfMrs = FlattenSeq(q)
  BY DEF ElfMrs, Flat
<1>4. \A p, n : ElfMr(p, n).name = <<"elf", p, n>>
  BY DEF ElfMr, Mr
<1>5. \A p, n, o, j : ElfMr(p, n) = ElfMr(o, j) => p = o /\ n = j
  <2> TAKE p, n, o, j
  <2> HAVE ElfMr(p, n) = ElfMr(o, j)
  <2>1. <<"elf", p, n>> = <<"elf", o, j>>
    BY <1>4
  <2> QED
    BY <2>1
<1>6. ASSUME NEW p \in 1..m
      PROVE  /\ IsList(own(p)) /\ ToSet(own(p)) = {ElfMr(p, n) : n \in DOMAIN Segments(p)}
             /\ Once(own(p), X)
  <2> DEFINE s == own(p)
  <2>1. IsList(s) /\ DOMAIN s = DOMAIN Segments(p) /\ ToSet(s) = {ElfMr(p, n) : n \in DOMAIN Segments(p)}
    BY <1>1, OwnElfRegions
  <2>2. DOMAIN s = 1..Len(s)
    <3> HIDE DEF s
    <3> QED
      BY <2>1, ListDomain
  <2>3. \A n \in DOMAIN Segments(p) : s[n] = ElfMr(p, n)
    OBVIOUS
  <2> HIDE DEF s, X
  <2>4. Once(s, X)
    BY <1>5, <2>1, <2>2, <2>3 DEF Once
  <2> QED
    BY <2>1, <2>4 DEF s
<1> HIDE DEF q, own, m, X
<1>7. IsList(q) /\ Len(q) = m
  BY <1>1, <1>2, FunctionIsList
<1>8. \A p \in 1..Len(q) : IsList(q[p]) /\ Once(q[p], X)
  BY <1>2, <1>6, <1>7
<1>9. \A p, o \in 1..Len(q) : p # o => \A x \in ToSet(q[p]) : x \in X => x \notin ToSet(q[o])
  <2> SUFFICES ASSUME NEW p \in 1..m, NEW o \in 1..m, p # o, NEW x \in ToSet(q[p]), x \in ToSet(q[o])
               PROVE  FALSE
    BY <1>7
  <2>1. PICK n \in DOMAIN Segments(p) : x = ElfMr(p, n)
    BY <1>2, <1>6
  <2>2. PICK j \in DOMAIN Segments(o) : x = ElfMr(o, j)
    BY <1>2, <1>6
  <2> QED
    BY <1>5, <2>1, <2>2
<1>10. Once(FlattenSeq(q), X)
  BY <1>7, <1>8, <1>9, FlatOnce
<1> QED
  BY <1>3, <1>10 DEF X

\* What the loader takes for the segments' regions are those, each once.
LEMMA ElfRegionsAre ==
  ASSUME Described, regions = AllMrs
  PROVE  /\ IsList(ElfRegions)
         /\ \A mr \in ToSet(ElfRegions) : \E p \in DOMAIN pds : \E n \in DOMAIN Segments(p) : mr = ElfMr(p, n)
         /\ Once(ElfRegions, ToSet(ElfRegions))
<1> DEFINE areas == Flat(All, LAMBDA p : Each(Areas(p), LAMBDA a : a.mr))
           X == ToSet(ElfMrs)
           all == (mrs \o ElfMrs) \o areas
<1>1. IsList(mrs) /\ \A mr \in ToSet(mrs) : mr.name[1] = "mr"
  <2>1. mrs \in Seq(MrType)
    BY DEF Described
  <2>2. \A mr \in MrType : mr.name[1] = "mr"
    BY DEF MrType, RegionNames
  <2> QED
    BY <2>1, <2>2, SeqElements
<1>2. /\ IsList(ElfMrs) /\ Once(ElfMrs, X)
      /\ X = UNION {{ElfMr(p, n) : n \in DOMAIN Segments(p)} : p \in DOMAIN pds}
  BY ElfRegionsList, ElfMrsOnce
<1>3. \A x \in X : x.name[1] = "elf"
  <2>1. \A p, n : ElfMr(p, n).name = <<"elf", p, n>>
    BY DEF ElfMr, Mr
  <2> HIDE DEF X
  <2> QED
    BY <1>2, <2>1
<1>4. IsList(areas) /\ \A mr \in ToSet(areas) : mr.name[1] # "elf"
  BY AreaRegions
<1>5. regions = all
  BY DEF AllMrs
<1> HIDE DEF areas, X
<1>6. Once(mrs, X) /\ Once(areas, X)
  <2>1. (\A i \in 1..Len(mrs) : mrs[i] \in ToSet(mrs)) /\ (\A i \in 1..Len(areas) : areas[i] \in ToSet(areas))
    BY <1>1, <1>4, ListDomain DEF ToSet
  <2>2. (\A i \in 1..Len(mrs) : mrs[i] \notin X) /\ (\A i \in 1..Len(areas) : areas[i] \notin X)
    <3>1. "mr" # "elf"
      OBVIOUS
    <3> QED
      BY <1>1, <1>3, <1>4, <2>1, <3>1
  <2> QED
    BY <2>2 DEF Once
<1>7. /\ IsList(all) /\ Once(all, X)
      /\ ToSet(all) = (ToSet(mrs) \cup ToSet(ElfMrs)) \cup ToSet(areas)
  <2> DEFINE both == mrs \o ElfMrs
  <2>1. \A x \in ToSet(mrs) : x \in X => x \notin ToSet(ElfMrs)
    BY <1>1, <1>3
  <2>2. IsList(both) /\ ToSet(both) = ToSet(mrs) \cup ToSet(ElfMrs) /\ Once(both, X)
    BY <1>1, <1>2, <1>6, <2>1, ConcatLists, ConcatOnce
  <2> HIDE DEF both
  <2>3. \A x \in ToSet(both) : x \in X => x \notin ToSet(areas)
    BY <1>3, <1>4
  <2>4. IsList(both \o areas) /\ ToSet(both \o areas) = ToSet(both) \cup ToSet(areas) /\ Once(both \o areas, X)
    BY <1>4, <1>6, <2>2, <2>3, ConcatLists, ConcatOnce
  <2> QED
    BY <2>2, <2>4 DEF both
<1> HIDE DEF all
<1>8. IsList(regions) /\ Once(regions, X) /\ \A mr \in ToSet(regions) : mr.name[1] = "elf" => mr \in X
  BY <1>1, <1>4, <1>5, <1>7 DEF X
<1> DEFINE q == Each(regions, LAMBDA e : IF e.name[1] = "elf" THEN <<e>> ELSE <<>>)
           m == Len(regions)
<1>9. m \in Nat /\ DOMAIN regions = 1..m /\ \A i \in 1..m : regions[i] \in ToSet(regions)
  BY <1>8, ListDomain DEF IsList, ToSet
<1>10. /\ q = [i \in 1..m |-> q[i]]
       /\ \A i \in 1..m : q[i] = IF regions[i].name[1] = "elf" THEN <<regions[i]>> ELSE <<>>
  BY <1>9 DEF Each
<1>11. ElfRegions = FlattenSeq(q)
  BY DEF ElfRegions, Where, Flat
<1> HIDE DEF q, m
<1>12. IsList(q) /\ Len(q) = m
  BY <1>9, <1>10, FunctionIsList
<1>13. ASSUME NEW i \in 1..m
       PROVE  /\ IsList(q[i]) /\ Once(q[i], X)
              /\ \A x \in ToSet(q[i]) : x = regions[i] /\ x \in X
  <2>1. CASE regions[i].name[1] = "elf"
    <3>1. q[i] = <<regions[i]>> /\ regions[i] \in X
      BY <1>8, <1>9, <1>10, <2>1
    <3>2. IsList(q[i]) /\ Len(q[i]) = 1 /\ ToSet(q[i]) = {regions[i]}
      BY <3>1, OneElement
    <3>3. Once(q[i], X)
      BY <3>2 DEF Once
    <3> QED
      BY <3>1, <3>2, <3>3
  <2>2. CASE ~(regions[i].name[1] = "elf")
    <3>1. q[i] = <<>>
      BY <1>10, <2>2
    <3>2. IsList(q[i]) /\ Len(q[i]) = 0 /\ ToSet(q[i]) = {}
      BY <3>1, NoElement
    <3>3. Once(q[i], X)
      BY <3>2 DEF Once
    <3> QED
      BY <3>2, <3>3
  <2> QED
    BY <2>1, <2>2
<1>14. \A i, j \in 1..m : i # j => \A x \in ToSet(q[i]) : x \in X => x \notin ToSet(q[j])
  <2> SUFFICES ASSUME NEW i \in 1..m, NEW j \in 1..m, i # j, NEW x \in ToSet(q[i]), x \in ToSet(q[j])
               PROVE  FALSE
    OBVIOUS
  <2>1. x = regions[i] /\ x = regions[j] /\ x \in X
    BY <1>13
  <2>2. \A a, b \in 1..m : regions[a] \in X /\ regions[a] = regions[b] => a = b
    BY <1>8 DEF Once, m
  <2> QED
    BY <2>1, <2>2
<1>15. IsList(ElfRegions) /\ ToSet(ElfRegions) = UNION {ToSet(q[i]) : i \in 1..m}
  BY <1>11, <1>12, <1>13, FlatLists
<1>16. Once(ElfRegions, X)
  BY <1>11, <1>12, <1>13, <1>14, FlatOnce
<1>17. \A x \in ToSet(ElfRegions) : x \in X
  BY <1>13, <1>15
<1>18. Once(ElfRegions, ToSet(ElfRegions))
  BY <1>16, <1>17 DEF Once
<1> QED
  BY <1>2, <1>15, <1>17, <1>18

\* At the end of the build the memory is as the tool planned it.
ImageInv ==
  /\ tablePages \in Nat
  /\ pc \in Built \cup {"size", "link"} => regions = AllMrs
  /\ pc = "link" => TableWords <= tablePages * WordsPerPage

\* The words of an invocation are some number, whichever invocation it is.
LEMMA WordsAre ==
  ASSUME NEW inv, inv.op \in QuietOps \cup Starts
  PROVE  Words(inv) \in Nat
<1>1. Fields(inv.op) \in Nat
  <2>1. CASE inv.op \in Starts
    BY <2>1 DEF Starts, Fields
  <2>2. CASE inv.op \in QuietOps
    BY <2>2 DEF QuietOps, Fields
  <2> QED
    BY <2>1, <2>2
<1> QED
  BY <1>1 DEF Words

LEMMA TableWordsAre ==
  ASSUME InOrderToStart(plan)
  PROVE  TableWords \in Nat
<1> DEFINE m == Len(plan)
           v == [n \in 1..m |-> Words(plan[n])]
<1>1. m \in Nat /\ DOMAIN plan = 1..m
  BY ListDomain DEF InOrderToStart, IsList
<1>2. \A n \in 1..m : Words(plan[n]) \in Nat
  BY WordsAre DEF InOrderToStart
<1>3. TableWords = Total(v)
  BY <1>1 DEF TableWords, Sum, Each
<1>4. v = [n \in 1..m |-> v[n]] /\ \A n \in 1..m : v[n] \in Nat
  BY <1>2
<1> HIDE DEF v, m
<1>5. PICK u : /\ \A n \in 0..m : u[n] \in Nat
               /\ \A k \in 0..m : Total([n \in 1..k |-> v[n]]) = u[k]
               /\ \A i, j \in 0..m : i <= j => u[i] <= u[j]
               /\ \A n \in 1..m : u[n] = u[n - 1] + v[n]
  BY <1>1, <1>4, TotalStages
<1>6. Total(v) = u[m] /\ u[m] \in Nat
  <2>1. m \in 0..m
    BY <1>1
  <2>2. Total([n \in 1..m |-> v[n]]) = u[m] /\ u[m] \in Nat
    BY <1>5, <2>1
  <2> QED
    BY <1>4, <2>2
<1> QED
  BY <1>3, <1>6

LEMMA ImageLaid ==
  ASSUME IInv, ImageInv
  PROVE  ImageFits
<1> SUFFICES ASSUME pc = "link"
             PROVE  /\ CheckNonOverlapping
                    /\ \A mr \in ToSet(ElfRegions) :
                         LET seg == Segments(mr.name[2])[mr.name[3]]
                         IN  /\ mr.phys >= TableEnd /\ mr.phys + mr.count * mr.page <= ReservedEnd
                             /\ SegmentBase(seg) <= seg.vaddr
                             /\ seg.vaddr + seg.size <= SegmentBase(seg) + mr.count * mr.page
  BY DEF ImageFits
<1>1. /\ Described /\ regions = AllMrs /\ tablePages \in Nat
      /\ TableWords \in Nat /\ TableWords <= tablePages * WordsPerPage
  <2>1. InOrderToStart(plan)
    BY BuiltPcs DEF IInv
  <2> QED
    BY <2>1, TableWordsAre DEF IInv, ImageInv
<1> DEFINE Loaded(mr) == [base |-> mr.phys, size |-> Segments(mr.name[2])[mr.name[3]].size]
           segs == Each(ElfRegions, LAMBDA mr : [base |-> mr.phys, size |-> Segments(mr.name[2])[mr.name[3]].size])
           first == << KernelRegion, [base |-> ReservedEnd, size |-> InitTaskSize],
                       [base |-> ReservedBase, size |-> TableBytes] >>
<1>2. /\ ReservedBase \in Nat /\ InitTaskSize \in Nat /\ KernelRegion \in [base : Nat, size : Nat]
      /\ KernelRegion.base + KernelRegion.size <= ReservedBase
  BY LayoutAssumption, KernelAssumption
<1>3. TableEnd \in Nat /\ ReservedEnd \in Nat /\ TableEnd <= ReservedEnd
  BY <1>1, PhysPlaces
<1>4. TableBytes \in Int /\ ReservedBase + TableBytes <= TableEnd /\ ReservedBase <= TableEnd
  <2>1. TableBytes <= tablePages * Page
    BY <1>1, TableInPages DEF TableBytes
  <2>2. tablePages * Page \in Nat
    BY <1>1, PagesConstants
  <2>3. TableBytes \in Int
    <3>1. TableWords * Page \in Int /\ WordsPerPage \in Nat \ {0}
      BY <1>1, PagesConstants, WordsAssumption
    <3>2. RoundUp(TableWords * Page, WordsPerPage) \in Int
      BY <3>1, Rounded
    <3> QED
      BY <3>1, <3>2, Rounded DEF TableBytes
  <2> QED
    BY <1>2, <2>1, <2>2, <2>3 DEF TableEnd
<1>5. ASSUME NEW p \in DOMAIN pds, NEW n \in DOMAIN Segments(p)
      PROVE  LET mr == ElfMr(p, n)
                 seg == Segments(p)[n]
             IN  /\ mr.name[2] = p /\ mr.name[3] = n /\ mr.phys = PhysNext(p, n)
                 /\ mr.count * mr.page = SegmentSize(seg)
                 /\ Loaded(mr) = [base |-> PhysNext(p, n), size |-> seg.size]
  <2>1. /\ ElfMr(p, n).name = <<"elf", p, n>> /\ ElfMr(p, n).phys = PhysNext(p, n)
        /\ ElfMr(p, n).count = SegmentSize(Segments(p)[n]) \div Page /\ ElfMr(p, n).page = Page
    BY DEF ElfMr, Mr
  <2>2. (SegmentSize(Segments(p)[n]) \div Page) * Page = SegmentSize(Segments(p)[n])
    BY <1>1, SegmentCovered
  <2> QED
    BY <2>1, <2>2
<1>6. ASSUME NEW mr \in ToSet(ElfRegions)
      PROVE  LET seg == Segments(mr.name[2])[mr.name[3]]
             IN  /\ mr.phys >= TableEnd /\ mr.phys + mr.count * mr.page <= ReservedEnd
                 /\ SegmentBase(seg) <= seg.vaddr
                 /\ seg.vaddr + seg.size <= SegmentBase(seg) + mr.count * mr.page
  <2>1. PICK p \in DOMAIN pds : \E n \in DOMAIN Segments(p) : mr = ElfMr(p, n)
    BY <1>1, ElfRegionsAre
  <2>2. PICK n \in DOMAIN Segments(p) : mr = ElfMr(p, n)
    BY <2>1
  <2>3. /\ PhysNext(p, n) \in Nat /\ TableEnd <= PhysNext(p, n)
        /\ PhysNext(p, n) + SegmentSize(Segments(p)[n]) <= ReservedEnd
    BY <1>1, PhysPlaces
  <2>4. /\ SegmentBase(Segments(p)[n]) <= Segments(p)[n].vaddr
        /\ Segments(p)[n].vaddr + Segments(p)[n].size <= SegmentBase(Segments(p)[n]) + SegmentSize(Segments(p)[n])
    BY <1>1, SegmentCovered
  <2>5. /\ mr.name[2] = p /\ mr.name[3] = n /\ mr.phys = PhysNext(p, n)
        /\ mr.count * mr.page = SegmentSize(Segments(p)[n])
    BY <1>5, <2>2
  <2> QED
    BY <1>3, <2>3, <2>4, <2>5
<1>7. ASSUME NEW mr \in ToSet(ElfRegions)
      PROVE  /\ Loaded(mr).base \in Nat /\ Loaded(mr).size \in Nat
             /\ TableEnd <= Loaded(mr).base /\ Loaded(mr).base + Loaded(mr).size <= ReservedEnd
  <2>1. PICK p \in DOMAIN pds : \E n \in DOMAIN Segments(p) : mr = ElfMr(p, n)
    BY <1>1, ElfRegionsAre
  <2>2. PICK n \in DOMAIN Segments(p) : mr = ElfMr(p, n)
    BY <2>1
  <2>3. /\ PhysNext(p, n) \in Nat /\ TableEnd <= PhysNext(p, n)
        /\ PhysNext(p, n) + SegmentSize(Segments(p)[n]) <= ReservedEnd
    BY <1>1, PhysPlaces
  <2>4. /\ SegmentSize(Segments(p)[n]) \in Nat /\ Segments(p)[n].size \in Nat
        /\ Segments(p)[n].size <= SegmentSize(Segments(p)[n])
    BY <1>1, SegmentCovered
  <2>5. mr.name[2] = p /\ mr.name[3] = n /\ mr.phys = PhysNext(p, n)
    BY <1>5, <2>2
  <2>6. Loaded(mr).base = PhysNext(p, n) /\ Loaded(mr).size = Segments(p)[n].size
    BY <2>5
  <2> HIDE DEF Loaded
  <2> QED
    BY <1>3, <2>3, <2>4, <2>6
<1>8. ASSUME NEW mr \in ToSet(ElfRegions), NEW nr \in ToSet(ElfRegions), mr # nr
      PROVE  ~Overlapping(Loaded(mr), Loaded(nr))
  <2>1. PICK p \in DOMAIN pds : \E n \in DOMAIN Segments(p) : mr = ElfMr(p, n)
    BY <1>1, ElfRegionsAre
  <2>2. PICK n \in DOMAIN Segments(p) : mr = ElfMr(p, n)
    BY <2>1
  <2>3. PICK q \in DOMAIN pds : \E m \in DOMAIN Segments(q) : nr = ElfMr(q, m)
    BY <1>1, ElfRegionsAre
  <2>4. PICK m \in DOMAIN Segments(q) : nr = ElfMr(q, m)
    BY <2>3
  <2>5. /\ Loaded(mr).base = PhysNext(p, n) /\ Loaded(mr).size = Segments(p)[n].size
        /\ Loaded(nr).base = PhysNext(q, m) /\ Loaded(nr).size = Segments(q)[m].size
    <3>1. /\ mr.name[2] = p /\ mr.name[3] = n /\ mr.phys = PhysNext(p, n)
          /\ nr.name[2] = q /\ nr.name[3] = m /\ nr.phys = PhysNext(q, m)
      BY <1>5, <2>2, <2>4
    <3> QED
      BY <3>1
  <2>6. /\ SegmentSize(Segments(p)[n]) \in Nat /\ Segments(p)[n].size \in Nat
        /\ Segments(p)[n].size <= SegmentSize(Segments(p)[n])
        /\ SegmentSize(Segments(q)[m]) \in Nat /\ Segments(q)[m].size \in Nat
        /\ Segments(q)[m].size <= SegmentSize(Segments(q)[m])
    BY <1>1, SegmentCovered
  <2>7. PhysNext(p, n) \in Nat /\ PhysNext(q, m) \in Nat
    BY <1>1, PhysPlaces
  <2>8. \/ PhysNext(p, n) + SegmentSize(Segments(p)[n]) <= PhysNext(q, m)
        \/ PhysNext(q, m) + SegmentSize(Segments(q)[m]) <= PhysNext(p, n)
    <3>1. p < q \/ q < p \/ (p = q /\ (n < m \/ m < n))
      <4>1. p \in Nat /\ q \in Nat
        BY <1>1, AllIs
      <4>2. n \in Nat /\ m \in Nat
        BY SMTT(40), <1>1, SegmentsOf
      <4>3. p # q \/ n # m
        BY <2>2, <2>4, <1>8
      <4> QED
        BY <4>1, <4>2, <4>3
    <3> QED
      BY <1>1, <3>1, PhysPlaces
  <2> HIDE DEF Loaded
  <2>9. \/ Loaded(mr).base + Loaded(mr).size <= Loaded(nr).base
        \/ Loaded(nr).base + Loaded(nr).size <= Loaded(mr).base
    BY <2>5, <2>6, <2>7, <2>8
  <2>10. Loaded(mr).base \in Nat /\ Loaded(nr).base \in Nat /\ Loaded(mr).size \in Nat /\ Loaded(nr).size \in Nat
    BY <2>5, <2>6, <2>7
  <2> QED
    BY <2>9, <2>10 DEF Overlapping
<1> DEFINE k == Len(ElfRegions)
<1>9. /\ k \in Nat /\ DOMAIN ElfRegions = 1..k /\ \A i \in 1..k : ElfRegions[i] \in ToSet(ElfRegions)
      /\ \A i, j \in 1..k : i # j => ElfRegions[i] # ElfRegions[j]
  <2>1. IsList(ElfRegions) /\ Once(ElfRegions, ToSet(ElfRegions))
    BY <1>1, ElfRegionsAre
  <2>2. k \in Nat /\ DOMAIN ElfRegions = 1..k /\ \A i \in 1..k : ElfRegions[i] \in ToSet(ElfRegions)
    BY <2>1, ListDomain DEF IsList, ToSet
  <2> QED
    BY <2>1, <2>2 DEF Once
<1>10. segs = [i \in 1..k |-> segs[i]] /\ \A i \in 1..k : segs[i] = Loaded(ElfRegions[i])
  BY <1>9 DEF Each
<1>11. LoaderRegions = first \o segs
  BY DEF LoaderRegions
<1>12. /\ IsList(first) /\ Len(first) = 3
       /\ first[1] = KernelRegion /\ first[2].base = ReservedEnd /\ first[2].size = InitTaskSize
       /\ first[3].base = ReservedBase /\ first[3].size = TableBytes
  <2>1. first = [i \in 1..3 |-> first[i]]
    OBVIOUS
  <2> HIDE DEF first
  <2>2. IsList(first) /\ Len(first) = 3
    BY <2>1, FunctionIsList
  <2> QED
    BY <2>2 DEF first
<1> HIDE DEF first, segs, Loaded, k
<1>13. IsList(segs) /\ Len(segs) = k
  BY <1>9, <1>10, FunctionIsList
<1>14. /\ DOMAIN LoaderRegions = 1..3 + k
       /\ \A i \in 1..3 + k : LoaderRegions[i] = IF i <= 3 THEN first[i] ELSE segs[i - 3]
  <2>1. /\ Len(first \o segs) = 3 + k /\ IsList(first \o segs)
        /\ \A i \in 1..3 + k : (first \o segs)[i] = IF i <= 3 THEN first[i] ELSE segs[i - 3]
    <3>1. /\ IsList(first \o segs) /\ Len(first \o segs) = Len(first) + Len(segs)
          /\ \A i \in 1..Len(first) + Len(segs) :
               (first \o segs)[i] = IF i <= Len(first) THEN first[i] ELSE segs[i - Len(first)]
      BY <1>12, <1>13, ConcatAt, Zenon
    <3>2. Len(first) = 3 /\ Len(segs) = k
      BY <1>12, <1>13
    <3> HIDE DEF k
    <3> QED
      BY <3>1, <3>2
  <2>2. DOMAIN LoaderRegions = 1..3 + k
    <3> DEFINE both == first \o segs
    <3> HIDE DEF both
    <3>1. Len(both) = 3 + k /\ IsList(both)
      BY <2>1 DEF both
    <3>2. DOMAIN both = 1..3 + k
      BY <3>1, ListDomain
    <3> QED
      BY <1>11, <3>2 DEF both
  <2> QED
    BY <1>11, <2>1, <2>2
<1>15. CheckNonOverlapping
  <2> SUFFICES ASSUME NEW i \in 1..3 + k, NEW j \in 1..3 + k, i < j
               PROVE  ~Overlapping(LoaderRegions[i], LoaderRegions[j])
    BY <1>14 DEF CheckNonOverlapping
  <2>1. ASSUME NEW m \in 1..3 + k, m > 3
        PROVE  /\ m - 3 \in 1..k /\ LoaderRegions[m] = Loaded(ElfRegions[m - 3])
               /\ ElfRegions[m - 3] \in ToSet(ElfRegions)
    <3>1. m - 3 \in 1..k
      BY <1>9, <2>1
    <3> QED
      <4>1. LoaderRegions[m] = segs[m - 3]
        BY <1>9, <1>14, <2>1
      <4> QED
        BY <1>9, <1>10, <3>1, <4>1
  <2>2. ASSUME NEW m \in 1..3 + k, m > 3
        PROVE  /\ LoaderRegions[m].base \in Nat /\ LoaderRegions[m].size \in Nat
               /\ TableEnd <= LoaderRegions[m].base
               /\ LoaderRegions[m].base + LoaderRegions[m].size <= ReservedEnd
    BY <1>7, <2>1, <2>2
  <2>3. LoaderRegions[1] = first[1] /\ LoaderRegions[2] = first[2] /\ LoaderRegions[3] = first[3]
    BY <1>9, <1>14
  <2>4. KernelRegion.base \in Nat /\ KernelRegion.size \in Nat
    BY <1>2
  <2>5. CASE i = 1
    <3>1. j = 2 \/ j = 3 \/ j > 3
      BY <1>9, <2>5
    <3>2. CASE j = 2
      BY <1>2, <1>3, <1>4, <1>12, <2>3, <2>4, <2>5, <3>2 DEF Overlapping
    <3>3. CASE j = 3
      BY <1>2, <1>3, <1>4, <1>12, <2>3, <2>4, <2>5, <3>3 DEF Overlapping
    <3>4. CASE j > 3
      BY <1>2, <1>3, <1>4, <1>12, <2>2, <2>3, <2>4, <2>5, <3>4 DEF Overlapping
    <3> QED
      BY <3>1, <3>2, <3>3, <3>4
  <2>6. CASE i = 2
    <3>1. j = 3 \/ j > 3
      BY <1>9, <2>6
    <3>2. CASE j = 3
      BY <1>2, <1>3, <1>4, <1>12, <2>3, <2>6, <3>2 DEF Overlapping
    <3>3. CASE j > 3
      BY <1>2, <1>3, <1>4, <1>12, <2>2, <2>3, <2>6, <3>3 DEF Overlapping
    <3> QED
      BY <3>1, <3>2, <3>3
  <2>7. CASE i = 3
    <3>1. j > 3
      BY <1>9, <2>7
    <3> QED
      BY <1>2, <1>3, <1>4, <1>12, <2>2, <2>3, <2>7, <3>1 DEF Overlapping
  <2>8. CASE i > 3
    <3>1. j > 3 /\ i - 3 # j - 3
      BY <1>9, <2>8
    <3>2. /\ LoaderRegions[i] = Loaded(ElfRegions[i - 3]) /\ ElfRegions[i - 3] \in ToSet(ElfRegions)
          /\ LoaderRegions[j] = Loaded(ElfRegions[j - 3]) /\ ElfRegions[j - 3] \in ToSet(ElfRegions)
          /\ i - 3 \in 1..k /\ j - 3 \in 1..k
      BY <2>1, <2>8, <3>1
    <3>3. ElfRegions[i - 3] # ElfRegions[j - 3]
      BY <1>9, <3>1, <3>2
    <3> QED
      BY <1>8, <3>2, <3>3
  <2>9. i = 1 \/ i = 2 \/ i = 3 \/ i > 3
    BY <1>9
  <2> QED
    BY <2>5, <2>6, <2>7, <2>8, <2>9
<1> QED
  BY <1>6, <1>15

\* The larger of two numbers.
LEMMA MaxOfTwo ==
  ASSUME NEW m \in Nat, NEW n \in Nat
  PROVE  Max({m, n}) \in Nat
<1>1. \E x \in {m, n} : \A y \in {m, n} : x >= y
  OBVIOUS
<1> QED
  BY <1>1 DEF Max

\* The regions that are to be made change neither with a step of the build nor with the init task.
LEMMA AllMrsKept ==
  ASSUME UNCHANGED <<description, tablePages>>
  PROVE  AllMrs' = AllMrs
BY DEF description, AllMrs, ElfMrs, Areas, Segments, SegmentBase, SegmentSize, PhysNext, TableEnd, Sum, Total, Mr,
       AllocTls, ThreadsIn, Stacks, IpcBuffers, ThreadStack, Each, Flat, All

LEMMA InitImageInv == Init => ImageInv
BY BuiltPcs DEF Init, DescriptionInit, ObjectInit, ImageInv

\* Only Size, which returns to the start of the build, gives the table another number of pages.
LEMMA ImageKept ==
  ASSUME ImageInv, UNCHANGED <<description, tablePages, regions, plan>>,
         pc' \in Built \cup {"size", "link"} => pc \in Built \cup {"size", "link"},
         pc' = "link" => pc = "link"
  PROVE  ImageInv'
<1>1. AllMrs' = AllMrs
  BY AllMrsKept
<1>2. TableWords' = TableWords
  BY DEF TableWords, Sum, Total, Each, Words
<1> QED
  BY <1>1, <1>2 DEF ImageInv, Built

LEMMA SizeImage ==
  ASSUME IInv, ImageInv, Size
  PROVE  ImageInv'
<1>1. /\ pc = "size" /\ UNCHANGED <<description, regions, plan>> /\ pc' \in {"link", "build"}
      /\ pc' = "link" => tablePages' = tablePages /\ TableWords <= tablePages * WordsPerPage
      /\ \/ tablePages' = tablePages
         \/ tablePages' = Max({tablePages, RoundUp(TableWords, WordsPerPage) \div WordsPerPage})
  BY DEF Size
<1>2. TableWords \in Nat
  <2>1. InOrderToStart(plan)
    BY <1>1, BuiltPcs DEF IInv
  <2> QED
    BY <2>1, TableWordsAre
<1>3. tablePages' \in Nat
  <2>1. PICK d \in Nat : RoundUp(TableWords, WordsPerPage) = d * WordsPerPage
    BY <1>2, WordsAssumption, RoundsTo
  <2>2. RoundUp(TableWords, WordsPerPage) \div WordsPerPage \in Nat
    BY <2>1, WordsAssumption, DivExact
  <2> QED
    BY <1>1, <2>2, MaxOfTwo DEF ImageInv
<1>4. pc' = "link" => regions' = AllMrs' /\ TableWords' <= tablePages' * WordsPerPage
  <2> HAVE pc' = "link"
  <2>1. AllMrs' = AllMrs
    BY <1>1, AllMrsKept
  <2>2. TableWords' = TableWords
    BY <1>1 DEF TableWords, Sum, Total, Each, Words
  <2> QED
    BY <1>1, <2>1, <2>2 DEF ImageInv
<1> QED
  BY <1>1, <1>3, <1>4, BuiltPcs DEF ImageInv

LEMMA ImageInductive == IInv /\ ImageInv /\ [Next]_vars => ImageInv'
<1> SUFFICES ASSUME IInv, ImageInv, [Next]_vars
             PROVE  ImageInv'
  OBVIOUS
<1>1. CASE ReadDescription /\ UNCHANGED <<objectVars, plan, step, iter, kernel>>
  <2>1. tablePages' = tablePages /\ pc' \in {"parse", "check", "build", "refused"}
    BY <1>1, ReadPcs DEF objectVars
  <2> QED
    BY <2>1, BuiltPcs DEF ImageInv
<1>2. CASE LayOut /\ UNCHANGED <<plan, step, iter, kernel>>
  <2>1. /\ UNCHANGED <<description, tablePages>> /\ pc' \in {"map", "refused"}
        /\ pc' = "map" => regions' = AllMrs
    BY <1>2 DEF LayOut, Build
  <2>2. AllMrs' = AllMrs
    BY <2>1, AllMrsKept
  <2> QED
    BY <2>1, <2>2, BuiltPcs DEF ImageInv
<1>3. CASE (MapRegions \/ CollectObjects \/ AllocateObjects) /\ UNCHANGED <<plan, step, iter, kernel>>
  <2>1. /\ UNCHANGED <<description, tablePages, regions, plan>>
        /\ pc \in Built /\ pc' \in Built \cup {"refused"}
    BY <1>3, BuiltPcs DEF MapRegions, CollectObjects, AllocateObjects, Build
  <2> QED
    BY <2>1, ImageKept, BuiltPcs
<1>4. CASE MakePlan /\ UNCHANGED <<step, iter, kernel>>
  <2>1. /\ UNCHANGED <<description, tablePages, regions>>
        /\ pc = "plan" /\ pc' \in {"size", "refused"}
    BY <1>4 DEF MakePlan, Build, objectVars
  <2>2. AllMrs' = AllMrs
    BY <2>1, AllMrsKept
  <2> QED
    BY <2>1, <2>2, BuiltPcs DEF ImageInv
<1>5. CASE Size
  BY <1>5, SizeImage
<1>6. CASE Link \/ SysInitStep
  <2>1. tablePages' = tablePages /\ pc' \in {"boot", "refused", "boot failed", "running"}
    <3>1. CASE Link
      BY <3>1 DEF Link, Build, objectVars
    <3>2. CASE SysInitStep
      <4>1. PICK op : Turn(op)
        BY <3>2, TurnTaken DEF IInv
      <4> QED
        BY <4>1 DEF Turn, objectVars
    <3> QED
      BY <1>6, <3>1, <3>2
  <2> QED
    BY <2>1, BuiltPcs DEF ImageInv
<1>7. CASE UNCHANGED vars
  <2>1. UNCHANGED <<description, tablePages, regions, plan, pc>>
    BY <1>7 DEF vars, objectVars
  <2> QED
    BY <2>1, ImageKept
<1> QED
  BY <1>1, <1>2, <1>3, <1>4, <1>5, <1>6, <1>7 DEF Next

\* What the loader is to copy does not overlap, every image lies in the memory reserved for it
\* and its regions cover its segments, although the tool computes the size of the reservation
\* (__main__.py:739-743) and the places of the images (1060-1091) apart from each other, and
\* the number of pages of the invocation table changes until the table fits (2143-2163): for
\* every description, every set of images and every alignment of their segments.
THEOREM ImagesPlaced == Spec => []ImageFits
<1>1. Init => IInv /\ ImageInv
  BY InitIInv, InitImageInv
<1>2. IInv /\ ImageInv /\ [Next]_vars => (IInv /\ ImageInv)'
  BY Inductive, ImageInductive
<1>3. IInv /\ ImageInv => ImageFits
  BY ImageLaid
<1> QED
  BY <1>1, <1>2, <1>3, PTL DEF Spec
==============================================================================
