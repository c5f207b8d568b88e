------------------------- MODULE SysInitCaps_proofs -------------------------
(***************************************************************************)
(* Proofs about what PDs have when the first of them starts: the           *)
(* capabilities that the description gives them and no other, a            *)
(* configured TCB, and ends of channels, faults and interrupts that lead   *)
(* to the PD they are meant for under the number it knows.                 *)
(***************************************************************************)
EXTENDS SysInitEffects_proofs

-----------------------------------------------------------------------------
(* Before the first PD runs, all of the plan but the starting is done *)

Final == BootInv /\ Started

LEMMA FinalPlan ==
  ASSUME Final
  PROVE  /\ Slotted /\ Laid /\ Described /\ Ready /\ plan = SystemInvocations /\ HaveEps /\ Effects /\ DescInv /\ Accepted
         /\ HavePages /\ Counted /\ KernelOk /\ pc \in Booting
<1>1. IInv /\ ImageInv /\ DescInv /\ PlanInv /\ Counted /\ Effects /\ KernelOk
  BY DEF Final, BootInv, IInv
<1>2. pc \in Booting
  <2> SUFFICES ASSUME pc \notin Booting
               PROVE  FALSE
    OBVIOUS
  <2>1. kernel = Bare
    BY <1>1 DEF Counted
  <2>2. DOMAIN kernel.tcb = {}
    BY <2>1 DEF Bare
  <2> QED
    BY <2>2 DEF Final, Started
<1>3. pc \in PlanMade /\ pc \in PastCheck
  BY <1>2 DEF PlanMade, PastCheck
<1>4. Slotted /\ plan = SystemInvocations /\ HaveEps /\ HavePages
  BY <1>1, <1>3, PlanSlotted
<1>5. Laid /\ Described /\ Ready
  BY <1>4, LaidReady DEF Slotted, Laid
<1> QED
  BY <1>1, <1>2, <1>3, <1>4, <1>5 DEF DescInv

\* Every invocation of these has been performed to the last iteration.
LEMMA AllDone ==
  ASSUME Final, NEW inv \in ToSet(SystemInvocations), inv.op \notin Starts
  PROVE  \E m \in 1..Len(plan) : plan[m] = inv /\ \A i \in 0..inv.count - 1 : Done(m, i)
<1>1. /\ Len(plan) \in Nat
      /\ \A x : x \in ToSet(SystemInvocations) <=> \E m \in 1..Len(plan) : x = plan[m]
  <2>1. IInv /\ ImageInv /\ PlanInv /\ pc \in PlanMade
    BY FinalPlan DEF Final, BootInv, PlanMade
  <2> QED
    BY <2>1, PlanElements
<1>2. PICK m \in 1..Len(plan) : plan[m] = inv
  BY <1>1
<1>3. m < step
  BY <1>2, FinalPlan DEF Final, Counted
<1>4. \A i \in 0..inv.count - 1 : Done(m, i)
  BY <1>2, <1>3 DEF Done
<1> QED
  BY <1>2, <1>4

-----------------------------------------------------------------------------
(* The arguments of an iteration *)

\* ArgAt, from the invocation itself.
Actual(inv, i, f) == inv.args[f] + IF f \in DOMAIN inv.incr THEN i * inv.incr[f] ELSE 0

LEMMA ActualIs == \A m, i, f : ArgAt(m, i, f) = Actual(plan[m], i, f)
BY DEF ArgAt, Actual

LEMMA OnceActual ==
  ASSUME NEW op, NEW args
  PROVE  /\ Do(op, args).count = 1 /\ Do(op, args).args = args
         /\ \A f, i : args[f] \in Int => Actual(Do(op, args), i, f) = args[f]
BY DEF Do, Actual

\* How often a repeated invocation is performed, and with which arguments.
Times(n) == IF n > 1 THEN n ELSE 1
LEMMA RepeatActual ==
  ASSUME NEW op, NEW args, NEW n \in Int, NEW incr
  PROVE  LET inv == Repeat(Do(op, args), n, incr)
         IN  /\ inv.count = Times(n) /\ inv.op = op /\ inv.args = args
             /\ \A i \in 0..Times(n) - 1 : \A f : args[f] \in Int =>
                  /\ f \notin DOMAIN incr => Actual(inv, i, f) = args[f]
                  /\ f \in DOMAIN incr /\ incr[f] = 1 => Actual(inv, i, f) = args[f] + i
<1> DEFINE inv == Repeat(Do(op, args), n, incr)
<1>1. CASE n > 1
  <2>1. inv.op = op /\ inv.args = args /\ inv.count = n /\ inv.incr = incr
    BY <1>1 DEF Repeat, Do
  <2> HIDE DEF inv
  <2>2. Times(n) = n
    BY <1>1 DEF Times
  <2>3. \A i \in 0..n - 1 : \A f : args[f] \in Int =>
          /\ f \notin DOMAIN incr => Actual(inv, i, f) = args[f]
          /\ f \in DOMAIN incr /\ incr[f] = 1 => Actual(inv, i, f) = args[f] + i
    BY <2>1 DEF Actual
  <2> QED
    BY <2>1, <2>2, <2>3 DEF inv
<1>2. CASE ~(n > 1)
  <2>1. inv = Do(op, args) /\ Times(n) = 1
    BY <1>2 DEF Repeat, Times
  <2>2. inv.op = op /\ inv.args = args /\ inv.count = 1
    BY <2>1, OnceActual, OpKept
  <2>3. \A f, i : args[f] \in Int => Actual(inv, i, f) = args[f]
    BY <2>1, OnceActual
  <2> HIDE DEF inv
  <2>4. \A i \in 0..Times(n) - 1 : i = 0
    BY <2>1
  <2>5. \A i \in 0..Times(n) - 1 : \A f : args[f] \in Int =>
          /\ f \notin DOMAIN incr => Actual(inv, i, f) = args[f]
          /\ f \in DOMAIN incr /\ incr[f] = 1 => Actual(inv, i, f) = args[f] + i
    BY <2>3, <2>4
  <2> QED
    BY <2>1, <2>2, <2>5 DEF inv
<1> QED
  BY <1>1, <1>2

-----------------------------------------------------------------------------
(* The capabilities of the init task *)

Plain(o) == [obj |-> o, badge |-> 0]

LEMMA CapInSystem ==
  ASSUME NEW a \in Nat, NEW cap, Has(System, a, cap)
  PROVE  CapOf(a) = cap /\ Known(a)
BY DEF CapOf, Has, Known, SystemCNode, InitTcb, SchedControl

LEMMA CapsOfInit ==
  /\ CapOf(SystemCNode) = Plain(System) /\ CapOf(InitTcb) = Plain(<<"init">>)
  /\ CapOf(SchedControl) = Plain(<<"schedcontrol">>)
BY DEF CapOf, SystemCNode, InitTcb, SchedControl, Plain

LEMMA HomedCap ==
  ASSUME Final, NEW o, Homed(o)
  PROVE  slotOf[o] \in Nat /\ CapOf(slotOf[o]) = Plain(o) /\ o # <<>>
<1> PICK L \in ToSet(objects) : o \in ToSet(L) /\ Once(L, ToSet(L)) /\ \A x \in ToSet(L) : x[1] # "page"
  BY DEF Homed
<1>0. Slotted /\ Laid /\ Effects /\ tablePages \in Nat /\ slotOf = Slots
  BY FinalPlan DEF Slotted
<1>1. IsList(L) /\ Len(L) \in Nat \ {0} /\ L[1] \in ToSet(L) /\ o # <<>>
  BY <1>0, ObjectListIs
<1>2. PICK j \in 1..Len(L) : o = L[j]
  BY <1>1, ElementsOf
<1>3. SlotAt(L[1]) \in Nat /\ SlotAt(o) = SlotAt(L[1]) + j - 1
  BY <1>0, <1>2, Adjacent
<1>4. slotOf[o] = SlotAt(o) /\ slotOf[L[1]] = SlotAt(L[1])
  BY <1>0, <1>1 DEF Slots
<1> DEFINE inv == Do("Retype", [dest |-> slotOf[L[1]], objects |-> L])
<1>5. inv \in ToSet(SystemInvocations) /\ inv.op = "Retype" /\ inv.count = 1 /\ inv.args.dest = slotOf[L[1]] /\ inv.args.objects = L
  <2>1. CapPart(inv)
    BY DEF CapPart, IsRetype
  <2> QED
    BY <1>0, <2>1, PlanIs DEF Do
<1>6. Actual(inv, 0, "dest") = slotOf[L[1]]
  BY <1>3, <1>4 DEF Actual, Do
<1> HIDE DEF inv
<1>7. PICK m \in 1..Len(plan) : plan[m] = inv /\ \A i \in 0..inv.count - 1 : Done(m, i)
  BY <1>5, AllDone DEF Starts
<1>8. Done(m, 0)
  BY <1>5, <1>7
<1>9. Has(System, ArgAt(m, 0, "dest") + j - 1, [obj |-> L[j], badge |-> 0])
  <2>1. Retyped
    BY <1>0 DEF Effects
  <2> QED
    BY <1>2, <1>5, <1>7, <1>8, <2>1 DEF Retyped
<1>10. ArgAt(m, 0, "dest") + j - 1 = slotOf[o]
  BY <1>3, <1>4, <1>6, <1>7, ActualIs
<1>11. slotOf[o] \in Nat
  BY <1>2, <1>3, <1>4
<1>12. Has(System, slotOf[o], Plain(o))
  BY <1>2, <1>9, <1>10 DEF Plain
<1> QED
  BY <1>1, <1>11, <1>12, CapInSystem

-----------------------------------------------------------------------------
(* The slots after those of the objects *)

LEMMA TotalNat ==
  ASSUME NEW m \in Nat, NEW v, v = [n \in 1..m |-> v[n]], \A n \in 1..m : v[n] \in Nat
  PROVE  Total(v) \in Nat
<1>1. PICK u : /\ \A n \in 0..m : u[n] \in Nat
               /\ \A j \in 0..m : Total([n \in 1..j |-> v[n]]) = u[j]
               /\ \A i, j \in 0..m : i <= j => u[i] <= u[j]
               /\ \A n \in 1..m : u[n] = u[n - 1] + v[n]
  BY TotalStages
<1>2. m \in 0..m
  OBVIOUS
<1>3. Total([n \in 1..m |-> v[n]]) = u[m] /\ u[m] \in Nat
  BY <1>1, <1>2
<1> QED
  BY <1>3

LEMMA FamilyOf ==
  ASSUME Final, NEW p \in DOMAIN pds
  PROVE  /\ Family(p) /\ Cardinality(Children(p)) \in Nat /\ pds[p].threads \in Nat
         /\ pds[p].threads > 0 => /\ Spawnable(p) \in Nat \ {0} /\ Spawnable(p) = pds[p].threads - Cardinality(Children(p))
                                  /\ ~Parented(p)
<1>1. Described /\ Ready /\ Families /\ RootThreads /\ open = <<>>
  <2>1. pc \notin {"parse", "refused"}
    BY FinalPlan DEF Booting
  <2> QED
    BY <2>1, FinalPlan DEF DescInv
<1>2. ~IsOpen(p)
  BY <1>1 DEF IsOpen, ToSet
<1>3. Family(p)
  BY <1>1, <1>2 DEF Families
<1>4. Cardinality(Children(p)) \in Nat /\ pds[p].threads \in Nat
  BY <1>1, SpawnableThreads, PdTyped
<1>5. pds[p].threads > 0 => Cardinality(Children(p)) < pds[p].threads
  BY <1>3, <1>4 DEF Family
<1>6. pds[p].threads > 0 => ~Parented(p)
  BY <1>1 DEF RootThreads
<1> QED
  BY <1>3, <1>4, <1>5, <1>6 DEF Spawnable

LEMMA SlotsFinite ==
  ASSUME Final
  PROVE  Cardinality(DOMAIN slotOf) \in Nat /\ FirstSlot \in Nat
<1> DEFINE S == {ToSet(list) : list \in ToSet(objects)}
           f == [list \in ToSet(objects) |-> ToSet(list)]
<1>1. Laid /\ tablePages \in Nat /\ slotOf = Slots
  BY FinalPlan DEF Slotted
<1>2. IsFiniteSet(ToSet(objects))
  BY <1>1, FiniteList DEF Laid
<1>3. \A list \in ToSet(objects) : IsFiniteSet(ToSet(list))
  BY <1>1, ObjectListIs, FiniteList
<1>4. S = {f[list] : list \in ToSet(objects)}
  OBVIOUS
<1>5. \A T \in S : IsFiniteSet(T)
  BY <1>3
<1>6. DOMAIN slotOf = UNION S
  BY <1>1 DEF Slots
<1> HIDE DEF S, f
<1>7. IsFiniteSet(S)
  BY <1>2, <1>4, FiniteImage
<1>8. IsFiniteSet(DOMAIN slotOf)
  BY <1>5, <1>6, <1>7, FS_UNION
<1> QED
  BY <1>1, <1>8, FS_CardinalityType, FirstSlotIs

LEMMA PagesBefore ==
  ASSUME Final, NEW k \in 0..Len(maps)
  PROVE  Sum(SubSeq(maps, 1, k), LAMBDA m : m.mr.count) \in Nat
<1> DEFINE part == [n \in 1..k |-> maps[n]]
           v == Each(part, LAMBDA m : m.mr.count)
<1>1. DOMAIN maps = 1..Len(maps) /\ Len(maps) \in Nat /\ maps \in Seq(ToSet(maps))
  BY FinalPlan, ListDomain, Domains DEF Ready, MapsOk
<1>2. \A n \in 1..k : maps[n].mr.count \in Nat
  <2>1. \A n \in DOMAIN maps : maps[n].mr.count > 0 /\ maps[n] \in ToSet(maps)
    BY FinalPlan DEF HavePages, ToSet
  <2>2. \A n \in DOMAIN maps : maps[n].mr.count \in Int
    BY <2>1, FinalPlan DEF Ready, MapsOk, RegionOk
  <2> QED
    BY <1>1, <2>1, <2>2
<1>3. SubSeq(maps, 1, k) = part
  BY <1>1, Beginning
<1>4. v = [n \in 1..k |-> v[n]] /\ \A n \in 1..k : v[n] = maps[n].mr.count
  BY <1>1 DEF Each
<1>5. Sum(part, LAMBDA m : m.mr.count) = Total(v)
  BY DEF Sum
<1> HIDE DEF part, v
<1>6. Total(v) \in Nat
  BY <1>1, <1>2, <1>4, TotalNat
<1> QED
  BY <1>3, <1>5, <1>6

SpawnableBefore(p) == Sum(Where(WithThreads, LAMBDA q : q < p), Spawnable)

LEMMA ThreadsBefore ==
  ASSUME Final, NEW p
  PROVE  SpawnableBefore(p) \in Nat
<1> DEFINE q == Each(WithThreads, LAMBDA e : IF e < p THEN <<e>> ELSE <<>>)
           k == Len(WithThreads)
           s == FlattenSeq(q)
           v == Each(s, Spawnable)
<1>1. /\ IsList(WithThreads) /\ k \in Nat /\ DOMAIN WithThreads = 1..k /\ ToSet(WithThreads) = {WithThreads[n] : n \in 1..k}
      /\ \A x \in ToSet(WithThreads) : x \in DOMAIN pds /\ pds[x].threads > 0
  BY FinalPlan, PdsWhere, ListDomain DEF IsList, ToSet
<1>2. q = [n \in 1..k |-> q[n]] /\ \A n \in 1..k : q[n] = IF WithThreads[n] < p THEN <<WithThreads[n]>> ELSE <<>>
  BY <1>1 DEF Each
<1>3. Where(WithThreads, LAMBDA e : e < p) = s
  BY DEF Where, Flat
<1>4. Sum(s, Spawnable) = Total(v)
  BY DEF Sum
<1>5. DOMAIN v = DOMAIN s /\ \A n \in DOMAIN s : v[n] = Spawnable(s[n])
  BY DEF Each
<1>6. v = [n \in DOMAIN s |-> v[n]]
  BY DEF Each
<1> HIDE DEF q, k, v
<1>7. \A n \in 1..k : IsList(q[n]) /\ \A x : x \in ToSet(q[n]) => x \in ToSet(WithThreads)
  BY <1>1, <1>2, OneElement, NoElement
<1>8. IsList(s) /\ \A x \in ToSet(s) : x \in ToSet(WithThreads)
  BY <1>1, <1>2, <1>7, FlatMembers
<1> HIDE DEF s
<1>9. DOMAIN s = 1..Len(s) /\ Len(s) \in Nat /\ \A n \in 1..Len(s) : s[n] \in ToSet(s)
  BY <1>8, ListDomain DEF IsList, ToSet
<1>10. \A n \in 1..Len(s) : v[n] \in Nat
  BY <1>1, <1>5, <1>8, <1>9, FamilyOf
<1>11. Total(v) \in Nat
  BY <1>6, <1>9, <1>10, TotalNat
<1>12. SpawnableBefore(p) = Sum(s, Spawnable)
  BY <1>3 DEF SpawnableBefore
<1> QED
  BY <1>4, <1>11, <1>12

LEMMA CapNumbers ==
  ASSUME Final
  PROVE  /\ \A n \in Nat \ {0} : IrqCap(n) \in Nat /\ IrqNtfnCap(n) \in Nat /\ FaultCap(n) \in Nat
         /\ \A n \in DOMAIN maps : FrameCap(n) \in Nat
         /\ \A p : ThreadFaultCap(p) \in Nat
         /\ IrqNtfnCap(Len(IrqList)) \in Int
<1>1. Cardinality(DOMAIN slotOf) \in Nat /\ FirstSlot \in Nat
  BY SlotsFinite
<1>2. Laid /\ Ready /\ Len(IrqList) \in Nat /\ Len(maps) \in Nat /\ DOMAIN maps = 1..Len(maps) /\ Len(pds) \in Nat
  BY FinalPlan, IrqListIs, Domains
<1>3. \A n \in Nat \ {0} : IrqCap(n) \in Nat
  BY <1>1 DEF IrqCap
<1>4. IrqCap(Len(IrqList)) + 1 \in Nat
  BY <1>1, <1>2 DEF IrqCap
<1>5. \A n \in 1..Len(maps) + 1 : FrameCap(n) \in Nat
  <2> TAKE n \in 1..Len(maps) + 1
  <2> DEFINE sum == Sum(SubSeq(maps, 1, n - 1), LAMBDA m : m.mr.count)
  <2>1. n - 1 \in 0..Len(maps)
    BY <1>2
  <2>2. sum \in Nat
    BY <2>1, PagesBefore
  <2>3. FrameCap(n) = IrqCap(Len(IrqList)) + 1 + sum
    BY DEF FrameCap
  <2> HIDE DEF sum
  <2> QED
    BY <1>4, <2>2, <2>3
<1>6. FrameCap(Len(maps) + 1) \in Nat
  BY <1>2, <1>5
<1>7. \A n \in Nat \ {0} : IrqNtfnCap(n) \in Nat
  BY <1>6 DEF IrqNtfnCap
<1>8. IrqNtfnCap(Len(IrqList)) + 1 \in Nat /\ IrqNtfnCap(Len(IrqList)) \in Int
  BY <1>2, <1>6 DEF IrqNtfnCap
<1>9. \A n \in Nat : FaultCap(n) + 1 \in Nat
  BY <1>8 DEF FaultCap
<1>10. \A n \in Nat \ {0} : FaultCap(n) \in Nat
  BY <1>8 DEF FaultCap
<1>11. ASSUME NEW p
       PROVE  ThreadFaultCap(p) \in Nat
  <2>1. SpawnableBefore(p) \in Nat
    BY ThreadsBefore
  <2>2. ThreadFaultCap(p) = FaultCap(Len(pds)) + 1 + SpawnableBefore(p)
    BY DEF ThreadFaultCap, SpawnableBefore
  <2>3. FaultCap(Len(pds)) + 1 \in Nat
    BY <1>2, <1>9
  <2>4. \A a, b \in Nat : a + b \in Nat
    OBVIOUS
  <2> QED
    BY <2>1, <2>2, <2>3, <2>4
<1> QED
  BY <1>2, <1>3, <1>5, <1>7, <1>8, <1>10, <1>11

-----------------------------------------------------------------------------
(* What the mints of the plan put where *)

Sealed(obj, badge) == [obj |-> obj, badge |-> IF obj[1] \in {"ep", "ntfn"} THEN badge ELSE 0]
Gift(to, slot, obj, badge) == [to |-> to, slot |-> slot, cap |-> Sealed(obj, badge)]
GiftOf(inv, i) ==
  Gift(CapOf(Actual(inv, i, "cnode")).obj, Actual(inv, i, "dest"), CapOf(Actual(inv, i, "src")).obj,
       Actual(inv, i, "badge"))
Dealt(g) == \E inv : MintPart(inv) /\ \E i \in 0..inv.count - 1 : g = GiftOf(inv, i)

LEMMA GiftIs ==
  \A to, slot, obj, badge : /\ Gift(to, slot, obj, badge).to = to /\ Gift(to, slot, obj, badge).slot = slot
                            /\ Gift(to, slot, obj, badge).cap = Sealed(obj, badge)
BY DEF Gift

\* What an iteration of the plan mints is its gift.
LEMMA MintedGift ==
  ASSUME NEW m, NEW i
  PROVE  GiftOf(plan[m], i) = [to |-> CapAt(m, i, "cnode").obj, slot |-> ArgAt(m, i, "dest"), cap |-> MintedCap(m, i)]
<1>1. \A f : ArgAt(m, i, f) = Actual(plan[m], i, f)
  BY ActualIs
<1>2. MintedCap(m, i) = Sealed(CapOf(Actual(plan[m], i, "src")).obj, Actual(plan[m], i, "badge"))
  BY <1>1 DEF MintedCap, Sealed, CapAt
<1>3. CapAt(m, i, "cnode").obj = CapOf(Actual(plan[m], i, "cnode")).obj
  BY <1>1 DEF CapAt
<1> QED
  BY <1>1, <1>2, <1>3 DEF GiftOf, Gift

\* Every gift is in its place, ...
LEMMA GiftThere ==
  ASSUME Final, NEW g, Dealt(g)
  PROVE  Has(g.to, g.slot, g.cap)
<1>1. PICK inv : MintPart(inv) /\ \E i \in 0..inv.count - 1 : g = GiftOf(inv, i)
  BY DEF Dealt
<1>2. PICK i \in 0..inv.count - 1 : g = GiftOf(inv, i)
  BY <1>1
<1>3. inv.op \in MintOps
  BY <1>1, MintPartOps
<1>4. inv \in ToSet(SystemInvocations)
  <2>1. CapPart(inv)
    BY <1>1 DEF MintPart, CapPart, IsCSpace, IsChildMint, IsThreadMint
  <2> QED
    BY <2>1, FinalPlan, PlanIs
<1>5. PICK m \in 1..Len(plan) : plan[m] = inv /\ \A j \in 0..inv.count - 1 : Done(m, j)
  BY <1>3, <1>4, AllDone DEF Starts, MintOps
<1>6. Mints(m, i)
  BY <1>2, <1>3, <1>5 DEF Mints, MintOps
<1>7. Minted
  BY FinalPlan DEF Effects
<1>8. Has(CapAt(m, i, "cnode").obj, ArgAt(m, i, "dest"), MintedCap(m, i))
  BY <1>6, <1>7 DEF Minted
<1>9. g = [to |-> CapAt(m, i, "cnode").obj, slot |-> ArgAt(m, i, "dest"), cap |-> MintedCap(m, i)]
  BY <1>2, <1>5, MintedGift
<1>10. g.to = CapAt(m, i, "cnode").obj /\ g.slot = ArgAt(m, i, "dest") /\ g.cap = MintedCap(m, i)
  BY <1>9
<1> QED
  BY <1>8, <1>10

\* ... and nothing else is in the CSpace of a PD or of a thread.
LEMMA GiftOnly ==
  ASSUME Final, NEW c \in DOMAIN kernel.cspace \ {System}, NEW slot \in DOMAIN kernel.cspace[c]
  PROVE  Dealt([to |-> c, slot |-> slot, cap |-> kernel.cspace[c][slot]])
<1>1. PICK m, i : /\ Mints(m, i) /\ CapAt(m, i, "cnode").obj = c /\ ArgAt(m, i, "dest") = slot
                  /\ kernel.cspace[c][slot] = MintedCap(m, i)
  BY FinalPlan DEF Effects, MintedOnly
<1>2. m \in 1..Len(plan) /\ i \in 0..plan[m].count - 1 /\ plan[m].op \in {"Mint", "Copy"}
  BY <1>1 DEF Mints, Done
<1>3. plan[m] \in ToSet(SystemInvocations)
  <2>1. IInv /\ ImageInv /\ PlanInv /\ pc \in PlanMade
    BY FinalPlan DEF Final, BootInv, PlanMade
  <2> QED
    BY <1>2, <2>1, PlanElements
<1>4. MintPart(plan[m])
  BY <1>2, <1>3, FinalPlan, ByOp
<1>5. GiftOf(plan[m], i) = [to |-> c, slot |-> slot, cap |-> kernel.cspace[c][slot]]
  BY <1>1, MintedGift
<1> QED
  BY <1>2, <1>4, <1>5 DEF Dealt

\* A mint that is performed once, ...
LEMMA OnceGift ==
  ASSUME NEW cnode \in Int, NEW dest \in Int, NEW src \in Int, NEW badge \in Int
  PROVE  /\ LET inv == Mint(cnode, dest, src, badge)
            IN  inv.count = 1 /\ \A i : GiftOf(inv, i) = Gift(CapOf(cnode).obj, dest, CapOf(src).obj, badge)
         /\ LET inv == Copy(cnode, dest, src)
            IN  inv.count = 1 /\ \A i : GiftOf(inv, i) = Gift(CapOf(cnode).obj, dest, CapOf(src).obj, 0)
<1>1. ASSUME NEW op, NEW b \in Int
      PROVE  LET inv == Do(op, [cnode |-> cnode, dest |-> dest, src |-> src, badge |-> b])
             IN  inv.count = 1 /\ \A i : GiftOf(inv, i) = Gift(CapOf(cnode).obj, dest, CapOf(src).obj, b)
  <2> DEFINE args == [cnode |-> cnode, dest |-> dest, src |-> src, badge |-> b]
             inv == Do(op, args)
  <2>1. inv.count = 1 /\ \A f, i : args[f] \in Int => Actual(inv, i, f) = args[f]
    BY OnceActual
  <2>2. args["cnode"] = cnode /\ args["dest"] = dest /\ args["src"] = src /\ args["badge"] = b
    OBVIOUS
  <2> HIDE DEF inv, args
  <2>3. ASSUME NEW i
        PROVE  /\ Actual(inv, i, "cnode") = cnode /\ Actual(inv, i, "dest") = dest
               /\ Actual(inv, i, "src") = src /\ Actual(inv, i, "badge") = b
    BY <2>1, <2>2
  <2>4. inv.count = 1 /\ \A i : GiftOf(inv, i) = Gift(CapOf(cnode).obj, dest, CapOf(src).obj, b)
    BY <2>1, <2>3 DEF GiftOf
  <2> QED
    BY <2>4 DEF inv, args
<1>2. LET inv == Mint(cnode, dest, src, badge)
      IN  inv.count = 1 /\ \A i : GiftOf(inv, i) = Gift(CapOf(cnode).obj, dest, CapOf(src).obj, badge)
  BY <1>1 DEF Mint
<1>3. LET inv == Copy(cnode, dest, src)
      IN  inv.count = 1 /\ \A i : GiftOf(inv, i) = Gift(CapOf(cnode).obj, dest, CapOf(src).obj, 0)
  BY <1>1 DEF Copy
<1> QED
  BY <1>2, <1>3

\* ... and one that is repeated, where some of the arguments are incremented.
By(i, f, fields) == IF f \in fields THEN i ELSE 0
LEMMA RepeatGift ==
  ASSUME NEW cnode \in Int, NEW dest \in Int, NEW src \in Int, NEW badge \in Int, NEW n \in Int,
         NEW incr, \A f \in DOMAIN incr : incr[f] = 1, NEW op
  PROVE  LET inv == Repeat(Do(op, [cnode |-> cnode, dest |-> dest, src |-> src, badge |-> badge]), n, incr)
             D == DOMAIN incr
         IN  /\ inv.count = Times(n)
             /\ \A i \in 0..Times(n) - 1 :
                  GiftOf(inv, i) = Gift(CapOf(cnode + By(i, "cnode", D)).obj, dest + By(i, "dest", D),
                                        CapOf(src + By(i, "src", D)).obj, badge + By(i, "badge", D))
<1> DEFINE args == [cnode |-> cnode, dest |-> dest, src |-> src, badge |-> badge]
           inv == Repeat(Do(op, args), n, incr)
           D == DOMAIN incr
<1>1. inv.count = Times(n)
      /\ \A i \in 0..Times(n) - 1 : \A f : args[f] \in Int =>
           /\ f \notin DOMAIN incr => Actual(inv, i, f) = args[f]
           /\ f \in DOMAIN incr /\ incr[f] = 1 => Actual(inv, i, f) = args[f] + i
  BY RepeatActual
<1>2. args["cnode"] = cnode /\ args["dest"] = dest /\ args["src"] = src /\ args["badge"] = badge
  OBVIOUS
<1>3. Times(n) \in Nat
  BY DEF Times
<1> HIDE DEF args, inv
<1>4. ASSUME NEW i \in 0..Times(n) - 1
      PROVE  GiftOf(inv, i) = Gift(CapOf(cnode + By(i, "cnode", D)).obj, dest + By(i, "dest", D),
                                   CapOf(src + By(i, "src", D)).obj, badge + By(i, "badge", D))
  <2>1. \A f : args[f] \in Int => Actual(inv, i, f) = args[f] + By(i, f, D)
    BY <1>1, <1>3 DEF By
  <2>2. /\ Actual(inv, i, "cnode") = cnode + By(i, "cnode", D) /\ Actual(inv, i, "dest") = dest + By(i, "dest", D)
        /\ Actual(inv, i, "src") = src + By(i, "src", D) /\ Actual(inv, i, "badge") = badge + By(i, "badge", D)
    BY <1>2, <2>1
  <2> HIDE DEF D
  <2> QED
    BY <2>2 DEF GiftOf
<1>5. inv.count = Times(n)
      /\ \A i \in 0..Times(n) - 1 :
           GiftOf(inv, i) = Gift(CapOf(cnode + By(i, "cnode", D)).obj, dest + By(i, "dest", D),
                                 CapOf(src + By(i, "src", D)).obj, badge + By(i, "badge", D))
  BY <1>1, <1>4
<1> QED
  BY <1>5 DEF inv, args

-----------------------------------------------------------------------------
(* The capabilities that are given away *)

LEMMA PdCaps ==
  ASSUME Final, NEW type \in PdTypes, NEW p \in DOMAIN pds
  PROVE  /\ slotOf[<<type, p>>] \in Nat /\ CapOf(slotOf[<<type, p>>]) = Plain(<<type, p>>)
         /\ slotOf[<<type, 1>>] \in Nat /\ slotOf[<<type, p>>] = slotOf[<<type, 1>>] + p - 1
<1>1. Homed(<<type, p>>) /\ slotOf[<<type, 1>>] \in Nat /\ slotOf[<<type, p>>] = slotOf[<<type, 1>>] + p - 1
  BY FinalPlan, PdObjects
<1> QED
  BY <1>1, HomedCap

LEMMA PdCapsInRow ==
  ASSUME Final, NEW type \in PdTypes, NEW i \in 0..Len(pds) - 1
  PROVE  slotOf[<<type, 1>>] \in Nat /\ CapOf(slotOf[<<type, 1>>] + i) = Plain(<<type, i + 1>>) /\ i + 1 \in DOMAIN pds
<1>1. DOMAIN pds = 1..Len(pds) /\ Len(pds) \in Nat
  BY FinalPlan, Domains
<1>2. i + 1 \in DOMAIN pds
  BY <1>1
<1>3. /\ slotOf[<<type, i + 1>>] \in Nat /\ CapOf(slotOf[<<type, i + 1>>]) = Plain(<<type, i + 1>>)
      /\ slotOf[<<type, 1>>] \in Nat /\ slotOf[<<type, i + 1>>] = slotOf[<<type, 1>>] + (i + 1) - 1
  BY <1>2, PdCaps
<1>4. slotOf[<<type, 1>>] + (i + 1) - 1 = slotOf[<<type, 1>>] + i
  BY <1>1, <1>3
<1> QED
  BY <1>2, <1>3, <1>4

LEMMA EpCaps ==
  ASSUME Final, NEW p \in DOMAIN pds, NeedsEp(p)
  PROVE  Ep(p) \in Nat /\ CapOf(Ep(p)) = Plain(<<"ep", p>>)
<1>1. Homed(<<"ep", p>>)
  BY FinalPlan, EpObjects
<1> QED
  BY <1>1, HomedCap DEF Ep

\* A PD that takes calls has an endpoint, and so has one that has children or threads.
LEMMA WhoNeedsEp ==
  ASSUME Final, NEW p \in DOMAIN pds
  PROVE  /\ pds[p].pp => NeedsEp(p)
         /\ \A c \in Children(p) : NeedsEp(p) /\ c \in DOMAIN pds /\ pds[c].parent = p /\ Parented(c)
         /\ Parented(p) => pds[p].parent \in DOMAIN pds /\ NeedsEp(pds[p].parent) /\ p \in Children(pds[p].parent)
         /\ ~Parented(p) => NeedsEp(p)
<1>1. Described /\ HaveEps /\ DOMAIN pds = 1..Len(pds) /\ Len(pds) \in Nat
  BY FinalPlan, Domains
<1>2. \A c \in Children(p) : c \in DOMAIN pds /\ pds[c].parent = p /\ Parented(c)
  BY <1>1 DEF Children, Parented, NoParent
<1>3. \A c \in Children(p) : NeedsEp(p)
  BY <1>1, <1>2 DEF HaveEps
<1>4. Parented(p) => pds[p].parent \in DOMAIN pds
  <2>1. pds[p].parent \in 0..p - 1 /\ p \in Nat
    BY <1>1, PdTyped
  <2> QED
    BY <1>1, <2>1 DEF Parented, NoParent
<1>5. Parented(p) => NeedsEp(pds[p].parent) /\ p \in Children(pds[p].parent)
  BY <1>1 DEF HaveEps, Children
<1> QED
  BY <1>2, <1>3, <1>4, <1>5 DEF NeedsEp

LEMMA ThreadCaps ==
  ASSUME Final, NEW p \in DOMAIN pds, NEW n \in 1..4, NEW t \in 0..pds[p].threads - 1
  PROVE  /\ slotOf[<<ThreadTypes[n], p, t>>] \in Nat /\ CapOf(slotOf[<<ThreadTypes[n], p, t>>]) = Plain(<<ThreadTypes[n], p, t>>)
         /\ slotOf[<<ThreadTypes[n], p, 0>>] \in Nat
         /\ slotOf[<<ThreadTypes[n], p, t>>] = slotOf[<<ThreadTypes[n], p, 0>>] + t
<1>1. /\ Homed(<<ThreadTypes[n], p, t>>) /\ slotOf[<<ThreadTypes[n], p, 0>>] \in Nat
      /\ slotOf[<<ThreadTypes[n], p, t>>] = slotOf[<<ThreadTypes[n], p, 0>>] + t
  BY FinalPlan, ThreadObjectsHomed
<1> QED
  BY <1>1, HomedCap

\* The threads that are no PDs, from the first of them on.
Types4 == {ThreadTypes[n] : n \in 1..4}
LEMMA ThreadCapsInRow ==
  ASSUME Final, NEW p \in DOMAIN pds, pds[p].threads > 0, NEW type \in Types4
  PROVE  LET k == Cardinality(Children(p))
         IN  /\ Thread(type, p, k) \in Nat
             /\ \A i \in 0..Times(Spawnable(p)) - 1 :
                  CapOf(Thread(type, p, k) + i) = Plain(<<type, p, k + i>>) /\ k + i \in k..pds[p].threads - 1
             /\ \A t \in k..pds[p].threads - 1 : t - k \in 0..Times(Spawnable(p)) - 1 /\ k + (t - k) = t
<1> DEFINE k == Cardinality(Children(p))
<1>1. PICK n \in 1..4 : type = ThreadTypes[n]
  BY DEF Types4
<1>2. /\ k \in Nat /\ pds[p].threads \in Nat /\ Spawnable(p) \in Nat \ {0} /\ Spawnable(p) = pds[p].threads - k
  BY FamilyOf
<1>3. Times(Spawnable(p)) = pds[p].threads - k
  BY <1>2 DEF Times
<1> HIDE DEF k
<1>4. k \in 0..pds[p].threads - 1
  BY <1>2
<1>5. \A t \in 0..pds[p].threads - 1 :
        /\ slotOf[<<type, p, t>>] \in Nat /\ CapOf(slotOf[<<type, p, t>>]) = Plain(<<type, p, t>>)
        /\ slotOf[<<type, p, 0>>] \in Nat /\ slotOf[<<type, p, t>>] = slotOf[<<type, p, 0>>] + t
  BY <1>1, ThreadCaps
<1>6. Thread(type, p, k) \in Nat /\ slotOf[<<type, p, 0>>] \in Nat /\ Thread(type, p, k) = slotOf[<<type, p, 0>>] + k
  BY <1>4, <1>5 DEF Thread
<1>7. ASSUME NEW i \in 0..Times(Spawnable(p)) - 1
      PROVE  CapOf(Thread(type, p, k) + i) = Plain(<<type, p, k + i>>) /\ k + i \in k..pds[p].threads - 1
  <2>1. k + i \in k..pds[p].threads - 1 /\ k + i \in 0..pds[p].threads - 1 /\ i \in Nat
    BY <1>2, <1>3
  <2>2. slotOf[<<type, p, k + i>>] = slotOf[<<type, p, 0>>] + (k + i) /\ CapOf(slotOf[<<type, p, k + i>>]) = Plain(<<type, p, k + i>>)
    BY <1>5, <2>1
  <2>3. slotOf[<<type, p, 0>>] + (k + i) = Thread(type, p, k) + i
    BY <1>2, <1>6, <2>1
  <2> QED
    BY <2>1, <2>2, <2>3
<1>8. \A t \in k..pds[p].threads - 1 : t - k \in 0..Times(Spawnable(p)) - 1 /\ k + (t - k) = t
  BY <1>2, <1>3
<1>9. /\ Thread(type, p, k) \in Nat
      /\ \A i \in 0..Times(Spawnable(p)) - 1 :
           CapOf(Thread(type, p, k) + i) = Plain(<<type, p, k + i>>) /\ k + i \in k..pds[p].threads - 1
      /\ \A t \in k..pds[p].threads - 1 : t - k \in 0..Times(Spawnable(p)) - 1 /\ k + (t - k) = t
  BY <1>6, <1>7, <1>8
<1> QED
  BY <1>9 DEF k

\* The handlers of interrupts.
LEMMA IrqCaps ==
  ASSUME Final, NEW n \in 1..Len(IrqList)
  PROVE  IrqCap(n) \in Nat /\ CapOf(IrqCap(n)) = Plain(<<"irq", IrqList[n].irq>>)
<1>1. Laid /\ Len(IrqList) \in Nat
  BY FinalPlan, IrqListIs
<1>2. IrqCap(n) \in Nat
  BY <1>1, CapNumbers
<1>3. IrqList[n].irq \in Int
  <2>1. PICK p \in DOMAIN pds : \E irq \in ToSet(pds[p].irqs) : IrqList[n] = [pd |-> p, irq |-> irq.irq, id |-> irq.id]
    BY <1>1, IrqListIs
  <2>2. PICK irq \in ToSet(pds[p].irqs) : IrqList[n] = [pd |-> p, irq |-> irq.irq, id |-> irq.id]
    BY <2>1
  <2>3. irq.irq \in Int
    BY FinalPlan, IrqTyped
  <2> QED
    BY <2>2, <2>3
<1> DEFINE args == [irq |-> IrqList[n].irq, dest |-> IrqCap(n)]
           inv == Do("IrqControlGet", args)
<1>4. inv \in ToSet(SystemInvocations)
  <2>1. CapPart(inv)
    BY DEF CapPart, IsIrqGet
  <2> QED
    BY <1>1, <2>1, PlanIs
<1>5. inv.op = "IrqControlGet" /\ inv.count = 1
  BY DEF Do
<1>6. \A f : args[f] \in Int => Actual(inv, 0, f) = args[f]
  BY OnceActual
<1>7. args["irq"] = IrqList[n].irq /\ args["dest"] = IrqCap(n)
  OBVIOUS
<1> HIDE DEF inv, args
<1>8. Actual(inv, 0, "irq") = IrqList[n].irq /\ Actual(inv, 0, "dest") = IrqCap(n)
  BY <1>2, <1>3, <1>6, <1>7
<1>9. PICK m \in 1..Len(plan) : plan[m] = inv /\ \A i \in 0..inv.count - 1 : Done(m, i)
  BY <1>4, <1>5, AllDone DEF Starts
<1>10. Done(m, 0) /\ plan[m].op = "IrqControlGet"
  BY <1>5, <1>9
<1>11. Has(System, ArgAt(m, 0, "dest"), [obj |-> <<"irq", ArgAt(m, 0, "irq")>>, badge |-> 0])
  BY <1>10, FinalPlan DEF Effects, IrqsTaken
<1>12. Has(System, IrqCap(n), Plain(<<"irq", IrqList[n].irq>>))
  BY <1>8, <1>9, <1>11, ActualIs DEF Plain
<1> QED
  BY <1>2, <1>12, CapInSystem

-----------------------------------------------------------------------------
(* Gifts to the CSpaces of PDs and threads, and what the init task mints for itself *)

InputGift(g) ==
  \E p \in DOMAIN pds : g = Gift(<<"cnode", p>>, InputSlot, IF NeedsEp(p) THEN <<"ep", p>> ELSE <<"ntfn", p>>, 0)
ReplyGift(g) == \E p \in DOMAIN pds : g = Gift(<<"cnode", p>>, ReplySlot, <<"reply", p>>, 1)
VSpaceGift(g) == \E p \in DOMAIN pds : g = Gift(<<"cnode", p>>, VSpaceSlot, <<"vspace", p>>, 0)
IrqGift(g) ==
  \E p \in DOMAIN pds : \E irq \in ToSet(pds[p].irqs) :
    g = Gift(<<"cnode", p>>, IrqSlot + irq.id, <<"irq", irq.irq>>, 0)
ChildGift(p, c, g) ==
  LET id == pds[c].pd_id
      n == pds[p].threads
  IN  \/ pds[p].root_ppc /\ g = Gift(<<"cnode", c>>, RootEpSlot, <<"ep", p>>, RootPpcBadge(id))
      \/ g = Gift(<<"cnode", p>>, TcbSlot + id, <<"tcb", c>>, 0)
      \/ n > 0 /\ g = Gift(<<"cnode", p>>, ThreadSc(n, id), <<"sc", c>>, 0)
      \/ n > 0 /\ g = Gift(<<"cnode", p>>, ThreadCSpace(n, id), <<"cnode", c>>, 0)
      \/ n > 0 /\ g = Gift(<<"cnode", p>>, ThreadReply(n, id), <<"reply", c>>, 0)
      \/ n > 0 /\ g = Gift(<<"cnode", p>>, PdVSpace(n, id), <<"vspace", c>>, 0)
ThreadGift(p, t, g) ==
  LET n == pds[p].threads
  IN  \/ pds[p].root_ppc /\ g = Gift(<<"thread cnode", p, t>>, RootEpSlot, <<"ep", p>>, RootPpcBadge(t))
      \/ g = Gift(<<"cnode", p>>, TcbSlot + t, <<"thread tcb", p, t>>, 0)
      \/ g = Gift(<<"cnode", p>>, ThreadSc(n, t), <<"thread sc", p, t>>, 0)
      \/ g = Gift(<<"cnode", p>>, ThreadCSpace(n, t), <<"thread cnode", p, t>>, 0)
      \/ g = Gift(<<"cnode", p>>, ThreadReply(n, t), <<"thread reply", p, t>>, 0)
SelfGift(p, g) ==
  \/ g = Gift(<<"cnode", p>>, SelfCNodeSlot, <<"cnode", p>>, 0)
  \/ g = Gift(<<"cnode", p>>, SelfTcbSlot, <<"tcb", p>>, 0)
  \/ g = Gift(<<"cnode", p>>, SchedControlSlot, <<"schedcontrol">>, 0)
Joins(cc, g) ==
  LET a == Named(cc.a)
      b == Named(cc.b)
  IN  \/ g = Gift(<<"cnode", a>>, NtfnSlot + cc.ida, <<"ntfn", b>>, NtfnBadge(cc.idb))
      \/ g = Gift(<<"cnode", b>>, NtfnSlot + cc.idb, <<"ntfn", a>>, NtfnBadge(cc.ida))
      \/ pds[b].pp /\ g = Gift(<<"cnode", a>>, EpSlot + cc.ida, <<"ep", b>>, PpcBadge(cc.idb))
      \/ pds[a].pp /\ g = Gift(<<"cnode", b>>, EpSlot + cc.idb, <<"ep", a>>, PpcBadge(cc.ida))

ChildGifts(g) == \E p \in DOMAIN pds : \E c \in Children(p) : ChildGift(p, c, g)
ThreadGifts(g) ==
  \E p \in DOMAIN pds : /\ pds[p].threads > 0
                        /\ \/ SelfGift(p, g)
                           \/ \E t \in Cardinality(Children(p))..pds[p].threads - 1 : ThreadGift(p, t, g)
JoinGifts(g) == \E cc \in ToSet(channels) : Joins(cc, g)

\* A mint that is performed once gives what it says.
LEMMA OnceDealt ==
  ASSUME NEW cnode \in Int, NEW dest \in Int, NEW src \in Int, NEW badge \in Int
  PROVE  /\ \A i : GiftOf(Mint(cnode, dest, src, badge), i) = Gift(CapOf(cnode).obj, dest, CapOf(src).obj, badge)
         /\ MintPart(Mint(cnode, dest, src, badge)) => Dealt(Gift(CapOf(cnode).obj, dest, CapOf(src).obj, badge))
         /\ \A i : GiftOf(Copy(cnode, dest, src), i) = Gift(CapOf(cnode).obj, dest, CapOf(src).obj, 0)
         /\ MintPart(Copy(cnode, dest, src)) => Dealt(Gift(CapOf(cnode).obj, dest, CapOf(src).obj, 0))
<1> DEFINE m == Mint(cnode, dest, src, badge)
           c == Copy(cnode, dest, src)
           g == Gift(CapOf(cnode).obj, dest, CapOf(src).obj, badge)
           h == Gift(CapOf(cnode).obj, dest, CapOf(src).obj, 0)
<1>1. m.count = 1 /\ \A i : GiftOf(m, i) = g
  BY OnceGift
<1>2. c.count = 1 /\ \A i : GiftOf(c, i) = h
  BY OnceGift
<1> HIDE DEF m, c, g, h
<1>3. 0 \in 0..m.count - 1 /\ 0 \in 0..c.count - 1
  BY <1>1, <1>2
<1>4. MintPart(m) => Dealt(g)
  BY <1>1, <1>3 DEF Dealt
<1>5. MintPart(c) => Dealt(h)
  BY <1>2, <1>3 DEF Dealt
<1> QED
  BY <1>1, <1>2, <1>4, <1>5 DEF m, c, g, h

LEMMA PlainObj == \A o : Plain(o).obj = o /\ Plain(o).badge = 0
BY DEF Plain

LEMMA CNodeCap ==
  ASSUME Final, NEW p \in DOMAIN pds
  PROVE  /\ CNode(p) \in Int /\ CapOf(CNode(p)).obj = <<"cnode", p>> /\ Tcb(p) \in Int /\ CapOf(Tcb(p)).obj = <<"tcb", p>>
         /\ Ntfn(p) \in Int /\ CapOf(Ntfn(p)).obj = <<"ntfn", p>> /\ VSpace(p) \in Int /\ CapOf(VSpace(p)).obj = <<"vspace", p>>
         /\ Sc(p) \in Int /\ CapOf(Sc(p)).obj = <<"sc", p>> /\ Reply(p) \in Int /\ CapOf(Reply(p)).obj = <<"reply", p>>
         /\ NeedsEp(p) => Ep(p) \in Int /\ CapOf(Ep(p)).obj = <<"ep", p>>
<1>1. \A type \in PdTypes : slotOf[<<type, p>>] \in Nat /\ CapOf(slotOf[<<type, p>>]) = Plain(<<type, p>>)
  BY PdCaps
<1>2. \A type \in PdTypes : slotOf[<<type, p>>] \in Int /\ CapOf(slotOf[<<type, p>>]).obj = <<type, p>>
  BY <1>1, PlainObj
<1>3. NeedsEp(p) => Ep(p) \in Int /\ CapOf(Ep(p)).obj = <<"ep", p>>
  <2> SUFFICES ASSUME NeedsEp(p)
               PROVE  Ep(p) \in Int /\ CapOf(Ep(p)).obj = <<"ep", p>>
    OBVIOUS
  <2>1. Ep(p) \in Nat /\ CapOf(Ep(p)) = Plain(<<"ep", p>>)
    BY EpCaps
  <2> QED
    BY <2>1, PlainObj
<1>4. {"tcb", "sc", "reply", "ntfn", "vspace", "cnode"} \subseteq PdTypes
  BY DEF PdTypes
<1> QED
  BY <1>2, <1>3, <1>4 DEF CNode, Tcb, Ntfn, VSpace, Sc, Reply

LEMMA SlotNumbers ==
  /\ {NtfnSlot, EpSlot, IrqSlot, TcbSlot} \subseteq Nat
  /\ \A n, t \in Nat : {ThreadSc(n, t), ThreadCSpace(n, t), ThreadReply(n, t), PdVSpace(n, t)} \subseteq Nat
BY SlotsAssumption DEF ThreadSc, ThreadCSpace, ThreadReply, PdVSpace

LEMMA InputGifts ==
  ASSUME Final
  PROVE  /\ \A inv : IsInput(inv) => \A i \in 0..inv.count - 1 : InputGift(GiftOf(inv, i))
         /\ \A g : InputGift(g) => Dealt(g)
<1> DEFINE inp(p) == Mint(CNode(p), InputSlot, IF NeedsEp(p) THEN Ep(p) ELSE Ntfn(p), 0)
           gift(p) == Gift(<<"cnode", p>>, InputSlot, IF NeedsEp(p) THEN <<"ep", p>> ELSE <<"ntfn", p>>, 0)
<1>1. ASSUME NEW p \in DOMAIN pds
      PROVE  /\ \A i : GiftOf(inp(p), i) = gift(p)
             /\ MintPart(inp(p)) => Dealt(gift(p))
  <2> DEFINE src == IF NeedsEp(p) THEN Ep(p) ELSE Ntfn(p)
             obj == IF NeedsEp(p) THEN <<"ep", p>> ELSE <<"ntfn", p>>
  <2>1. CNode(p) \in Int /\ CapOf(CNode(p)).obj = <<"cnode", p>> /\ src \in Int /\ CapOf(src).obj = obj
    BY CNodeCap
  <2>2. InputSlot \in Int /\ 0 \in Int
    BY DEF InputSlot
  <2>3. inp(p) = Mint(CNode(p), InputSlot, src, 0) /\ gift(p) = Gift(<<"cnode", p>>, InputSlot, obj, 0)
    OBVIOUS
  <2> HIDE DEF src, obj, inp, gift
  <2>4. /\ \A i : GiftOf(Mint(CNode(p), InputSlot, src, 0), i) = Gift(CapOf(CNode(p)).obj, InputSlot, CapOf(src).obj, 0)
        /\ MintPart(Mint(CNode(p), InputSlot, src, 0)) => Dealt(Gift(CapOf(CNode(p)).obj, InputSlot, CapOf(src).obj, 0))
    BY <2>1, <2>2, OnceDealt
  <2> QED
    BY <2>1, <2>3, <2>4
<1>2. \A inv : IsInput(inv) <=> \E p \in DOMAIN pds : inv = inp(p)
  BY DEF IsInput
<1>3. \A p \in DOMAIN pds : MintPart(inp(p))
  BY <1>2 DEF MintPart
<1>4. \A g : InputGift(g) <=> \E p \in DOMAIN pds : g = gift(p)
  BY DEF InputGift
<1> HIDE DEF inp, gift
<1> QED
  BY <1>1, <1>2, <1>3, <1>4

LEMMA RepliesAndSpaces ==
  ASSUME Final, NEW type \in PdTypes, NEW slot \in Int, NEW badge \in Int
  PROVE  LET inv == Repeat(Mint(CNode(1), slot, slotOf[<<type, 1>>], badge), Len(pds), [cnode |-> 1, src |-> 1])
         IN  /\ DOMAIN pds # {} => \A i \in 0..inv.count - 1 :
                  i + 1 \in DOMAIN pds /\ GiftOf(inv, i) = Gift(<<"cnode", i + 1>>, slot, <<type, i + 1>>, badge)
             /\ \A p \in DOMAIN pds : p - 1 \in 0..inv.count - 1 /\ (p - 1) + 1 = p
<1> DEFINE incr == [cnode |-> 1, src |-> 1]
           n == Len(pds)
           src == slotOf[<<type, 1>>]
           inv == Repeat(Do("Mint", [cnode |-> CNode(1), dest |-> slot, src |-> src, badge |-> badge]), n, incr)
           D == DOMAIN incr
<1>0. DOMAIN pds = 1..n /\ n \in Nat
  BY FinalPlan, Domains
<1> SUFFICES ASSUME DOMAIN pds # {}
             PROVE  /\ \A i \in 0..inv.count - 1 :
                       i + 1 \in DOMAIN pds /\ GiftOf(inv, i) = Gift(<<"cnode", i + 1>>, slot, <<type, i + 1>>, badge)
                    /\ \A p \in DOMAIN pds : p - 1 \in 0..inv.count - 1 /\ (p - 1) + 1 = p
  BY DEF Mint
<1>1. n > 0 /\ Times(n) = n
  BY <1>0 DEF Times
<1>2. CNode(1) \in Int /\ src \in Int
  BY <1>0, <1>1, PdCaps DEF CNode, PdTypes
<1>3. (\A f \in D : incr[f] = 1) /\ "cnode" \in D /\ "src" \in D /\ "dest" \notin D /\ "badge" \notin D
  OBVIOUS
<1> HIDE DEF incr, src, n, D
<1>4. /\ inv.count = Times(n)
      /\ \A i \in 0..Times(n) - 1 :
           GiftOf(inv, i) = Gift(CapOf(CNode(1) + By(i, "cnode", D)).obj, slot + By(i, "dest", D),
                                 CapOf(src + By(i, "src", D)).obj, badge + By(i, "badge", D))
  BY <1>0, <1>2, <1>3, RepeatGift DEF D
<1> HIDE DEF inv
<1>5. ASSUME NEW i \in 0..n - 1
      PROVE  i + 1 \in DOMAIN pds /\ GiftOf(inv, i) = Gift(<<"cnode", i + 1>>, slot, <<type, i + 1>>, badge)
  <2>1. By(i, "cnode", D) = i /\ By(i, "dest", D) = 0 /\ By(i, "src", D) = i /\ By(i, "badge", D) = 0
    BY <1>3 DEF By
  <2>2. slot + 0 = slot /\ badge + 0 = badge
    OBVIOUS
  <2>3. CapOf(CNode(1) + i) = Plain(<<"cnode", i + 1>>) /\ CapOf(src + i) = Plain(<<type, i + 1>>) /\ i + 1 \in DOMAIN pds
    BY PdCapsInRow DEF CNode, PdTypes, src, n
  <2>4. GiftOf(inv, i) = Gift(CapOf(CNode(1) + i).obj, slot, CapOf(src + i).obj, badge)
    BY <1>1, <1>4, <2>1, <2>2
  <2> QED
    BY <2>3, <2>4, PlainObj
<1>6. inv.count = n
  BY <1>1, <1>4
<1> QED
  BY <1>0, <1>5, <1>6

OnceGives(inv, g) == (\A i : GiftOf(inv, i) = g) /\ (MintPart(inv) => Dealt(g))

LEMMA OnceGivesWhat ==
  ASSUME NEW cnode \in Int, NEW dest \in Int, NEW src \in Int, NEW badge \in Int
  PROVE  /\ OnceGives(Mint(cnode, dest, src, badge), Gift(CapOf(cnode).obj, dest, CapOf(src).obj, badge))
         /\ OnceGives(Copy(cnode, dest, src), Gift(CapOf(cnode).obj, dest, CapOf(src).obj, 0))
BY OnceDealt DEF OnceGives

LEMMA ReplyGifts ==
  ASSUME Final
  PROVE  /\ \A inv : IsReply(inv) /\ DOMAIN pds # {} => \A i \in 0..inv.count - 1 : ReplyGift(GiftOf(inv, i))
         /\ \A g : ReplyGift(g) => Dealt(g)
         /\ \A inv : IsVSpace(inv) /\ DOMAIN pds # {} => \A i \in 0..inv.count - 1 : VSpaceGift(GiftOf(inv, i))
         /\ \A g : VSpaceGift(g) => Dealt(g)
<1> DEFINE rep == Repeat(Mint(CNode(1), ReplySlot, slotOf[<<"reply", 1>>], 1), Len(pds), [cnode |-> 1, src |-> 1])
           vsp == Repeat(Mint(CNode(1), VSpaceSlot, slotOf[<<"vspace", 1>>], 0), Len(pds), [cnode |-> 1, src |-> 1])
<1>1. /\ DOMAIN pds # {} => \A i \in 0..rep.count - 1 :
           i + 1 \in DOMAIN pds /\ GiftOf(rep, i) = Gift(<<"cnode", i + 1>>, ReplySlot, <<"reply", i + 1>>, 1)
      /\ \A p \in DOMAIN pds : p - 1 \in 0..rep.count - 1 /\ (p - 1) + 1 = p
  <2>1. "reply" \in PdTypes /\ ReplySlot \in Int /\ 1 \in Int
    BY DEF PdTypes, ReplySlot
  <2> QED
    BY <2>1, RepliesAndSpaces
<1>2. /\ DOMAIN pds # {} => \A i \in 0..vsp.count - 1 :
           i + 1 \in DOMAIN pds /\ GiftOf(vsp, i) = Gift(<<"cnode", i + 1>>, VSpaceSlot, <<"vspace", i + 1>>, 0)
      /\ \A p \in DOMAIN pds : p - 1 \in 0..vsp.count - 1 /\ (p - 1) + 1 = p
  <2>1. "vspace" \in PdTypes /\ VSpaceSlot \in Int /\ 0 \in Int
    BY DEF PdTypes, VSpaceSlot
  <2> QED
    BY <2>1, RepliesAndSpaces
<1>3. (\A inv : IsReply(inv) <=> inv = rep) /\ (\A inv : IsVSpace(inv) <=> inv = vsp)
  BY DEF IsReply, IsVSpace, Reply, VSpace
<1>4. MintPart(rep) /\ MintPart(vsp)
  BY <1>3 DEF MintPart
<1> HIDE DEF rep, vsp
<1>5. ASSUME NEW p \in DOMAIN pds
      PROVE  /\ Dealt(Gift(<<"cnode", p>>, ReplySlot, <<"reply", p>>, 1))
             /\ Dealt(Gift(<<"cnode", p>>, VSpaceSlot, <<"vspace", p>>, 0))
  <2>1. p - 1 \in 0..rep.count - 1 /\ (p - 1) + 1 = p /\ p - 1 \in 0..vsp.count - 1
    BY <1>1, <1>2
  <2>2. /\ GiftOf(rep, p - 1) = Gift(<<"cnode", (p - 1) + 1>>, ReplySlot, <<"reply", (p - 1) + 1>>, 1)
        /\ GiftOf(vsp, p - 1) = Gift(<<"cnode", (p - 1) + 1>>, VSpaceSlot, <<"vspace", (p - 1) + 1>>, 0)
    BY <1>1, <1>2, <2>1
  <2>3. GiftOf(rep, p - 1) = Gift(<<"cnode", p>>, ReplySlot, <<"reply", p>>, 1)
        /\ GiftOf(vsp, p - 1) = Gift(<<"cnode", p>>, VSpaceSlot, <<"vspace", p>>, 0)
    BY <2>1, <2>2
  <2> QED
    BY <1>4, <2>1, <2>3 DEF Dealt
<1>6. ASSUME DOMAIN pds # {}, NEW i
      PROVE  /\ i \in 0..rep.count - 1 => ReplyGift(GiftOf(rep, i))
             /\ i \in 0..vsp.count - 1 => VSpaceGift(GiftOf(vsp, i))
  <2>1. i \in 0..rep.count - 1 => i + 1 \in DOMAIN pds /\ GiftOf(rep, i) = Gift(<<"cnode", i + 1>>, ReplySlot, <<"reply", i + 1>>, 1)
    BY <1>1, <1>6
  <2>2. i \in 0..vsp.count - 1 => i + 1 \in DOMAIN pds /\ GiftOf(vsp, i) = Gift(<<"cnode", i + 1>>, VSpaceSlot, <<"vspace", i + 1>>, 0)
    BY <1>2, <1>6
  <2> QED
    BY <2>1, <2>2 DEF ReplyGift, VSpaceGift
<1>7. \A g : (ReplyGift(g) => Dealt(g)) /\ (VSpaceGift(g) => Dealt(g))
  BY <1>5 DEF ReplyGift, VSpaceGift
<1> QED
  BY <1>3, <1>6, <1>7

LEMMA IrqGifts ==
  ASSUME Final
  PROVE  /\ \A inv : IsIrqHandler(inv) => \A i \in 0..inv.count - 1 : IrqGift(GiftOf(inv, i))
         /\ \A g : IrqGift(g) => Dealt(g)
<1> DEFINE inv_(n) == Mint(CNode(IrqList[n].pd), IrqSlot + IrqList[n].id, IrqCap(n), 0)
           gift(n) == Gift(<<"cnode", IrqList[n].pd>>, IrqSlot + IrqList[n].id, <<"irq", IrqList[n].irq>>, 0)
<1>1. Laid
  BY FinalPlan
<1>2. ASSUME NEW n \in 1..Len(IrqList)
      PROVE  OnceGives(inv_(n), gift(n)) /\ IrqGift(gift(n))
  <2>1. PICK p \in DOMAIN pds : \E irq \in ToSet(pds[p].irqs) : IrqList[n] = [pd |-> p, irq |-> irq.irq, id |-> irq.id]
    BY <1>1, IrqListIs
  <2>2. PICK irq \in ToSet(pds[p].irqs) : IrqList[n] = [pd |-> p, irq |-> irq.irq, id |-> irq.id]
    BY <2>1
  <2>3. IrqList[n].pd = p /\ IrqList[n].irq = irq.irq /\ IrqList[n].id = irq.id
    BY <2>2
  <2>4. irq.id \in 0..62
    BY FinalPlan, IrqTyped
  <2>5. IrqSlot + IrqList[n].id \in Int
    <3>1. IrqSlot \in Nat
      BY SlotNumbers
    <3>2. \A a \in Nat : \A b \in 0..62 : a + b \in Int
      OBVIOUS
    <3>3. IrqList[n].id \in 0..62
      BY <2>3, <2>4
    <3> QED
      BY <3>1, <3>2, <3>3
  <2>6. IrqCap(n) \in Int /\ CapOf(IrqCap(n)).obj = <<"irq", IrqList[n].irq>>
    <3>1. IrqCap(n) \in Nat /\ CapOf(IrqCap(n)) = Plain(<<"irq", IrqList[n].irq>>)
      BY IrqCaps
    <3> QED
      BY <3>1, PlainObj
  <2>7. CNode(IrqList[n].pd) \in Int /\ CapOf(CNode(IrqList[n].pd)).obj = <<"cnode", IrqList[n].pd>>
    BY <2>3, CNodeCap
  <2>8. OnceGives(inv_(n), Gift(CapOf(CNode(IrqList[n].pd)).obj, IrqSlot + IrqList[n].id, CapOf(IrqCap(n)).obj, 0))
    BY <2>5, <2>6, <2>7, OnceGivesWhat
  <2>9. IrqGift(gift(n))
    BY <2>3 DEF IrqGift
  <2> QED
    BY <2>6, <2>7, <2>8, <2>9
<1>3. \A inv : IsIrqHandler(inv) <=> \E n \in 1..Len(IrqList) : inv = inv_(n)
  BY DEF IsIrqHandler
<1>4. ASSUME NEW g, IrqGift(g)
      PROVE  \E n \in 1..Len(IrqList) : g = gift(n)
  <2>1. PICK p \in DOMAIN pds : \E irq \in ToSet(pds[p].irqs) :
               g = Gift(<<"cnode", p>>, IrqSlot + irq.id, <<"irq", irq.irq>>, 0)
    BY <1>4 DEF IrqGift
  <2>2. PICK irq \in ToSet(pds[p].irqs) : g = Gift(<<"cnode", p>>, IrqSlot + irq.id, <<"irq", irq.irq>>, 0)
    BY <2>1
  <2>3. PICK n \in 1..Len(IrqList) : IrqList[n] = [pd |-> p, irq |-> irq.irq, id |-> irq.id]
    BY <1>1, IrqListIs
  <2>4. IrqList[n].pd = p /\ IrqList[n].irq = irq.irq /\ IrqList[n].id = irq.id
    BY <2>3
  <2>5. g = gift(n)
    BY <2>2, <2>4
  <2> HIDE DEF gift
  <2> QED
    BY <2>5
<1> HIDE DEF inv_, gift
<1>5. \A n \in 1..Len(IrqList) : MintPart(inv_(n))
  BY <1>3 DEF MintPart
<1> QED
  BY <1>2, <1>3, <1>4, <1>5 DEF OnceGives

LEMMA ChildNumbers ==
  ASSUME Final, NEW p \in DOMAIN pds, NEW c \in Children(p)
  PROVE  /\ c \in DOMAIN pds /\ NeedsEp(p)
         /\ RootEpSlot \in Int /\ RootPpcBadge(pds[c].pd_id) \in Int /\ TcbSlot + pds[c].pd_id \in Int
         /\ ThreadSc(pds[p].threads, pds[c].pd_id) \in Int /\ ThreadCSpace(pds[p].threads, pds[c].pd_id) \in Int
         /\ ThreadReply(pds[p].threads, pds[c].pd_id) \in Int /\ PdVSpace(pds[p].threads, pds[c].pd_id) \in Int
<1>1. c \in DOMAIN pds /\ NeedsEp(p)
  BY WhoNeedsEp
<1>2. pds[c].pd_id \in 0..255 /\ pds[p].threads \in Nat
  BY <1>1, FinalPlan, PdTyped
<1>3. pds[c].pd_id \in Nat /\ TcbSlot \in Nat
  BY <1>2, SlotNumbers
<1>4. RootEpSlot \in Int /\ RootPpcBadge(pds[c].pd_id) \in Int
  BY <1>3 DEF RootEpSlot, RootPpcBadge
<1> QED
  BY <1>1, <1>2, <1>3, <1>4 DEF ThreadSc, ThreadCSpace, ThreadReply, PdVSpace

LEMMA ChildGiftsAre ==
  ASSUME Final
  PROVE  /\ \A inv : IsChildMint(inv) => \A i \in 0..inv.count - 1 : ChildGifts(GiftOf(inv, i))
         /\ \A g : ChildGifts(g) => Dealt(g)
<1>1. ASSUME NEW p \in DOMAIN pds, NEW c \in Children(p)
      PROVE  LET id == pds[c].pd_id
                 n == pds[p].threads
             IN  /\ pds[p].root_ppc => OnceGives(Mint(CNode(c), RootEpSlot, Ep(p), RootPpcBadge(id)),
                                                 Gift(<<"cnode", c>>, RootEpSlot, <<"ep", p>>, RootPpcBadge(id)))
                 /\ OnceGives(Mint(CNode(p), TcbSlot + id, Tcb(c), 0), Gift(<<"cnode", p>>, TcbSlot + id, <<"tcb", c>>, 0))
                 /\ OnceGives(Mint(CNode(p), ThreadSc(n, id), Sc(c), 0), Gift(<<"cnode", p>>, ThreadSc(n, id), <<"sc", c>>, 0))
                 /\ OnceGives(Mint(CNode(p), ThreadCSpace(n, id), CNode(c), 0),
                              Gift(<<"cnode", p>>, ThreadCSpace(n, id), <<"cnode", c>>, 0))
                 /\ OnceGives(Copy(CNode(p), ThreadReply(n, id), Reply(c)),
                              Gift(<<"cnode", p>>, ThreadReply(n, id), <<"reply", c>>, 0))
                 /\ OnceGives(Mint(CNode(p), PdVSpace(n, id), VSpace(c), 0),
                              Gift(<<"cnode", p>>, PdVSpace(n, id), <<"vspace", c>>, 0))
  <2> DEFINE id == pds[c].pd_id
             n == pds[p].threads
  <2>1. c \in DOMAIN pds /\ NeedsEp(p)
    BY ChildNumbers
  <2>2. RootEpSlot \in Int /\ RootPpcBadge(id) \in Int /\ TcbSlot + id \in Int /\ ThreadSc(n, id) \in Int
        /\ ThreadCSpace(n, id) \in Int /\ ThreadReply(n, id) \in Int /\ PdVSpace(n, id) \in Int /\ 0 \in Int
    BY ChildNumbers
  <2> HIDE DEF id, n
  <2>3. /\ CNode(p) \in Int /\ CapOf(CNode(p)).obj = <<"cnode", p>>
        /\ Ep(p) \in Int /\ CapOf(Ep(p)).obj = <<"ep", p>>
    BY <2>1, CNodeCap
  <2>4. /\ CNode(c) \in Int /\ CapOf(CNode(c)).obj = <<"cnode", c>> /\ Tcb(c) \in Int /\ CapOf(Tcb(c)).obj = <<"tcb", c>>
        /\ VSpace(c) \in Int /\ CapOf(VSpace(c)).obj = <<"vspace", c>>
        /\ Sc(c) \in Int /\ CapOf(Sc(c)).obj = <<"sc", c>> /\ Reply(c) \in Int /\ CapOf(Reply(c)).obj = <<"reply", c>>
    BY <2>1, CNodeCap
  <2>5. OnceGives(Mint(CNode(c), RootEpSlot, Ep(p), RootPpcBadge(id)), Gift(<<"cnode", c>>, RootEpSlot, <<"ep", p>>, RootPpcBadge(id)))
    <3>1. OnceGives(Mint(CNode(c), RootEpSlot, Ep(p), RootPpcBadge(id)),
                    Gift(CapOf(CNode(c)).obj, RootEpSlot, CapOf(Ep(p)).obj, RootPpcBadge(id)))
      BY <2>2, <2>3, <2>4, OnceGivesWhat
    <3> QED
      BY <2>3, <2>4, <3>1
  <2>6. OnceGives(Mint(CNode(p), TcbSlot + id, Tcb(c), 0), Gift(<<"cnode", p>>, TcbSlot + id, <<"tcb", c>>, 0))
    <3>1. OnceGives(Mint(CNode(p), TcbSlot + id, Tcb(c), 0), Gift(CapOf(CNode(p)).obj, TcbSlot + id, CapOf(Tcb(c)).obj, 0))
      BY <2>2, <2>3, <2>4, OnceGivesWhat
    <3> QED
      BY <2>3, <2>4, <3>1
  <2>7. OnceGives(Mint(CNode(p), ThreadSc(n, id), Sc(c), 0), Gift(<<"cnode", p>>, ThreadSc(n, id), <<"sc", c>>, 0))
    <3>1. OnceGives(Mint(CNode(p), ThreadSc(n, id), Sc(c), 0), Gift(CapOf(CNode(p)).obj, ThreadSc(n, id), CapOf(Sc(c)).obj, 0))
      BY <2>2, <2>3, <2>4, OnceGivesWhat
    <3> QED
      BY <2>3, <2>4, <3>1
  <2>8. OnceGives(Mint(CNode(p), ThreadCSpace(n, id), CNode(c), 0), Gift(<<"cnode", p>>, ThreadCSpace(n, id), <<"cnode", c>>, 0))
    <3>1. OnceGives(Mint(CNode(p), ThreadCSpace(n, id), CNode(c), 0),
                    Gift(CapOf(CNode(p)).obj, ThreadCSpace(n, id), CapOf(CNode(c)).obj, 0))
      BY <2>2, <2>3, <2>4, OnceGivesWhat
    <3> QED
      BY <2>3, <2>4, <3>1
  <2>9. OnceGives(Copy(CNode(p), ThreadReply(n, id), Reply(c)), Gift(<<"cnode", p>>, ThreadReply(n, id), <<"reply", c>>, 0))
    <3>1. OnceGives(Copy(CNode(p), ThreadReply(n, id), Reply(c)), Gift(CapOf(CNode(p)).obj, ThreadReply(n, id), CapOf(Reply(c)).obj, 0))
      BY <2>2, <2>3, <2>4, OnceGivesWhat
    <3> QED
      BY <2>3, <2>4, <3>1
  <2>10. OnceGives(Mint(CNode(p), PdVSpace(n, id), VSpace(c), 0), Gift(<<"cnode", p>>, PdVSpace(n, id), <<"vspace", c>>, 0))
    <3>1. OnceGives(Mint(CNode(p), PdVSpace(n, id), VSpace(c), 0), Gift(CapOf(CNode(p)).obj, PdVSpace(n, id), CapOf(VSpace(c)).obj, 0))
      BY <2>2, <2>3, <2>4, OnceGivesWhat
    <3> QED
      BY <2>3, <2>4, <3>1
  <2> QED
    BY <2>5, <2>6, <2>7, <2>8, <2>9, <2>10 DEF id, n
<1>2. ASSUME NEW p \in DOMAIN pds, NEW c \in Children(p), NEW inv, ChildMint(p, c, inv)
      PROVE  \E g : ChildGift(p, c, g) /\ OnceGives(inv, g)
  BY Zenon, <1>1, <1>2 DEF ChildMint, ChildGift
<1>3. ASSUME NEW p \in DOMAIN pds, NEW c \in Children(p), NEW g, ChildGift(p, c, g)
      PROVE  \E inv : ChildMint(p, c, inv) /\ OnceGives(inv, g)
  BY Zenon, <1>1, <1>3 DEF ChildMint, ChildGift
<1>4. ASSUME NEW inv, IsChildMint(inv), NEW i
      PROVE  ChildGifts(GiftOf(inv, i))
  BY <1>2, <1>4 DEF IsChildMint, ChildGifts, OnceGives
<1>5. ASSUME NEW g, ChildGifts(g)
      PROVE  Dealt(g)
  <2>1. PICK p \in DOMAIN pds : \E c \in Children(p) : ChildGift(p, c, g)
    BY <1>5 DEF ChildGifts
  <2>2. PICK c \in Children(p) : ChildGift(p, c, g)
    BY <2>1
  <2>3. PICK inv : ChildMint(p, c, inv) /\ OnceGives(inv, g)
    BY <1>3, <2>2
  <2>4. MintPart(inv)
    BY <2>3 DEF MintPart, IsChildMint
  <2> QED
    BY <2>3, <2>4 DEF OnceGives
<1> QED
  BY <1>4, <1>5

\* The ends of a channel are PDs.
LEMMA EndsNamed ==
  ASSUME Final, NEW cc \in ToSet(channels)
  PROVE  /\ Named(cc.a) \in DOMAIN pds /\ pds[Named(cc.a)].name = cc.a
         /\ Named(cc.b) \in DOMAIN pds /\ pds[Named(cc.b)].name = cc.b
<1>1. {cc.a, cc.b} \subseteq PdNames
  BY FinalPlan DEF Accepted
<1>2. (\E p \in DOMAIN pds : pds[p].name = cc.a) /\ (\E p \in DOMAIN pds : pds[p].name = cc.b)
  BY <1>1 DEF PdNames
<1> QED
  BY <1>2 DEF Named

LEMMA JoinNumbers ==
  ASSUME Final, NEW cc \in ToSet(channels)
  PROVE  /\ NtfnSlot + cc.ida \in Int /\ NtfnSlot + cc.idb \in Int /\ EpSlot + cc.ida \in Int /\ EpSlot + cc.idb \in Int
         /\ NtfnBadge(cc.ida) \in Int /\ NtfnBadge(cc.idb) \in Int /\ PpcBadge(cc.ida) \in Int /\ PpcBadge(cc.idb) \in Int
<1>1. cc.ida \in 0..62 /\ cc.idb \in 0..62
  BY FinalPlan, ChannelTyped
<1>2. cc.ida \in Nat /\ cc.idb \in Nat
  BY <1>1
<1>3. NtfnSlot \in Nat /\ EpSlot \in Nat
  BY SlotNumbers
<1> QED
  BY <1>2, <1>3 DEF NtfnBadge, PpcBadge

LEMMA JoinGiftsAre ==
  ASSUME Final
  PROVE  /\ \A inv : IsChannel(inv) => \A i \in 0..inv.count - 1 : JoinGifts(GiftOf(inv, i))
         /\ \A g : JoinGifts(g) => Dealt(g)
<1>1. ASSUME NEW cc \in ToSet(channels)
      PROVE  LET a == Named(cc.a)
                 b == Named(cc.b)
             IN  /\ OnceGives(Mint(CNode(a), NtfnSlot + cc.ida, Ntfn(b), NtfnBadge(cc.idb)),
                              Gift(<<"cnode", a>>, NtfnSlot + cc.ida, <<"ntfn", b>>, NtfnBadge(cc.idb)))
                 /\ OnceGives(Mint(CNode(b), NtfnSlot + cc.idb, Ntfn(a), NtfnBadge(cc.ida)),
                              Gift(<<"cnode", b>>, NtfnSlot + cc.idb, <<"ntfn", a>>, NtfnBadge(cc.ida)))
                 /\ pds[b].pp => OnceGives(Mint(CNode(a), EpSlot + cc.ida, Ep(b), PpcBadge(cc.idb)),
                                           Gift(<<"cnode", a>>, EpSlot + cc.ida, <<"ep", b>>, PpcBadge(cc.idb)))
                 /\ pds[a].pp => OnceGives(Mint(CNode(b), EpSlot + cc.idb, Ep(a), PpcBadge(cc.ida)),
                                           Gift(<<"cnode", b>>, EpSlot + cc.idb, <<"ep", a>>, PpcBadge(cc.ida)))
  <2> DEFINE a == Named(cc.a)
             b == Named(cc.b)
             na == NtfnSlot + cc.ida
             nb == NtfnSlot + cc.idb
             ea == EpSlot + cc.ida
             eb == EpSlot + cc.idb
  <2>1. a \in DOMAIN pds /\ b \in DOMAIN pds
    BY EndsNamed
  <2>2. na \in Int /\ nb \in Int /\ ea \in Int /\ eb \in Int /\ NtfnBadge(cc.ida) \in Int /\ NtfnBadge(cc.idb) \in Int
        /\ PpcBadge(cc.ida) \in Int /\ PpcBadge(cc.idb) \in Int
    BY JoinNumbers
  <2>3. (pds[a].pp => NeedsEp(a)) /\ (pds[b].pp => NeedsEp(b))
    BY <2>1, WhoNeedsEp
  <2> HIDE DEF a, b, na, nb, ea, eb
  <2>4. /\ CNode(a) \in Int /\ CapOf(CNode(a)).obj = <<"cnode", a>> /\ Ntfn(a) \in Int /\ CapOf(Ntfn(a)).obj = <<"ntfn", a>>
        /\ CNode(b) \in Int /\ CapOf(CNode(b)).obj = <<"cnode", b>> /\ Ntfn(b) \in Int /\ CapOf(Ntfn(b)).obj = <<"ntfn", b>>
    BY <2>1, CNodeCap
  <2>5. /\ pds[a].pp => Ep(a) \in Int /\ CapOf(Ep(a)).obj = <<"ep", a>>
        /\ pds[b].pp => Ep(b) \in Int /\ CapOf(Ep(b)).obj = <<"ep", b>>
    BY <2>1, <2>3, CNodeCap
  <2>6. OnceGives(Mint(CNode(a), na, Ntfn(b), NtfnBadge(cc.idb)), Gift(<<"cnode", a>>, na, <<"ntfn", b>>, NtfnBadge(cc.idb)))
    <3>1. OnceGives(Mint(CNode(a), na, Ntfn(b), NtfnBadge(cc.idb)), Gift(CapOf(CNode(a)).obj, na, CapOf(Ntfn(b)).obj, NtfnBadge(cc.idb)))
      BY <2>2, <2>4, OnceGivesWhat
    <3> QED
      BY <2>4, <3>1
  <2>7. OnceGives(Mint(CNode(b), nb, Ntfn(a), NtfnBadge(cc.ida)), Gift(<<"cnode", b>>, nb, <<"ntfn", a>>, NtfnBadge(cc.ida)))
    <3>1. OnceGives(Mint(CNode(b), nb, Ntfn(a), NtfnBadge(cc.ida)), Gift(CapOf(CNode(b)).obj, nb, CapOf(Ntfn(a)).obj, NtfnBadge(cc.ida)))
      BY <2>2, <2>4, OnceGivesWhat
    <3> QED
      BY <2>4, <3>1
  <2>8. ASSUME pds[b].pp
        PROVE  OnceGives(Mint(CNode(a), ea, Ep(b), PpcBadge(cc.idb)), Gift(<<"cnode", a>>, ea, <<"ep", b>>, PpcBadge(cc.idb)))
    <3>1. Ep(b) \in Int /\ CapOf(Ep(b)).obj = <<"ep", b>>
      BY <2>5, <2>8
    <3>2. OnceGives(Mint(CNode(a), ea, Ep(b), PpcBadge(cc.idb)), Gift(CapOf(CNode(a)).obj, ea, CapOf(Ep(b)).obj, PpcBadge(cc.idb)))
      BY <2>2, <2>4, <3>1, OnceGivesWhat
    <3> QED
      BY <2>4, <3>1, <3>2
  <2>9. ASSUME pds[a].pp
        PROVE  OnceGives(Mint(CNode(b), eb, Ep(a), PpcBadge(cc.ida)), Gift(<<"cnode", b>>, eb, <<"ep", a>>, PpcBadge(cc.ida)))
    <3>1. Ep(a) \in Int /\ CapOf(Ep(a)).obj = <<"ep", a>>
      BY <2>5, <2>9
    <3>2. OnceGives(Mint(CNode(b), eb, Ep(a), PpcBadge(cc.ida)), Gift(CapOf(CNode(b)).obj, eb, CapOf(Ep(a)).obj, PpcBadge(cc.ida)))
      BY <2>2, <2>4, <3>1, OnceGivesWhat
    <3> QED
      BY <2>4, <3>1, <3>2
  <2> QED
    BY <2>6, <2>7, <2>8, <2>9 DEF a, b, na, nb, ea, eb
<1>2. ASSUME NEW cc \in ToSet(channels), NEW inv, ChannelMint(cc, inv)
      PROVE  \E g : Joins(cc, g) /\ OnceGives(inv, g)
  BY Zenon, <1>1, <1>2 DEF ChannelMint, Joins
<1>3. ASSUME NEW cc \in ToSet(channels), NEW g, Joins(cc, g)
      PROVE  \E inv : ChannelMint(cc, inv) /\ OnceGives(inv, g)
  BY Zenon, <1>1, <1>3 DEF ChannelMint, Joins
<1>4. ASSUME NEW inv, IsChannel(inv), NEW i
      PROVE  JoinGifts(GiftOf(inv, i))
  BY <1>2, <1>4 DEF IsChannel, JoinGifts, OnceGives
<1>5. ASSUME NEW g, JoinGifts(g)
      PROVE  Dealt(g)
  <2>1. PICK cc \in ToSet(channels) : Joins(cc, g)
    BY <1>5 DEF JoinGifts
  <2>2. PICK inv : ChannelMint(cc, inv) /\ OnceGives(inv, g)
    BY <1>3, <2>1
  <2>3. MintPart(inv)
    BY <2>2 DEF MintPart, IsChannel
  <2> QED
    BY <2>2, <2>3 DEF OnceGives
<1> QED
  BY <1>4, <1>5

\* An invocation gives the threads k to n - 1 each something.
RowGives(inv, k, n, h) ==
  /\ \A i \in 0..inv.count - 1 : k + i \in k..n - 1 /\ GiftOf(inv, i) = h[k + i]
  /\ \A t \in k..n - 1 : t - k \in 0..inv.count - 1 /\ k + (t - k) = t

LEMMA ObjectsInRow ==
  ASSUME Final, NEW p \in DOMAIN pds, pds[p].threads > 0, NEW type \in Types4, NEW slot \in Int, NEW op
  PROVE  LET k == Cardinality(Children(p))
             n == pds[p].threads
         IN  RowGives(Spawned(p, Do(op, [cnode |-> CNode(p), dest |-> slot + k, src |-> Thread(type, p, k), badge |-> 0]),
                              [dest |-> 1, src |-> 1]), k, n,
                      [t \in k..n - 1 |-> Gift(<<"cnode", p>>, slot + t, <<type, p, t>>, 0)])
<1> DEFINE k == Cardinality(Children(p))
           n == pds[p].threads
           m == Spawnable(p)
           src == Thread(type, p, k)
           incr == [dest |-> 1, src |-> 1]
           D == DOMAIN incr
           inv == Repeat(Do(op, [cnode |-> CNode(p), dest |-> slot + k, src |-> src, badge |-> 0]), m, incr)
           h == [t \in k..n - 1 |-> Gift(<<"cnode", p>>, slot + t, <<type, p, t>>, 0)]
<1>1. k \in Nat /\ n \in Nat /\ m \in Nat \ {0}
  BY FamilyOf
<1>2. /\ src \in Nat
      /\ \A i \in 0..Times(m) - 1 : CapOf(src + i) = Plain(<<type, p, k + i>>) /\ k + i \in k..n - 1
      /\ \A t \in k..n - 1 : t - k \in 0..Times(m) - 1 /\ k + (t - k) = t
  BY ThreadCapsInRow
<1>3. CNode(p) \in Int /\ CapOf(CNode(p)).obj = <<"cnode", p>>
  BY CNodeCap
<1>4. (\A f \in D : incr[f] = 1) /\ "src" \in D /\ "dest" \in D /\ "cnode" \notin D /\ "badge" \notin D
  OBVIOUS
<1>5. \A t \in k..n - 1 : h[t] = Gift(<<"cnode", p>>, slot + t, <<type, p, t>>, 0)
  OBVIOUS
<1>6. Spawned(p, Do(op, [cnode |-> CNode(p), dest |-> slot + k, src |-> src, badge |-> 0]), incr) = inv
  BY DEF Spawned
<1> HIDE DEF k, n, m, src, incr, D, h
<1>7. slot + k \in Int /\ src \in Int /\ 0 \in Int /\ m \in Int
  BY <1>1, <1>2
<1>8. /\ inv.count = Times(m)
      /\ \A i \in 0..Times(m) - 1 :
           GiftOf(inv, i) = Gift(CapOf(CNode(p) + By(i, "cnode", D)).obj, slot + k + By(i, "dest", D),
                                 CapOf(src + By(i, "src", D)).obj, 0 + By(i, "badge", D))
  BY <1>3, <1>4, <1>7, RepeatGift, SMTT(60) DEF D
<1> HIDE DEF inv
<1>9. ASSUME NEW i \in 0..Times(m) - 1
      PROVE  k + i \in k..n - 1 /\ GiftOf(inv, i) = h[k + i]
  <2>1. By(i, "cnode", D) = 0 /\ By(i, "dest", D) = i /\ By(i, "src", D) = i /\ By(i, "badge", D) = 0 /\ i \in Int
    BY <1>4 DEF By
  <2>2. CNode(p) + 0 = CNode(p) /\ 0 + 0 = 0 /\ slot + k + i = slot + (k + i)
    BY <1>1, <1>3, <2>1
  <2>3. GiftOf(inv, i) = Gift(CapOf(CNode(p)).obj, slot + (k + i), CapOf(src + i).obj, 0)
    BY <1>8, <2>1, <2>2
  <2>4. CapOf(src + i) = Plain(<<type, p, k + i>>) /\ k + i \in k..n - 1
    BY <1>2
  <2>5. GiftOf(inv, i) = Gift(<<"cnode", p>>, slot + (k + i), <<type, p, k + i>>, 0)
    BY <1>3, <2>3, <2>4, PlainObj
  <2> QED
    BY <1>5, <2>4, <2>5
<1>10. RowGives(inv, k, n, h)
  BY <1>2, <1>8, <1>9 DEF RowGives
<1>11. RowGives(Spawned(p, Do(op, [cnode |-> CNode(p), dest |-> slot + k, src |-> src, badge |-> 0]), incr), k, n, h)
  BY <1>6, <1>10
<1> QED
  BY <1>11 DEF k, n, src, incr, h

LEMMA EndpointsInRow ==
  ASSUME Final, NEW p \in DOMAIN pds, pds[p].threads > 0, NeedsEp(p)
  PROVE  LET k == Cardinality(Children(p))
             n == pds[p].threads
         IN  RowGives(Spawned(p, Mint(Thread("thread cnode", p, k), RootEpSlot, Ep(p), RootPpcBadge(k)),
                              [cnode |-> 1, badge |-> 1]), k, n,
                      [t \in k..n - 1 |-> Gift(<<"thread cnode", p, t>>, RootEpSlot, <<"ep", p>>, RootPpcBadge(t))])
<1> DEFINE k == Cardinality(Children(p))
           n == pds[p].threads
           m == Spawnable(p)
           to == Thread("thread cnode", p, k)
           src == Ep(p)
           incr == [cnode |-> 1, badge |-> 1]
           D == DOMAIN incr
           inv == Repeat(Do("Mint", [cnode |-> to, dest |-> RootEpSlot, src |-> src, badge |-> RootPpcBadge(k)]), m, incr)
           h == [t \in k..n - 1 |-> Gift(<<"thread cnode", p, t>>, RootEpSlot, <<"ep", p>>, RootPpcBadge(t))]
<1>1. k \in Nat /\ n \in Nat /\ m \in Nat \ {0}
  BY FamilyOf
<1>2. /\ to \in Nat
      /\ \A i \in 0..Times(m) - 1 : CapOf(to + i) = Plain(<<"thread cnode", p, k + i>>) /\ k + i \in k..n - 1
      /\ \A t \in k..n - 1 : t - k \in 0..Times(m) - 1 /\ k + (t - k) = t
  <2>1. "thread cnode" \in Types4
    <3>1. ThreadTypes[3] = "thread cnode" /\ 3 \in 1..4
      BY DEF ThreadTypes
    <3> QED
      BY <3>1 DEF Types4
  <2> QED
    BY <2>1, ThreadCapsInRow
<1>3. src \in Int /\ CapOf(src).obj = <<"ep", p>>
  BY CNodeCap
<1>4. (\A f \in D : incr[f] = 1) /\ "src" \notin D /\ "dest" \notin D /\ "cnode" \in D /\ "badge" \in D
  OBVIOUS
<1>5. \A t \in k..n - 1 : h[t] = Gift(<<"thread cnode", p, t>>, RootEpSlot, <<"ep", p>>, RootPpcBadge(t))
  OBVIOUS
<1>6. Spawned(p, Mint(to, RootEpSlot, src, RootPpcBadge(k)), incr) = inv
  BY DEF Spawned, Mint
<1> HIDE DEF k, n, m, to, src, incr, D, h
<1>7. RootEpSlot \in Int /\ to \in Int /\ RootPpcBadge(k) \in Int /\ m \in Int
  <2>1. RootEpSlot \in Int /\ RootPpcBadge(k) \in Int /\ m \in Int
    BY <1>1 DEF RootEpSlot, RootPpcBadge
  <2>2. to \in Int
    <3>1. to \in Nat
      BY Zenon, <1>2
    <3> QED
      BY <3>1
  <2> QED
    BY <2>1, <2>2
<1>8. /\ inv.count = Times(m)
      /\ \A i \in 0..Times(m) - 1 :
           GiftOf(inv, i) = Gift(CapOf(to + By(i, "cnode", D)).obj, RootEpSlot + By(i, "dest", D),
                                 CapOf(src + By(i, "src", D)).obj, RootPpcBadge(k) + By(i, "badge", D))
  BY <1>3, <1>4, <1>7, RepeatGift, SMTT(60) DEF D
<1> HIDE DEF inv
<1>9. ASSUME NEW i \in 0..Times(m) - 1
      PROVE  k + i \in k..n - 1 /\ GiftOf(inv, i) = h[k + i]
  <2>1. By(i, "cnode", D) = i /\ By(i, "dest", D) = 0 /\ By(i, "src", D) = 0 /\ By(i, "badge", D) = i /\ i \in Int
    BY <1>4 DEF By
  <2>2. src + 0 = src /\ RootEpSlot + 0 = RootEpSlot
    BY <1>3, <1>7
  <2>3. RootPpcBadge(k) + i = RootPpcBadge(k + i)
    BY <1>1, <2>1 DEF RootPpcBadge
  <2>4. GiftOf(inv, i) = Gift(CapOf(to + i).obj, RootEpSlot, CapOf(src).obj, RootPpcBadge(k + i))
    BY <1>8, <2>1, <2>2, <2>3
  <2>5. CapOf(to + i) = Plain(<<"thread cnode", p, k + i>>) /\ k + i \in k..n - 1
    BY <1>2
  <2>6. GiftOf(inv, i) = Gift(<<"thread cnode", p, k + i>>, RootEpSlot, <<"ep", p>>, RootPpcBadge(k + i))
    BY <1>3, <2>4, <2>5, PlainObj
  <2> QED
    BY <1>5, <2>5, <2>6
<1>10. RowGives(inv, k, n, h)
  BY <1>2, <1>8, <1>9 DEF RowGives
<1>11. RowGives(Spawned(p, Mint(to, RootEpSlot, src, RootPpcBadge(k)), incr), k, n, h)
  BY <1>6, <1>10
<1> QED
  BY <1>11 DEF k, n, to, src, incr, h

LEMMA FourTypes == {"thread tcb", "thread sc", "thread cnode", "thread reply"} \subseteq Types4
<1>1. ThreadTypes[1] = "thread tcb" /\ ThreadTypes[2] = "thread sc" /\ ThreadTypes[3] = "thread cnode" /\ ThreadTypes[4] = "thread reply"
  BY DEF ThreadTypes
<1>2. 1 \in 1..4 /\ 2 \in 1..4 /\ 3 \in 1..4 /\ 4 \in 1..4
  OBVIOUS
<1> QED
  BY <1>1, <1>2 DEF Types4

\* The slots of threads, from the slot of the first.
LEMMA ThreadSlotsFrom ==
  ASSUME NEW n \in Nat, NEW t \in Nat
  PROVE  /\ ThreadSc(n, t) = TcbSlot + n + t /\ ThreadCSpace(n, t) = TcbSlot + n * 2 + t
         /\ ThreadReply(n, t) = TcbSlot + n * 3 + t
         /\ TcbSlot \in Int /\ TcbSlot + n \in Int /\ TcbSlot + n * 2 \in Int /\ TcbSlot + n * 3 \in Int
<1>1. TcbSlot \in Nat
  BY SlotNumbers
<1> QED
  BY <1>1 DEF ThreadSc, ThreadCSpace, ThreadReply

\* What each of the invocations for the threads of a PD gives to them.
LEMMA ThreadRows ==
  ASSUME Final, NEW p \in DOMAIN pds, pds[p].threads > 0
  PROVE  LET n == pds[p].threads
             k == Cardinality(Children(p))
             Handed(slot, type) == Spawned(p, Mint(CNode(p), slot, Thread(type, p, k), 0), [dest |-> 1, src |-> 1])
         IN  /\ RowGives(Handed(TcbSlot + k, "thread tcb"), k, n,
                         [t \in k..n - 1 |-> Gift(<<"cnode", p>>, TcbSlot + t, <<"thread tcb", p, t>>, 0)])
             /\ RowGives(Handed(ThreadSc(n, k), "thread sc"), k, n,
                         [t \in k..n - 1 |-> Gift(<<"cnode", p>>, ThreadSc(n, t), <<"thread sc", p, t>>, 0)])
             /\ RowGives(Handed(ThreadCSpace(n, k), "thread cnode"), k, n,
                         [t \in k..n - 1 |-> Gift(<<"cnode", p>>, ThreadCSpace(n, t), <<"thread cnode", p, t>>, 0)])
             /\ RowGives(Spawned(p, Copy(CNode(p), ThreadReply(n, k), Thread("thread reply", p, k)), [dest |-> 1, src |-> 1]), k, n,
                         [t \in k..n - 1 |-> Gift(<<"cnode", p>>, ThreadReply(n, t), <<"thread reply", p, t>>, 0)])
<1> DEFINE n == pds[p].threads
           k == Cardinality(Children(p))
           row(type, slot) == [t \in k..n - 1 |-> Gift(<<"cnode", p>>, slot + t, <<type, p, t>>, 0)]
<1>1. k \in Nat /\ n \in Nat
  BY FamilyOf
<1>2. \A t \in k..n - 1 : t \in Nat
  BY <1>1
<1>3. /\ [t \in k..n - 1 |-> Gift(<<"cnode", p>>, ThreadSc(n, t), <<"thread sc", p, t>>, 0)] = row("thread sc", TcbSlot + n)
      /\ [t \in k..n - 1 |-> Gift(<<"cnode", p>>, ThreadCSpace(n, t), <<"thread cnode", p, t>>, 0)] = row("thread cnode", TcbSlot + n * 2)
      /\ [t \in k..n - 1 |-> Gift(<<"cnode", p>>, ThreadReply(n, t), <<"thread reply", p, t>>, 0)] = row("thread reply", TcbSlot + n * 3)
  BY <1>1, <1>2, ThreadSlotsFrom
<1>4. ThreadSc(n, k) = TcbSlot + n + k /\ ThreadCSpace(n, k) = TcbSlot + n * 2 + k /\ ThreadReply(n, k) = TcbSlot + n * 3 + k
      /\ TcbSlot \in Int /\ TcbSlot + n \in Int /\ TcbSlot + n * 2 \in Int /\ TcbSlot + n * 3 \in Int
  BY <1>1, ThreadSlotsFrom
<1>5. ASSUME NEW type \in Types4, NEW slot \in Int
      PROVE  /\ RowGives(Spawned(p, Mint(CNode(p), slot + k, Thread(type, p, k), 0), [dest |-> 1, src |-> 1]), k, n, row(type, slot))
             /\ RowGives(Spawned(p, Copy(CNode(p), slot + k, Thread(type, p, k)), [dest |-> 1, src |-> 1]), k, n, row(type, slot))
  BY ObjectsInRow DEF Mint, Copy
<1> HIDE DEF n, k, row
<1>6. RowGives(Spawned(p, Mint(CNode(p), TcbSlot + k, Thread("thread tcb", p, k), 0), [dest |-> 1, src |-> 1]), k, n, row("thread tcb", TcbSlot))
  BY <1>4, <1>5, FourTypes
<1>7. RowGives(Spawned(p, Mint(CNode(p), ThreadSc(n, k), Thread("thread sc", p, k), 0), [dest |-> 1, src |-> 1]), k, n, row("thread sc", TcbSlot + n))
  BY <1>4, <1>5, FourTypes
<1>8. RowGives(Spawned(p, Mint(CNode(p), ThreadCSpace(n, k), Thread("thread cnode", p, k), 0), [dest |-> 1, src |-> 1]), k, n, row("thread cnode", TcbSlot + n * 2))
  BY <1>4, <1>5, FourTypes
<1>9. RowGives(Spawned(p, Copy(CNode(p), ThreadReply(n, k), Thread("thread reply", p, k)), [dest |-> 1, src |-> 1]), k, n, row("thread reply", TcbSlot + n * 3))
  BY <1>4, <1>5, FourTypes
<1>10. /\ RowGives(Spawned(p, Mint(CNode(p), ThreadSc(n, k), Thread("thread sc", p, k), 0), [dest |-> 1, src |-> 1]), k, n,
                  [t \in k..n - 1 |-> Gift(<<"cnode", p>>, ThreadSc(n, t), <<"thread sc", p, t>>, 0)])
       /\ RowGives(Spawned(p, Mint(CNode(p), ThreadCSpace(n, k), Thread("thread cnode", p, k), 0), [dest |-> 1, src |-> 1]), k, n,
                  [t \in k..n - 1 |-> Gift(<<"cnode", p>>, ThreadCSpace(n, t), <<"thread cnode", p, t>>, 0)])
       /\ RowGives(Spawned(p, Copy(CNode(p), ThreadReply(n, k), Thread("thread reply", p, k)), [dest |-> 1, src |-> 1]), k, n,
                  [t \in k..n - 1 |-> Gift(<<"cnode", p>>, ThreadReply(n, t), <<"thread reply", p, t>>, 0)])
  BY Zenon, <1>3, <1>7, <1>8, <1>9
<1> QED
  BY <1>6, <1>10 DEF n, k, row

\* Threads call the PD only if it takes calls of children, which it has then.
LEMMA TakesCalls ==
  ASSUME Final, NEW p \in DOMAIN pds, pds[p].root_ppc
  PROVE  NeedsEp(p)
<1>1. Cardinality(Children(p)) > 0
  BY FamilyOf DEF Family
<1>2. Children(p) # {}
  BY <1>1, FS_EmptySet
<1> QED
  BY <1>2, WhoNeedsEp

LEMMA SelfGives ==
  ASSUME Final, NEW p \in DOMAIN pds
  PROVE  /\ OnceGives(Copy(CNode(p), SelfCNodeSlot, CNode(p)), Gift(<<"cnode", p>>, SelfCNodeSlot, <<"cnode", p>>, 0))
         /\ OnceGives(Copy(CNode(p), SelfTcbSlot, Tcb(p)), Gift(<<"cnode", p>>, SelfTcbSlot, <<"tcb", p>>, 0))
         /\ OnceGives(Copy(CNode(p), SchedControlSlot, SchedControl),
                      Gift(<<"cnode", p>>, SchedControlSlot, <<"schedcontrol">>, 0))
<1>1. CNode(p) \in Int /\ CapOf(CNode(p)).obj = <<"cnode", p>> /\ Tcb(p) \in Int /\ CapOf(Tcb(p)).obj = <<"tcb", p>>
  BY CNodeCap
<1>2. SelfCNodeSlot \in Int /\ SelfTcbSlot \in Int /\ SchedControlSlot \in Int /\ SchedControl \in Int /\ 0 \in Int
  BY DEF SelfCNodeSlot, SelfTcbSlot, SchedControlSlot, SchedControl
<1>3. CapOf(SchedControl).obj = <<"schedcontrol">>
  BY CapsOfInit, PlainObj
<1>4. /\ OnceGives(Copy(CNode(p), SelfCNodeSlot, CNode(p)), Gift(CapOf(CNode(p)).obj, SelfCNodeSlot, CapOf(CNode(p)).obj, 0))
      /\ OnceGives(Copy(CNode(p), SelfTcbSlot, Tcb(p)), Gift(CapOf(CNode(p)).obj, SelfTcbSlot, CapOf(Tcb(p)).obj, 0))
      /\ OnceGives(Copy(CNode(p), SchedControlSlot, SchedControl),
                   Gift(CapOf(CNode(p)).obj, SchedControlSlot, CapOf(SchedControl).obj, 0))
  BY <1>1, <1>2, OnceGivesWhat
<1> QED
  BY <1>1, <1>3, <1>4

\* What is minted for the init task itself.
ForInit(inv) == \A i \in 0..inv.count - 1 : GiftOf(inv, i).to = System

LEMMA MintsForInit ==
  ASSUME NEW dest, NEW src, NEW badge, NEW n \in Int
  PROVE  /\ ForInit(Mint(SystemCNode, dest, src, badge))
         /\ \A incr : "cnode" \notin DOMAIN incr => ForInit(Repeat(Mint(SystemCNode, dest, src, badge), n, incr))
<1> DEFINE args == [cnode |-> SystemCNode, dest |-> dest, src |-> src, badge |-> badge]
<1>1. args["cnode"] = SystemCNode /\ SystemCNode \in Int
  BY DEF SystemCNode
<1> HIDE DEF args
<1>2. ASSUME NEW inv, \A i \in 0..inv.count - 1 : Actual(inv, i, "cnode") = SystemCNode
      PROVE  ForInit(inv)
  BY <1>2, CapsOfInit, PlainObj, GiftIs DEF ForInit, GiftOf
<1>3. ForInit(Do("Mint", args))
  <2>1. \A f, i : args[f] \in Int => Actual(Do("Mint", args), i, f) = args[f]
    BY OnceActual
  <2> QED
    BY <1>1, <1>2, <2>1
<1>4. ASSUME NEW incr, "cnode" \notin DOMAIN incr
      PROVE  ForInit(Repeat(Do("Mint", args), n, incr))
  <2> DEFINE inv == Repeat(Do("Mint", args), n, incr)
  <2>1. inv.count = Times(n)
        /\ \A i \in 0..Times(n) - 1 : \A f : args[f] \in Int =>
             /\ f \notin DOMAIN incr => Actual(inv, i, f) = args[f]
             /\ f \in DOMAIN incr /\ incr[f] = 1 => Actual(inv, i, f) = args[f] + i
    BY RepeatActual
  <2> HIDE DEF inv
  <2>2. \A i \in 0..inv.count - 1 : Actual(inv, i, "cnode") = SystemCNode
    BY <1>1, <1>4, <2>1
  <2>3. ForInit(inv)
    BY <1>2, <2>2
  <2> QED
    BY <2>3 DEF inv
<1> QED
  BY <1>3, <1>4 DEF Mint, args

LEMMA InitGifts ==
  ASSUME Final, NEW inv, IsPageMint(inv) \/ IsIrqNtfn(inv) \/ IsPdFault(inv)
  PROVE  ForInit(inv)
<1>0. 0 \in Int
  OBVIOUS
<1>1. CASE IsPageMint(inv)
  <2>1. PICK n \in 1..Len(maps) : inv = Repeat(Mint(SystemCNode, FrameCap(n), slotOf[<<"page", maps[n].mr.name, 1>>], 0),
                                               maps[n].mr.count, [dest |-> 1, src |-> 1])
    BY <1>1 DEF IsPageMint
  <2> DEFINE incr == [dest |-> 1, src |-> 1]
             count == maps[n].mr.count
             src == slotOf[<<"page", maps[n].mr.name, 1>>]
  <2>2. count \in Int
    <3>1. DOMAIN maps = 1..Len(maps)
      BY FinalPlan, Domains
    <3>2. maps[n] \in ToSet(maps)
      BY <3>1 DEF ToSet
    <3> QED
      BY <3>2, FinalPlan DEF Ready, MapsOk, RegionOk
  <2>3. "cnode" \notin DOMAIN incr
    OBVIOUS
  <2>4. inv = Repeat(Mint(SystemCNode, FrameCap(n), src, 0), count, incr)
    BY <2>1
  <2> HIDE DEF incr, count, src
  <2> QED
    BY <2>2, <2>3, <2>4, MintsForInit
<1>2. CASE IsIrqNtfn(inv)
  BY <1>0, <1>2, MintsForInit DEF IsIrqNtfn
<1>3. CASE IsPdFault(inv)
  <2>1. PICK p \in DOMAIN pds :
               inv = IF Parented(p) THEN Mint(SystemCNode, FaultCap(p), Ep(pds[p].parent), FaultBadge(pds[p].pd_id))
                                    ELSE Mint(SystemCNode, FaultCap(p), Ep(p), FaultRootBadge)
    BY <1>3 DEF IsPdFault
  <2>2. CASE Parented(p)
    <3>1. inv = Mint(SystemCNode, FaultCap(p), Ep(pds[p].parent), FaultBadge(pds[p].pd_id))
      BY <2>1, <2>2
    <3> QED
      BY <1>0, <3>1, MintsForInit
  <2>3. CASE ~Parented(p)
    <3>1. inv = Mint(SystemCNode, FaultCap(p), Ep(p), FaultRootBadge)
      BY <2>1, <2>3
    <3> QED
      BY <1>0, <3>1, MintsForInit
  <2> QED
    BY <2>2, <2>3
<1> QED
  BY <1>1, <1>2, <1>3

LEMMA RowIs ==
  ASSUME NEW inv, NEW k \in Int, NEW n \in Int, NEW h, RowGives(inv, k, n, h), MintPart(inv)
  PROVE  /\ \A i \in 0..inv.count - 1 : \E t \in k..n - 1 : GiftOf(inv, i) = h[t]
         /\ \A t \in k..n - 1 : Dealt(h[t])
<1>1. ASSUME NEW i \in 0..inv.count - 1
      PROVE  \E t \in k..n - 1 : GiftOf(inv, i) = h[t]
  BY DEF RowGives
<1>2. ASSUME NEW t \in k..n - 1
      PROVE  Dealt(h[t])
  <2>1. t - k \in 0..inv.count - 1 /\ k + (t - k) = t
    BY DEF RowGives
  <2>2. GiftOf(inv, t - k) = h[k + (t - k)]
    BY <2>1 DEF RowGives
  <2>3. h[k + (t - k)] = h[t]
    BY <2>1
  <2> QED
    BY <2>1, <2>2, <2>3 DEF Dealt
<1> QED
  BY <1>1, <1>2

LEMMA ThreadGiftsAre ==
  ASSUME Final, NEW p \in DOMAIN pds, pds[p].threads > 0
  PROVE  /\ \A inv : ThreadMint(p, inv) => \A i \in 0..inv.count - 1 : ThreadGifts(GiftOf(inv, i)) \/ GiftOf(inv, i).to = System
         /\ \A g : SelfGift(p, g) => Dealt(g)
         /\ \A t \in Cardinality(Children(p))..pds[p].threads - 1 : \A g : ThreadGift(p, t, g) => Dealt(g)
<1> DEFINE n == pds[p].threads
           k == Cardinality(Children(p))
           Handed(slot, type) == Spawned(p, Mint(CNode(p), slot, Thread(type, p, k), 0), [dest |-> 1, src |-> 1])
           ep == Spawned(p, Mint(Thread("thread cnode", p, k), RootEpSlot, Ep(p), RootPpcBadge(k)), [cnode |-> 1, badge |-> 1])
           fault == Spawned(p, Mint(SystemCNode, ThreadFaultCap(p), Ep(p), FaultBadge(k)), [dest |-> 1, badge |-> 1])
           tcb == Handed(TcbSlot + k, "thread tcb")
           sc == Handed(ThreadSc(n, k), "thread sc")
           cnode == Handed(ThreadCSpace(n, k), "thread cnode")
           reply == Spawned(p, Copy(CNode(p), ThreadReply(n, k), Thread("thread reply", p, k)), [dest |-> 1, src |-> 1])
           self1 == Copy(CNode(p), SelfCNodeSlot, CNode(p))
           self2 == Copy(CNode(p), SelfTcbSlot, Tcb(p))
           self3 == Copy(CNode(p), SchedControlSlot, SchedControl)
           hep == [t \in k..n - 1 |-> Gift(<<"thread cnode", p, t>>, RootEpSlot, <<"ep", p>>, RootPpcBadge(t))]
           htcb == [t \in k..n - 1 |-> Gift(<<"cnode", p>>, TcbSlot + t, <<"thread tcb", p, t>>, 0)]
           hsc == [t \in k..n - 1 |-> Gift(<<"cnode", p>>, ThreadSc(n, t), <<"thread sc", p, t>>, 0)]
           hcnode == [t \in k..n - 1 |-> Gift(<<"cnode", p>>, ThreadCSpace(n, t), <<"thread cnode", p, t>>, 0)]
           hreply == [t \in k..n - 1 |-> Gift(<<"cnode", p>>, ThreadReply(n, t), <<"thread reply", p, t>>, 0)]
           g1 == Gift(<<"cnode", p>>, SelfCNodeSlot, <<"cnode", p>>, 0)
           g2 == Gift(<<"cnode", p>>, SelfTcbSlot, <<"tcb", p>>, 0)
           g3 == Gift(<<"cnode", p>>, SchedControlSlot, <<"schedcontrol">>, 0)
<1>1. k \in Int /\ n \in Int
  BY FamilyOf
<1>2. \A inv : ThreadMint(p, inv) <=> \/ (pds[p].root_ppc /\ inv = ep) \/ inv = fault \/ inv = tcb \/ inv = sc \/ inv = cnode
                                      \/ inv = reply \/ inv = self1 \/ inv = self2 \/ inv = self3
  BY Zenon DEF ThreadMint
<1>3. RowGives(tcb, k, n, htcb) /\ RowGives(sc, k, n, hsc) /\ RowGives(cnode, k, n, hcnode) /\ RowGives(reply, k, n, hreply)
  BY ThreadRows
<1>4. pds[p].root_ppc => RowGives(ep, k, n, hep)
  BY TakesCalls, EndpointsInRow
<1>5. OnceGives(self1, g1) /\ OnceGives(self2, g2) /\ OnceGives(self3, g3)
  BY SelfGives
<1>6. ForInit(fault)
  <2> DEFINE incr == [dest |-> 1, badge |-> 1]
             m == Spawnable(p)
  <2>1. "cnode" \notin DOMAIN incr
    OBVIOUS
  <2>2. m \in Int
    BY FamilyOf
  <2>3. fault = Repeat(Mint(SystemCNode, ThreadFaultCap(p), Ep(p), FaultBadge(k)), m, incr)
    BY DEF Spawned
  <2> HIDE DEF incr, m, fault, k
  <2> QED
    BY <2>1, <2>2, <2>3, MintsForInit
<1>7. \A g : SelfGift(p, g) <=> g = g1 \/ g = g2 \/ g = g3
  BY Zenon DEF SelfGift
<1>8. /\ \A t \in k..n - 1 : htcb[t] = Gift(<<"cnode", p>>, TcbSlot + t, <<"thread tcb", p, t>>, 0)
      /\ \A t \in k..n - 1 : hsc[t] = Gift(<<"cnode", p>>, ThreadSc(n, t), <<"thread sc", p, t>>, 0)
      /\ \A t \in k..n - 1 : hcnode[t] = Gift(<<"cnode", p>>, ThreadCSpace(n, t), <<"thread cnode", p, t>>, 0)
      /\ \A t \in k..n - 1 : hreply[t] = Gift(<<"cnode", p>>, ThreadReply(n, t), <<"thread reply", p, t>>, 0)
      /\ \A t \in k..n - 1 : hep[t] = Gift(<<"thread cnode", p, t>>, RootEpSlot, <<"ep", p>>, RootPpcBadge(t))
  OBVIOUS
<1> HIDE DEF htcb, hsc, hcnode, hreply, hep, g1, g2, g3, tcb, sc, cnode, reply, ep, fault, self1, self2, self3, Handed
<1>9. ASSUME NEW t \in k..n - 1, NEW g
      PROVE  ThreadGift(p, t, g) <=> \/ (pds[p].root_ppc /\ g = hep[t]) \/ g = htcb[t] \/ g = hsc[t] \/ g = hcnode[t] \/ g = hreply[t]
  <2>1. /\ htcb[t] = Gift(<<"cnode", p>>, TcbSlot + t, <<"thread tcb", p, t>>, 0)
        /\ hsc[t] = Gift(<<"cnode", p>>, ThreadSc(n, t), <<"thread sc", p, t>>, 0)
        /\ hcnode[t] = Gift(<<"cnode", p>>, ThreadCSpace(n, t), <<"thread cnode", p, t>>, 0)
        /\ hreply[t] = Gift(<<"cnode", p>>, ThreadReply(n, t), <<"thread reply", p, t>>, 0)
        /\ hep[t] = Gift(<<"thread cnode", p, t>>, RootEpSlot, <<"ep", p>>, RootPpcBadge(t))
    BY <1>8
  <2> QED
    BY Zenon, <2>1 DEF ThreadGift
<1>10. /\ MintPart(tcb) /\ MintPart(sc) /\ MintPart(cnode) /\ MintPart(reply)
       /\ MintPart(self1) /\ MintPart(self2) /\ MintPart(self3) /\ (pds[p].root_ppc => MintPart(ep))
  BY <1>2 DEF MintPart, IsThreadMint
<1> HIDE DEF k, n
<1>11. /\ \A i \in 0..tcb.count - 1 : \E t \in k..n - 1 : GiftOf(tcb, i) = htcb[t]
       /\ \A t \in k..n - 1 : Dealt(htcb[t])
       /\ \A i \in 0..sc.count - 1 : \E t \in k..n - 1 : GiftOf(sc, i) = hsc[t]
       /\ \A t \in k..n - 1 : Dealt(hsc[t])
       /\ \A i \in 0..cnode.count - 1 : \E t \in k..n - 1 : GiftOf(cnode, i) = hcnode[t]
       /\ \A t \in k..n - 1 : Dealt(hcnode[t])
       /\ \A i \in 0..reply.count - 1 : \E t \in k..n - 1 : GiftOf(reply, i) = hreply[t]
       /\ \A t \in k..n - 1 : Dealt(hreply[t])
  BY <1>1, <1>3, <1>10, RowIs
<1>12. pds[p].root_ppc => /\ \A i \in 0..ep.count - 1 : \E t \in k..n - 1 : GiftOf(ep, i) = hep[t]
                          /\ \A t \in k..n - 1 : Dealt(hep[t])
  BY <1>1, <1>4, <1>10, RowIs
<1>13. \A t \in k..n - 1 : \A g : ThreadGift(p, t, g) => Dealt(g)
  BY <1>9, <1>11, <1>12
<1>14. \A g : SelfGift(p, g) => Dealt(g)
  BY <1>5, <1>7, <1>10 DEF OnceGives
<1>15. \A g : (\E t \in k..n - 1 : ThreadGift(p, t, g)) \/ SelfGift(p, g) => ThreadGifts(g)
  BY DEF ThreadGifts, k, n
<1>16. ASSUME NEW inv, ThreadMint(p, inv), NEW i \in 0..inv.count - 1
       PROVE  ThreadGifts(GiftOf(inv, i)) \/ GiftOf(inv, i).to = System
  <2>1. CASE inv = fault
    BY <1>6, <1>16, <2>1 DEF ForInit
  <2>2. CASE inv \in {self1, self2, self3}
    BY <1>5, <1>7, <1>15, <2>2 DEF OnceGives
  <2>3. CASE inv = tcb
    BY <1>9, <1>11, <1>15, <1>16, <2>3
  <2>4. CASE inv = sc
    BY <1>9, <1>11, <1>15, <1>16, <2>4
  <2>5. CASE inv = cnode
    BY <1>9, <1>11, <1>15, <1>16, <2>5
  <2>6. CASE inv = reply
    BY <1>9, <1>11, <1>15, <1>16, <2>6
  <2>7. CASE pds[p].root_ppc /\ inv = ep
    BY <1>9, <1>12, <1>15, <1>16, <2>7
  <2> QED
    BY <1>2, <1>16, <2>1, <2>2, <2>3, <2>4, <2>5, <2>6, <2>7
<1> QED
  BY <1>13, <1>14, <1>16 DEF k, n

GiftKinds(g) ==
  InputGift(g) \/ ReplyGift(g) \/ VSpaceGift(g) \/ IrqGift(g) \/ ChildGifts(g) \/ ThreadGifts(g) \/ JoinGifts(g)

\* The capabilities of PDs and threads are these gifts, and no others.
LEMMA CapsAreGifts ==
  ASSUME Final
  PROVE  /\ \A g : GiftKinds(g) => Has(g.to, g.slot, g.cap)
         /\ DOMAIN pds # {} =>
              \A c \in DOMAIN kernel.cspace \ {System} : \A slot \in DOMAIN kernel.cspace[c] :
                GiftKinds([to |-> c, slot |-> slot, cap |-> kernel.cspace[c][slot]])
<1>1. ASSUME NEW g, ThreadGifts(g)
      PROVE  Dealt(g)
  <2>1. PICK p \in DOMAIN pds : /\ pds[p].threads > 0
                                /\ \/ SelfGift(p, g)
                                   \/ \E t \in Cardinality(Children(p))..pds[p].threads - 1 : ThreadGift(p, t, g)
    BY <1>1 DEF ThreadGifts
  <2> QED
    BY <2>1, ThreadGiftsAre
<1>2. \A g : GiftKinds(g) => Dealt(g)
  BY <1>1, InputGifts, ReplyGifts, IrqGifts, ChildGiftsAre, JoinGiftsAre DEF GiftKinds
<1>3. ASSUME DOMAIN pds # {}, NEW inv, MintPart(inv), NEW i \in 0..inv.count - 1, GiftOf(inv, i).to # System
      PROVE  GiftKinds(GiftOf(inv, i))
  <2>1. CASE IsPageMint(inv) \/ IsIrqNtfn(inv) \/ IsPdFault(inv)
    BY <1>3, <2>1, InitGifts DEF ForInit
  <2>2. CASE IsInput(inv)
    BY <1>3, <2>2, InputGifts DEF GiftKinds
  <2>3. CASE IsReply(inv) /\ DOMAIN pds # {}
    BY <1>3, <2>3, ReplyGifts DEF GiftKinds
  <2>4. CASE IsVSpace(inv) /\ DOMAIN pds # {}
    BY <1>3, <2>4, ReplyGifts DEF GiftKinds
  <2>5. CASE IsIrqHandler(inv)
    BY <1>3, <2>5, IrqGifts DEF GiftKinds
  <2>6. CASE IsChildMint(inv)
    BY <1>3, <2>6, ChildGiftsAre DEF GiftKinds
  <2>7. CASE IsThreadMint(inv)
    <3>1. PICK p \in DOMAIN pds : pds[p].threads > 0 /\ ThreadMint(p, inv)
      BY <2>7 DEF IsThreadMint
    <3>2. ThreadGifts(GiftOf(inv, i)) \/ GiftOf(inv, i).to = System
      BY <1>3, <3>1, ThreadGiftsAre
    <3> QED
      BY <1>3, <3>2 DEF GiftKinds
  <2>8. CASE IsChannel(inv)
    BY <1>3, <2>8, JoinGiftsAre DEF GiftKinds
  <2> QED
    BY <1>3, <2>1, <2>2, <2>3, <2>4, <2>5, <2>6, <2>7, <2>8 DEF MintPart
<1>4. ASSUME DOMAIN pds # {}, NEW c \in DOMAIN kernel.cspace \ {System}, NEW slot \in DOMAIN kernel.cspace[c]
      PROVE  GiftKinds([to |-> c, slot |-> slot, cap |-> kernel.cspace[c][slot]])
  <2> DEFINE g == [to |-> c, slot |-> slot, cap |-> kernel.cspace[c][slot]]
  <2>1. Dealt(g) /\ g.to # System
    BY GiftOnly
  <2> HIDE DEF g
  <2>2. GiftKinds(g)
    BY <1>3, <1>4, <2>1 DEF Dealt
  <2> QED
    BY <2>2 DEF g
<1> QED
  BY <1>2, <1>4, GiftThere

-----------------------------------------------------------------------------
(* No PD holds what the description does not give it *)

\* The CSpace of a PD has the gifts to it.
LEMMA HeldIs ==
  ASSUME Final, NEW p \in DOMAIN pds
  PROVE  /\ <<"cnode", p>> \in DOMAIN kernel.cspace \ {System}
         /\ \A slot \in DOMAIN Held(p) : GiftKinds([to |-> <<"cnode", p>>, slot |-> slot, cap |-> Held(p)[slot]])
<1> DEFINE g == Gift(<<"cnode", p>>, VSpaceSlot, <<"vspace", p>>, 0)
<1>1. GiftKinds(g)
  BY DEF GiftKinds, VSpaceGift
<1>2. g.to = <<"cnode", p>>
  BY GiftIs
<1> HIDE DEF g
<1>3. <<"cnode", p>> \in DOMAIN kernel.cspace
  BY <1>1, <1>2, CapsAreGifts DEF Has
<1>4. <<"cnode", p>> # System
  BY DEF System
<1> QED
  BY <1>3, <1>4, CapsAreGifts DEF Held

\* Where a gift is and what it is.
LEMMA GiftEquals ==
  \A g, to, slot, obj, badge : g = Gift(to, slot, obj, badge) => g.to = to /\ g.slot = slot /\ g.cap.obj = obj
BY DEF Gift, Sealed

\* What a PD may hold.
LEMMA SameCNode == \A x, y : <<"cnode", x>> = <<"cnode", y>> => x = y
OBVIOUS

LEMMA LinkGranted ==
  ASSUME NEW p, NEW q \in DOMAIN pds, Linked(p, q)
  PROVE  <<"ntfn", q>> \in Granted(p) /\ (pds[q].pp => <<"ep", q>> \in Granted(p))
BY DEF Granted

LEMMA GrantedHas ==
  ASSUME NEW p
  PROVE  /\ \A type \in {"reply", "vspace", "ep", "ntfn"} : <<type, p>> \in Granted(p)
         /\ \A irq \in ToSet(pds[p].irqs) : <<"irq", irq.irq>> \in Granted(p)
         /\ \A q \in DOMAIN pds : q = pds[p].parent /\ pds[q].root_ppc => <<"ep", q>> \in Granted(p)
         /\ \A c \in Children(p) : <<"tcb", c>> \in Granted(p)
         /\ pds[p].threads # 0 =>
              /\ {<<"cnode", p>>, <<"tcb", p>>, <<"schedcontrol">>} \subseteq Granted(p)
              /\ \A type \in {"sc", "cnode", "reply", "vspace"} : \A c \in Children(p) : <<type, c>> \in Granted(p)
              /\ \A type \in Types4 : \A t \in Cardinality(Children(p))..pds[p].threads - 1 : <<type, p, t>> \in Granted(p)
<1>1. /\ \A type \in {"reply", "vspace", "ep", "ntfn"} : <<type, p>> \in Granted(p)
      /\ \A irq \in ToSet(pds[p].irqs) : <<"irq", irq.irq>> \in Granted(p)
      /\ \A q \in DOMAIN pds : q = pds[p].parent /\ pds[q].root_ppc => <<"ep", q>> \in Granted(p)
      /\ \A c \in Children(p) : <<"tcb", c>> \in Granted(p)
  BY DEF Granted
<1>2. ASSUME pds[p].threads # 0
      PROVE  /\ {<<"cnode", p>>, <<"tcb", p>>, <<"schedcontrol">>} \subseteq Granted(p)
             /\ \A type \in {"sc", "cnode", "reply", "vspace"} : \A c \in Children(p) : <<type, c>> \in Granted(p)
  BY <1>2 DEF Granted
<1>3. ASSUME pds[p].threads # 0, NEW type \in Types4, NEW t \in Cardinality(Children(p))..pds[p].threads - 1
      PROVE  <<type, p, t>> \in Granted(p)
  <2>1. Types4 = ToSet(ThreadTypes)
    <3>1. DOMAIN ThreadTypes = 1..4
      BY DEF ThreadTypes
    <3> QED
      BY <3>1 DEF Types4, ToSet
  <2>2. type \in ToSet(ThreadTypes)
    BY <2>1
  <2> QED
    BY <1>3, <2>2 DEF Granted
<1> QED
  BY <1>1, <1>2, <1>3

LEMMA ChildGranted ==
  ASSUME Final, NEW p \in DOMAIN pds, NEW g, ChildGifts(g), g.to = <<"cnode", p>>
  PROVE  g.cap.obj \in Granted(p)
<1>1. PICK q \in DOMAIN pds : \E c \in Children(q) : ChildGift(q, c, g)
  BY DEF ChildGifts
<1>2. PICK c \in Children(q) : ChildGift(q, c, g)
  BY <1>1
<1>3. c \in DOMAIN pds /\ pds[c].parent = q
  BY DEF Children
<1> DEFINE n == pds[q].threads
           id == pds[c].pd_id
<1>4. CASE pds[q].root_ppc /\ g = Gift(<<"cnode", c>>, RootEpSlot, <<"ep", q>>, RootPpcBadge(id))
  <2>1. g.to = <<"cnode", c>> /\ g.cap.obj = <<"ep", q>>
    BY <1>4, GiftEquals
  <2>2. c = p
    BY <2>1
  <2> QED
    BY <1>3, <1>4, <2>1, <2>2, GrantedHas
<1>5. CASE g = Gift(<<"cnode", q>>, TcbSlot + id, <<"tcb", c>>, 0)
  <2>1. g.to = <<"cnode", q>> /\ g.cap.obj = <<"tcb", c>>
    BY <1>5, GiftEquals
  <2>2. q = p
    BY <2>1, SameCNode
  <2>3. \A x \in Children(p) : <<"tcb", x>> \in Granted(p)
    BY GrantedHas
  <2> QED
    BY <2>1, <2>2, <2>3
<1>6. CASE n > 0 /\ \E slot, type : type \in {"sc", "cnode", "reply", "vspace"} /\ g = Gift(<<"cnode", q>>, slot, <<type, c>>, 0)
  <2>1. PICK type \in {"sc", "cnode", "reply", "vspace"} : \E slot : g = Gift(<<"cnode", q>>, slot, <<type, c>>, 0)
    BY <1>6
  <2>2. g.to = <<"cnode", q>> /\ g.cap.obj = <<type, c>>
    BY <2>1, GiftEquals
  <2>3. q = p /\ pds[p].threads # 0
    BY <1>6, <2>2
  <2> QED
    BY <2>2, <2>3, GrantedHas
<1> QED
  BY <1>2, <1>4, <1>5, <1>6 DEF ChildGift

LEMMA TypesAre4 == "thread tcb" \in Types4 /\ "thread sc" \in Types4 /\ "thread cnode" \in Types4 /\ "thread reply" \in Types4
BY Zenon, FourTypes

LEMMA ThreadGranted ==
  ASSUME Final, NEW p \in DOMAIN pds, NEW g, ThreadGifts(g), g.to = <<"cnode", p>>
  PROVE  g.cap.obj \in Granted(p)
<1>1. PICK q \in DOMAIN pds : /\ pds[q].threads > 0
                              /\ \/ SelfGift(q, g)
                                 \/ \E t \in Cardinality(Children(q))..pds[q].threads - 1 : ThreadGift(q, t, g)
  BY DEF ThreadGifts
<1>2. pds[q].threads # 0
  BY <1>1
<1>3. CASE SelfGift(q, g)
  <2>1. PICK obj \in {<<"cnode", q>>, <<"tcb", q>>, <<"schedcontrol">>} : g.to = <<"cnode", q>> /\ g.cap.obj = obj
    BY <1>3, GiftEquals DEF SelfGift
  <2>2. <<"cnode", q>> = <<"cnode", p>>
    BY Zenon, <2>1
  <2>3. q = p
    BY <2>2
  <2> QED
    BY Zenon, <1>2, <2>1, <2>3, GrantedHas
<1>4. CASE \E t \in Cardinality(Children(q))..pds[q].threads - 1 : ThreadGift(q, t, g)
  <2>1. PICK t \in Cardinality(Children(q))..pds[q].threads - 1 : ThreadGift(q, t, g)
    BY <1>4
  <2>2. CASE g = Gift(<<"thread cnode", q, t>>, RootEpSlot, <<"ep", q>>, RootPpcBadge(t))
    <3>1. g.to = <<"thread cnode", q, t>>
      BY ZenonT(40), <2>2, GiftIs
    <3>2. <<"thread cnode", q, t>> # <<"cnode", p>>
      OBVIOUS
    <3> QED
      BY <3>1, <3>2
  <2>3. ASSUME g # Gift(<<"thread cnode", q, t>>, RootEpSlot, <<"ep", q>>, RootPpcBadge(t))
        PROVE  \E type \in Types4 : \E slot : g = Gift(<<"cnode", q>>, slot, <<type, q, t>>, 0)
    BY Zenon, <2>1, <2>3, TypesAre4 DEF ThreadGift
  <2>4. ASSUME NEW type \in Types4, NEW slot, g = Gift(<<"cnode", q>>, slot, <<type, q, t>>, 0)
        PROVE  g.cap.obj \in Granted(p)
    <3>1. g.to = <<"cnode", q>> /\ g.cap.obj = <<type, q, t>>
      BY <2>4, GiftEquals
    <3>2. q = p
      BY <3>1, SameCNode
    <3>3. \A ty \in Types4 : \A u \in Cardinality(Children(p))..pds[p].threads - 1 : <<ty, p, u>> \in Granted(p)
      BY <1>2, <3>2, GrantedHas
    <3>4. <<type, p, t>> \in Granted(p)
      BY <3>2, <3>3
    <3> QED
      BY <3>1, <3>2, <3>4
  <2> QED
    BY <2>2, <2>3, <2>4
<1> QED
  BY <1>1, <1>3, <1>4

LEMMA JoinGranted ==
  ASSUME Final, NEW p \in DOMAIN pds, NEW g, JoinGifts(g), g.to = <<"cnode", p>>
  PROVE  g.cap.obj \in Granted(p)
<1>1. PICK cc \in ToSet(channels) : Joins(cc, g)
  BY DEF JoinGifts
<1> DEFINE a == Named(cc.a)
           b == Named(cc.b)
<1>2. a \in DOMAIN pds /\ pds[a].name = cc.a /\ b \in DOMAIN pds /\ pds[b].name = cc.b
  BY EndsNamed
<1>3. Linked(a, b) /\ Linked(b, a)
  BY <1>2 DEF Linked
<1> HIDE DEF a, b
<1>4. /\ <<"ntfn", b>> \in Granted(a) /\ <<"ntfn", a>> \in Granted(b)
      /\ (pds[b].pp => <<"ep", b>> \in Granted(a)) /\ (pds[a].pp => <<"ep", a>> \in Granted(b))
  <2>1. ASSUME NEW x \in DOMAIN pds, NEW q \in DOMAIN pds, Linked(x, q)
        PROVE  <<"ntfn", q>> \in Granted(x) /\ (pds[q].pp => <<"ep", q>> \in Granted(x))
    BY <2>1, LinkGranted
  <2> QED
    BY <1>2, <1>3, <2>1
<1>5. \/ g.to = <<"cnode", a>> /\ g.cap.obj = <<"ntfn", b>>
      \/ g.to = <<"cnode", b>> /\ g.cap.obj = <<"ntfn", a>>
      \/ pds[b].pp /\ g.to = <<"cnode", a>> /\ g.cap.obj = <<"ep", b>>
      \/ pds[a].pp /\ g.to = <<"cnode", b>> /\ g.cap.obj = <<"ep", a>>
  BY <1>1, GiftEquals DEF Joins, a, b
<1>6. \/ p = a /\ g.cap.obj = <<"ntfn", b>>
      \/ p = b /\ g.cap.obj = <<"ntfn", a>>
      \/ pds[b].pp /\ p = a /\ g.cap.obj = <<"ep", b>>
      \/ pds[a].pp /\ p = b /\ g.cap.obj = <<"ep", a>>
  BY <1>5
<1> QED
  BY <1>4, <1>6

LEMMA FinalGranted ==
  ASSUME Final, NEW p \in DOMAIN pds, NEW slot \in DOMAIN Held(p)
  PROVE  Held(p)[slot].obj \in Granted(p)
<1> DEFINE g == [to |-> <<"cnode", p>>, slot |-> slot, cap |-> Held(p)[slot]]
<1>1. GiftKinds(g) /\ g.to = <<"cnode", p>> /\ g.cap.obj = Held(p)[slot].obj
  BY HeldIs
<1> HIDE DEF g
<1>2. ASSUME NEW type \in {"reply", "vspace", "ep", "ntfn"}, NEW q, g.to = <<"cnode", q>>, g.cap.obj = <<type, q>>
      PROVE  g.cap.obj \in Granted(p)
  <2>1. q = p
    BY <1>1, <1>2, SameCNode
  <2> QED
    BY <1>2, <2>1, GrantedHas
<1>3. CASE InputGift(g) \/ ReplyGift(g) \/ VSpaceGift(g)
  <2> DEFINE Own(q, type) == g.to = <<"cnode", q>> /\ g.cap.obj = <<type, q>>
  <2>1. ASSUME InputGift(g) PROVE \E q : Own(q, "ep") \/ Own(q, "ntfn")
    BY <2>1, GiftEquals DEF InputGift
  <2>2. ASSUME ReplyGift(g) PROVE \E q : Own(q, "reply")
    BY <2>2, GiftEquals DEF ReplyGift
  <2>3. ASSUME VSpaceGift(g) PROVE \E q : Own(q, "vspace")
    BY <2>3, GiftEquals DEF VSpaceGift
  <2>4. PICK q : Own(q, "ep") \/ Own(q, "ntfn") \/ Own(q, "reply") \/ Own(q, "vspace")
    BY <1>3, <2>1, <2>2, <2>3
  <2>5. \E type \in {"reply", "vspace", "ep", "ntfn"} : Own(q, type)
    BY <2>4
  <2> QED
    BY Zenon, <1>1, <1>2, <2>5
<1>4. CASE IrqGift(g)
  <2>1. PICK q \in DOMAIN pds : \E irq \in ToSet(pds[q].irqs) : g = Gift(<<"cnode", q>>, IrqSlot + irq.id, <<"irq", irq.irq>>, 0)
    BY <1>4 DEF IrqGift
  <2>2. PICK irq \in ToSet(pds[q].irqs) : g = Gift(<<"cnode", q>>, IrqSlot + irq.id, <<"irq", irq.irq>>, 0)
    BY <2>1
  <2>3. g.to = <<"cnode", q>> /\ g.cap.obj = <<"irq", irq.irq>>
    BY <2>2, GiftEquals
  <2>4. q = p
    BY <1>1, <2>3, SameCNode
  <2>5. \A x \in ToSet(pds[p].irqs) : <<"irq", x.irq>> \in Granted(p)
    BY GrantedHas
  <2> QED
    BY Zenon, <1>1, <2>3, <2>4, <2>5
<1> QED
  BY <1>1, <1>3, <1>4, ChildGranted, ThreadGranted, JoinGranted DEF GiftKinds

LEMMA GrantedOnly == BootInv => OnlyGranted
BY FinalGranted DEF Final, OnlyGranted

\* For every description, every set of images and every layout: when the PDs start, a PD holds
\* its own objects, of another PD only what a channel joins it to, the endpoint of its parent
\* if that takes calls, and of its children and threads what the control of them needs
\* (what build_system mints into the CSpace of a PD, lines 1469 to 1867).
THEOREM NothingElseGranted == Spec => []OnlyGranted
<1>1. Spec => []BootInv
  BY InitBootInv, BootInvNext, PTL DEF Spec
<1> QED
  BY <1>1, GrantedOnly, PTL

-----------------------------------------------------------------------------
(* The TCBs of the PDs *)

\* Who writes which field.
LEMMA FreshFields ==
  ASSUME NEW m, NEW i
  PROVE  /\ plan[m].op = "SetCSpace" => DOMAIN Fresh(m, i) = {"cspace"}
         /\ plan[m].op = "SetFaultHandler" => DOMAIN Fresh(m, i) = {"fault"}
         /\ plan[m].op = "SetTimeoutEndpoint" => DOMAIN Fresh(m, i) = {"timeout"} /\ Fresh(m, i).timeout = CapAt(m, i, "fault")
         /\ plan[m].op = "SchedContextBind" => DOMAIN Fresh(m, i) = {"sc"}
         /\ plan[m].op = "SetSchedParams" =>
              /\ DOMAIN Fresh(m, i) = {"sc", "priority", "fault"} /\ Fresh(m, i).sc = CapAt(m, i, "sc").obj
              /\ Fresh(m, i).priority = ArgAt(m, i, "priority")
         /\ plan[m].op = "SetSpace" =>
              /\ DOMAIN Fresh(m, i) = {"fault", "cspace", "vspace"} /\ Fresh(m, i).fault = CapAt(m, i, "fault")
              /\ Fresh(m, i).cspace = CapAt(m, i, "cspace").obj /\ Fresh(m, i).vspace = CapAt(m, i, "vspace").obj
         /\ plan[m].op = "SetIPCBuffer" => DOMAIN Fresh(m, i) = {"buffer", "frame"}
         /\ plan[m].op = "WriteRegisters" =>
              /\ DOMAIN Fresh(m, i) = {"entry", "x0"} /\ Fresh(m, i).entry = ArgAt(m, i, "entry")
              /\ Fresh(m, i).x0 = ArgAt(m, i, "x0")
         /\ plan[m].op = "BindNotification" =>
              DOMAIN Fresh(m, i) = {"ntfn"} /\ Fresh(m, i).ntfn = CapAt(m, i, "notification").obj
         /\ plan[m].op = "DomainSet" => DOMAIN Fresh(m, i) = {"domain"}
         /\ plan[m].op = "Resume" => DOMAIN Fresh(m, i) = {"running"}
<1>1. CASE plan[m].op = "SetCSpace"
  BY <1>1 DEF Fresh
<1>2. CASE plan[m].op = "SetFaultHandler"
  BY <1>2 DEF Fresh
<1>3. CASE plan[m].op = "SetTimeoutEndpoint"
  BY <1>3 DEF Fresh
<1>4. CASE plan[m].op = "SchedContextBind"
  BY <1>4 DEF Fresh
<1>5. CASE plan[m].op = "SetSchedParams"
  BY <1>5 DEF Fresh
<1>6. CASE plan[m].op = "SetSpace"
  BY <1>6 DEF Fresh
<1>7. CASE plan[m].op = "SetIPCBuffer"
  BY <1>7 DEF Fresh
<1>8. CASE plan[m].op = "WriteRegisters"
  BY <1>8 DEF Fresh
<1>9. CASE plan[m].op = "BindNotification"
  BY <1>9 DEF Fresh
<1>10. CASE plan[m].op = "DomainSet"
  BY <1>10 DEF Fresh
<1>11. CASE plan[m].op = "Resume"
  BY <1>11 DEF Fresh
<1> QED
  BY <1>1, <1>2, <1>3, <1>4, <1>5, <1>6, <1>7, <1>8, <1>9, <1>10, <1>11

\* An invocation that is performed for every PD.
LEMMA ForEachPd ==
  ASSUME Final, DOMAIN pds # {}, NEW op, NEW args, NEW incr, \A f \in DOMAIN incr : incr[f] = 1 /\ args[f] \in Int
  PROVE  LET inv == Repeat(Do(op, args), Len(pds), incr)
         IN  /\ inv.op = op
             /\ \A i \in 0..inv.count - 1 : i + 1 \in DOMAIN pds /\ \A f \in DOMAIN incr : Actual(inv, i, f) = args[f] + i
             /\ \A p \in DOMAIN pds : p - 1 \in 0..inv.count - 1 /\ (p - 1) + 1 = p
<1> DEFINE n == Len(pds)
           inv == Repeat(Do(op, args), n, incr)
<1>0. DOMAIN pds = 1..n /\ n \in Nat
  BY FinalPlan, Domains
<1>1. n > 0 /\ Times(n) = n
  BY <1>0 DEF Times
<1>2. /\ inv.count = Times(n) /\ inv.op = op /\ inv.args = args
      /\ \A i \in 0..Times(n) - 1 : \A f : args[f] \in Int =>
           /\ f \notin DOMAIN incr => Actual(inv, i, f) = args[f]
           /\ f \in DOMAIN incr /\ incr[f] = 1 => Actual(inv, i, f) = args[f] + i
  BY <1>0, RepeatActual
<1> HIDE DEF n, inv
<1>3. inv.count = n
  BY <1>1, <1>2
<1>4. \A i \in 0..inv.count - 1 : i + 1 \in DOMAIN pds
  BY <1>0, <1>3
<1>5. \A i \in 0..inv.count - 1 : \A f \in DOMAIN incr : Actual(inv, i, f) = args[f] + i
  BY <1>1, <1>2, <1>3
<1>6. \A p \in DOMAIN pds : p - 1 \in 0..inv.count - 1 /\ (p - 1) + 1 = p
  BY <1>0, <1>3
<1> QED
  BY <1>2, <1>4, <1>5, <1>6 DEF inv, n

LEMMA FaultCapsInRow ==
  ASSUME Final, NEW i \in 0..Len(pds) - 1
  PROVE  FaultCap(1) \in Int /\ FaultCap(1) + i = FaultCap(i + 1)
<1>1. Laid /\ Len(IrqList) \in Nat
  BY FinalPlan, IrqListIs
<1>2. FaultCap(1) \in Nat
  BY CapNumbers
<1>3. Len(pds) \in Nat
  BY FinalPlan, Domains
<1>4. IrqNtfnCap(Len(IrqList)) \in Int
  BY CapNumbers
<1> QED
  BY <1>2, <1>3, <1>4 DEF FaultCap

LEMMA DoneInPlan ==
  ASSUME Final, NEW m, NEW i, Done(m, i)
  PROVE  plan[m] \in ToSet(SystemInvocations) /\ m \in 1..Len(plan) /\ i \in 0..plan[m].count - 1
<1>1. m \in 1..Len(plan) /\ i \in 0..plan[m].count - 1
  BY DEF Done
<1>2. IInv /\ ImageInv /\ PlanInv /\ pc \in PlanMade
  BY FinalPlan DEF Final, BootInv, PlanMade
<1> QED
  BY <1>1, <1>2, PlanElements

LEMMA OnceArgs ==
  ASSUME NEW m, NEW i, NEW op, NEW args, plan[m] = Do(op, args)
  PROVE  \A f : args[f] \in Int => ArgAt(m, i, f) = args[f]
<1>1. \A f : args[f] \in Int => Actual(Do(op, args), i, f) = args[f]
  BY OnceActual
<1> QED
  BY <1>1, ActualIs

LEMMA SameTcb == \A x, y : <<"tcb", x>> = <<"tcb", y>> => x = y
OBVIOUS

LEMMA PairNotTriple == \A a, b, c, d, e : <<a, b, c>> # <<d, e>>
<1> TAKE a, b, c, d, e
<1>1. DOMAIN <<a, b, c>> = 1..3 /\ DOMAIN <<d, e>> = 1..2
  OBVIOUS
<1> QED
  BY <1>1

\* What is written for threads goes to their own TCBs.
LEMMA ThreadWritesApart ==
  ASSUME Final, NEW m, NEW i, Done(m, i), plan[m].op \in ThreadOps, NEW p
  PROVE  CapAt(m, i, "tcb").obj # <<"tcb", p>>
<1>1. PICK q \in DOMAIN pds : pds[q].threads > 0 /\ ThreadWrite(q, plan[m])
  <2>1. IsThreadWrite(plan[m])
    BY FinalPlan, DoneInPlan, ByOp
  <2> QED
    BY <2>1 DEF IsThreadWrite
<1> DEFINE k == Cardinality(Children(q))
           to == Thread("thread tcb", q, k)
           n == Spawnable(q)
<1>2. /\ to \in Nat
      /\ \A j \in 0..Times(n) - 1 : CapOf(to + j) = Plain(<<"thread tcb", q, k + j>>)
  BY <1>1, TypesAre4, ThreadCapsInRow
<1>3. n \in Int
  BY <1>1, FamilyOf
<1>4. ASSUME NEW op, NEW args, args["tcb"] = to, NEW incr, "tcb" \in DOMAIN incr, incr["tcb"] = 1,
             plan[m] = Repeat(Do(op, args), n, incr)
      PROVE  CapAt(m, i, "tcb").obj # <<"tcb", p>>
  <2> HIDE DEF to, n, k
  <2> DEFINE inv == Repeat(Do(op, args), n, incr)
  <2>0. /\ inv.count = Times(n)
        /\ \A j \in 0..Times(n) - 1 : \A f : args[f] \in Int =>
             (f \in DOMAIN incr /\ incr[f] = 1 => Actual(inv, j, f) = args[f] + j)
    BY <1>3, RepeatActual
  <2>6. args["tcb"] \in Int
    <3>1. to \in Nat
      BY Zenon, <1>2
    <3> QED
      BY <1>4, <3>1
  <2>7. plan[m] = inv
    BY <1>4
  <2> HIDE DEF inv
  <2>1. plan[m].count = Times(n) /\ \A j \in 0..Times(n) - 1 : Actual(plan[m], j, "tcb") = args["tcb"] + j
    BY <1>4, <2>0, <2>6, <2>7
  <2>2. i \in 0..Times(n) - 1
    BY <2>1, DoneInPlan
  <2>3. ArgAt(m, i, "tcb") = to + i
    BY <1>4, <2>1, <2>2, ActualIs
  <2>4. CapAt(m, i, "tcb") = Plain(<<"thread tcb", q, k + i>>)
    BY <1>2, <2>2, <2>3 DEF CapAt
  <2>5. CapAt(m, i, "tcb").obj = <<"thread tcb", q, k + i>>
    BY <2>4, PlainObj
  <2> QED
    BY <2>5, PairNotTriple
<1> DEFINE a1 == [tcb |-> to, cspace |-> Thread("thread cnode", q, k)]
           a2 == [tcb |-> to, fault |-> ThreadFaultCap(q)]
           a3 == [sc |-> Thread("thread sc", q, k), tcb |-> to]
           i1 == [tcb |-> 1, cspace |-> 1]
           i2 == [tcb |-> 1, fault |-> 1]
           i3 == [sc |-> 1, tcb |-> 1]
<1>5. a1["tcb"] = to /\ a2["tcb"] = to /\ a3["tcb"] = to
  OBVIOUS
<1>6. /\ "tcb" \in DOMAIN i1 /\ i1["tcb"] = 1 /\ "tcb" \in DOMAIN i2 /\ i2["tcb"] = 1
      /\ "tcb" \in DOMAIN i3 /\ i3["tcb"] = 1
  OBVIOUS
<1>7. \/ plan[m] = Repeat(Do("SetCSpace", a1), n, i1) \/ plan[m] = Repeat(Do("SetFaultHandler", a2), n, i2)
      \/ plan[m] = Repeat(Do("SchedContextBind", a3), n, i3)
  BY <1>1, Zenon DEF ThreadWrite, Spawned
<1> HIDE DEF to, n, k, a1, a2, a3, i1, i2, i3
<1>8. CASE plan[m] = Repeat(Do("SetCSpace", a1), n, i1)
  BY <1>4, <1>5, <1>6, <1>8
<1>9. CASE plan[m] = Repeat(Do("SetFaultHandler", a2), n, i2)
  BY <1>4, <1>5, <1>6, <1>9
<1>10. CASE plan[m] = Repeat(Do("SchedContextBind", a3), n, i3)
  BY <1>4, <1>5, <1>6, <1>10
<1> QED
  BY <1>7, <1>8, <1>9, <1>10

\* What is written once for a PD.
LEMMA ParamsWrite ==
  ASSUME Final, NEW m, NEW i, Done(m, i), plan[m].op = "SetSchedParams"
  PROVE  \E q \in DOMAIN pds : /\ CapAt(m, i, "tcb").obj = <<"tcb", q>> /\ CapAt(m, i, "sc").obj = <<"sc", q>>
                               /\ ArgAt(m, i, "priority") = pds[q].priority
<1>1. PICK q \in DOMAIN pds : plan[m] = Do("SetSchedParams", [tcb |-> Tcb(q), priority |-> pds[q].priority, sc |-> Sc(q)])
  <2>1. IsParams(plan[m])
    BY FinalPlan, DoneInPlan, ByOp
  <2> QED
    BY <2>1 DEF IsParams
<1> DEFINE args == [tcb |-> Tcb(q), priority |-> pds[q].priority, sc |-> Sc(q)]
<1>2. args["tcb"] = Tcb(q) /\ args["priority"] = pds[q].priority /\ args["sc"] = Sc(q)
  OBVIOUS
<1>3. \A f : args[f] \in Int => ArgAt(m, i, f) = args[f]
  BY <1>1, OnceArgs
<1>4. Tcb(q) \in Int /\ Sc(q) \in Int /\ CapOf(Tcb(q)).obj = <<"tcb", q>> /\ CapOf(Sc(q)).obj = <<"sc", q>>
  BY CNodeCap
<1>5. pds[q].priority \in Int
  <2>1. pds[q].priority \in 0..254
    BY FinalPlan, PdTyped
  <2> QED
    BY <2>1
<1> HIDE DEF args
<1>6. ArgAt(m, i, "tcb") = Tcb(q) /\ ArgAt(m, i, "sc") = Sc(q) /\ ArgAt(m, i, "priority") = pds[q].priority
  BY <1>2, <1>3, <1>4, <1>5
<1> QED
  BY <1>4, <1>6 DEF CapAt

LEMMA TimeoutWrite ==
  ASSUME Final, NEW m, NEW i, Done(m, i), plan[m].op = "SetTimeoutEndpoint"
  PROVE  \E q \in DOMAIN pds : /\ CapAt(m, i, "tcb").obj = <<"tcb", q>> /\ TimeoutsHandled(q)
                               /\ CapAt(m, i, "fault") = CapOf(FaultCap(q))
<1>1. PICK q \in DOMAIN pds : TimeoutsHandled(q) /\ plan[m] = Do("SetTimeoutEndpoint", [tcb |-> Tcb(q), fault |-> FaultCap(q)])
  <2>1. IsTimeout(plan[m])
    BY FinalPlan, DoneInPlan, ByOp
  <2> QED
    BY <2>1 DEF IsTimeout
<1> DEFINE args == [tcb |-> Tcb(q), fault |-> FaultCap(q)]
<1>2. args["tcb"] = Tcb(q) /\ args["fault"] = FaultCap(q)
  OBVIOUS
<1>3. \A f : args[f] \in Int => ArgAt(m, i, f) = args[f]
  BY <1>1, OnceArgs
<1>4. Tcb(q) \in Int /\ CapOf(Tcb(q)).obj = <<"tcb", q>>
  BY CNodeCap
<1>5. FaultCap(q) \in Int
  <2>1. q \in Nat \ {0}
    BY FinalPlan, Domains
  <2> QED
    BY <2>1, CapNumbers
<1> HIDE DEF args
<1>6. ArgAt(m, i, "tcb") = Tcb(q) /\ ArgAt(m, i, "fault") = FaultCap(q)
  BY <1>2, <1>3, <1>4, <1>5
<1> QED
  BY <1>1, <1>4, <1>6 DEF CapAt

LEMMA EntriesTyped ==
  ASSUME Final, NEW q \in DOMAIN pds
  PROVE  Images[pds[q].name].entry \in Nat
<1>1. pds[q].name \in DOMAIN Images
  BY FinalPlan, PdFields
<1> QED
  BY <1>1, ImagesAssumption

LEMMA RegistersWrite ==
  ASSUME Final, NEW m, NEW i, Done(m, i), plan[m].op = "WriteRegisters"
  PROVE  \E q \in DOMAIN pds : /\ CapAt(m, i, "tcb").obj = <<"tcb", q>> /\ ArgAt(m, i, "entry") = Images[pds[q].name].entry
                               /\ ArgAt(m, i, "x0") = pds[q].pd_id
<1>1. PICK q \in DOMAIN pds : plan[m] = Do("WriteRegisters", [tcb |-> Tcb(q), entry |-> Images[pds[q].name].entry,
                                                              x0 |-> pds[q].pd_id, x1 |-> 1])
  <2>1. IsRegisters(plan[m])
    BY FinalPlan, DoneInPlan, ByOp
  <2> QED
    BY <2>1 DEF IsRegisters
<1> DEFINE args == [tcb |-> Tcb(q), entry |-> Images[pds[q].name].entry, x0 |-> pds[q].pd_id, x1 |-> 1]
<1>2. args["tcb"] = Tcb(q) /\ args["entry"] = Images[pds[q].name].entry /\ args["x0"] = pds[q].pd_id
  OBVIOUS
<1>3. \A f : args[f] \in Int => ArgAt(m, i, f) = args[f]
  BY <1>1, OnceArgs
<1>4. Tcb(q) \in Int /\ CapOf(Tcb(q)).obj = <<"tcb", q>>
  BY CNodeCap
<1>5. Images[pds[q].name].entry \in Int
  BY EntriesTyped
<1>6. pds[q].pd_id \in Int
  <2>1. pds[q].pd_id \in 0..255
    BY FinalPlan, PdTyped
  <2> QED
    BY <2>1
<1> HIDE DEF args
<1>7. ArgAt(m, i, "tcb") = Tcb(q) /\ ArgAt(m, i, "entry") = Images[pds[q].name].entry /\ ArgAt(m, i, "x0") = pds[q].pd_id
  BY <1>2, <1>3, <1>4, <1>5, <1>6
<1> QED
  BY <1>4, <1>7 DEF CapAt

\* What is written for all PDs at once.
LEMMA SpaceWrite ==
  ASSUME Final, DOMAIN pds # {}, NEW m, NEW i, Done(m, i), plan[m].op = "SetSpace"
  PROVE  /\ i + 1 \in DOMAIN pds /\ CapAt(m, i, "tcb").obj = <<"tcb", i + 1>> /\ CapAt(m, i, "fault") = CapOf(FaultCap(i + 1))
         /\ CapAt(m, i, "cspace").obj = <<"cnode", i + 1>> /\ CapAt(m, i, "vspace").obj = <<"vspace", i + 1>>
<1> DEFINE args == [tcb |-> Tcb(1), fault |-> FaultCap(1), cspace |-> CNode(1), vspace |-> VSpace(1)]
           incr == [tcb |-> 1, fault |-> 1, cspace |-> 1, vspace |-> 1]
           inv == Repeat(Do("SetSpace", args), Len(pds), incr)
<1>1. plan[m] = inv
  <2>1. IsSpace(plan[m])
    BY FinalPlan, DoneInPlan, ByOp
  <2> QED
    BY <2>1 DEF IsSpace
<1>2. /\ args["tcb"] = slotOf[<<"tcb", 1>>] /\ args["fault"] = FaultCap(1)
      /\ args["cspace"] = slotOf[<<"cnode", 1>>] /\ args["vspace"] = slotOf[<<"vspace", 1>>]
  BY DEF Tcb, CNode, VSpace
<1>3. DOMAIN incr = {"tcb", "fault", "cspace", "vspace"} /\ \A f \in DOMAIN incr : incr[f] = 1
  OBVIOUS
<1>4. FaultCap(1) \in Int
  BY CapNumbers
<1>5. DOMAIN pds = 1..Len(pds) /\ Len(pds) \in Nat /\ 1 \in DOMAIN pds
  BY FinalPlan, Domains
<1>6. slotOf[<<"tcb", 1>>] \in Int /\ slotOf[<<"cnode", 1>>] \in Int /\ slotOf[<<"vspace", 1>>] \in Int
  BY <1>5, CNodeCap DEF Tcb, CNode, VSpace
<1> HIDE DEF args, incr
<1>7. \A f \in DOMAIN incr : incr[f] = 1 /\ args[f] \in Int
  BY <1>2, <1>3, <1>4, <1>6
<1>8. \A j \in 0..inv.count - 1 : j + 1 \in DOMAIN pds /\ \A f \in DOMAIN incr : Actual(inv, j, f) = args[f] + j
  BY <1>7, ForEachPd
<1> HIDE DEF inv
<1>9. i \in 0..inv.count - 1 /\ i + 1 \in DOMAIN pds
  BY <1>1, <1>8, DoneInPlan
<1>10. \A f \in DOMAIN incr : ArgAt(m, i, f) = args[f] + i
  BY <1>1, <1>8, <1>9, ActualIs
<1>11. /\ ArgAt(m, i, "tcb") = slotOf[<<"tcb", 1>>] + i /\ ArgAt(m, i, "fault") = FaultCap(1) + i
       /\ ArgAt(m, i, "cspace") = slotOf[<<"cnode", 1>>] + i /\ ArgAt(m, i, "vspace") = slotOf[<<"vspace", 1>>] + i
  BY <1>2, <1>3, <1>10
<1>12. i \in 0..Len(pds) - 1
  <2>1. i \in Int
    BY <1>9
  <2> QED
    BY <1>5, <1>9, <2>1
<1>13. /\ CapOf(slotOf[<<"tcb", 1>>] + i) = Plain(<<"tcb", i + 1>>) /\ CapOf(slotOf[<<"cnode", 1>>] + i) = Plain(<<"cnode", i + 1>>)
       /\ CapOf(slotOf[<<"vspace", 1>>] + i) = Plain(<<"vspace", i + 1>>)
  BY <1>12, PdCapsInRow DEF PdTypes
<1>14. FaultCap(1) + i = FaultCap(i + 1)
  BY <1>12, FaultCapsInRow
<1> QED
  BY <1>9, <1>11, <1>13, <1>14, PlainObj DEF CapAt

LEMMA BindWrite ==
  ASSUME Final, DOMAIN pds # {}, NEW m, NEW i, Done(m, i), plan[m].op = "BindNotification"
  PROVE  /\ i + 1 \in DOMAIN pds /\ CapAt(m, i, "tcb").obj = <<"tcb", i + 1>>
         /\ CapAt(m, i, "notification").obj = <<"ntfn", i + 1>>
<1> DEFINE args == [tcb |-> Tcb(1), notification |-> Ntfn(1)]
           incr == [tcb |-> 1, notification |-> 1]
           inv == Repeat(Do("BindNotification", args), Len(pds), incr)
<1>1. plan[m] = inv
  <2>1. IsBind(plan[m])
    BY FinalPlan, DoneInPlan, ByOp
  <2> QED
    BY <2>1 DEF IsBind
<1>2. args["tcb"] = slotOf[<<"tcb", 1>>] /\ args["notification"] = slotOf[<<"ntfn", 1>>]
  BY DEF Tcb, Ntfn
<1>3. DOMAIN incr = {"tcb", "notification"} /\ \A f \in DOMAIN incr : incr[f] = 1
  OBVIOUS
<1>5. DOMAIN pds = 1..Len(pds) /\ Len(pds) \in Nat /\ 1 \in DOMAIN pds
  BY FinalPlan, Domains
<1>6. slotOf[<<"tcb", 1>>] \in Int /\ slotOf[<<"ntfn", 1>>] \in Int
  BY <1>5, CNodeCap DEF Tcb, Ntfn
<1> HIDE DEF args, incr
<1>7. \A f \in DOMAIN incr : incr[f] = 1 /\ args[f] \in Int
  BY <1>2, <1>3, <1>6
<1>8. \A j \in 0..inv.count - 1 : j + 1 \in DOMAIN pds /\ \A f \in DOMAIN incr : Actual(inv, j, f) = args[f] + j
  BY <1>7, ForEachPd
<1> HIDE DEF inv
<1>9. i \in 0..inv.count - 1 /\ i + 1 \in DOMAIN pds
  BY <1>1, <1>8, DoneInPlan
<1>10. \A f \in DOMAIN incr : ArgAt(m, i, f) = args[f] + i
  BY <1>1, <1>8, <1>9, ActualIs
<1>11. ArgAt(m, i, "tcb") = slotOf[<<"tcb", 1>>] + i /\ ArgAt(m, i, "notification") = slotOf[<<"ntfn", 1>>] + i
  BY <1>2, <1>3, <1>10
<1>12. i \in 0..Len(pds) - 1
  <2>1. i \in Int
    BY <1>9
  <2> QED
    BY <1>5, <1>9, <2>1
<1>13. CapOf(slotOf[<<"tcb", 1>>] + i) = Plain(<<"tcb", i + 1>>) /\ CapOf(slotOf[<<"ntfn", 1>>] + i) = Plain(<<"ntfn", i + 1>>)
  BY <1>12, PdCapsInRow DEF PdTypes
<1> QED
  BY <1>9, <1>11, <1>13, PlainObj DEF CapAt

\* Each of these writes is made.
LEMMA OnceDone ==
  ASSUME Final, NEW op, NEW args, CapPart(Do(op, args)) \/ TcbPart(Do(op, args)), op \notin Starts
  PROVE  \E m : plan[m] = Do(op, args) /\ plan[m].op = op /\ Done(m, 0) /\ \A f : args[f] \in Int => ArgAt(m, 0, f) = args[f]
<1>1. Do(op, args).op = op /\ Do(op, args).count = 1
  BY OpKept, OnceActual
<1>2. Do(op, args) \in ToSet(SystemInvocations)
  BY FinalPlan, PlanIs
<1>3. PICK m \in 1..Len(plan) : plan[m] = Do(op, args) /\ \A i \in 0..Do(op, args).count - 1 : Done(m, i)
  BY <1>1, <1>2, AllDone
<1>4. Done(m, 0)
  BY <1>1, <1>3
<1>5. \A f : args[f] \in Int => ArgAt(m, 0, f) = args[f]
  BY <1>3, OnceArgs
<1> QED
  BY <1>1, <1>3, <1>4, <1>5

LEMMA ParamsWritten ==
  ASSUME Final, NEW p \in DOMAIN pds
  PROVE  \E m : plan[m].op = "SetSchedParams" /\ Done(m, 0) /\ CapAt(m, 0, "tcb").obj = <<"tcb", p>>
<1> DEFINE args == [tcb |-> Tcb(p), priority |-> pds[p].priority, sc |-> Sc(p)]
<1>1. TcbPart(Do("SetSchedParams", args))
  BY DEF TcbPart, IsParams
<1>2. args["tcb"] = Tcb(p) /\ Tcb(p) \in Int /\ CapOf(Tcb(p)).obj = <<"tcb", p>>
  BY CNodeCap
<1>3. "SetSchedParams" \notin Starts
  BY DEF Starts
<1> HIDE DEF args
<1>4. PICK m : /\ plan[m].op = "SetSchedParams" /\ Done(m, 0)
               /\ \A f : args[f] \in Int => ArgAt(m, 0, f) = args[f]
  BY <1>1, <1>3, OnceDone
<1>5. CapAt(m, 0, "tcb").obj = <<"tcb", p>>
  BY <1>2, <1>4 DEF CapAt
<1> QED
  BY <1>4, <1>5

LEMMA TimeoutWritten ==
  ASSUME Final, NEW p \in DOMAIN pds, TimeoutsHandled(p)
  PROVE  \E m : plan[m].op = "SetTimeoutEndpoint" /\ Done(m, 0) /\ CapAt(m, 0, "tcb").obj = <<"tcb", p>>
<1> DEFINE args == [tcb |-> Tcb(p), fault |-> FaultCap(p)]
<1>1. TcbPart(Do("SetTimeoutEndpoint", args))
  BY DEF TcbPart, IsTimeout
<1>2. args["tcb"] = Tcb(p) /\ Tcb(p) \in Int /\ CapOf(Tcb(p)).obj = <<"tcb", p>>
  BY CNodeCap
<1>3. "SetTimeoutEndpoint" \notin Starts
  BY DEF Starts
<1> HIDE DEF args
<1>4. PICK m : /\ plan[m].op = "SetTimeoutEndpoint" /\ Done(m, 0)
               /\ \A f : args[f] \in Int => ArgAt(m, 0, f) = args[f]
  BY <1>1, <1>3, OnceDone
<1>5. CapAt(m, 0, "tcb").obj = <<"tcb", p>>
  BY <1>2, <1>4 DEF CapAt
<1> QED
  BY <1>4, <1>5

LEMMA RegistersWritten ==
  ASSUME Final, NEW p \in DOMAIN pds
  PROVE  \E m : plan[m].op = "WriteRegisters" /\ Done(m, 0) /\ CapAt(m, 0, "tcb").obj = <<"tcb", p>>
<1> DEFINE args == [tcb |-> Tcb(p), entry |-> Images[pds[p].name].entry, x0 |-> pds[p].pd_id, x1 |-> 1]
<1>1. TcbPart(Do("WriteRegisters", args))
  BY DEF TcbPart, IsRegisters
<1>2. args["tcb"] = Tcb(p) /\ Tcb(p) \in Int /\ CapOf(Tcb(p)).obj = <<"tcb", p>>
  BY CNodeCap
<1>3. "WriteRegisters" \notin Starts
  BY DEF Starts
<1> HIDE DEF args
<1>4. PICK m : /\ plan[m].op = "WriteRegisters" /\ Done(m, 0)
               /\ \A f : args[f] \in Int => ArgAt(m, 0, f) = args[f]
  BY <1>1, <1>3, OnceDone
<1>5. CapAt(m, 0, "tcb").obj = <<"tcb", p>>
  BY <1>2, <1>4 DEF CapAt
<1> QED
  BY <1>4, <1>5

\* Every PD's scheduling context has its budget.
LEMMA FlagsSet ==
  ASSUME Final, NEW p \in DOMAIN pds
  PROVE  <<"sc", p>> \in kernel.configured
<1> DEFINE args == [sc |-> Sc(p)]
<1>1. TcbPart(Do("ConfigureFlags", args))
  BY DEF TcbPart, IsFlags
<1>2. args["sc"] = Sc(p) /\ Sc(p) \in Int /\ CapOf(Sc(p)).obj = <<"sc", p>>
  BY CNodeCap
<1>3. "ConfigureFlags" \notin Starts
  BY DEF Starts
<1> HIDE DEF args
<1>4. PICK m : /\ plan[m].op = "ConfigureFlags" /\ Done(m, 0)
               /\ \A f : args[f] \in Int => ArgAt(m, 0, f) = args[f]
  BY <1>1, <1>3, OnceDone
<1>5. CapAt(m, 0, "sc").obj = <<"sc", p>>
  BY <1>2, <1>4 DEF CapAt
<1> QED
  BY <1>4, <1>5, FinalPlan DEF Effects, Budgeted

LEMMA SpaceWritten ==
  ASSUME Final, NEW p \in DOMAIN pds
  PROVE  \E m, i : IsSpace(plan[m]) /\ plan[m].op = "SetSpace" /\ Done(m, i) /\ CapAt(m, i, "tcb").obj = <<"tcb", p>>
<1> DEFINE args == [tcb |-> Tcb(1), fault |-> FaultCap(1), cspace |-> CNode(1), vspace |-> VSpace(1)]
           incr == [tcb |-> 1, fault |-> 1, cspace |-> 1, vspace |-> 1]
           inv == Repeat(Do("SetSpace", args), Len(pds), incr)
<1>1. IsSpace(inv)
  BY DEF IsSpace
<1>2. \A f \in DOMAIN incr : incr[f] = 1 /\ args[f] \in Int
  <2>1. DOMAIN pds = 1..Len(pds) /\ Len(pds) \in Nat /\ 1 \in DOMAIN pds
    BY FinalPlan, Domains
  <2>2. Tcb(1) \in Int /\ CNode(1) \in Int /\ VSpace(1) \in Int
    BY <2>1, CNodeCap
  <2>3. FaultCap(1) \in Int
    BY CapNumbers
  <2> QED
    BY <2>2, <2>3
<1> HIDE DEF args, incr
<1>3. inv.op = "SetSpace" /\ \A q \in DOMAIN pds : q - 1 \in 0..inv.count - 1 /\ (q - 1) + 1 = q
  BY <1>2, ForEachPd
<1> HIDE DEF inv
<1>4. inv \in ToSet(SystemInvocations)
  BY <1>1, FinalPlan, PlanIs DEF TcbPart
<1>5. PICK m \in 1..Len(plan) : plan[m] = inv /\ \A i \in 0..inv.count - 1 : Done(m, i)
  BY <1>3, <1>4, AllDone DEF Starts
<1>6. plan[m].op = "SetSpace" /\ Done(m, p - 1) /\ (p - 1) + 1 = p
  BY <1>3, <1>5
<1>7. CapAt(m, p - 1, "tcb").obj = <<"tcb", p>>
  <2>1. CapAt(m, p - 1, "tcb").obj = <<"tcb", (p - 1) + 1>>
    BY <1>6, SpaceWrite
  <2> QED
    BY <1>6, <2>1
<1> QED
  BY <1>1, <1>5, <1>6, <1>7

LEMMA BindWritten ==
  ASSUME Final, NEW p \in DOMAIN pds
  PROVE  \E m, i : plan[m].op = "BindNotification" /\ Done(m, i) /\ CapAt(m, i, "tcb").obj = <<"tcb", p>>
<1> DEFINE args == [tcb |-> Tcb(1), notification |-> Ntfn(1)]
           incr == [tcb |-> 1, notification |-> 1]
           inv == Repeat(Do("BindNotification", args), Len(pds), incr)
<1>1. IsBind(inv)
  BY DEF IsBind
<1>2. \A f \in DOMAIN incr : incr[f] = 1 /\ args[f] \in Int
  <2>1. DOMAIN pds = 1..Len(pds) /\ Len(pds) \in Nat /\ 1 \in DOMAIN pds
    BY FinalPlan, Domains
  <2>2. Tcb(1) \in Int /\ Ntfn(1) \in Int
    BY <2>1, CNodeCap
  <2> QED
    BY <2>2
<1> HIDE DEF args, incr
<1>3. inv.op = "BindNotification" /\ \A q \in DOMAIN pds : q - 1 \in 0..inv.count - 1 /\ (q - 1) + 1 = q
  BY <1>2, ForEachPd
<1> HIDE DEF inv
<1>4. inv \in ToSet(SystemInvocations)
  BY <1>1, FinalPlan, PlanIs DEF TcbPart
<1>5. PICK m \in 1..Len(plan) : plan[m] = inv /\ \A i \in 0..inv.count - 1 : Done(m, i)
  BY <1>3, <1>4, AllDone DEF Starts
<1>6. plan[m].op = "BindNotification" /\ Done(m, p - 1) /\ (p - 1) + 1 = p
  BY <1>3, <1>5
<1>7. CapAt(m, p - 1, "tcb").obj = <<"tcb", p>>
  <2>1. CapAt(m, p - 1, "tcb").obj = <<"tcb", (p - 1) + 1>>
    BY <1>6, BindWrite
  <2> QED
    BY <1>6, <2>1
<1> QED
  BY <1>5, <1>6, <1>7

\* Whoever writes one of these fields of a PD's TCB writes the same.
LEMMA PdWriteIs ==
  ASSUME Final, NEW p \in DOMAIN pds, NEW m, NEW i, NEW f, Writes(m, i, <<"tcb", p>>, f),
         f \in {"sc", "priority", "cspace", "vspace", "ntfn", "entry", "x0", "timeout", "fault"}
  PROVE  /\ f = "sc" => Fresh(m, i)[f] = <<"sc", p>>
         /\ f = "priority" => Fresh(m, i)[f] = pds[p].priority
         /\ f = "cspace" => Fresh(m, i)[f] = <<"cnode", p>>
         /\ f = "vspace" => Fresh(m, i)[f] = <<"vspace", p>>
         /\ f = "ntfn" => Fresh(m, i)[f] = <<"ntfn", p>>
         /\ f = "entry" => Fresh(m, i)[f] = Images[pds[p].name].entry
         /\ f = "x0" => Fresh(m, i)[f] = pds[p].pd_id
         /\ f = "timeout" => TimeoutsHandled(p) /\ Fresh(m, i)[f] = CapOf(FaultCap(p))
         /\ f = "fault" => \/ plan[m].op = "SetSchedParams"
                           \/ plan[m].op = "SetSpace" /\ Fresh(m, i)[f] = CapOf(FaultCap(p))
<1>0. /\ Done(m, i) /\ plan[m].op \in TcbOps /\ CapAt(m, i, "tcb").obj = <<"tcb", p>> /\ f \in DOMAIN Fresh(m, i)
      /\ DOMAIN pds # {}
  BY DEF Writes
<1>1. plan[m].op \notin ThreadOps
  BY <1>0, ThreadWritesApart
<1>2. plan[m].op \in {"SetTimeoutEndpoint", "SetSchedParams", "SetSpace", "SetIPCBuffer", "WriteRegisters", "BindNotification",
                      "DomainSet", "Resume"}
  BY <1>0, <1>1 DEF TcbOps, ThreadOps
<1>3. CASE plan[m].op \in {"SetIPCBuffer", "DomainSet", "Resume"}
  <2>1. DOMAIN Fresh(m, i) \in {{"buffer", "frame"}, {"domain"}, {"running"}}
    BY <1>3, FreshFields
  <2> QED
    BY <1>0, <2>1
<1>4. CASE plan[m].op = "SetTimeoutEndpoint"
  <2>1. f = "timeout" /\ Fresh(m, i)[f] = CapAt(m, i, "fault")
    BY <1>0, <1>4, FreshFields
  <2>2. PICK q \in DOMAIN pds : /\ CapAt(m, i, "tcb").obj = <<"tcb", q>> /\ TimeoutsHandled(q)
                                /\ CapAt(m, i, "fault") = CapOf(FaultCap(q))
    BY <1>0, <1>4, TimeoutWrite
  <2>3. q = p
    BY <1>0, <2>2, SameTcb
  <2> QED
    BY <2>1, <2>2, <2>3
<1>5. CASE plan[m].op = "SetSchedParams"
  <2>1. /\ f \in {"sc", "priority", "fault"} /\ Fresh(m, i).sc = CapAt(m, i, "sc").obj
        /\ Fresh(m, i).priority = ArgAt(m, i, "priority")
    BY <1>0, <1>5, FreshFields
  <2>2. PICK q \in DOMAIN pds : /\ CapAt(m, i, "tcb").obj = <<"tcb", q>> /\ CapAt(m, i, "sc").obj = <<"sc", q>>
                                /\ ArgAt(m, i, "priority") = pds[q].priority
    BY <1>0, <1>5, ParamsWrite
  <2>3. q = p
    BY <1>0, <2>2, SameTcb
  <2> QED
    BY <1>5, <2>1, <2>2, <2>3
<1>6. CASE plan[m].op = "SetSpace"
  <2>1. /\ f \in {"fault", "cspace", "vspace"} /\ Fresh(m, i).fault = CapAt(m, i, "fault")
        /\ Fresh(m, i).cspace = CapAt(m, i, "cspace").obj /\ Fresh(m, i).vspace = CapAt(m, i, "vspace").obj
    BY <1>0, <1>6, FreshFields
  <2>2. /\ i + 1 \in DOMAIN pds /\ CapAt(m, i, "tcb").obj = <<"tcb", i + 1>> /\ CapAt(m, i, "fault") = CapOf(FaultCap(i + 1))
        /\ CapAt(m, i, "cspace").obj = <<"cnode", i + 1>> /\ CapAt(m, i, "vspace").obj = <<"vspace", i + 1>>
    BY <1>0, <1>6, SpaceWrite
  <2>3. i + 1 = p
    BY <1>0, <2>2, SameTcb
  <2> QED
    BY <1>6, <2>1, <2>2, <2>3
<1>7. CASE plan[m].op = "WriteRegisters"
  <2>1. /\ f \in {"entry", "x0"} /\ Fresh(m, i).entry = ArgAt(m, i, "entry")
        /\ Fresh(m, i).x0 = ArgAt(m, i, "x0")
    BY <1>0, <1>7, FreshFields
  <2>2. PICK q \in DOMAIN pds : /\ CapAt(m, i, "tcb").obj = <<"tcb", q>> /\ ArgAt(m, i, "entry") = Images[pds[q].name].entry
                                /\ ArgAt(m, i, "x0") = pds[q].pd_id
    BY <1>0, <1>7, RegistersWrite
  <2>3. q = p
    BY <1>0, <2>2, SameTcb
  <2> QED
    BY <2>1, <2>2, <2>3
<1>8. CASE plan[m].op = "BindNotification"
  <2>1. f = "ntfn" /\ Fresh(m, i).ntfn = CapAt(m, i, "notification").obj
    BY <1>0, <1>8, FreshFields
  <2>2. /\ i + 1 \in DOMAIN pds /\ CapAt(m, i, "tcb").obj = <<"tcb", i + 1>>
        /\ CapAt(m, i, "notification").obj = <<"ntfn", i + 1>>
    BY <1>0, <1>8, BindWrite
  <2>3. i + 1 = p
    BY <1>0, <2>2, SameTcb
  <2> QED
    BY <2>1, <2>2, <2>3
<1> QED
  BY <1>2, <1>3, <1>4, <1>5, <1>6, <1>7, <1>8

\* A field that someone writes is what some writer writes, the last one.
LEMMA FieldWritten ==
  ASSUME Final, NEW p, NEW f \in TcbFields, NEW n, NEW j, Writes(n, j, <<"tcb", p>>, f)
  PROVE  \E m, i : /\ Writes(m, i, <<"tcb", p>>, f) /\ Tcbs(p)[f] = Fresh(m, i)[f]
                   /\ \A x, y : Writes(x, y, <<"tcb", p>>, f) => x <= m
<1>1. TargetsThere /\ LastWritten
  BY FinalPlan DEF Effects
<1>2. Done(n, j) /\ plan[n].op \in TcbOps /\ CapAt(n, j, "tcb").obj = <<"tcb", p>>
  BY DEF Writes
<1>3. <<"tcb", p>> \in DOMAIN kernel.tcb
  BY <1>1, <1>2 DEF TargetsThere
<1>4. PICK m, i : /\ Writes(m, i, <<"tcb", p>>, f) /\ kernel.tcb[<<"tcb", p>>][f] = Fresh(m, i)[f]
                  /\ \A x, y : Writes(x, y, <<"tcb", p>>, f) => x <= m
  BY <1>1, <1>3 DEF LastWritten
<1> QED
  BY <1>4 DEF Tcbs

LEMMA PdTcb ==
  ASSUME Final, NEW p \in DOMAIN pds
  PROVE  /\ Tcbs(p).sc = <<"sc", p>> /\ Tcbs(p).priority = pds[p].priority
         /\ Tcbs(p).cspace = <<"cnode", p>> /\ Tcbs(p).vspace = <<"vspace", p>> /\ Tcbs(p).ntfn = <<"ntfn", p>>
         /\ Tcbs(p).entry = Images[pds[p].name].entry /\ Tcbs(p).x0 = pds[p].pd_id
         /\ TimeoutsHandled(p) => Tcbs(p).timeout = CapOf(FaultCap(p))
<1> DEFINE t == <<"tcb", p>>
<1>0. {"sc", "priority", "cspace", "vspace", "ntfn", "entry", "x0", "timeout", "fault"} \subseteq TcbFields
  BY DEF TcbFields
<1>1. PICK n1 : plan[n1].op = "SetSchedParams" /\ Done(n1, 0) /\ CapAt(n1, 0, "tcb").obj = t
  BY ParamsWritten
<1>2. Writes(n1, 0, t, "sc") /\ Writes(n1, 0, t, "priority")
  BY <1>1, FreshFields DEF Writes, TcbOps
<1>3. PICK n2, j2 : plan[n2].op = "SetSpace" /\ Done(n2, j2) /\ CapAt(n2, j2, "tcb").obj = t
  BY SpaceWritten
<1>4. Writes(n2, j2, t, "cspace") /\ Writes(n2, j2, t, "vspace")
  BY <1>3, FreshFields DEF Writes, TcbOps
<1>5. PICK n3, j3 : plan[n3].op = "BindNotification" /\ Done(n3, j3) /\ CapAt(n3, j3, "tcb").obj = t
  BY BindWritten
<1>6. Writes(n3, j3, t, "ntfn")
  BY <1>5, FreshFields DEF Writes, TcbOps
<1>7. PICK n4 : plan[n4].op = "WriteRegisters" /\ Done(n4, 0) /\ CapAt(n4, 0, "tcb").obj = t
  BY RegistersWritten
<1>8. Writes(n4, 0, t, "entry") /\ Writes(n4, 0, t, "x0")
  BY <1>7, FreshFields DEF Writes, TcbOps
<1>9. Tcbs(p).sc = <<"sc", p>> /\ Tcbs(p).priority = pds[p].priority
  BY <1>0, <1>2, FieldWritten, PdWriteIs
<1>10. Tcbs(p).cspace = <<"cnode", p>> /\ Tcbs(p).vspace = <<"vspace", p>>
  BY <1>0, <1>4, FieldWritten, PdWriteIs
<1>11. Tcbs(p).ntfn = <<"ntfn", p>>
  BY <1>0, <1>6, FieldWritten, PdWriteIs
<1>12. Tcbs(p).entry = Images[pds[p].name].entry /\ Tcbs(p).x0 = pds[p].pd_id
  BY <1>0, <1>8, FieldWritten, PdWriteIs
<1>13. ASSUME TimeoutsHandled(p)
       PROVE  Tcbs(p).timeout = CapOf(FaultCap(p))
  <2>1. PICK n5 : plan[n5].op = "SetTimeoutEndpoint" /\ Done(n5, 0) /\ CapAt(n5, 0, "tcb").obj = t
    BY <1>13, TimeoutWritten
  <2>2. Writes(n5, 0, t, "timeout")
    BY <2>1, FreshFields DEF Writes, TcbOps
  <2> QED
    BY <1>0, <2>2, FieldWritten, PdWriteIs
<1> QED
  BY <1>9, <1>10, <1>11, <1>12, <1>13

-----------------------------------------------------------------------------
(* What a PD has when it starts *)

\* A capability without a badge, and one with.
LEMMA SealedIs ==
  /\ \A obj : Sealed(obj, 0) = Plain(obj)
  /\ \A obj, badge : obj[1] \notin {"ep", "ntfn"} => Sealed(obj, badge) = Plain(obj)
  /\ \A obj, badge : obj[1] \in {"ep", "ntfn"} => Sealed(obj, badge) = [obj |-> obj, badge |-> badge]
BY DEF Sealed, Plain

LEMMA GiftHeld ==
  ASSUME Final, NEW p, NEW slot, NEW obj, NEW badge, GiftKinds(Gift(<<"cnode", p>>, slot, obj, badge))
  PROVE  slot \in DOMAIN Held(p) /\ Held(p)[slot] = Sealed(obj, badge)
<1>1. \A g : GiftKinds(g) => Has(g.to, g.slot, g.cap)
  BY CapsAreGifts
<1>2. Has(<<"cnode", p>>, slot, Sealed(obj, badge))
  BY <1>1, GiftIs
<1> QED
  BY <1>2 DEF Has, Held

LEMMA PdHolds ==
  ASSUME Final, NEW p \in DOMAIN pds
  PROVE  /\ Holds(p, InputSlot, IF NeedsEp(p) THEN <<"ep", p>> ELSE <<"ntfn", p>>, 0)
         /\ Holds(p, ReplySlot, <<"reply", p>>, 0) /\ Holds(p, VSpaceSlot, <<"vspace", p>>, 0)
<1> DEFINE input == IF NeedsEp(p) THEN <<"ep", p>> ELSE <<"ntfn", p>>
<1>1. GiftKinds(Gift(<<"cnode", p>>, InputSlot, input, 0))
  BY DEF GiftKinds, InputGift
<1>2. GiftKinds(Gift(<<"cnode", p>>, ReplySlot, <<"reply", p>>, 1))
  BY DEF GiftKinds, ReplyGift
<1>3. GiftKinds(Gift(<<"cnode", p>>, VSpaceSlot, <<"vspace", p>>, 0))
  BY DEF GiftKinds, VSpaceGift
<1>4. <<"reply", p>>[1] \notin {"ep", "ntfn"}
  OBVIOUS
<1> HIDE DEF input
<1>5. InputSlot \in DOMAIN Held(p) /\ Held(p)[InputSlot] = Plain(input)
  BY <1>1, GiftHeld, SealedIs
<1>6. ReplySlot \in DOMAIN Held(p) /\ Held(p)[ReplySlot] = Plain(<<"reply", p>>)
  BY <1>2, <1>4, GiftHeld, SealedIs
<1>7. VSpaceSlot \in DOMAIN Held(p) /\ Held(p)[VSpaceSlot] = Plain(<<"vspace", p>>)
  BY <1>3, GiftHeld, SealedIs
<1>8. Holds(p, InputSlot, input, 0) /\ Holds(p, ReplySlot, <<"reply", p>>, 0) /\ Holds(p, VSpaceSlot, <<"vspace", p>>, 0)
  BY <1>5, <1>6, <1>7 DEF Holds, Plain
<1> QED
  BY <1>8 DEF input

LEMMA IsConfigured == BootInv => Configured
<1> SUFFICES ASSUME BootInv, Started, NEW p \in DOMAIN pds
             PROVE  LET t == Tcbs(p)
                    IN  /\ t.sc = <<"sc", p>> /\ t.sc \in kernel.configured /\ t.priority = pds[p].priority
                        /\ t.cspace = <<"cnode", p>> /\ t.vspace = <<"vspace", p>> /\ t.ntfn = <<"ntfn", p>>
                        /\ t.entry = Images[pds[p].name].entry /\ t.x0 = pds[p].pd_id
                        /\ Holds(p, InputSlot, IF NeedsEp(p) THEN <<"ep", p>> ELSE <<"ntfn", p>>, 0)
                        /\ Holds(p, ReplySlot, <<"reply", p>>, 0) /\ Holds(p, VSpaceSlot, <<"vspace", p>>, 0)
  BY DEF Configured
<1>1. Final
  BY DEF Final
<1>2. <<"sc", p>> \in kernel.configured
  BY <1>1, FlagsSet
<1> QED
  BY <1>1, <1>2, PdTcb, PdHolds

\* For every description, every set of images and every layout: no PD runs before every PD has
\* its own scheduling context with a budget and its priority, its CSpace, address space and
\* notification, its entry point and number, and its input, reply and VSpace capabilities
\* (the TCB part of build_system, lines 1903 to 1970, and the mints of lines 1469 to 1494).
THEOREM AllConfigured == Spec => []Configured
<1>1. Init => BootInv
  BY InitBootInv
<1>2. BootInv /\ [Next]_vars => BootInv'
  BY BootInvNext
<1>3. BootInv => Configured
  BY IsConfigured
<1> QED
  BY <1>1, <1>2, <1>3, PTL DEF Spec

-----------------------------------------------------------------------------
(* Where the faults of a PD arrive *)

\* SetSchedParams takes the fault handler away that SetSpace gives: it must come first.
Without(list, op) == \A inv \in ToSet(list) : inv.op # op
ParamsFirst(list) ==
  \A i, j \in 1..Len(list) : list[i].op = "SetSpace" /\ list[j].op = "SetSchedParams" => j < i

LEMMA WithoutEither ==
  ASSUME NEW s, IsList(s), Without(s, "SetSpace") \/ Without(s, "SetSchedParams")
  PROVE  ParamsFirst(s)
<1>1. \A i \in 1..Len(s) : s[i] \in ToSet(s)
  BY ListDomain DEF ToSet
<1> QED
  BY <1>1 DEF ParamsFirst, Without

LEMMA JoinedFirst ==
  ASSUME NEW s, IsList(s), ParamsFirst(s), NEW t, IsList(t), ParamsFirst(t),
         Without(s, "SetSpace") \/ Without(t, "SetSchedParams")
  PROVE  /\ IsList(s \o t) /\ ParamsFirst(s \o t)
         /\ \A op : Without(s, op) /\ Without(t, op) => Without(s \o t, op)
<1>1. /\ IsList(s \o t) /\ Len(s \o t) = Len(s) + Len(t) /\ Len(s) \in Nat /\ Len(t) \in Nat
      /\ \A i \in 1..Len(s) + Len(t) : (s \o t)[i] = IF i <= Len(s) THEN s[i] ELSE t[i - Len(s)]
  BY ConcatAt
<1>2. \A op : Without(s, op) /\ Without(t, op) => Without(s \o t, op)
  BY ConcatLists DEF Without
<1>3. (\A i \in 1..Len(s) : s[i] \in ToSet(s)) /\ (\A i \in 1..Len(t) : t[i] \in ToSet(t))
  BY ListDomain DEF ToSet
<1>4. ASSUME NEW i \in 1..Len(s \o t), NEW j \in 1..Len(s \o t), (s \o t)[i].op = "SetSpace", (s \o t)[j].op = "SetSchedParams"
      PROVE  j < i
  <2>1. CASE i <= Len(s) /\ j <= Len(s)
    <3>1. s[i].op = "SetSpace" /\ s[j].op = "SetSchedParams" /\ i \in 1..Len(s) /\ j \in 1..Len(s)
      BY <1>1, <1>4, <2>1
    <3> QED
      BY <3>1 DEF ParamsFirst
  <2>2. CASE i > Len(s) /\ j > Len(s)
    <3>1. /\ t[i - Len(s)].op = "SetSpace" /\ t[j - Len(s)].op = "SetSchedParams"
          /\ i - Len(s) \in 1..Len(t) /\ j - Len(s) \in 1..Len(t)
      BY <1>1, <1>4, <2>2
    <3>2. j - Len(s) < i - Len(s)
      BY <3>1 DEF ParamsFirst
    <3> QED
      BY <1>1, <3>2
  <2>3. CASE i <= Len(s) /\ j > Len(s)
    <3>1. /\ s[i].op = "SetSpace" /\ t[j - Len(s)].op = "SetSchedParams"
          /\ i \in 1..Len(s) /\ j - Len(s) \in 1..Len(t)
      BY <1>1, <1>4, <2>3
    <3> QED
      BY <1>3, <3>1 DEF Without
  <2>4. CASE i > Len(s) /\ j <= Len(s)
    BY <1>1, <2>4
  <2> QED
    BY <1>1, <2>1, <2>2, <2>3, <2>4
<1> QED
  BY <1>1, <1>2, <1>4 DEF ParamsFirst

LEMMA CapPartOps ==
  ASSUME NEW inv, CapPart(inv) \/ HasRestOp(inv)
  PROVE  inv.op \notin {"SetSpace", "SetSchedParams"}
<1>1. CASE HasRestOp(inv)
  BY <1>1 DEF HasRestOp, RestOps
<1>2. CASE MintPart(inv)
  BY <1>2, MintPartOps DEF MintOps
<1>3. CASE IsThreadWrite(inv)
  BY <1>3, ThreadWriteOps DEF ThreadOps
<1>4. CASE IsRetype(inv) \/ IsIrqGet(inv) \/ IsIrqSet(inv)
  BY <1>4, SingleOps
<1>5. IsCSpace(inv) => IsChildMint(inv) \/ IsThreadMint(inv) \/ IsThreadWrite(inv)
  BY DEF IsCSpace, IsChildMint, IsThreadMint, IsThreadWrite
<1> QED
  BY <1>1, <1>2, <1>3, <1>4, <1>5 DEF CapPart, MintPart

LEMMA PlanParamsFirst ==
  ASSUME Laid
  PROVE  ParamsFirst(SystemInvocations)
<1> DEFINE Neither(s) == Without(s, "SetSpace") /\ Without(s, "SetSchedParams")
<1>1. /\ IsList(SetSchedParams) /\ IsList(SetSpaces) /\ IsList(SetIpcBuffers) /\ IsList(WriteRegisters)
      /\ IsList(BindNotifications) /\ IsList(SetDomains) /\ IsList(SetThreadDomains)
  BY LaidReady, QuietSchedParams, QuietByPd, QuietRepeated, QuietDomains DEF Quiets
<1>2. IsList(CapInvocations) /\ Neither(CapInvocations)
  BY CapPartIs, CapPartOps DEF Without
<1>3. Without(SetSchedParams, "SetSpace")
  <2>1. \A inv : inv \in ToSet(SetSchedParams) <=> inv \in ToSet(Flags) \/ inv \in ToSet(Params)
    BY SchedParamsAre, ConcatMembers
  <2>2. \A inv \in ToSet(SetSchedParams) : IsFlags(inv) \/ IsTimeout(inv) \/ IsParams(inv)
    BY <2>1, SchedParamsAre
  <2> QED
    BY <2>2, SingleOps DEF Without
<1>4. Without(SetSpaces, "SetSchedParams")
  BY TcbBlocksAre, SingleOps DEF Without
<1>5. Neither(SetIpcBuffers) /\ Neither(WriteRegisters) /\ Neither(BindNotifications)
  BY TcbBlocksAre, SingleOps DEF Without
<1>6. /\ Neither(SetDomains) /\ Neither(SetThreadDomains) /\ Neither(ResumeAll) /\ Neither(SuspendSelf)
      /\ IsList(ResumeAll) /\ IsList(SuspendSelf)
  BY RestIs, CapPartOps DEF Without
<1>7. ASSUME NEW s, IsList(s), ParamsFirst(s), NEW t, IsList(t), Neither(t)
      PROVE  IsList(s \o t) /\ ParamsFirst(s \o t)
  BY <1>7, WithoutEither, JoinedFirst
<1> DEFINE a == SetSchedParams \o SetSpaces
           b == a \o SetIpcBuffers \o WriteRegisters \o BindNotifications
           c == b \o SetDomains \o SetThreadDomains
<1>8. IsList(a) /\ ParamsFirst(a)
  BY <1>1, <1>3, <1>4, WithoutEither, JoinedFirst
<1> HIDE DEF a, Neither
<1>9. IsList(b) /\ ParamsFirst(b)
  BY <1>1, <1>5, <1>7, <1>8
<1> HIDE DEF b
<1>10. IsList(c) /\ ParamsFirst(c)
  BY <1>1, <1>6, <1>7, <1>9
<1>11. TcbInvocations = c
  BY DEF TcbInvocations, a, b
<1> HIDE DEF c
<1>12. IsList(CapInvocations \o TcbInvocations) /\ ParamsFirst(CapInvocations \o TcbInvocations)
  BY <1>2, <1>10, <1>11, WithoutEither, JoinedFirst DEF Neither
<1> QED
  BY <1>6, <1>7, <1>12 DEF SystemInvocations

Handler(p) == IF Parented(p) THEN [obj |-> <<"ep", pds[p].parent>>, badge |-> FaultBadge(pds[p].pd_id)]
                             ELSE [obj |-> <<"ep", p>>, badge |-> FaultRootBadge]

LEMMA FaultCapIs ==
  ASSUME Final, NEW p \in DOMAIN pds
  PROVE  CapOf(FaultCap(p)) = Handler(p)
<1>1. FaultCap(p) \in Nat
  <2>1. p \in Nat \ {0}
    BY FinalPlan, Domains
  <2> QED
    BY <2>1, CapNumbers
<1>2. SystemCNode \in Int /\ CapOf(SystemCNode).obj = System
  BY CapsOfInit, PlainObj DEF SystemCNode
<1>3. ASSUME NEW q \in DOMAIN pds, NeedsEp(q), NEW badge \in Int, IsPdFault(Mint(SystemCNode, FaultCap(p), Ep(q), badge))
      PROVE  CapOf(FaultCap(p)) = [obj |-> <<"ep", q>>, badge |-> badge]
  <2>1. Ep(q) \in Int /\ CapOf(Ep(q)).obj = <<"ep", q>>
    BY <1>3, CNodeCap
  <2>2. MintPart(Mint(SystemCNode, FaultCap(p), Ep(q), badge))
    BY <1>3 DEF MintPart
  <2>3. Dealt(Gift(System, FaultCap(p), <<"ep", q>>, badge))
    BY <1>1, <1>2, <1>3, <2>1, <2>2, OnceDealt
  <2>4. Has(System, FaultCap(p), Sealed(<<"ep", q>>, badge))
    BY <2>3, GiftThere, GiftIs
  <2>5. Sealed(<<"ep", q>>, badge) = [obj |-> <<"ep", q>>, badge |-> badge]
    BY SealedIs
  <2> QED
    BY <1>1, <2>4, <2>5, CapInSystem
<1>4. pds[p].pd_id \in Int
  <2>1. pds[p].pd_id \in 0..255
    BY FinalPlan, PdTyped
  <2> QED
    BY <2>1
<1>5. CASE Parented(p)
  <2>1. pds[p].parent \in DOMAIN pds /\ NeedsEp(pds[p].parent)
    BY <1>5, WhoNeedsEp
  <2>2. IsPdFault(Mint(SystemCNode, FaultCap(p), Ep(pds[p].parent), FaultBadge(pds[p].pd_id)))
    BY <1>5 DEF IsPdFault
  <2>3. FaultBadge(pds[p].pd_id) \in Int
    BY <1>4 DEF FaultBadge
  <2> QED
    BY <1>3, <1>5, <2>1, <2>2, <2>3 DEF Handler
<1>6. CASE ~Parented(p)
  <2>1. NeedsEp(p)
    BY <1>6, WhoNeedsEp
  <2>2. IsPdFault(Mint(SystemCNode, FaultCap(p), Ep(p), FaultRootBadge))
    BY <1>6 DEF IsPdFault
  <2>3. FaultRootBadge \in Int
    BY DEF FaultRootBadge
  <2> QED
    BY <1>3, <1>6, <2>1, <2>2, <2>3 DEF Handler
<1> QED
  BY <1>5, <1>6

LEMMA FaultIs ==
  ASSUME Final, NEW p \in DOMAIN pds
  PROVE  Tcbs(p).fault = Handler(p)
<1>1. PICK n, j : IsSpace(plan[n]) /\ plan[n].op = "SetSpace" /\ Done(n, j) /\ CapAt(n, j, "tcb").obj = <<"tcb", p>>
  BY SpaceWritten
<1>2. Writes(n, j, <<"tcb", p>>, "fault")
  BY <1>1, FreshFields DEF Writes, TcbOps
<1>3. PICK m, i : /\ Writes(m, i, <<"tcb", p>>, "fault") /\ Tcbs(p)["fault"] = Fresh(m, i)["fault"]
                  /\ \A x, y : Writes(x, y, <<"tcb", p>>, "fault") => x <= m
  BY <1>2, FieldWritten DEF TcbFields
<1>4. n <= m /\ n \in 1..Len(plan) /\ m \in 1..Len(plan) /\ n \in Int /\ m \in Int
  BY <1>2, <1>3 DEF Writes, Done
<1>5. plan[m].op # "SetSchedParams"
  <2>1. ParamsFirst(plan)
    BY FinalPlan, PlanParamsFirst
  <2>2. plan[m].op = "SetSchedParams" => m < n
    BY <1>1, <1>4, <2>1 DEF ParamsFirst
  <2> QED
    BY <1>4, <2>2
<1>6. Fresh(m, i)["fault"] = CapOf(FaultCap(p))
  BY <1>3, <1>5, PdWriteIs
<1> QED
  BY <1>3, <1>6, FaultCapIs

LEMMA TimeoutIs ==
  ASSUME Final, NEW p \in DOMAIN pds
  PROVE  Tcbs(p).timeout = IF TimeoutsHandled(p) THEN Handler(p) ELSE NoCap
<1>1. CASE TimeoutsHandled(p)
  BY <1>1, PdTcb, FaultCapIs
<1>2. CASE ~TimeoutsHandled(p)
  <2>1. \A m, i : ~Writes(m, i, <<"tcb", p>>, "timeout")
    BY <1>2, PdWriteIs
  <2>2. <<"tcb", p>> \in DOMAIN kernel.tcb
    <3>1. PICK m : plan[m].op = "SetSchedParams" /\ Done(m, 0) /\ CapAt(m, 0, "tcb").obj = <<"tcb", p>>
      BY ParamsWritten
    <3> QED
      BY <3>1, FinalPlan DEF Effects, TargetsThere, TcbOps
  <2>3. kernel.tcb[<<"tcb", p>>]["timeout"] = Blank["timeout"]
    BY <2>1, <2>2, FinalPlan DEF Effects, LastWritten, TcbFields
  <2> QED
    BY <1>2, <2>3 DEF Blank, Tcbs
<1> QED
  BY <1>1, <1>2

LEMMA IsHandled == BootInv => FaultsReachHandler
<1> SUFFICES ASSUME BootInv, Started, NEW p \in DOMAIN pds
             PROVE  LET parent == pds[p].parent
                        handler == IF Parented(p) THEN [obj |-> <<"ep", parent>>, badge |-> FaultBadge(pds[p].pd_id)]
                                                  ELSE [obj |-> <<"ep", p>>, badge |-> FaultRootBadge]
                    IN  /\ Tcbs(p).fault = handler
                        /\ Tcbs(p).timeout = IF Parented(p) /\ pds[parent].timeouts THEN handler ELSE NoCap
  BY DEF FaultsReachHandler
<1>1. Final
  BY DEF Final
<1>2. Tcbs(p).fault = Handler(p) /\ Tcbs(p).timeout = IF TimeoutsHandled(p) THEN Handler(p) ELSE NoCap
  BY <1>1, FaultIs, TimeoutIs
<1> QED
  BY <1>2 DEF Handler, TimeoutsHandled

\* For every description: the faults of a PD arrive at its parent under the number that the
\* parent knows it by, or at itself if it has none, and its timeouts arrive there exactly if
\* the parent handles them; SetSchedParams clears what SetSpace sets, and never comes after it
\* (lines 1438 to 1467 and 1903 to 1938).
THEOREM FaultsHandled == Spec => []FaultsReachHandler
<1>1. Init => BootInv
  BY InitBootInv
<1>2. BootInv /\ [Next]_vars => BootInv'
  BY BootInvNext
<1>3. BootInv => FaultsReachHandler
  BY IsHandled
<1> QED
  BY <1>1, <1>2, <1>3, PTL DEF Spec

-----------------------------------------------------------------------------
(* An interrupt belongs to one PD *)

NumberedOnce(s) == \A m, n \in 1..Len(s) : s[m].irq = s[n].irq => m = n

LEMMA PartsNumberedOnce ==
  ASSUME NEW s, IsList(s), NEW t, IsList(t), NumberedOnce(s \o t)
  PROVE  /\ NumberedOnce(s) /\ NumberedOnce(t)
         /\ \A x \in ToSet(s) : \A y \in ToSet(t) : x.irq # y.irq
<1>1. /\ Len(s \o t) = Len(s) + Len(t) /\ Len(s) \in Nat /\ Len(t) \in Nat
      /\ \A i \in 1..Len(s) + Len(t) : (s \o t)[i] = IF i <= Len(s) THEN s[i] ELSE t[i - Len(s)]
  BY ConcatAt
<1>2. \A m \in 1..Len(s) : (s \o t)[m] = s[m] /\ m \in 1..Len(s \o t)
  BY <1>1
<1>3. \A m \in 1..Len(t) : (s \o t)[Len(s) + m] = t[m] /\ Len(s) + m \in 1..Len(s \o t)
  <2> TAKE m \in 1..Len(t)
  <2>1. Len(s) + m \in 1..Len(s) + Len(t) /\ ~(Len(s) + m <= Len(s)) /\ (Len(s) + m) - Len(s) = m
    BY <1>1
  <2> QED
    BY <1>1, <2>1
<1>4. NumberedOnce(s)
  BY <1>2 DEF NumberedOnce
<1>5. NumberedOnce(t)
  <2> SUFFICES ASSUME NEW m \in 1..Len(t), NEW n \in 1..Len(t), t[m].irq = t[n].irq
               PROVE  m = n
    BY DEF NumberedOnce
  <2>1. (s \o t)[Len(s) + m].irq = (s \o t)[Len(s) + n].irq
    BY <1>3
  <2>2. Len(s) + m \in 1..Len(s \o t) /\ Len(s) + n \in 1..Len(s \o t)
    BY <1>3
  <2>3. Len(s) + m = Len(s) + n
    BY <2>1, <2>2 DEF NumberedOnce
  <2> QED
    BY <1>1, <2>3
<1>6. ASSUME NEW x \in ToSet(s), NEW y \in ToSet(t), x.irq = y.irq
      PROVE  FALSE
  <2>1. PICK m \in 1..Len(s) : x = s[m]
    BY ElementsOf
  <2>2. PICK n \in 1..Len(t) : y = t[n]
    BY ElementsOf
  <2>3. (s \o t)[m].irq = (s \o t)[Len(s) + n].irq
    BY <1>2, <1>3, <1>6, <2>1, <2>2
  <2>4. m \in 1..Len(s \o t) /\ Len(s) + n \in 1..Len(s \o t)
    BY <1>2, <1>3
  <2>5. m = Len(s) + n
    BY <2>3, <2>4 DEF NumberedOnce
  <2> QED
    BY <1>1, <2>1, <2>2, <2>5
<1> QED
  BY <1>4, <1>5, <1>6

\* The stages of a concatenation have the elements of the lists before.
LEMMA StagesHold ==
  ASSUME NEW q, IsList(q), \A n \in 1..Len(q) : IsList(q[n]), Len(q) # 0
  PROVE  \E it : /\ FlattenSeq(q) = it[Len(q)] /\ \A n \in 1..Len(q) : IsList(it[n])
                 /\ \A n \in 1..Len(q) : it[n] = IF n = 1 THEN q[n] ELSE it[n - 1] \o q[n]
                 /\ \A n \in 1..Len(q) : \A m \in 1..n : \A a \in ToSet(q[m]) : a \in ToSet(it[n])
<1>0. PICK it : FlatThrough(q, it)
  BY FlatStages
<1>1. /\ FlattenSeq(q) = it[Len(q)]
      /\ \A i \in 1..Len(q) : it[i] = IF i = 1 THEN q[i] ELSE it[i - 1] \o q[i]
  BY <1>0 DEF FlatThrough
<1> DEFINE Right(i) == IsList(it[i]) /\ \A m \in 1..i : \A a \in ToSet(q[m]) : a \in ToSet(it[i])
           Bad == {i \in 1..Len(q) : ~Right(i)}
<1>2. Bad = {}
  <2> SUFFICES ASSUME Bad # {} PROVE FALSE
    OBVIOUS
  <2>1. Bad \in SUBSET Nat
    OBVIOUS
  <2>2. PICK i \in Bad : \A j \in Bad : i <= j
    <3> HIDE DEF Bad
    <3> QED
      BY <2>1, LeastOf
  <2>3. i \in 1..Len(q) /\ ~Right(i) /\ Len(q) \in Nat
    BY <2>2 DEF IsList
  <2>4. CASE i = 1
    <3>1. it[i] = q[i] /\ \A m \in 1..i : m = i
      BY <1>1, <2>3, <2>4
    <3> QED
      BY <2>3, <3>1
  <2>5. CASE i # 1
    <3>1. i - 1 \in 1..Len(q) /\ ~(i <= i - 1)
      BY <2>3, <2>5
    <3>2. Right(i - 1)
      BY <2>2, <3>1
    <3>3. it[i] = it[i - 1] \o q[i]
      BY Zenon, <1>1, <2>3, <2>5
    <3>4. IsList(it[i]) /\ \A x : x \in ToSet(it[i]) <=> x \in ToSet(it[i - 1]) \/ x \in ToSet(q[i])
      BY <2>3, <3>2, <3>3, ConcatMembers
    <3>5. \A m \in 1..i : m = i \/ m \in 1..i - 1
      BY <2>3
    <3> QED
      BY <2>3, <3>2, <3>4, <3>5
  <2> QED
    BY <2>4, <2>5
<1>3. \A n \in 1..Len(q) : Right(n)
  BY <1>2
<1> QED
  BY <1>1, <1>3

LEMMA FlatNumberedOnce ==
  ASSUME NEW q, IsList(q), \A n \in 1..Len(q) : IsList(q[n]), NumberedOnce(FlattenSeq(q)),
         NEW i \in 1..Len(q), NEW j \in 1..Len(q), NEW x \in ToSet(q[i]), NEW y \in ToSet(q[j]), x.irq = y.irq
  PROVE  i = j /\ x = y
<1> DEFINE L == Len(q)
<1>0. L \in Nat /\ L # 0
  BY DEF IsList
<1>1. PICK it : /\ FlattenSeq(q) = it[L] /\ \A n \in 1..L : IsList(it[n])
                /\ \A n \in 1..L : it[n] = IF n = 1 THEN q[n] ELSE it[n - 1] \o q[n]
                /\ \A n \in 1..L : \A m \in 1..n : \A a \in ToSet(q[m]) : a \in ToSet(it[n])
  BY <1>0, StagesHold
<1> HIDE DEF L
<1>2. ASSUME NEW n \in 1..L, n # 1, NumberedOnce(it[n])
      PROVE  /\ NumberedOnce(it[n - 1]) /\ NumberedOnce(q[n])
             /\ \A a \in ToSet(it[n - 1]) : \A b \in ToSet(q[n]) : a.irq # b.irq
  <2>0. it[n] = it[n - 1] \o q[n]
    BY Zenon, <1>1, <1>2
  <2>1. n - 1 \in 1..L /\ it[n] = it[n - 1] \o q[n]
    BY <1>0, <1>2, <2>0
  <2>2. IsList(it[n - 1]) /\ IsList(q[n])
    BY <1>1, <2>1 DEF L
  <2> QED
    BY <1>2, <2>1, <2>2, PartsNumberedOnce
<1> DEFINE Bad == {k \in 0..L - 1 : ~NumberedOnce(it[L - k])}
<1>3. Bad = {}
  <2> SUFFICES ASSUME Bad # {} PROVE FALSE
    OBVIOUS
  <2>1. Bad \in SUBSET Nat
    OBVIOUS
  <2>2. PICK k \in Bad : \A m \in Bad : k <= m
    <3> HIDE DEF Bad
    <3> QED
      BY <2>1, LeastOf
  <2>3. k \in 0..L - 1 /\ ~NumberedOnce(it[L - k])
    BY <2>2
  <2>4. k # 0
    BY <1>0, <1>1, <2>3 DEF L
  <2>5. k - 1 \in 0..L - 1 /\ ~(k <= k - 1) /\ L - (k - 1) \in 1..L /\ L - (k - 1) # 1 /\ (L - (k - 1)) - 1 = L - k
    BY <1>0, <2>3, <2>4
  <2>6. NumberedOnce(it[L - (k - 1)])
    BY <2>2, <2>5
  <2>7. NumberedOnce(it[(L - (k - 1)) - 1])
    BY <1>2, <2>5, <2>6
  <2> QED
    BY <2>3, <2>5, <2>7
<1>4. ASSUME NEW n \in 1..L
      PROVE  NumberedOnce(it[n])
  <2>1. L - n \in 0..L - 1 /\ L - (L - n) = n
    BY <1>0
  <2>2. NumberedOnce(it[L - (L - n)])
    BY <1>3, <2>1
  <2> QED
    BY <2>1, <2>2
<1> HIDE DEF Bad
<1>5. ASSUME NEW m \in 1..L, NEW n \in 1..L, m < n, NEW a \in ToSet(q[m]), NEW b \in ToSet(q[n])
      PROVE  a.irq # b.irq
  <2>1. n # 1 /\ n - 1 \in 1..L /\ m \in 1..n - 1
    BY <1>0, <1>5
  <2>2. a \in ToSet(it[n - 1])
    BY <1>1, <2>1
  <2> QED
    BY <1>2, <1>4, <2>1, <2>2
<1>6. i \in 1..L /\ j \in 1..L
  BY DEF L
<1>7. i = j
  <2>1. ~(i < j) /\ ~(j < i)
    BY <1>5, <1>6
  <2> QED
    BY <1>6, <2>1
<1>8. NumberedOnce(q[i])
  <2>1. CASE i = 1
    BY <1>1, <1>4, <1>6, <2>1
  <2>2. CASE i # 1
    BY <1>2, <1>4, <1>6, <2>2
  <2> QED
    BY <2>1, <2>2
<1>9. IsList(q[i])
  OBVIOUS
<1>10. (\E m \in 1..Len(q[i]) : x = q[i][m]) /\ (\E m \in 1..Len(q[i]) : y = q[i][m])
  BY <1>7, <1>9, ElementsOf
<1> QED
  BY <1>7, <1>8, <1>10 DEF NumberedOnce

LEMMA IrqOnce ==
  ASSUME Final, NEW p \in DOMAIN pds, NEW q \in DOMAIN pds, NEW x \in ToSet(pds[p].irqs), NEW y \in ToSet(pds[q].irqs),
         x.irq = y.irq
  PROVE  p = q /\ x = y
<1> DEFINE k == Len(pds)
           s == [n \in DOMAIN pds |-> pds[n].irqs]
<1>1. k \in Nat /\ DOMAIN pds = 1..k
  BY FinalPlan, Domains
<1>2. s = [n \in 1..k |-> s[n]] /\ \A n \in 1..k : s[n] = pds[n].irqs
  BY <1>1
<1>3. \A n \in 1..k : IsList(s[n])
  <2>1. \A n \in 1..k : pds[n].irqs \in Seq([irq : Int, id : 0..62])
    BY <1>1, FinalPlan, PdTyped
  <2> QED
    BY <1>2, <2>1 DEF IsList
<1>4. AllIrqs = FlattenSeq(s)
  BY DEF AllIrqs
<1> HIDE DEF s, k
<1>5. IsList(s) /\ Len(s) = k
  BY <1>1, <1>2, FunctionIsList
<1>6. IsList(FlattenSeq(s))
  BY <1>3, <1>5, FlatLists
<1>7. DOMAIN FlattenSeq(s) = 1..Len(FlattenSeq(s))
  BY <1>6, ListDomain
<1>8. NumberedOnce(FlattenSeq(s))
  BY <1>4, <1>7, FinalPlan DEF Accepted, NumberedOnce
<1>9. p \in 1..Len(s) /\ q \in 1..Len(s) /\ x \in ToSet(s[p]) /\ y \in ToSet(s[q])
  BY <1>1, <1>2, <1>5
<1> QED
  BY <1>3, <1>5, <1>8, <1>9, FlatNumberedOnce

-----------------------------------------------------------------------------
(* Where interrupts arrive *)

LEMMA IrqWrite ==
  ASSUME Final, NEW m, NEW i, Done(m, i), plan[m].op = "IrqSetNotification"
  PROVE  \E n \in 1..Len(IrqList) : /\ CapAt(m, i, "handler").obj = <<"irq", IrqList[n].irq>>
                                    /\ CapAt(m, i, "notification") = CapOf(IrqNtfnCap(n))
<1>1. PICK n \in 1..Len(IrqList) : plan[m] = Do("IrqSetNotification", [handler |-> IrqCap(n), notification |-> IrqNtfnCap(n)])
  <2>1. IsIrqSet(plan[m])
    BY FinalPlan, DoneInPlan, ByOp
  <2> QED
    BY <2>1 DEF IsIrqSet
<1> DEFINE args == [handler |-> IrqCap(n), notification |-> IrqNtfnCap(n)]
<1>2. args["handler"] = IrqCap(n) /\ args["notification"] = IrqNtfnCap(n)
  OBVIOUS
<1>3. \A f : args[f] \in Int => ArgAt(m, i, f) = args[f]
  BY <1>1, OnceArgs
<1>4. n \in Nat \ {0}
  BY FinalPlan, IrqListIs
<1>5. IrqCap(n) \in Int /\ IrqNtfnCap(n) \in Int
  <2>1. IrqCap(n) \in Nat /\ IrqNtfnCap(n) \in Nat
    BY <1>4, CapNumbers
  <2> QED
    BY <2>1
<1> HIDE DEF args
<1>6. ArgAt(m, i, "handler") = IrqCap(n) /\ ArgAt(m, i, "notification") = IrqNtfnCap(n)
  BY <1>2, <1>3, <1>5
<1>7. CapOf(IrqCap(n)).obj = <<"irq", IrqList[n].irq>>
  BY IrqCaps, PlainObj
<1> QED
  BY <1>6, <1>7 DEF CapAt

LEMMA IrqWritten ==
  ASSUME Final, NEW n \in 1..Len(IrqList)
  PROVE  \E m : /\ plan[m].op = "IrqSetNotification" /\ Done(m, 0)
                /\ CapAt(m, 0, "handler").obj = <<"irq", IrqList[n].irq>>
<1> DEFINE args == [handler |-> IrqCap(n), notification |-> IrqNtfnCap(n)]
<1>1. CapPart(Do("IrqSetNotification", args))
  BY DEF CapPart, IsIrqSet
<1>2. args["handler"] = IrqCap(n)
  OBVIOUS
<1>3. IrqCap(n) \in Int /\ CapOf(IrqCap(n)).obj = <<"irq", IrqList[n].irq>>
  <2>1. IrqCap(n) \in Nat /\ CapOf(IrqCap(n)) = Plain(<<"irq", IrqList[n].irq>>)
    BY IrqCaps
  <2>2. CapOf(IrqCap(n)).obj = <<"irq", IrqList[n].irq>>
    BY <2>1, PlainObj
  <2> QED
    BY <2>1, <2>2
<1>4. "IrqSetNotification" \notin Starts
  BY DEF Starts
<1> HIDE DEF args
<1>5. PICK m : /\ plan[m].op = "IrqSetNotification" /\ Done(m, 0)
               /\ \A f : args[f] \in Int => ArgAt(m, 0, f) = args[f]
  BY <1>1, <1>4, OnceDone
<1> QED
  BY <1>2, <1>3, <1>5 DEF CapAt

LEMMA IrqNtfnIs ==
  ASSUME Final, NEW n \in 1..Len(IrqList)
  PROVE  CapOf(IrqNtfnCap(n)) = [obj |-> <<"ntfn", IrqList[n].pd>>, badge |-> NtfnBadge(IrqList[n].id)]
<1> DEFINE p == IrqList[n].pd
           badge == NtfnBadge(IrqList[n].id)
<1>1. IrqNtfnCap(n) \in Nat
  <2>1. n \in Nat \ {0}
    BY FinalPlan, IrqListIs
  <2> QED
    BY <2>1, CapNumbers
<1>2. SystemCNode \in Int /\ CapOf(SystemCNode).obj = System
  BY CapsOfInit, PlainObj DEF SystemCNode
<1>3. p \in DOMAIN pds /\ badge \in Int
  <2>0. \A x \in 0..62 : NtfnBadge(x) \in Int
    BY DEF NtfnBadge
  <2>1. PICK q \in DOMAIN pds : \E e \in ToSet(pds[q].irqs) : IrqList[n] = [pd |-> q, irq |-> e.irq, id |-> e.id]
    BY FinalPlan, IrqListIs
  <2>2. PICK e \in ToSet(pds[q].irqs) : IrqList[n] = [pd |-> q, irq |-> e.irq, id |-> e.id]
    BY <2>1
  <2>3. e.id \in 0..62
    BY FinalPlan, IrqTyped
  <2>4. p = q /\ IrqList[n].id = e.id
    BY <2>2
  <2>5. badge \in Int
    BY Zenon, <2>0, <2>3, <2>4
  <2> QED
    BY <2>4, <2>5
<1>4. Ntfn(p) \in Int /\ CapOf(Ntfn(p)).obj = <<"ntfn", p>>
  BY <1>3, CNodeCap
<1>5. MintPart(Mint(SystemCNode, IrqNtfnCap(n), Ntfn(p), badge))
  BY DEF MintPart, IsIrqNtfn
<1> HIDE DEF p, badge
<1>6. Dealt(Gift(System, IrqNtfnCap(n), <<"ntfn", p>>, badge))
  BY <1>1, <1>2, <1>3, <1>4, <1>5, OnceDealt
<1>7. Has(System, IrqNtfnCap(n), Sealed(<<"ntfn", p>>, badge))
  BY <1>6, GiftThere, GiftIs
<1>8. Sealed(<<"ntfn", p>>, badge) = [obj |-> <<"ntfn", p>>, badge |-> badge]
  BY SealedIs
<1>9. CapOf(IrqNtfnCap(n)) = [obj |-> <<"ntfn", p>>, badge |-> badge]
  BY <1>1, <1>7, <1>8, CapInSystem
<1> QED
  BY <1>9 DEF p, badge

LEMMA IrqArrives ==
  ASSUME Final, NEW p \in DOMAIN pds, NEW irq \in ToSet(pds[p].irqs)
  PROVE  /\ kernel.irqs[irq.irq] = [obj |-> <<"ntfn", p>>, badge |-> NtfnBadge(irq.id)]
         /\ Holds(p, IrqSlot + irq.id, <<"irq", irq.irq>>, 0)
<1>1. PICK n \in 1..Len(IrqList) : IrqList[n] = [pd |-> p, irq |-> irq.irq, id |-> irq.id]
  BY FinalPlan, IrqListIs
<1>2. PICK m : /\ plan[m].op = "IrqSetNotification" /\ Done(m, 0)
               /\ CapAt(m, 0, "handler").obj = <<"irq", irq.irq>>
  <2>1. IrqList[n].irq = irq.irq
    BY <1>1
  <2> QED
    BY <2>1, IrqWritten
<1>3. irq.irq \in DOMAIN kernel.irqs /\ Sets(m, 0, irq.irq)
  BY <1>2, FinalPlan DEF Effects, TargetsThere, Sets
<1>4. PICK x, i : Sets(x, i, irq.irq) /\ kernel.irqs[irq.irq] = CapAt(x, i, "notification")
  BY <1>3, FinalPlan DEF Effects, IrqsSet
<1>5. PICK y \in 1..Len(IrqList) : /\ CapAt(x, i, "handler").obj = <<"irq", IrqList[y].irq>>
                                   /\ CapAt(x, i, "notification") = CapOf(IrqNtfnCap(y))
  BY <1>4, IrqWrite DEF Sets
<1>6. IrqList[y].irq = irq.irq
  BY <1>4, <1>5 DEF Sets
<1>7. IrqList[y].pd = p /\ IrqList[y].id = irq.id
  <2>1. PICK q \in DOMAIN pds : \E e \in ToSet(pds[q].irqs) : IrqList[y] = [pd |-> q, irq |-> e.irq, id |-> e.id]
    BY FinalPlan, IrqListIs
  <2>2. PICK e \in ToSet(pds[q].irqs) : IrqList[y] = [pd |-> q, irq |-> e.irq, id |-> e.id]
    BY <2>1
  <2>3. e.irq = irq.irq
    BY <1>6, <2>2
  <2>4. q = p /\ e = irq
    BY <2>3, IrqOnce
  <2> QED
    BY <2>2, <2>4
<1>8. kernel.irqs[irq.irq] = [obj |-> <<"ntfn", p>>, badge |-> NtfnBadge(irq.id)]
  BY <1>4, <1>5, <1>7, IrqNtfnIs
<1>9. GiftKinds(Gift(<<"cnode", p>>, IrqSlot + irq.id, <<"irq", irq.irq>>, 0))
  BY DEF GiftKinds, IrqGift
<1>10. IrqSlot + irq.id \in DOMAIN Held(p) /\ Held(p)[IrqSlot + irq.id] = Plain(<<"irq", irq.irq>>)
  BY <1>9, GiftHeld, SealedIs
<1> QED
  BY <1>8, <1>10 DEF Holds, Plain

-----------------------------------------------------------------------------
(* Where what a PD sends on a channel arrives *)

\* A PD p has the number id for a channel to q.
JoinedTo(cc, p, id, q) ==
  \/ Named(cc.a) = p /\ cc.ida = id /\ Named(cc.b) = q
  \/ Named(cc.b) = p /\ cc.idb = id /\ Named(cc.a) = q
Numbers(cc, name, id) == (cc.a = name /\ cc.ida = id) \/ (cc.b = name /\ cc.idb = id)

LEMMA NumbersApart ==
  ASSUME Final, NEW m \in DOMAIN channels, NEW n \in DOMAIN channels, m \in Int, n \in Int, m >= 1, m < n,
         NEW name, NEW id, Numbers(channels[m], name, id), Numbers(channels[n], name, id)
  PROVE  FALSE
<1>1. channels[n].ida \notin IdsBefore(channels[n].a, n) /\ channels[n].idb \notin IdsBefore(channels[n].b, n)
  BY FinalPlan DEF Accepted, ChannelIdsFree
<1>2. m \in 1..n - 1
  OBVIOUS
<1>3. id \in IdsBefore(name, n)
  BY <1>2 DEF Numbers, IdsBefore
<1> QED
  BY <1>1, <1>3 DEF Numbers

\* A PD has each number for one channel.
LEMMA OneChannel ==
  ASSUME Final, NEW cc \in ToSet(channels), NEW dd \in ToSet(channels), NEW p, NEW id, NEW q, NEW r,
         JoinedTo(cc, p, id, q), JoinedTo(dd, p, id, r)
  PROVE  cc = dd
<1>1. Numbers(cc, pds[p].name, id) /\ Numbers(dd, pds[p].name, id)
  BY EndsNamed DEF JoinedTo, Numbers
<1>2. PICK m \in DOMAIN channels : channels[m] = cc
  BY DEF ToSet
<1>3. PICK n \in DOMAIN channels : channels[n] = dd
  BY DEF ToSet
<1>4. m \in Int /\ n \in Int /\ m >= 1 /\ n >= 1
  <2>1. DOMAIN channels = 1..Len(channels) /\ Len(channels) \in Nat
    BY FinalPlan, Domains
  <2> QED
    BY <2>1
<1>5. ~(m < n) /\ ~(n < m)
  BY <1>1, <1>2, <1>3, <1>4, NumbersApart
<1> QED
  BY <1>2, <1>3, <1>4, <1>5

LEMMA OneEnd ==
  ASSUME Final, NEW cc \in ToSet(channels), NEW dd \in ToSet(channels), NEW p, NEW id, NEW q, NEW r,
         JoinedTo(cc, p, id, q), JoinedTo(dd, p, id, r)
  PROVE  q = r
<1>1. cc = dd
  BY OneChannel
<1> QED
  BY <1>1 DEF JoinedTo

\* The slots of a CSpace that are for endpoints of channels have nothing else.
LEMMA SlotsApart ==
  ASSUME NEW id \in 0..62
  PROVE  /\ EpSlot + id \notin {RootEpSlot, VSpaceSlot, ReplySlot, InputSlot, SelfCNodeSlot, SelfTcbSlot, SchedControlSlot}
         /\ \A i \in 0..62 : EpSlot + id # NtfnSlot + i /\ EpSlot + id # IrqSlot + i /\ (EpSlot + id = EpSlot + i => i = id)
         /\ \A n, t \in Nat : /\ EpSlot + id # TcbSlot + t /\ EpSlot + id # ThreadSc(n, t) /\ EpSlot + id # ThreadCSpace(n, t)
                              /\ EpSlot + id # ThreadReply(n, t) /\ EpSlot + id # PdVSpace(n, t)
<1>1. /\ NtfnSlot \in Nat /\ EpSlot \in Nat /\ IrqSlot \in Nat /\ TcbSlot \in Nat
      /\ 8 < NtfnSlot /\ NtfnSlot + 64 <= EpSlot /\ EpSlot + 64 <= IrqSlot /\ IrqSlot + 64 <= TcbSlot
  BY SlotsAssumption DEF SchedControlSlot
<1>2. id \in Int /\ 0 <= id /\ id <= 62
  OBVIOUS
<1>3. EpSlot + id \notin {RootEpSlot, VSpaceSlot, ReplySlot, InputSlot, SelfCNodeSlot, SelfTcbSlot, SchedControlSlot}
  BY <1>1, <1>2 DEF RootEpSlot, VSpaceSlot, ReplySlot, InputSlot, SelfCNodeSlot, SelfTcbSlot, SchedControlSlot
<1>4. \A i \in 0..62 : EpSlot + id # NtfnSlot + i /\ EpSlot + id # IrqSlot + i /\ (EpSlot + id = EpSlot + i => i = id)
  BY <1>1, <1>2
<1>5. ASSUME NEW n \in Nat, NEW t \in Nat
      PROVE  /\ EpSlot + id # TcbSlot + t /\ EpSlot + id # ThreadSc(n, t) /\ EpSlot + id # ThreadCSpace(n, t)
             /\ EpSlot + id # ThreadReply(n, t) /\ EpSlot + id # PdVSpace(n, t)
  <2>1. \A x \in Nat : EpSlot + id # TcbSlot + x
    BY <1>1, <1>2
  <2>2. /\ ThreadSc(n, t) = TcbSlot + (n + t) /\ ThreadCSpace(n, t) = TcbSlot + (n * 2 + t)
        /\ ThreadReply(n, t) = TcbSlot + (n * 3 + t) /\ PdVSpace(n, t) = TcbSlot + (n * 4 + t)
    BY <1>1 DEF ThreadSc, ThreadCSpace, ThreadReply, PdVSpace
  <2>3. n + t \in Nat /\ n * 2 + t \in Nat /\ n * 3 + t \in Nat /\ n * 4 + t \in Nat
    OBVIOUS
  <2> QED
    BY <2>1, <2>2, <2>3
<1> QED
  BY <1>3, <1>4, <1>5

LEMMA EpSlotJoins ==
  ASSUME Final, NEW p \in DOMAIN pds, NEW id \in 0..62, EpSlot + id \in DOMAIN Held(p)
  PROVE  \E cc \in ToSet(channels) : \E q : JoinedTo(cc, p, id, q) /\ pds[q].pp
<1> DEFINE g == [to |-> <<"cnode", p>>, slot |-> EpSlot + id, cap |-> Held(p)[EpSlot + id]]
<1>1. GiftKinds(g)
  BY HeldIs
<1>2. g.to = <<"cnode", p>> /\ g.slot = EpSlot + id
  OBVIOUS
<1> HIDE DEF g
<1>3. \A to, slot, obj, badge : g = Gift(to, slot, obj, badge) => to = <<"cnode", p>> /\ slot = EpSlot + id
  <2> SUFFICES ASSUME NEW to, NEW slot, NEW obj, NEW badge, g = Gift(to, slot, obj, badge)
               PROVE  to = <<"cnode", p>> /\ slot = EpSlot + id
    OBVIOUS
  <2>1. g.to = to /\ g.slot = slot
    BY GiftEquals
  <2> QED
    BY <1>2, <2>1
<1>4. ~InputGift(g) /\ ~ReplyGift(g) /\ ~VSpaceGift(g)
  <2>1. EpSlot + id # InputSlot /\ EpSlot + id # ReplySlot /\ EpSlot + id # VSpaceSlot
    BY SlotsApart
  <2> QED
    BY <1>3, <2>1 DEF InputGift, ReplyGift, VSpaceGift
<1>5. ~IrqGift(g)
  <2> SUFFICES ASSUME NEW q \in DOMAIN pds, NEW irq \in ToSet(pds[q].irqs),
                      g = Gift(<<"cnode", q>>, IrqSlot + irq.id, <<"irq", irq.irq>>, 0)
               PROVE  FALSE
    BY DEF IrqGift
  <2>1. irq.id \in 0..62
    BY FinalPlan, IrqTyped
  <2>2. EpSlot + id = IrqSlot + irq.id
    BY <1>3
  <2> QED
    BY <2>1, <2>2, SlotsApart
<1>6. ~ChildGifts(g)
  <2> SUFFICES ASSUME NEW q \in DOMAIN pds, NEW c \in Children(q), ChildGift(q, c, g)
               PROVE  FALSE
    BY DEF ChildGifts
  <2> DEFINE k == pds[c].pd_id
             n == pds[q].threads
  <2>1. k \in Nat /\ n \in Nat
    <3>1. c \in DOMAIN pds
      BY WhoNeedsEp
    <3>2. pds[c].pd_id \in 0..255 /\ pds[q].threads \in Nat
      BY <3>1, FinalPlan, PdTyped
    <3> QED
      BY <3>2
  <2>2. EpSlot + id \in {RootEpSlot, TcbSlot + k, ThreadSc(n, k), ThreadCSpace(n, k), ThreadReply(n, k), PdVSpace(n, k)}
    BY <1>3 DEF ChildGift
  <2> HIDE DEF k, n
  <2> QED
    BY <2>1, <2>2, SlotsApart
<1>7. ~ThreadGifts(g)
  <2> SUFFICES ASSUME NEW q \in DOMAIN pds,
                      SelfGift(q, g) \/ \E t \in Cardinality(Children(q))..pds[q].threads - 1 : ThreadGift(q, t, g)
               PROVE  FALSE
    BY DEF ThreadGifts
  <2>1. CASE SelfGift(q, g)
    <3>1. EpSlot + id \in {SelfCNodeSlot, SelfTcbSlot, SchedControlSlot}
      BY <1>3, <2>1 DEF SelfGift
    <3> QED
      BY <3>1, SlotsApart
  <2>2. CASE \E t \in Cardinality(Children(q))..pds[q].threads - 1 : ThreadGift(q, t, g)
    <3>1. PICK t \in Cardinality(Children(q))..pds[q].threads - 1 : ThreadGift(q, t, g)
      BY <2>2
    <3> DEFINE n == pds[q].threads
    <3>2. t \in Nat /\ n \in Nat
      <4>1. Cardinality(Children(q)) \in Nat /\ pds[q].threads \in Nat
        BY FamilyOf
      <4> QED
        BY <4>1
    <3>3. EpSlot + id \in {RootEpSlot, TcbSlot + t, ThreadSc(n, t), ThreadCSpace(n, t), ThreadReply(n, t)}
      BY <1>3, <3>1 DEF ThreadGift
    <3> HIDE DEF n
    <3> QED
      BY <3>2, <3>3, SlotsApart
  <2> QED
    BY <2>1, <2>2
<1>8. JoinGifts(g)
  BY <1>1, <1>4, <1>5, <1>6, <1>7 DEF GiftKinds
<1>9. PICK cc \in ToSet(channels) : Joins(cc, g)
  BY <1>8 DEF JoinGifts
<1> DEFINE a == Named(cc.a)
           b == Named(cc.b)
<1>10. cc.ida \in 0..62 /\ cc.idb \in 0..62
  BY FinalPlan, ChannelTyped
<1>11. EpSlot + id # NtfnSlot + cc.ida /\ EpSlot + id # NtfnSlot + cc.idb
  BY <1>10, SlotsApart
<1>12. \/ pds[b].pp /\ g = Gift(<<"cnode", a>>, EpSlot + cc.ida, <<"ep", b>>, PpcBadge(cc.idb))
       \/ pds[a].pp /\ g = Gift(<<"cnode", b>>, EpSlot + cc.idb, <<"ep", a>>, PpcBadge(cc.ida))
  BY <1>3, <1>9, <1>11 DEF Joins
<1> HIDE DEF a, b
<1>13. \/ pds[b].pp /\ <<"cnode", a>> = <<"cnode", p>> /\ EpSlot + id = EpSlot + cc.ida
       \/ pds[a].pp /\ <<"cnode", b>> = <<"cnode", p>> /\ EpSlot + id = EpSlot + cc.idb
  BY <1>3, <1>12
<1>14. (pds[b].pp /\ a = p /\ cc.ida = id) \/ (pds[a].pp /\ b = p /\ cc.idb = id)
  <2>1. (EpSlot + id = EpSlot + cc.ida => cc.ida = id) /\ (EpSlot + id = EpSlot + cc.idb => cc.idb = id)
    BY <1>10, SlotsApart
  <2>2. (<<"cnode", a>> = <<"cnode", p>> => a = p) /\ (<<"cnode", b>> = <<"cnode", p>> => b = p)
    BY SameCNode
  <2> QED
    BY Zenon, <1>13, <2>1, <2>2
<1>15. \E q : JoinedTo(cc, p, id, q) /\ pds[q].pp
  BY <1>14 DEF JoinedTo, a, b
<1> QED
  BY <1>15

\* One direction of a channel.
LEMMA EndIs ==
  ASSUME Final, NEW cc \in ToSet(channels), NEW p \in DOMAIN pds, NEW id \in 0..62, NEW q \in DOMAIN pds, NEW idq,
         JoinedTo(cc, p, id, q),
         \A g : \/ g = Gift(<<"cnode", p>>, NtfnSlot + id, <<"ntfn", q>>, NtfnBadge(idq))
                \/ pds[q].pp /\ g = Gift(<<"cnode", p>>, EpSlot + id, <<"ep", q>>, PpcBadge(idq))
                => Joins(cc, g)
  PROVE  End(p, id, q, idq)
<1>1. \A g : Joins(cc, g) => GiftKinds(g)
  BY DEF GiftKinds, JoinGifts
<1>2. Holds(p, NtfnSlot + id, <<"ntfn", q>>, NtfnBadge(idq))
  <2>1. GiftKinds(Gift(<<"cnode", p>>, NtfnSlot + id, <<"ntfn", q>>, NtfnBadge(idq)))
    BY <1>1
  <2>2. NtfnSlot + id \in DOMAIN Held(p) /\ Held(p)[NtfnSlot + id] = Sealed(<<"ntfn", q>>, NtfnBadge(idq))
    BY <2>1, GiftHeld
  <2> QED
    BY <2>2, SealedIs DEF Holds
<1>3. Tcbs(q).ntfn = <<"ntfn", q>>
  BY PdTcb
<1>4. ASSUME pds[q].pp
      PROVE  Holds(p, EpSlot + id, <<"ep", q>>, PpcBadge(idq)) /\ Held(q)[InputSlot].obj = <<"ep", q>>
  <2>1. GiftKinds(Gift(<<"cnode", p>>, EpSlot + id, <<"ep", q>>, PpcBadge(idq)))
    BY <1>1, <1>4
  <2>2. EpSlot + id \in DOMAIN Held(p) /\ Held(p)[EpSlot + id] = Sealed(<<"ep", q>>, PpcBadge(idq))
    BY <2>1, GiftHeld
  <2>3. Holds(p, EpSlot + id, <<"ep", q>>, PpcBadge(idq))
    BY <2>2, SealedIs DEF Holds
  <2>4. NeedsEp(q)
    BY <1>4, WhoNeedsEp
  <2>5. Holds(q, InputSlot, <<"ep", q>>, 0)
    BY <2>4, PdHolds
  <2>6. Held(q)[InputSlot].obj = <<"ep", q>>
    BY <2>5 DEF Holds
  <2> QED
    BY <2>3, <2>6
<1>5. ASSUME ~pds[q].pp, EpSlot + id \in DOMAIN Held(p)
      PROVE  FALSE
  <2>1. PICK dd \in ToSet(channels) : \E r : JoinedTo(dd, p, id, r) /\ pds[r].pp
    BY <1>5, EpSlotJoins
  <2>2. PICK r : JoinedTo(dd, p, id, r) /\ pds[r].pp
    BY <2>1
  <2>3. r = q
    BY <2>2, OneEnd
  <2> QED
    BY <1>5, <2>2, <2>3
<1> QED
  BY <1>2, <1>3, <1>4, <1>5 DEF End

LEMMA IsConnected == BootInv => ChannelsConnect
<1> SUFFICES ASSUME BootInv, Started
             PROVE  /\ \A cc \in ToSet(channels) : /\ End(Named(cc.a), cc.ida, Named(cc.b), cc.idb)
                                                   /\ End(Named(cc.b), cc.idb, Named(cc.a), cc.ida)
                    /\ \A p \in DOMAIN pds : \A irq \in ToSet(pds[p].irqs) :
                         /\ kernel.irqs[irq.irq] = [obj |-> <<"ntfn", p>>, badge |-> NtfnBadge(irq.id)]
                         /\ Holds(p, IrqSlot + irq.id, <<"irq", irq.irq>>, 0)
  BY DEF ChannelsConnect
<1>1. Final
  BY DEF Final
<1>2. ASSUME NEW cc \in ToSet(channels)
      PROVE  /\ End(Named(cc.a), cc.ida, Named(cc.b), cc.idb)
             /\ End(Named(cc.b), cc.idb, Named(cc.a), cc.ida)
  <2>1. Named(cc.a) \in DOMAIN pds /\ Named(cc.b) \in DOMAIN pds
    BY <1>1, EndsNamed
  <2>2. cc.ida \in 0..62 /\ cc.idb \in 0..62
    BY <1>1, FinalPlan, ChannelTyped
  <2>3. JoinedTo(cc, Named(cc.a), cc.ida, Named(cc.b)) /\ JoinedTo(cc, Named(cc.b), cc.idb, Named(cc.a))
    BY DEF JoinedTo
  <2>4. \A g : \/ g = Gift(<<"cnode", Named(cc.a)>>, NtfnSlot + cc.ida, <<"ntfn", Named(cc.b)>>, NtfnBadge(cc.idb))
               \/ pds[Named(cc.b)].pp /\ g = Gift(<<"cnode", Named(cc.a)>>, EpSlot + cc.ida, <<"ep", Named(cc.b)>>, PpcBadge(cc.idb))
               => Joins(cc, g)
    BY Zenon DEF Joins
  <2>5. \A g : \/ g = Gift(<<"cnode", Named(cc.b)>>, NtfnSlot + cc.idb, <<"ntfn", Named(cc.a)>>, NtfnBadge(cc.ida))
               \/ pds[Named(cc.a)].pp /\ g = Gift(<<"cnode", Named(cc.b)>>, EpSlot + cc.idb, <<"ep", Named(cc.a)>>, PpcBadge(cc.ida))
               => Joins(cc, g)
    BY Zenon DEF Joins
  <2>6. End(Named(cc.a), cc.ida, Named(cc.b), cc.idb)
    BY <1>1, <2>1, <2>2, <2>3, <2>4, EndIs
  <2>7. End(Named(cc.b), cc.idb, Named(cc.a), cc.ida)
    BY <1>1, <2>1, <2>2, <2>3, <2>5, EndIs
  <2> QED
    BY <2>6, <2>7
<1> QED
  BY <1>1, <1>2, IrqArrives

\* For every description: what a PD sends on a channel arrives at the other end under the
\* other's number, at the notification that is bound to it or at the endpoint that it receives
\* on, a PD without a protected procedure cannot be called, and an interrupt arrives at the PD
\* that holds its handler (lines 1496 to 1514 and 1774 to 1876, with the checks of sysxml.py:208-269).
THEOREM AllConnected == Spec => []ChannelsConnect
<1>1. Init => BootInv
  BY InitBootInv
<1>2. BootInv /\ [Next]_vars => BootInv'
  BY BootInvNext
<1>3. BootInv => ChannelsConnect
  BY IsConnected
<1> QED
  BY <1>1, <1>2, <1>3, PTL DEF Spec

-----------------------------------------------------------------------------
(* The threads of a root PD that are not children of it *)

TcbOf(t) == kernel.tcb[t]

LEMMA FreshOfThreads ==
  ASSUME NEW m, NEW i
  PROVE  /\ plan[m].op = "SetCSpace" => DOMAIN Fresh(m, i) = {"cspace"} /\ Fresh(m, i)["cspace"] = CapAt(m, i, "cspace").obj
         /\ plan[m].op = "SetFaultHandler" => DOMAIN Fresh(m, i) = {"fault"} /\ Fresh(m, i)["fault"] = CapAt(m, i, "fault")
         /\ plan[m].op = "SchedContextBind" => DOMAIN Fresh(m, i) = {"sc"} /\ Fresh(m, i)["sc"] = CapAt(m, i, "sc").obj
<1>1. CASE plan[m].op = "SetCSpace"
  BY <1>1 DEF Fresh
<1>2. CASE plan[m].op = "SetFaultHandler"
  BY <1>2 DEF Fresh
<1>3. CASE plan[m].op = "SchedContextBind"
  BY <1>3 DEF Fresh
<1> QED
  BY <1>1, <1>2, <1>3

\* A repeated write for the threads of a PD, and what its arguments are for each.
CallFacts(p, inv, op, args, incr) ==
  LET k == Cardinality(Children(p))
  IN  /\ inv.op = op /\ k \in Nat
      /\ \A i \in 0..inv.count - 1 : /\ i \in 0..Times(Spawnable(p)) - 1
                                     /\ \A f \in DOMAIN incr : Actual(inv, i, f) = args[f] + i
      /\ \A t \in k..pds[p].threads - 1 : t - k \in 0..inv.count - 1 /\ k + (t - k) = t

LEMMA ThreadCalls ==
  ASSUME Final, NEW p \in DOMAIN pds, pds[p].threads > 0, NEW op, NEW args, NEW incr,
         \A f \in DOMAIN incr : incr[f] = 1 /\ args[f] \in Int
  PROVE  CallFacts(p, Spawned(p, Do(op, args), incr), op, args, incr)
<1> DEFINE inv == Repeat(Do(op, args), Spawnable(p), incr)
           k == Cardinality(Children(p))
           n == Spawnable(p)
<1>1. n \in Nat \ {0} /\ n = pds[p].threads - k /\ k \in Nat /\ pds[p].threads \in Nat
  BY FamilyOf
<1>2. Spawned(p, Do(op, args), incr) = inv
  BY DEF Spawned
<1> HIDE DEF n, k
<1>3. inv.count = Times(n) /\ inv.op = op
      /\ \A i \in 0..Times(n) - 1 : \A f : args[f] \in Int =>
           (f \in DOMAIN incr /\ incr[f] = 1 => Actual(inv, i, f) = args[f] + i)
  BY <1>1, RepeatActual DEF n
<1> HIDE DEF inv
<1>4. \A i \in 0..Times(n) - 1 : \A f \in DOMAIN incr : Actual(inv, i, f) = args[f] + i
  BY <1>3
<1>5. \A t \in k..pds[p].threads - 1 : t - k \in 0..Times(n) - 1 /\ k + (t - k) = t
  BY <1>1 DEF Times
<1>6. /\ inv.op = op /\ k \in Nat
      /\ \A i \in 0..inv.count - 1 : i \in 0..Times(n) - 1 /\ \A f \in DOMAIN incr : Actual(inv, i, f) = args[f] + i
      /\ \A t \in k..pds[p].threads - 1 : t - k \in 0..inv.count - 1 /\ k + (t - k) = t
  BY <1>1, <1>3, <1>4, <1>5
<1> QED
  BY Zenon, <1>2, <1>6 DEF CallFacts, n, k

\* The copies of the endpoint that the faults of threads go to.
LEMMA ThreadFaultCapIs ==
  ASSUME Final, NEW p \in DOMAIN pds, pds[p].threads > 0, NEW i \in 0..Times(Spawnable(p)) - 1
  PROVE  /\ ThreadFaultCap(p) \in Nat
         /\ CapOf(ThreadFaultCap(p) + i) = [obj |-> <<"ep", p>>, badge |-> FaultBadge(Cardinality(Children(p)) + i)]
<1> DEFINE k == Cardinality(Children(p))
           m == Spawnable(p)
           dest == ThreadFaultCap(p)
           src == Ep(p)
           badge == FaultBadge(k)
           incr == [dest |-> 1, badge |-> 1]
           D == DOMAIN incr
           inv == Repeat(Do("Mint", [cnode |-> SystemCNode, dest |-> dest, src |-> src, badge |-> badge]), m, incr)
<1>1. k \in Nat /\ m \in Nat \ {0} /\ NeedsEp(p)
  BY FamilyOf, WhoNeedsEp
<1>2. dest \in Nat
  BY CapNumbers
<1>3. src \in Int /\ CapOf(src).obj = <<"ep", p>>
  BY <1>1, CNodeCap
<1>4. SystemCNode \in Int /\ CapOf(SystemCNode).obj = System
  BY CapsOfInit, PlainObj DEF SystemCNode
<1>5. badge \in Int /\ i \in Int /\ badge + i = FaultBadge(k + i)
  BY <1>1 DEF FaultBadge
<1>6. (\A f \in D : incr[f] = 1) /\ "src" \notin D /\ "dest" \in D /\ "cnode" \notin D /\ "badge" \in D
  OBVIOUS
<1>7. ThreadMint(p, inv)
  BY DEF ThreadMint, Spawned, Mint
<1>8. MintPart(inv)
  BY <1>7 DEF MintPart, IsThreadMint
<1> HIDE DEF k, m, dest, src, badge, incr, D
<1>9. /\ inv.count = Times(m)
      /\ \A j \in 0..Times(m) - 1 :
           GiftOf(inv, j) = Gift(CapOf(SystemCNode + By(j, "cnode", D)).obj, dest + By(j, "dest", D),
                                 CapOf(src + By(j, "src", D)).obj, badge + By(j, "badge", D))
  <2>1. dest \in Int /\ m \in Int
    BY <1>1, <1>2
  <2> QED
    BY <1>3, <1>4, <1>5, <1>6, <2>1, RepeatGift, SMTT(60) DEF D
<1> HIDE DEF inv
<1>10. i \in 0..Times(m) - 1
  BY DEF m
<1>11. By(i, "cnode", D) = 0 /\ By(i, "dest", D) = i /\ By(i, "src", D) = 0 /\ By(i, "badge", D) = i
  BY <1>6 DEF By
<1>12. SystemCNode + 0 = SystemCNode /\ src + 0 = src
  BY <1>3, <1>4
<1>13. GiftOf(inv, i) = Gift(System, dest + i, <<"ep", p>>, FaultBadge(k + i))
  BY <1>3, <1>4, <1>5, <1>9, <1>10, <1>11, <1>12
<1>14. Dealt(Gift(System, dest + i, <<"ep", p>>, FaultBadge(k + i)))
  BY <1>8, <1>9, <1>10, <1>13 DEF Dealt
<1>15. Has(System, dest + i, Sealed(<<"ep", p>>, FaultBadge(k + i)))
  BY <1>14, GiftThere, GiftIs
<1>16. Sealed(<<"ep", p>>, FaultBadge(k + i)) = [obj |-> <<"ep", p>>, badge |-> FaultBadge(k + i)]
  BY SealedIs
<1>17. dest + i \in Nat
  BY <1>2
<1>18. CapOf(dest + i) = [obj |-> <<"ep", p>>, badge |-> FaultBadge(k + i)]
  BY <1>15, <1>16, <1>17, CapInSystem
<1> QED
  BY <1>2, <1>18 DEF dest, k

\* What TCB the calls of such a row write, and with what.
LEMMA NatIsInt == \A a \in Nat : a \in Int
OBVIOUS

RowFacts(p, m, op, args, f) ==
  /\ plan[m].op = op
  /\ \A i \in 0..plan[m].count - 1 :
       /\ i \in 0..Times(Spawnable(p)) - 1 /\ CapAt(m, i, "tcb").obj = <<"thread tcb", p, Cardinality(Children(p)) + i>>
       /\ CapAt(m, i, f) = CapOf(args[f] + i)
  /\ \A t \in Cardinality(Children(p))..pds[p].threads - 1 :
       t - Cardinality(Children(p)) \in 0..plan[m].count - 1 /\ Cardinality(Children(p)) + (t - Cardinality(Children(p))) = t

LEMMA ThreadRowWrite ==
  ASSUME Final, NEW p \in DOMAIN pds, pds[p].threads > 0, NEW op, NEW args, NEW incr, NEW f,
         DOMAIN incr = {"tcb", f}, incr["tcb"] = 1, incr[f] = 1, args[f] \in Int,
         args["tcb"] = Thread("thread tcb", p, Cardinality(Children(p))),
         NEW m, plan[m] = Spawned(p, Do(op, args), incr)
  PROVE  RowFacts(p, m, op, args, f)
<1> DEFINE k == Cardinality(Children(p))
           to == Thread("thread tcb", p, k)
           n == Times(Spawnable(p))
           inv == Spawned(p, Do(op, args), incr)
<1>1. to \in Nat /\ \A i \in 0..n - 1 : CapOf(to + i) = Plain(<<"thread tcb", p, k + i>>)
  BY TypesAre4, ThreadCapsInRow
<1>2. args["tcb"] \in Int
  <2>1. to \in Nat /\ args["tcb"] = to
    BY Zenon, <1>1
  <2> DEFINE a == args["tcb"]
  <2>2. a \in Nat
    BY Zenon, <2>1
  <2> QED
    BY Zenon, <2>2, NatIsInt
<1>3. \A e \in DOMAIN incr : incr[e] = 1 /\ args[e] \in Int
  BY Zenon, <1>2
<1>4. /\ inv.op = op
      /\ \A i \in 0..inv.count - 1 : /\ i \in 0..n - 1
                                     /\ \A e \in DOMAIN incr : Actual(inv, i, e) = args[e] + i
      /\ \A t \in k..pds[p].threads - 1 : t - k \in 0..inv.count - 1 /\ k + (t - k) = t
  <2>1. CallFacts(p, inv, op, args, incr)
    BY Zenon, <1>3, ThreadCalls
  <2> QED
    BY Zenon, <2>1 DEF CallFacts
<1>5. plan[m] = inv /\ args["tcb"] = to /\ "tcb" \in DOMAIN incr /\ f \in DOMAIN incr
  BY Zenon
<1> HIDE DEF inv, k, to, n
<1>6. ASSUME NEW i \in 0..plan[m].count - 1
      PROVE  /\ i \in 0..n - 1 /\ CapAt(m, i, "tcb").obj = <<"thread tcb", p, k + i>>
             /\ CapAt(m, i, f) = CapOf(args[f] + i)
  <2>1. i \in 0..n - 1 /\ Actual(plan[m], i, "tcb") = to + i /\ Actual(plan[m], i, f) = args[f] + i
    BY Zenon, <1>4, <1>5, <1>6
  <2>2. CapAt(m, i, "tcb") = CapOf(to + i) /\ CapAt(m, i, f) = CapOf(args[f] + i)
    BY Zenon, <2>1, ActualIs DEF CapAt
  <2>3. CapAt(m, i, "tcb").obj = <<"thread tcb", p, k + i>>
    BY Zenon, <1>1, <2>1, <2>2, PlainObj
  <2> QED
    BY Zenon, <2>1, <2>2, <2>3
<1>7. /\ plan[m].op = op
      /\ \A t \in k..pds[p].threads - 1 : t - k \in 0..plan[m].count - 1 /\ k + (t - k) = t
  BY Zenon, <1>4, <1>5
<1> QED
  BY Zenon, <1>6, <1>7 DEF RowFacts, k, n

CSpaceCall(p) ==
  LET k == Cardinality(Children(p))
  IN  Spawned(p, Do("SetCSpace", [tcb |-> Thread("thread tcb", p, k), cspace |-> Thread("thread cnode", p, k)]),
              [tcb |-> 1, cspace |-> 1])
FaultCall(p) ==
  Spawned(p, Do("SetFaultHandler", [tcb |-> Thread("thread tcb", p, Cardinality(Children(p))), fault |-> ThreadFaultCap(p)]),
          [tcb |-> 1, fault |-> 1])
ScCall(p) ==
  LET k == Cardinality(Children(p))
  IN  Spawned(p, Do("SchedContextBind", [sc |-> Thread("thread sc", p, k), tcb |-> Thread("thread tcb", p, k)]),
              [sc |-> 1, tcb |-> 1])

\* The three rows: the TCBs are those of the threads, in order, and so are the other objects.
RowWrites(p, m, op, Right(_, _)) ==
  /\ plan[m].op = op
  /\ \A i \in 0..plan[m].count - 1 :
       LET t == Cardinality(Children(p)) + i
       IN  CapAt(m, i, "tcb").obj = <<"thread tcb", p, t>> /\ Right(i, t)
  /\ \A t \in Cardinality(Children(p))..pds[p].threads - 1 :
       t - Cardinality(Children(p)) \in 0..plan[m].count - 1
       /\ Cardinality(Children(p)) + (t - Cardinality(Children(p))) = t

CSpaceRow(p, m) ==
  RowWrites(p, m, "SetCSpace", LAMBDA i, t : CapAt(m, i, "cspace").obj = <<"thread cnode", p, t>>)
FaultRow(p, m) ==
  RowWrites(p, m, "SetFaultHandler", LAMBDA i, t : CapAt(m, i, "fault") = [obj |-> <<"ep", p>>, badge |-> FaultBadge(t)])
ScRow(p, m) ==
  RowWrites(p, m, "SchedContextBind", LAMBDA i, t : CapAt(m, i, "sc").obj = <<"thread sc", p, t>>)

LEMMA ThreadRowsWrite ==
  ASSUME Final, NEW p \in DOMAIN pds, pds[p].threads > 0, NEW m
  PROVE  /\ plan[m] = CSpaceCall(p) => CSpaceRow(p, m)
         /\ plan[m] = FaultCall(p) => FaultRow(p, m)
         /\ plan[m] = ScCall(p) => ScRow(p, m)
<1> DEFINE k == Cardinality(Children(p))
           n == Times(Spawnable(p))
           to == Thread("thread tcb", p, k)
           cnode == Thread("thread cnode", p, k)
           sc == Thread("thread sc", p, k)
           fault == ThreadFaultCap(p)
           a1 == [tcb |-> to, cspace |-> cnode]
           a2 == [tcb |-> to, fault |-> fault]
           a3 == [sc |-> sc, tcb |-> to]
           i1 == [tcb |-> 1, cspace |-> 1]
           i2 == [tcb |-> 1, fault |-> 1]
           i3 == [sc |-> 1, tcb |-> 1]
<1>1. /\ cnode \in Nat /\ \A i \in 0..n - 1 : CapOf(cnode + i) = Plain(<<"thread cnode", p, k + i>>)
      /\ sc \in Nat /\ \A i \in 0..n - 1 : CapOf(sc + i) = Plain(<<"thread sc", p, k + i>>)
  BY TypesAre4, ThreadCapsInRow
<1>2. \A i \in 0..n - 1 : CapOf(fault + i) = [obj |-> <<"ep", p>>, badge |-> FaultBadge(k + i)]
  BY ThreadFaultCapIs
<1>3. fault \in Nat
  BY CapNumbers
<1>4. cnode \in Int /\ sc \in Int /\ fault \in Int
  <2>1. cnode \in Nat /\ sc \in Nat
    BY Zenon, <1>1
  <2> HIDE DEF cnode, sc, fault
  <2> QED
    BY <1>3, <2>1
<1>5. /\ DOMAIN i1 = {"tcb", "cspace"} /\ i1["tcb"] = 1 /\ i1["cspace"] = 1
      /\ DOMAIN i2 = {"tcb", "fault"} /\ i2["tcb"] = 1 /\ i2["fault"] = 1
      /\ DOMAIN i3 = {"tcb", "sc"} /\ i3["tcb"] = 1 /\ i3["sc"] = 1
  OBVIOUS
<1>6. /\ a1["tcb"] = to /\ a1["cspace"] = cnode /\ a2["tcb"] = to /\ a2["fault"] = fault
      /\ a3["tcb"] = to /\ a3["sc"] = sc
  OBVIOUS
<1>7. /\ CSpaceCall(p) = Spawned(p, Do("SetCSpace", a1), i1) /\ FaultCall(p) = Spawned(p, Do("SetFaultHandler", a2), i2)
      /\ ScCall(p) = Spawned(p, Do("SchedContextBind", a3), i3)
  BY DEF CSpaceCall, FaultCall, ScCall
<1> HIDE DEF a1, a2, a3, i1, i2, i3
<1>8. a1["tcb"] = Thread("thread tcb", p, Cardinality(Children(p))) /\ a2["tcb"] = Thread("thread tcb", p, Cardinality(Children(p)))
      /\ a3["tcb"] = Thread("thread tcb", p, Cardinality(Children(p)))
  BY Zenon, <1>6
<1>9. a1["cspace"] \in Int /\ a2["fault"] \in Int /\ a3["sc"] \in Int
  BY Zenon, <1>4, <1>6
<1> HIDE DEF cnode, sc, fault, to
<1>10. ASSUME plan[m] = CSpaceCall(p)
       PROVE  CSpaceRow(p, m)
  <2>1. plan[m] = Spawned(p, Do("SetCSpace", a1), i1)
    BY Zenon, <1>7, <1>10
  <2>2. RowFacts(p, m, "SetCSpace", a1, "cspace")
    BY Zenon, <1>5, <1>8, <1>9, <2>1, ThreadRowWrite
  <2>3. \A i \in 0..plan[m].count - 1 : CapAt(m, i, "cspace").obj = <<"thread cnode", p, k + i>>
    BY Zenon, <1>1, <1>6, <2>2, PlainObj DEF RowFacts, k, n
  <2> QED
    BY Zenon, <2>2, <2>3 DEF CSpaceRow, RowWrites, RowFacts, k
<1>11. ASSUME plan[m] = FaultCall(p)
       PROVE  FaultRow(p, m)
  <2>1. plan[m] = Spawned(p, Do("SetFaultHandler", a2), i2)
    BY Zenon, <1>7, <1>11
  <2>2. RowFacts(p, m, "SetFaultHandler", a2, "fault")
    BY Zenon, <1>5, <1>8, <1>9, <2>1, ThreadRowWrite
  <2>3. \A i \in 0..plan[m].count - 1 : CapAt(m, i, "fault") = [obj |-> <<"ep", p>>, badge |-> FaultBadge(k + i)]
    BY Zenon, <1>2, <1>6, <2>2 DEF RowFacts, k, n
  <2> QED
    BY Zenon, <2>2, <2>3 DEF FaultRow, RowWrites, RowFacts, k
<1>12. ASSUME plan[m] = ScCall(p)
       PROVE  ScRow(p, m)
  <2>1. plan[m] = Spawned(p, Do("SchedContextBind", a3), i3)
    BY Zenon, <1>7, <1>12
  <2>2. RowFacts(p, m, "SchedContextBind", a3, "sc")
    BY Zenon, <1>5, <1>8, <1>9, <2>1, ThreadRowWrite
  <2>3. \A i \in 0..plan[m].count - 1 : CapAt(m, i, "sc").obj = <<"thread sc", p, k + i>>
    BY Zenon, <1>1, <1>6, <2>2, PlainObj DEF RowFacts, k, n
  <2> QED
    BY Zenon, <2>2, <2>3 DEF ScRow, RowWrites, RowFacts, k
<1> QED
  BY Zenon, <1>10, <1>11, <1>12

\* What a call for threads writes, and into whose TCB.
ThreadDeed(m, i, q, u) ==
  /\ CapAt(m, i, "tcb").obj = <<"thread tcb", q, u>>
  /\ \/ plan[m].op = "SetCSpace" /\ CapAt(m, i, "cspace").obj = <<"thread cnode", q, u>>
     \/ plan[m].op = "SetFaultHandler" /\ CapAt(m, i, "fault") = [obj |-> <<"ep", q>>, badge |-> FaultBadge(u)]
     \/ plan[m].op = "SchedContextBind" /\ CapAt(m, i, "sc").obj = <<"thread sc", q, u>>

LEMMA ThreadCallsAre ==
  ASSUME NEW p, NEW inv
  PROVE  ThreadWrite(p, inv) <=> (pds[p].root_ppc /\ inv = CSpaceCall(p)) \/ inv = FaultCall(p) \/ inv = ScCall(p)
BY Zenon DEF ThreadWrite, CSpaceCall, FaultCall, ScCall

LEMMA ThreadDeeds ==
  ASSUME Final, NEW q \in DOMAIN pds, pds[q].threads > 0, NEW m, ThreadWrite(q, plan[m]), NEW i \in 0..plan[m].count - 1
  PROVE  \E u : ThreadDeed(m, i, q, u)
<1> DEFINE u == Cardinality(Children(q)) + i
<1>1. CASE plan[m] = CSpaceCall(q)
  <2>1. CSpaceRow(q, m)
    BY Zenon, <1>1, ThreadRowsWrite
  <2> QED
    BY Zenon, <2>1 DEF CSpaceRow, RowWrites, ThreadDeed
<1>2. CASE plan[m] = FaultCall(q)
  <2>1. FaultRow(q, m)
    BY Zenon, <1>2, ThreadRowsWrite
  <2> QED
    BY Zenon, <2>1 DEF FaultRow, RowWrites, ThreadDeed
<1>3. CASE plan[m] = ScCall(q)
  <2>1. ScRow(q, m)
    BY Zenon, <1>3, ThreadRowsWrite
  <2> QED
    BY Zenon, <2>1 DEF ScRow, RowWrites, ThreadDeed
<1> QED
  BY Zenon, <1>1, <1>2, <1>3, ThreadCallsAre

LEMMA TripleParts == \A a, b, c, d, e : <<a, b, c>> = <<a, d, e>> => b = d /\ c = e
OBVIOUS

\* What the TCB of a thread has to have.
ThreadsOwn(p, t, f, value) ==
  /\ f = "cspace" => value = <<"thread cnode", p, t>>
  /\ f = "fault" => value = [obj |-> <<"ep", p>>, badge |-> FaultBadge(t)]
  /\ f = "sc" => value = <<"thread sc", p, t>>

\* Whoever writes one of these fields of a thread's TCB writes what belongs to the thread.
LEMMA ThreadWriteIs ==
  ASSUME Final, NEW p \in DOMAIN pds, NEW t, NEW m, NEW i, NEW f, Writes(m, i, <<"thread tcb", p, t>>, f),
         f \in {"cspace", "fault", "sc"}
  PROVE  ThreadsOwn(p, t, f, Fresh(m, i)[f])
<1>0. /\ Done(m, i) /\ plan[m].op \in TcbOps /\ CapAt(m, i, "tcb").obj = <<"thread tcb", p, t>> /\ f \in DOMAIN Fresh(m, i)
      /\ DOMAIN pds # {}
  BY Zenon DEF Writes
<1>1. CASE plan[m].op \in ThreadOps
  <2>1. PICK q \in DOMAIN pds : pds[q].threads > 0 /\ ThreadWrite(q, plan[m])
    <3>1. IsThreadWrite(plan[m])
      BY <1>0, <1>1, FinalPlan, DoneInPlan, ByOp
    <3> QED
      BY Zenon, <3>1 DEF IsThreadWrite
  <2>2. i \in 0..plan[m].count - 1
    BY Zenon, <1>0, DoneInPlan
  <2>3. PICK u : ThreadDeed(m, i, q, u)
    BY Zenon, <2>1, <2>2, ThreadDeeds
  <2>4. <<"thread tcb", q, u>> = <<"thread tcb", p, t>>
    BY Zenon, <1>0, <2>3 DEF ThreadDeed
  <2>5. q = p /\ u = t
    BY Zenon, <2>4, TripleParts
  <2>6. ThreadDeed(m, i, p, t)
    BY Zenon, <2>3, <2>5
  <2>7. CASE plan[m].op = "SetCSpace" /\ CapAt(m, i, "cspace").obj = <<"thread cnode", p, t>>
    <3>1. DOMAIN Fresh(m, i) = {"cspace"} /\ Fresh(m, i)["cspace"] = <<"thread cnode", p, t>>
      BY Zenon, <2>7, FreshOfThreads
    <3> QED
      BY ZenonT(40), <1>0, <3>1 DEF ThreadsOwn
  <2>8. CASE plan[m].op = "SetFaultHandler" /\ CapAt(m, i, "fault") = [obj |-> <<"ep", p>>, badge |-> FaultBadge(t)]
    <3>1. DOMAIN Fresh(m, i) = {"fault"} /\ Fresh(m, i)["fault"] = [obj |-> <<"ep", p>>, badge |-> FaultBadge(t)]
      BY Zenon, <2>8, FreshOfThreads
    <3> QED
      BY ZenonT(40), <1>0, <3>1 DEF ThreadsOwn
  <2>9. CASE plan[m].op = "SchedContextBind" /\ CapAt(m, i, "sc").obj = <<"thread sc", p, t>>
    <3>1. DOMAIN Fresh(m, i) = {"sc"} /\ Fresh(m, i)["sc"] = <<"thread sc", p, t>>
      BY Zenon, <2>9, FreshOfThreads
    <3> QED
      BY ZenonT(40), <1>0, <3>1 DEF ThreadsOwn
  <2> QED
    BY Zenon, <2>6, <2>7, <2>8, <2>9 DEF ThreadDeed
<1>2. CASE plan[m].op \notin ThreadOps
  <2>1. \A q : CapAt(m, i, "tcb").obj # <<"tcb", q>>
    BY Zenon, <1>0, PairNotTriple
  <2>2. plan[m].op \notin {"SetSchedParams", "SetSpace"}
    BY Zenon, <1>0, <2>1, ParamsWrite, SpaceWrite
  <2>3. plan[m].op \in {"SetTimeoutEndpoint", "SetIPCBuffer", "WriteRegisters", "BindNotification", "DomainSet", "Resume"}
    BY <1>0, <1>2, <2>2 DEF TcbOps, ThreadOps
  <2>4. DOMAIN Fresh(m, i) \in {{"timeout"}, {"buffer", "frame"}, {"entry", "x0"}, {"ntfn"}, {"domain"}, {"running"}}
    BY Zenon, <2>3, FreshFields
  <2>5. f \notin DOMAIN Fresh(m, i)
    <3> DEFINE D == DOMAIN Fresh(m, i)
    <3>1. D \in {{"timeout"}, {"buffer", "frame"}, {"entry", "x0"}, {"ntfn"}, {"domain"}, {"running"}}
      BY Zenon, <2>4
    <3> HIDE DEF D
    <3>2. "cspace" \notin D /\ "fault" \notin D /\ "sc" \notin D
      BY <3>1
    <3>3. f \notin D
      BY Zenon, <3>2
    <3> QED
      BY Zenon, <3>3 DEF D
  <2> QED
    BY Zenon, <1>0, <2>5
<1> QED
  BY Zenon, <1>1, <1>2

\* A field that someone writes is what some writer writes.
IsWritten(t, f) == \E m, i : Writes(m, i, t, f)
WrittenBy(t, f) == \E m, i : Writes(m, i, t, f) /\ TcbOf(t)[f] = Fresh(m, i)[f]

LEMMA FieldWrittenBy ==
  ASSUME Final, NEW x, NEW f \in TcbFields, IsWritten(x, f)
  PROVE  x \in DOMAIN kernel.tcb /\ WrittenBy(x, f)
<1>1. TargetsThere /\ LastWritten
  <2>1. Effects
    BY FinalPlan
  <2> QED
    BY Zenon, <2>1 DEF Effects
<1>2. PICK n, j : Writes(n, j, x, f)
  BY Zenon DEF IsWritten
<1>3. Done(n, j) /\ plan[n].op \in TcbOps /\ CapAt(n, j, "tcb").obj = x
  BY Zenon, <1>2 DEF Writes
<1>4. x \in DOMAIN kernel.tcb
  BY Zenon, <1>1, <1>3 DEF TargetsThere
<1>5. PICK m, i : Writes(m, i, x, f) /\ kernel.tcb[x][f] = Fresh(m, i)[f]
  BY Zenon, <1>1, <1>2, <1>4 DEF LastWritten
<1> QED
  BY Zenon, <1>4, <1>5 DEF TcbOf, WrittenBy

LEMMA ThreadCallMade ==
  ASSUME Final, NEW p \in DOMAIN pds, pds[p].threads > 0, NEW inv, ThreadWrite(p, inv)
  PROVE  \E m : plan[m] = inv /\ \A i \in 0..inv.count - 1 : Done(m, i)
<1>1. CapPart(inv)
  BY Zenon DEF CapPart, IsCSpace
<1>2. inv \in ToSet(SystemInvocations)
  BY <1>1, FinalPlan, PlanIs
<1>3. inv.op \in ThreadOps
  BY Zenon, ThreadWriteOps DEF IsThreadWrite
<1>4. inv.op \notin Starts
  BY <1>3 DEF ThreadOps, Starts
<1> QED
  BY Zenon, <1>2, <1>4, AllDone

WritesAt(inv, op, i, t, f) ==
  \A m : plan[m] = inv =>
    /\ plan[m].op = op /\ i \in 0..plan[m].count - 1 /\ CapAt(m, i, "tcb").obj = t /\ f \in DOMAIN Fresh(m, i)

LEMMA ThreadFieldGiven ==
  ASSUME Final, NEW p \in DOMAIN pds, pds[p].threads > 0, NEW inv, ThreadWrite(p, inv), NEW t, NEW i, NEW op \in TcbOps, NEW f,
         WritesAt(inv, op, i, t, f)
  PROVE  IsWritten(t, f)
<1>1. PICK m : plan[m] = inv /\ \A j \in 0..inv.count - 1 : Done(m, j)
  BY Zenon, ThreadCallMade
<1>2. Writes(m, i, t, f)
  BY Zenon, <1>1 DEF Writes, WritesAt
<1> QED
  BY Zenon, <1>2 DEF IsWritten

LEMMA ThreadFieldIs ==
  ASSUME Final, NEW p \in DOMAIN pds, NEW t, NEW f \in {"cspace", "fault", "sc"}, IsWritten(<<"thread tcb", p, t>>, f)
  PROVE  ThreadsOwn(p, t, f, TcbOf(<<"thread tcb", p, t>>)[f])
<1> DEFINE to == <<"thread tcb", p, t>>
<1>1. f \in TcbFields
  BY DEF TcbFields
<1>2. WrittenBy(to, f)
  BY Zenon, <1>1, FieldWrittenBy
<1>3. PICK m, i : Writes(m, i, to, f) /\ TcbOf(to)[f] = Fresh(m, i)[f]
  BY Zenon, <1>2 DEF WrittenBy
<1>4. ThreadsOwn(p, t, f, Fresh(m, i)[f])
  BY Zenon, <1>3, ThreadWriteIs
<1> QED
  BY Zenon, <1>3, <1>4

\* The TCB of a thread has what belongs to it.
LEMMA ThreadTcb ==
  ASSUME Final, NEW p \in DOMAIN pds, pds[p].threads > 0, NEW t \in Cardinality(Children(p))..pds[p].threads - 1
  PROVE  /\ TcbOf(<<"thread tcb", p, t>>).fault = [obj |-> <<"ep", p>>, badge |-> FaultBadge(t)]
         /\ TcbOf(<<"thread tcb", p, t>>).sc = <<"thread sc", p, t>>
         /\ pds[p].root_ppc => TcbOf(<<"thread tcb", p, t>>).cspace = <<"thread cnode", p, t>>
<1> DEFINE k == Cardinality(Children(p))
           to == <<"thread tcb", p, t>>
<1>0. "SetCSpace" \in TcbOps /\ "SetFaultHandler" \in TcbOps /\ "SchedContextBind" \in TcbOps
  BY DEF TcbOps
<1> HIDE DEF to
<1>2. ThreadWrite(p, FaultCall(p)) /\ ThreadWrite(p, ScCall(p)) /\ (pds[p].root_ppc => ThreadWrite(p, CSpaceCall(p)))
  BY Zenon, ThreadCallsAre
<1>3. \A m, i : /\ plan[m].op = "SetCSpace" => "cspace" \in DOMAIN Fresh(m, i)
                /\ plan[m].op = "SetFaultHandler" => "fault" \in DOMAIN Fresh(m, i)
                /\ plan[m].op = "SchedContextBind" => "sc" \in DOMAIN Fresh(m, i)
  <2> TAKE m, i
  <2>1. plan[m].op = "SetCSpace" => DOMAIN Fresh(m, i) = {"cspace"}
    BY Zenon, FreshOfThreads
  <2>2. plan[m].op = "SetFaultHandler" => DOMAIN Fresh(m, i) = {"fault"}
    BY Zenon, FreshOfThreads
  <2>3. plan[m].op = "SchedContextBind" => DOMAIN Fresh(m, i) = {"sc"}
    BY Zenon, FreshOfThreads
  <2> QED
    BY Zenon, <2>1, <2>2, <2>3
<1>4. WritesAt(FaultCall(p), "SetFaultHandler", t - k, to, "fault")
  <2> SUFFICES ASSUME NEW m, plan[m] = FaultCall(p)
               PROVE  /\ plan[m].op = "SetFaultHandler" /\ t - k \in 0..plan[m].count - 1 /\ CapAt(m, t - k, "tcb").obj = to
                      /\ "fault" \in DOMAIN Fresh(m, t - k)
    BY Zenon DEF WritesAt
  <2>1. FaultRow(p, m)
    BY Zenon, ThreadRowsWrite
  <2> QED
    BY Zenon, <1>3, <2>1 DEF FaultRow, RowWrites, to
<1>5. WritesAt(ScCall(p), "SchedContextBind", t - k, to, "sc")
  <2> SUFFICES ASSUME NEW m, plan[m] = ScCall(p)
               PROVE  /\ plan[m].op = "SchedContextBind" /\ t - k \in 0..plan[m].count - 1 /\ CapAt(m, t - k, "tcb").obj = to
                      /\ "sc" \in DOMAIN Fresh(m, t - k)
    BY Zenon DEF WritesAt
  <2>1. ScRow(p, m)
    BY Zenon, ThreadRowsWrite
  <2> QED
    BY Zenon, <1>3, <2>1 DEF ScRow, RowWrites, to
<1>6. WritesAt(CSpaceCall(p), "SetCSpace", t - k, to, "cspace")
  <2> SUFFICES ASSUME NEW m, plan[m] = CSpaceCall(p)
               PROVE  /\ plan[m].op = "SetCSpace" /\ t - k \in 0..plan[m].count - 1 /\ CapAt(m, t - k, "tcb").obj = to
                      /\ "cspace" \in DOMAIN Fresh(m, t - k)
    BY Zenon DEF WritesAt
  <2>1. CSpaceRow(p, m)
    BY Zenon, ThreadRowsWrite
  <2> QED
    BY Zenon, <1>3, <2>1 DEF CSpaceRow, RowWrites, to
<1> HIDE DEF k
<1>7. IsWritten(to, "fault")
  BY Zenon, <1>0, <1>2, <1>4, ThreadFieldGiven
<1>8. IsWritten(to, "sc")
  BY Zenon, <1>0, <1>2, <1>5, ThreadFieldGiven
<1>9. pds[p].root_ppc => IsWritten(to, "cspace")
  BY Zenon, <1>0, <1>2, <1>6, ThreadFieldGiven
<1>10. \A f \in {"cspace", "fault", "sc"} : IsWritten(to, f) => ThreadsOwn(p, t, f, TcbOf(to)[f])
  BY Zenon, ThreadFieldIs DEF to
<1>11. ThreadsOwn(p, t, "fault", TcbOf(to)["fault"])
  BY Zenon, <1>7, <1>10
<1>12. ThreadsOwn(p, t, "sc", TcbOf(to)["sc"])
  BY Zenon, <1>8, <1>10
<1>13. pds[p].root_ppc => ThreadsOwn(p, t, "cspace", TcbOf(to)["cspace"])
  BY Zenon, <1>9, <1>10
<1> QED
  BY Zenon, <1>11, <1>12, <1>13 DEF ThreadsOwn, to

-----------------------------------------------------------------------------
(* A reply object is in one slot *)

LEMMA FirstOf ==
  /\ \A x : <<x>>[1] = x
  /\ \A x, y : <<x, y>>[1] = x
  /\ \A x, y, z : <<x, y, z>>[1] = x
OBVIOUS

ReplyTypes == {"reply", "thread reply"}

\* Of the gifts to a PD, those of reply objects other than its own.
ReplyPlace(p, g) ==
  \/ \E c \in Children(p) : g.cap.obj = <<"reply", c>> /\ g.slot = ThreadReply(pds[p].threads, pds[c].pd_id)
  \/ \E u : g.cap.obj = <<"thread reply", p, u>> /\ g.slot = ThreadReply(pds[p].threads, u)

LEMMA ReplyPlaces ==
  ASSUME Final, NEW p \in DOMAIN pds, NEW g, GiftKinds(g), g.to = <<"cnode", p>>,
         g.cap.obj[1] \in ReplyTypes, g.cap.obj # <<"reply", p>>
  PROVE  ReplyPlace(p, g)
<1>0. \A to, slot, obj, badge : g = Gift(to, slot, obj, badge) => g.to = to /\ g.slot = slot /\ g.cap.obj = obj
  BY Zenon, GiftEquals
<1>1. \A y : "ep" \notin ReplyTypes /\ "ntfn" \notin ReplyTypes /\ "vspace" \notin ReplyTypes /\ "irq" \notin ReplyTypes
             /\ "tcb" \notin ReplyTypes /\ "sc" \notin ReplyTypes /\ "cnode" \notin ReplyTypes /\ "schedcontrol" \notin ReplyTypes
             /\ "thread tcb" \notin ReplyTypes /\ "thread sc" \notin ReplyTypes /\ "thread cnode" \notin ReplyTypes
  BY Zenon DEF ReplyTypes
<1>2. /\ \A to, slot, badge : g # Gift(to, slot, <<"schedcontrol">>, badge)
      /\ \A type, x, to, slot, badge : type \notin ReplyTypes => g # Gift(to, slot, <<type, x>>, badge)
      /\ \A type, x, y, to, slot, badge : type \notin ReplyTypes => g # Gift(to, slot, <<type, x, y>>, badge)
  <2>1. ASSUME NEW to, NEW slot, NEW badge, NEW o, g = Gift(to, slot, o, badge)
        PROVE  o[1] \in ReplyTypes
    <3>1. g.cap.obj = o
      BY Zenon, <1>0, <2>1
    <3> QED
      BY Zenon, <3>1
  <2>2. <<"schedcontrol">>[1] \notin ReplyTypes
    BY Zenon, <1>1, FirstOf
  <2>3. \A type, x : type \notin ReplyTypes => <<type, x>>[1] \notin ReplyTypes
    BY Zenon, FirstOf
  <2>4. \A type, x, y : type \notin ReplyTypes => <<type, x, y>>[1] \notin ReplyTypes
    BY Zenon, FirstOf
  <2> QED
    BY Zenon, <2>1, <2>2, <2>3, <2>4
<1>3. ~InputGift(g)
  <2> SUFFICES ASSUME NEW q, NEW o, o = (IF NeedsEp(q) THEN <<"ep", q>> ELSE <<"ntfn", q>>), g = Gift(<<"cnode", q>>, InputSlot, o, 0)
               PROVE  FALSE
    BY Zenon DEF InputGift
  <2>1. o = <<"ep", q>> \/ o = <<"ntfn", q>>
    BY Zenon
  <2> QED
    BY Zenon, <1>1, <1>2, <2>1
<1>4. ~ReplyGift(g)
  <2> SUFFICES ASSUME NEW q, g = Gift(<<"cnode", q>>, ReplySlot, <<"reply", q>>, 1)
               PROVE  FALSE
    BY Zenon DEF ReplyGift
  <2>1. g.to = <<"cnode", q>> /\ g.cap.obj = <<"reply", q>>
    BY Zenon, <1>0
  <2>2. q = p
    BY Zenon, <2>1, SameCNode
  <2> QED
    BY Zenon, <2>1, <2>2
<1>5. ~VSpaceGift(g) /\ ~IrqGift(g)
  BY Zenon, <1>1, <1>2 DEF VSpaceGift, IrqGift
<1>6. ASSUME ChildGifts(g)
      PROVE  ReplyPlace(p, g)
  <2>1. PICK q \in DOMAIN pds : \E c \in Children(q) : ChildGift(q, c, g)
    BY Zenon, <1>6 DEF ChildGifts
  <2>2. PICK c \in Children(q) : ChildGift(q, c, g)
    BY Zenon, <2>1
  <2>3. g = Gift(<<"cnode", q>>, ThreadReply(pds[q].threads, pds[c].pd_id), <<"reply", c>>, 0)
    BY Zenon, <1>1, <1>2, <2>2 DEF ChildGift
  <2>4. g.to = <<"cnode", q>> /\ g.slot = ThreadReply(pds[q].threads, pds[c].pd_id) /\ g.cap.obj = <<"reply", c>>
    BY Zenon, <1>0, <2>3
  <2>5. q = p
    BY Zenon, <2>4, SameCNode
  <2> QED
    BY Zenon, <2>4, <2>5 DEF ReplyPlace
<1>7. ASSUME ThreadGifts(g)
      PROVE  ReplyPlace(p, g)
  <2>1. PICK q \in DOMAIN pds : \/ SelfGift(q, g)
                                \/ \E t \in Cardinality(Children(q))..pds[q].threads - 1 : ThreadGift(q, t, g)
    BY Zenon, <1>7 DEF ThreadGifts
  <2>2. ~SelfGift(q, g)
    BY Zenon, <1>1, <1>2 DEF SelfGift
  <2>3. PICK t : ThreadGift(q, t, g)
    BY Zenon, <2>1, <2>2
  <2>4. g = Gift(<<"cnode", q>>, ThreadReply(pds[q].threads, t), <<"thread reply", q, t>>, 0)
    BY Zenon, <1>1, <1>2, <2>3 DEF ThreadGift
  <2>5. g.to = <<"cnode", q>> /\ g.slot = ThreadReply(pds[q].threads, t) /\ g.cap.obj = <<"thread reply", q, t>>
    BY Zenon, <1>0, <2>4
  <2>6. q = p
    BY Zenon, <2>5, SameCNode
  <2> QED
    BY Zenon, <2>5, <2>6 DEF ReplyPlace
<1>8. ~JoinGifts(g)
  BY Zenon, <1>1, <1>2 DEF JoinGifts, Joins
<1> QED
  BY Zenon, <1>3, <1>4, <1>5, <1>6, <1>7, <1>8 DEF GiftKinds

\* So the reply object of a thread is nowhere but in the slot of the thread.
LEMMA ReplyOnce ==
  ASSUME Final, NEW p \in DOMAIN pds, NEW slot \in DOMAIN Held(p)
  PROVE  /\ \A u : Held(p)[slot].obj = <<"thread reply", p, u>> => slot = ThreadReply(pds[p].threads, u)
         /\ \A c : Held(p)[slot].obj = <<"reply", c>> /\ c # p => slot = ThreadReply(pds[p].threads, pds[c].pd_id)
<1> DEFINE g == [to |-> <<"cnode", p>>, slot |-> slot, cap |-> Held(p)[slot]]
<1>1. GiftKinds(g) /\ g.to = <<"cnode", p>> /\ g.slot = slot /\ g.cap.obj = Held(p)[slot].obj
  BY Zenon, HeldIs
<1> HIDE DEF g
<1>2. ASSUME NEW u, Held(p)[slot].obj = <<"thread reply", p, u>>
      PROVE  slot = ThreadReply(pds[p].threads, u)
  <2>1. g.cap.obj[1] \in ReplyTypes /\ g.cap.obj # <<"reply", p>>
    <3>1. g.cap.obj = <<"thread reply", p, u>>
      BY Zenon, <1>1, <1>2
    <3>2. <<"thread reply", p, u>>[1] \in ReplyTypes
      BY Zenon, FirstOf DEF ReplyTypes
    <3>3. <<"thread reply", p, u>> # <<"reply", p>>
      BY Zenon, PairNotTriple
    <3> QED
      BY Zenon, <3>1, <3>2, <3>3
  <2>2. ReplyPlace(p, g)
    BY Zenon, <1>1, <2>1, ReplyPlaces
  <2>3. PICK v : g.cap.obj = <<"thread reply", p, v>> /\ g.slot = ThreadReply(pds[p].threads, v)
    BY Zenon, <1>1, <1>2, <2>2, PairNotTriple DEF ReplyPlace
  <2>4. u = v
    <3>1. <<"thread reply", p, u>> = <<"thread reply", p, v>>
      BY Zenon, <1>1, <1>2, <2>3
    <3> QED
      BY Zenon, <3>1, TripleParts
  <2> QED
    BY Zenon, <1>1, <2>3, <2>4
<1>3. ASSUME NEW c, Held(p)[slot].obj = <<"reply", c>>, c # p
      PROVE  slot = ThreadReply(pds[p].threads, pds[c].pd_id)
  <2>0. \A d : <<"reply", c>> = <<"reply", d>> => c = d
    OBVIOUS
  <2>1. g.cap.obj[1] \in ReplyTypes /\ g.cap.obj # <<"reply", p>>
    <3>1. g.cap.obj = <<"reply", c>>
      BY Zenon, <1>1, <1>3
    <3>2. <<"reply", c>>[1] \in ReplyTypes
      BY Zenon, FirstOf DEF ReplyTypes
    <3>3. <<"reply", c>> # <<"reply", p>>
      BY Zenon, <1>3, <2>0
    <3> QED
      BY Zenon, <3>1, <3>2, <3>3
  <2>2. ReplyPlace(p, g)
    BY Zenon, <1>1, <2>1, ReplyPlaces
  <2>3. PICK d \in Children(p) : g.cap.obj = <<"reply", d>> /\ g.slot = ThreadReply(pds[p].threads, pds[d].pd_id)
    BY Zenon, <1>1, <1>3, <2>2, PairNotTriple DEF ReplyPlace
  <2>4. c = d
    BY Zenon, <1>1, <1>3, <2>0, <2>3
  <2> QED
    BY Zenon, <1>1, <2>3, <2>4
<1> QED
  BY Zenon, <1>2, <1>3

-----------------------------------------------------------------------------
(* The macros of sel4cp.h and the slots that the tool fills *)

LEMMA SlotsOfMacros ==
  \A max, t : /\ THREAD_TCB(max, t) = TcbSlot + t /\ THREAD_SC(max, t) = ThreadSc(max, t)
              /\ THREAD_CSPACE(max, t) = ThreadCSpace(max, t) /\ THREAD_REPLY(max, t) = ThreadReply(max, t)
              /\ PD_VSPACE(max, t) = PdVSpace(max, t)
BY Zenon DEF THREAD_TCB, THREAD_SC, THREAD_CSPACE, THREAD_REPLY, PD_VSPACE, ThreadSc, ThreadCSpace, ThreadReply, PdVSpace

\* The objects of thread t of a root PD are in its slots, ...
InSlots(p, t, tcb, sc, cnode, reply) ==
  LET n == pds[p].threads
  IN  /\ TcbSlot + t \in DOMAIN Held(p) /\ Held(p)[TcbSlot + t].obj = tcb
      /\ ThreadSc(n, t) \in DOMAIN Held(p) /\ Held(p)[ThreadSc(n, t)].obj = sc
      /\ ThreadCSpace(n, t) \in DOMAIN Held(p) /\ Held(p)[ThreadCSpace(n, t)].obj = cnode
      /\ ThreadReply(n, t) \in DOMAIN Held(p) /\ Held(p)[ThreadReply(n, t)].obj = reply
\* ... belong together, ...
Together(p, t, tcb, sc, cnode) ==
  /\ TcbOf(tcb).fault = [obj |-> <<"ep", p>>, badge |-> FaultBadge(t)] /\ TcbOf(tcb).sc = sc
  /\ pds[p].root_ppc => /\ kernel.cspace[cnode][RootEpSlot] = [obj |-> <<"ep", p>>, badge |-> RootPpcBadge(t)]
                        /\ TcbOf(tcb).cspace = cnode
\* ... and its reply object is in no other slot.
OnlyThere(p, t, reply) ==
  /\ reply[1] \in {"reply", "thread reply"}
  /\ \A slot \in DOMAIN Held(p) : Held(p)[slot].obj = reply => slot = ThreadReply(pds[p].threads, t)
\* A thread that is a PD runs in an address space that the root PD holds.
RunsThere(p, t, tcb) == tcb[1] = "tcb" => Held(p)[PdVSpace(pds[p].threads, t)].obj = TcbOf(tcb).vspace

LEMMA PlainHeld ==
  ASSUME Final, NEW p, NEW slot, NEW obj, GiftKinds(Gift(<<"cnode", p>>, slot, obj, 0))
  PROVE  slot \in DOMAIN Held(p) /\ Held(p)[slot].obj = obj
<1>1. slot \in DOMAIN Held(p) /\ Held(p)[slot] = Sealed(obj, 0)
  BY Zenon, GiftHeld
<1>2. Sealed(obj, 0) = Plain(obj)
  BY Zenon, SealedIs
<1> QED
  BY Zenon, <1>1, <1>2, PlainObj

LEMMA EndpointGiven ==
  ASSUME Final, NEW p, NEW cnode, NEW badge, GiftKinds(Gift(cnode, RootEpSlot, <<"ep", p>>, badge))
  PROVE  kernel.cspace[cnode][RootEpSlot] = [obj |-> <<"ep", p>>, badge |-> badge]
<1>1. Has(cnode, RootEpSlot, Sealed(<<"ep", p>>, badge))
  <2> DEFINE g == Gift(cnode, RootEpSlot, <<"ep", p>>, badge)
  <2>1. g.to = cnode /\ g.slot = RootEpSlot /\ g.cap = Sealed(<<"ep", p>>, badge)
    BY DEF Gift
  <2>2. GiftKinds(g)
    BY Zenon
  <2> HIDE DEF g
  <2>3. Has(g.to, g.slot, g.cap)
    BY Zenon, <2>2, CapsAreGifts
  <2> QED
    BY Zenon, <2>1, <2>3
<1>2. <<"ep", p>>[1] \in {"ep", "ntfn"}
  BY Zenon, FirstOf
<1>3. Sealed(<<"ep", p>>, badge) = [obj |-> <<"ep", p>>, badge |-> badge]
  BY <1>2, SealedIs
<1> QED
  BY Zenon, <1>1, <1>3 DEF Has

LEMMA SpawnedAgrees ==
  ASSUME Final, NEW p \in DOMAIN pds, pds[p].threads > 0, NEW t \in Cardinality(Children(p))..pds[p].threads - 1
  PROVE  /\ InSlots(p, t, <<"thread tcb", p, t>>, <<"thread sc", p, t>>, <<"thread cnode", p, t>>, <<"thread reply", p, t>>)
         /\ Together(p, t, <<"thread tcb", p, t>>, <<"thread sc", p, t>>, <<"thread cnode", p, t>>)
         /\ OnlyThere(p, t, <<"thread reply", p, t>>) /\ RunsThere(p, t, <<"thread tcb", p, t>>)
<1>1. \A g : ThreadGift(p, t, g) => GiftKinds(g)
  BY Zenon DEF GiftKinds, ThreadGifts
<1>2. TcbSlot + t \in DOMAIN Held(p) /\ Held(p)[TcbSlot + t].obj = <<"thread tcb", p, t>>
  <2>1. ThreadGift(p, t, Gift(<<"cnode", p>>, TcbSlot + t, <<"thread tcb", p, t>>, 0))
    BY Zenon DEF ThreadGift
  <2> QED
    BY Zenon, <1>1, <2>1, PlainHeld
<1>3. ThreadSc(pds[p].threads, t) \in DOMAIN Held(p) /\ Held(p)[ThreadSc(pds[p].threads, t)].obj = <<"thread sc", p, t>>
  <2>1. ThreadGift(p, t, Gift(<<"cnode", p>>, ThreadSc(pds[p].threads, t), <<"thread sc", p, t>>, 0))
    BY Zenon DEF ThreadGift
  <2> QED
    BY Zenon, <1>1, <2>1, PlainHeld
<1>4. /\ ThreadCSpace(pds[p].threads, t) \in DOMAIN Held(p)
      /\ Held(p)[ThreadCSpace(pds[p].threads, t)].obj = <<"thread cnode", p, t>>
  <2>1. ThreadGift(p, t, Gift(<<"cnode", p>>, ThreadCSpace(pds[p].threads, t), <<"thread cnode", p, t>>, 0))
    BY Zenon DEF ThreadGift
  <2> QED
    BY Zenon, <1>1, <2>1, PlainHeld
<1>5. /\ ThreadReply(pds[p].threads, t) \in DOMAIN Held(p)
      /\ Held(p)[ThreadReply(pds[p].threads, t)].obj = <<"thread reply", p, t>>
  <2>1. ThreadGift(p, t, Gift(<<"cnode", p>>, ThreadReply(pds[p].threads, t), <<"thread reply", p, t>>, 0))
    BY Zenon DEF ThreadGift
  <2> QED
    BY Zenon, <1>1, <2>1, PlainHeld
<1>6. pds[p].root_ppc => kernel.cspace[<<"thread cnode", p, t>>][RootEpSlot] = [obj |-> <<"ep", p>>, badge |-> RootPpcBadge(t)]
  <2>1. pds[p].root_ppc => ThreadGift(p, t, Gift(<<"thread cnode", p, t>>, RootEpSlot, <<"ep", p>>, RootPpcBadge(t)))
    BY Zenon DEF ThreadGift
  <2> QED
    BY Zenon, <1>1, <2>1, EndpointGiven
<1>7. Together(p, t, <<"thread tcb", p, t>>, <<"thread sc", p, t>>, <<"thread cnode", p, t>>)
  BY Zenon, <1>6, ThreadTcb DEF Together
<1>8. OnlyThere(p, t, <<"thread reply", p, t>>)
  <2>1. <<"thread reply", p, t>>[1] \in {"reply", "thread reply"}
    BY Zenon, FirstOf
  <2> QED
    BY Zenon, <2>1, ReplyOnce DEF OnlyThere
<1>9. RunsThere(p, t, <<"thread tcb", p, t>>)
  <2>1. <<"thread tcb", p, t>>[1] # "tcb"
    BY Zenon, FirstOf
  <2> QED
    BY Zenon, <2>1 DEF RunsThere
<1> QED
  BY Zenon, <1>2, <1>3, <1>4, <1>5, <1>7, <1>8, <1>9 DEF InSlots

\* The child of a root PD is its first thread.
LEMMA ChildThread ==
  ASSUME Final, NEW p \in DOMAIN pds, pds[p].threads > 0, NEW t \in 0..pds[p].threads - 1,
         t \notin Cardinality(Children(p))..pds[p].threads - 1
  PROVE  \E c \in Children(p) : pds[c].pd_id = t
<1> DEFINE k == Cardinality(Children(p))
           n == pds[p].threads
<1>1. k \in Nat /\ n \in Nat /\ k < 2 /\ \A c \in Children(p) : pds[c].pd_id = 0
  BY FamilyOf DEF Family
<1>2. k = 0 => t \in k..n - 1
  BY <1>1
<1>3. Children(p) # {}
  BY <1>2, FS_EmptySet
<1>4. t = 0
  <2> HIDE DEF k, n
  <2>1. k = 0 \/ k = 1
    BY <1>1
  <2>2. t \in 0..n - 1 /\ t \notin k..n - 1
    BY DEF k, n
  <2> QED
    BY <1>1, <2>1, <2>2
<1>5. PICK c : c \in Children(p)
  BY Zenon, <1>3
<1>6. pds[c].pd_id = t
  BY Zenon, <1>1, <1>4, <1>5
<1> QED
  BY Zenon, <1>5, <1>6

LEMMA ChildAgrees ==
  ASSUME Final, NEW p \in DOMAIN pds, pds[p].threads > 0, NEW t, NEW c \in Children(p), pds[c].pd_id = t
  PROVE  /\ InSlots(p, t, <<"tcb", c>>, <<"sc", c>>, <<"cnode", c>>, <<"reply", c>>)
         /\ Together(p, t, <<"tcb", c>>, <<"sc", c>>, <<"cnode", c>>)
         /\ OnlyThere(p, t, <<"reply", c>>) /\ RunsThere(p, t, <<"tcb", c>>)
<1>1. \A g : ChildGift(p, c, g) => GiftKinds(g)
  BY Zenon DEF GiftKinds, ChildGifts
<1>2. c \in DOMAIN pds /\ pds[c].parent = p
  BY DEF Children
<1>3. c # p /\ p # 0
  <2>1. \A q \in DOMAIN pds : q \in Nat \ {0} /\ pds[q].parent \in 0..q - 1
    BY FinalPlan, Domains, PdTyped
  <2> QED
    BY <1>2, <2>1
<1>4. Parented(c)
  BY <1>2, <1>3 DEF Parented, NoParent
<1>5. TcbSlot + t \in DOMAIN Held(p) /\ Held(p)[TcbSlot + t].obj = <<"tcb", c>>
  <2>1. ChildGift(p, c, Gift(<<"cnode", p>>, TcbSlot + t, <<"tcb", c>>, 0))
    BY Zenon DEF ChildGift
  <2> QED
    BY Zenon, <1>1, <2>1, PlainHeld
<1>6. ThreadSc(pds[p].threads, t) \in DOMAIN Held(p) /\ Held(p)[ThreadSc(pds[p].threads, t)].obj = <<"sc", c>>
  <2>1. ChildGift(p, c, Gift(<<"cnode", p>>, ThreadSc(pds[p].threads, t), <<"sc", c>>, 0))
    BY Zenon DEF ChildGift
  <2> QED
    BY Zenon, <1>1, <2>1, PlainHeld
<1>7. ThreadCSpace(pds[p].threads, t) \in DOMAIN Held(p) /\ Held(p)[ThreadCSpace(pds[p].threads, t)].obj = <<"cnode", c>>
  <2>1. ChildGift(p, c, Gift(<<"cnode", p>>, ThreadCSpace(pds[p].threads, t), <<"cnode", c>>, 0))
    BY Zenon DEF ChildGift
  <2> QED
    BY Zenon, <1>1, <2>1, PlainHeld
<1>8. ThreadReply(pds[p].threads, t) \in DOMAIN Held(p) /\ Held(p)[ThreadReply(pds[p].threads, t)].obj = <<"reply", c>>
  <2>1. ChildGift(p, c, Gift(<<"cnode", p>>, ThreadReply(pds[p].threads, t), <<"reply", c>>, 0))
    BY Zenon DEF ChildGift
  <2> QED
    BY Zenon, <1>1, <2>1, PlainHeld
<1>9. Held(p)[PdVSpace(pds[p].threads, t)].obj = <<"vspace", c>>
  <2>1. ChildGift(p, c, Gift(<<"cnode", p>>, PdVSpace(pds[p].threads, t), <<"vspace", c>>, 0))
    BY Zenon DEF ChildGift
  <2> QED
    BY Zenon, <1>1, <2>1, PlainHeld
<1>10. pds[p].root_ppc => kernel.cspace[<<"cnode", c>>][RootEpSlot] = [obj |-> <<"ep", p>>, badge |-> RootPpcBadge(t)]
  <2>1. pds[p].root_ppc => ChildGift(p, c, Gift(<<"cnode", c>>, RootEpSlot, <<"ep", p>>, RootPpcBadge(t)))
    BY Zenon DEF ChildGift
  <2> QED
    BY Zenon, <1>1, <2>1, EndpointGiven
<1>11. TcbOf(<<"tcb", c>>) = Tcbs(c)
  BY Zenon DEF TcbOf, Tcbs
<1>12. Tcbs(c).sc = <<"sc", c>> /\ Tcbs(c).cspace = <<"cnode", c>> /\ Tcbs(c).vspace = <<"vspace", c>>
  BY Zenon, <1>2, PdTcb
<1>13. Tcbs(c).fault = [obj |-> <<"ep", p>>, badge |-> FaultBadge(t)]
  <2>1. Tcbs(c).fault = Handler(c)
    BY Zenon, <1>2, FaultIs
  <2>2. Handler(c) = [obj |-> <<"ep", p>>, badge |-> FaultBadge(t)]
    BY Zenon, <1>2, <1>4 DEF Handler
  <2> QED
    BY Zenon, <2>1, <2>2
<1>14. Together(p, t, <<"tcb", c>>, <<"sc", c>>, <<"cnode", c>>)
  BY Zenon, <1>10, <1>11, <1>12, <1>13 DEF Together
<1>15. OnlyThere(p, t, <<"reply", c>>)
  <2>1. <<"reply", c>>[1] \in {"reply", "thread reply"}
    BY Zenon, FirstOf
  <2> QED
    BY Zenon, <1>3, <2>1, ReplyOnce DEF OnlyThere
<1>16. RunsThere(p, t, <<"tcb", c>>)
  BY Zenon, <1>9, <1>11, <1>12 DEF RunsThere
<1> QED
  BY Zenon, <1>5, <1>6, <1>7, <1>8, <1>14, <1>15, <1>16 DEF InSlots

LEMMA ThreadAgrees ==
  ASSUME Final, NEW p \in DOMAIN pds, pds[p].threads > 0, NEW t \in 0..pds[p].threads - 1
  PROVE  \E tcb, sc, cnode, reply : /\ InSlots(p, t, tcb, sc, cnode, reply) /\ Together(p, t, tcb, sc, cnode)
                                    /\ OnlyThere(p, t, reply) /\ RunsThere(p, t, tcb)
<1>1. CASE t \in Cardinality(Children(p))..pds[p].threads - 1
  BY Zenon, <1>1, SpawnedAgrees
<1>2. CASE t \notin Cardinality(Children(p))..pds[p].threads - 1
  <2>1. PICK c \in Children(p) : pds[c].pd_id = t
    BY Zenon, <1>2, ChildThread
  <2> QED
    BY Zenon, <2>1, ChildAgrees
<1> QED
  BY Zenon, <1>1, <1>2

LEMMA ThreadsAgree == BootInv => ThreadCapsAgree
<1> SUFFICES ASSUME BootInv, Started, NEW p \in DOMAIN pds, NEW t \in 0..pds[p].threads - 1
             PROVE  LET max == pds[p].threads
                        At(slot) == Held(p)[slot].obj
                        tcb == kernel.tcb[At(THREAD_TCB(max, t))]
                        root == kernel.cspace[At(THREAD_CSPACE(max, t))]
                    IN  /\ {THREAD_TCB(max, t), THREAD_SC(max, t), THREAD_CSPACE(max, t), THREAD_REPLY(max, t)}
                             \subseteq DOMAIN Held(p)
                        /\ tcb.fault = [obj |-> <<"ep", p>>, badge |-> FaultBadge(t)]
                        /\ tcb.sc = At(THREAD_SC(max, t))
                        /\ pds[p].root_ppc => /\ root[RootEpSlot] = [obj |-> <<"ep", p>>, badge |-> RootPpcBadge(t)]
                                              /\ tcb.cspace = At(THREAD_CSPACE(max, t))
                        /\ At(THREAD_REPLY(max, t))[1] \in {"reply", "thread reply"}
                        /\ \A slot \in DOMAIN Held(p) \ {THREAD_REPLY(max, t)} : At(slot) # At(THREAD_REPLY(max, t))
                        /\ At(THREAD_TCB(max, t))[1] = "tcb" => At(PD_VSPACE(max, t)) = tcb.vspace
  BY Zenon DEF ThreadCapsAgree
<1> DEFINE max == pds[p].threads
           At(slot) == Held(p)[slot].obj
<1>1. Final
  BY Zenon DEF Final
<1>2. pds[p].threads > 0
  <2>1. pds[p].threads \in Nat
    BY <1>1, FamilyOf
  <2> QED
    BY <2>1
<1>3. PICK tcb, sc, cnode, reply : /\ InSlots(p, t, tcb, sc, cnode, reply) /\ Together(p, t, tcb, sc, cnode)
                                   /\ OnlyThere(p, t, reply) /\ RunsThere(p, t, tcb)
  BY Zenon, <1>1, <1>2, ThreadAgrees
<1>4. /\ THREAD_TCB(max, t) = TcbSlot + t /\ THREAD_SC(max, t) = ThreadSc(max, t)
      /\ THREAD_CSPACE(max, t) = ThreadCSpace(max, t) /\ THREAD_REPLY(max, t) = ThreadReply(max, t)
      /\ PD_VSPACE(max, t) = PdVSpace(max, t)
  BY Zenon, SlotsOfMacros
<1>5. /\ THREAD_TCB(max, t) \in DOMAIN Held(p) /\ At(THREAD_TCB(max, t)) = tcb
      /\ THREAD_SC(max, t) \in DOMAIN Held(p) /\ At(THREAD_SC(max, t)) = sc
      /\ THREAD_CSPACE(max, t) \in DOMAIN Held(p) /\ At(THREAD_CSPACE(max, t)) = cnode
      /\ THREAD_REPLY(max, t) \in DOMAIN Held(p) /\ At(THREAD_REPLY(max, t)) = reply
  BY Zenon, <1>3, <1>4 DEF InSlots
<1>6. /\ kernel.tcb[tcb].fault = [obj |-> <<"ep", p>>, badge |-> FaultBadge(t)] /\ kernel.tcb[tcb].sc = sc
      /\ pds[p].root_ppc => /\ kernel.cspace[cnode][RootEpSlot] = [obj |-> <<"ep", p>>, badge |-> RootPpcBadge(t)]
                            /\ kernel.tcb[tcb].cspace = cnode
  BY Zenon, <1>3 DEF Together, TcbOf
<1>7. /\ reply[1] \in {"reply", "thread reply"}
      /\ \A slot \in DOMAIN Held(p) : At(slot) = reply => slot = THREAD_REPLY(max, t)
  BY Zenon, <1>3, <1>4 DEF OnlyThere
<1>8. tcb[1] = "tcb" => At(PD_VSPACE(max, t)) = kernel.tcb[tcb].vspace
  BY Zenon, <1>3, <1>4 DEF RunsThere, TcbOf
<1> HIDE DEF max, At
<1>9. {THREAD_TCB(max, t), THREAD_SC(max, t), THREAD_CSPACE(max, t), THREAD_REPLY(max, t)} \subseteq DOMAIN Held(p)
  BY Zenon, <1>5
<1>10. \A slot \in DOMAIN Held(p) \ {THREAD_REPLY(max, t)} : At(slot) # At(THREAD_REPLY(max, t))
  BY Zenon, <1>5, <1>7
<1>11. /\ kernel.tcb[At(THREAD_TCB(max, t))].fault = [obj |-> <<"ep", p>>, badge |-> FaultBadge(t)]
       /\ kernel.tcb[At(THREAD_TCB(max, t))].sc = At(THREAD_SC(max, t))
       /\ At(THREAD_REPLY(max, t))[1] \in {"reply", "thread reply"}
  BY Zenon, <1>5, <1>6, <1>7
<1>12. pds[p].root_ppc => /\ kernel.cspace[At(THREAD_CSPACE(max, t))][RootEpSlot] = [obj |-> <<"ep", p>>, badge |-> RootPpcBadge(t)]
                          /\ kernel.tcb[At(THREAD_TCB(max, t))].cspace = At(THREAD_CSPACE(max, t))
  BY Zenon, <1>5, <1>6
<1>13. At(THREAD_TCB(max, t))[1] = "tcb" => At(PD_VSPACE(max, t)) = kernel.tcb[At(THREAD_TCB(max, t))].vspace
  BY Zenon, <1>5, <1>8
<1> QED
  BY Zenon, <1>9, <1>10, <1>11, <1>12, <1>13 DEF max, At

\* For every description, every set of images and every layout: the slots that the macros of
\* sel4cp.h compute for thread t of a root PD hold the parts of one thread, the child with
\* that number or the thread that was made for it: its TCB, whose faults have the badge t, the
\* scheduling context that is bound to it, its CSpace and its reply object, which no other slot
\* has (the loops of build_system over children and threads, lines 1513 to 1772, and sel4cp.h's
\* offsets from libsel4cp_max_threads).
THEOREM ThreadCapsOk == Spec => []ThreadCapsAgree
<1>1. Init => BootInv
  BY InitBootInv
<1>2. BootInv /\ [Next]_vars => BootInv'
  BY BootInvNext
<1>3. BootInv => ThreadCapsAgree
  BY ThreadsAgree
<1> QED
  BY <1>1, <1>2, <1>3, PTL DEF Spec

-----------------------------------------------------------------------------
(* A system has PDs *)

\* A partition does not end before its first PD, and a system without partitions needs one.
Peopled ==
  \/ pc = "refused" \/ pds # <<>>
  \/ /\ pc = "parse"
     /\ \/ open = <<>> /\ partitions = <<>>
        \/ open = <<InPartition>> /\ document[at].tag # "end"

LEMMA InitPeopled == Init => Peopled
BY DEF Init, DescriptionInit, Peopled

LEMMA PeopledNext ==
  ASSUME Peopled, [Next]_vars
  PROVE  Peopled'
<1>1. CASE ~ReadDescription
  <2>1. /\ UNCHANGED description
        /\ pc' = pc \/ (pc' = "refused" /\ pc \notin Booting) \/ (pc \in PastCheck /\ pc' \in PastCheck)
    BY <1>1, BuildPcs
  <2>2. pc \in PastCheck => pc # "parse" /\ pc # "refused"
    BY DEF PastCheck, Built, Booting
  <2> QED
    BY <2>1, <2>2 DEF Peopled, description
<1>2. CASE pds # <<>> /\ ReadDescription
  <2>1. CASE ReadProgramImage \/ ReadMap \/ ReadIrq \/ ReadSetvar
    <3>1. pds' = pds \/ \E x, f : pds' = [pds EXCEPT ![x] = f]
      BY <2>1 DEF ReadProgramImage, ReadMap, ReadIrq, ReadSetvar, ReadInPD, Accept
    <3>2. DOMAIN pds' = DOMAIN pds
      BY <3>1
    <3> QED
      BY <1>2, <3>2 DEF Peopled
  <2>2. CASE ClosePD
    <3>1. pds' = pds \/ \E x, f : pds' = [pds EXCEPT ![x] = f]
      BY <2>2 DEF ClosePD, Accept
    <3>2. DOMAIN pds' = DOMAIN pds
      BY <3>1
    <3> QED
      BY <1>2, <3>2 DEF Peopled
  <2>3. CASE OpenPD
    <3>1. pds' = pds \/ \E x : pds' = Append(pds, x)
      BY <2>3 DEF OpenPD, Accept
    <3> QED
      BY <1>2, <3>1 DEF Peopled
  <2>4. CASE ReadMemoryRegion \/ OpenPartition \/ ClosePartition \/ ReadChannel \/ EndOfDocument \/ CheckDescription
    <3>1. pds' = pds
      BY <2>4 DEF ReadMemoryRegion, OpenPartition, ClosePartition, ReadChannel, EndOfDocument, CheckDescription, Accept, description
    <3> QED
      BY <1>2, <3>1 DEF Peopled
  <2> QED
    BY <1>2, <2>1, <2>2, <2>3, <2>4 DEF ReadDescription
<1>3. CASE pds = <<>> /\ ReadDescription
  <2>1. pc = "parse"
    BY <1>3 DEF Peopled, ReadDescription, ReadMemoryRegion, OpenPartition, OpenPD, ReadProgramImage, ReadMap, ReadIrq, ReadSetvar,
      ReadInPD, ClosePD, ClosePartition, ReadChannel, EndOfDocument, CheckDescription, Element
  <2>2. \/ open = <<>> /\ partitions = <<>>
        \/ open = <<InPartition>> /\ document[at].tag # "end"
    BY <1>3, <2>1 DEF Peopled
  <2>3. ~InPD
    <3>1. CASE open = <<InPartition>>
      <4>1. Len(open) = 1 /\ open[1] = InPartition
        BY <3>1
      <4> QED
        BY <4>1 DEF InPD, Last
    <3>2. CASE open = <<>>
      BY <3>2 DEF InPD
    <3> QED
      BY <2>2, <3>1, <3>2
  <2>4. ~ClosePD /\ ~ReadProgramImage /\ ~ReadMap /\ ~ReadIrq /\ ~ReadSetvar
    BY <2>3 DEF ClosePD, ReadProgramImage, ReadMap, ReadIrq, ReadSetvar, ReadInPD
  <2>5. ~ClosePartition /\ ~CheckDescription
    BY <2>1, <2>2 DEF ClosePartition, Element, CheckDescription
  <2>6. CASE ReadMemoryRegion \/ ReadChannel
    <3>1. open = <<>> /\ partitions = <<>>
      <4>1. open = <<>>
        BY <2>6 DEF ReadMemoryRegion, ReadChannel
      <4>2. <<InPartition>> # <<>>
        OBVIOUS
      <4> QED
        BY <2>2, <4>1, <4>2
    <3>2. /\ open' = open /\ partitions' = partitions
          /\ pc' = pc \/ pc' = "refused"
      BY <2>6 DEF ReadMemoryRegion, ReadChannel, Accept
    <3> QED
      BY <2>1, <3>1, <3>2 DEF Peopled
  <2>7. CASE OpenPartition
    <3>1. pc' = "refused" \/ (raised' = "ok" /\ open' = <<InPartition>> /\ at' = at + 1 /\ pc' = pc /\ document' = document)
      BY <2>7 DEF OpenPartition, Accept
    <3>2. raised' = FirstFailure(<< <<document[at].length \in 1..254, "length">>,
                                    <<document[at + 1].tag # "end", "no protection domains">> >>)
      BY <2>7 DEF OpenPartition, Accept
    <3>3. raised' = "ok" => document[at + 1].tag # "end"
      <4> DEFINE c1 == <<document[at].length \in 1..254, "length">>
                 c2 == <<document[at + 1].tag # "end", "no protection domains">>
      <4>1. c1[2] # "ok" /\ c2[2] # "ok" /\ (c2[1] <=> document[at + 1].tag # "end")
        OBVIOUS
      <4>2. raised' = FirstFailure(<<c1, c2>>)
        BY <3>2
      <4> HIDE DEF c1, c2
      <4> QED
        BY <4>1, <4>2, TwoChecks
    <3> QED
      BY <2>1, <3>1, <3>3 DEF Peopled
  <2>8. CASE OpenPD
    <3>1. pc' = "refused" \/ \E x : pds' = Append(pds, x)
      BY <2>8 DEF OpenPD, Accept
    <3>2. \A x : Append(<<>>, x) # <<>>
      OBVIOUS
    <3> QED
      BY <1>3, <3>1, <3>2 DEF Peopled
  <2>9. CASE EndOfDocument
    <3>1. open = <<>> /\ partitions = <<>>
      BY <2>2, <2>9 DEF EndOfDocument, InPartition
    <3> QED
      BY <1>3, <2>9, <3>1 DEF EndOfDocument, Peopled
  <2> QED
    BY <1>3, <2>4, <2>5, <2>6, <2>7, <2>8, <2>9 DEF ReadDescription
<1> QED
  BY <1>1, <1>2, <1>3

-----------------------------------------------------------------------------
(* Who can send to a PD, and under which badge *)

Badged(type, p, badge) == [obj |-> <<type, p>>, badge |-> badge]

\* The end of a channel at PD p with number id is that of q with number i.
Reaches(cc, q, i, p, id) ==
  \/ Named(cc.a) = q /\ cc.ida = i /\ Named(cc.b) = p /\ cc.idb = id
  \/ Named(cc.b) = q /\ cc.idb = i /\ Named(cc.a) = p /\ cc.ida = id

\* What belongs to thread t of p: to its child with that number, or to a thread made for it.
OfThread(x, p, t, childs, threads) ==
  \/ \E c \in Children(p) : pds[c].pd_id = t /\ x = <<childs, c>>
  \/ t \in Cardinality(Children(p))..pds[p].threads - 1 /\ x = <<threads, p, t>>

ByInput(s, p) ==
  /\ s.by = <<"cnode", p>> /\ s.slot = InputSlot /\ (s.cap = Badged("ep", p, 0) \/ s.cap = Badged("ntfn", p, 0))
BySignal(s, p, id) ==
  /\ s.cap = Badged("ntfn", p, NtfnBadge(id))
  /\ \E cc \in ToSet(channels) : \E q, i : Reaches(cc, q, i, p, id) /\ s.by = <<"cnode", q>> /\ s.slot = NtfnSlot + i
ByIrq(s, p, id) ==
  /\ s.cap = Badged("ntfn", p, NtfnBadge(id)) /\ s.slot = 0
  /\ \E irq \in ToSet(pds[p].irqs) : irq.id = id /\ s.by = <<"irq", irq.irq>>
ByCall(s, p, id) ==
  /\ s.cap = Badged("ep", p, PpcBadge(id))
  /\ \E cc \in ToSet(channels) : \E q, i : Reaches(cc, q, i, p, id) /\ s.by = <<"cnode", q>> /\ s.slot = EpSlot + i
ByThread(s, p, t) ==
  s.cap = Badged("ep", p, RootPpcBadge(t)) /\ s.slot = RootEpSlot /\ OfThread(s.by, p, t, "cnode", "thread cnode")
ByFault(s, p, t) ==
  s.cap = Badged("ep", p, FaultBadge(t)) /\ s.slot = 0 /\ OfThread(s.by, p, t, "tcb", "thread tcb")
ByOwnFault(s, p) == s.cap = Badged("ep", p, FaultRootBadge) /\ s.slot = 0 /\ s.by = <<"tcb", p>>

Numbers999 == 0..998
Sends(s, p) ==
  \/ ByInput(s, p) \/ ByOwnFault(s, p)
  \/ \E id \in Numbers999 : BySignal(s, p, id) \/ ByIrq(s, p, id) \/ ByCall(s, p, id) \/ ByThread(s, p, id) \/ ByFault(s, p, id)
Sending(s) == \E p \in DOMAIN pds : Sends(s, p)

\* A badge has one type and one number.
LEMMA BadgesApart ==
  ASSUME NEW i \in Numbers999, NEW j \in Numbers999
  PROVE  /\ (NtfnBadge(i) = NtfnBadge(j) \/ PpcBadge(i) = PpcBadge(j) \/ RootPpcBadge(i) = RootPpcBadge(j)
             \/ FaultBadge(i) = FaultBadge(j)) => i = j
         /\ NtfnBadge(i) # 0 /\ PpcBadge(i) # 0 /\ RootPpcBadge(i) # 0 /\ FaultBadge(i) # 0 /\ FaultRootBadge # 0
         /\ PpcBadge(i) # RootPpcBadge(j) /\ PpcBadge(i) # FaultBadge(j) /\ RootPpcBadge(i) # FaultBadge(j)
         /\ PpcBadge(i) # FaultRootBadge /\ RootPpcBadge(i) # FaultRootBadge /\ FaultBadge(i) # FaultRootBadge
BY DEF Numbers999, NtfnBadge, PpcBadge, RootPpcBadge, FaultBadge, FaultRootBadge

LEMMA BadgedParts ==
  /\ \A type, p, b, type2, p2, b2 : Badged(type, p, b) = Badged(type2, p2, b2) => type = type2 /\ p = p2 /\ b = b2
  /\ \A type, p, b : Badged(type, p, b).badge = b /\ Badged(type, p, b).obj = <<type, p>> /\ <<type, p>>[2] = p
BY DEF Badged

\* The capability tells how it is sent to whom.
ToldBy(s, p) ==
  /\ s.cap = Badged("ep", p, 0) \/ s.cap = Badged("ntfn", p, 0) => ByInput(s, p)
  /\ s.cap = Badged("ep", p, FaultRootBadge) => ByOwnFault(s, p)
  /\ \A id \in Numbers999 :
       /\ s.cap = Badged("ntfn", p, NtfnBadge(id)) => BySignal(s, p, id) \/ ByIrq(s, p, id)
       /\ s.cap = Badged("ep", p, PpcBadge(id)) => ByCall(s, p, id)
       /\ s.cap = Badged("ep", p, RootPpcBadge(id)) => ByThread(s, p, id)
       /\ s.cap = Badged("ep", p, FaultBadge(id)) => ByFault(s, p, id)

OnlyBadge(cap, p, type, b) == \A type2, b2 : cap = Badged(type2, p, b2) => type2 = type /\ b2 = b
LEMMA OneBadge == \A cap, p, type, b : cap = Badged(type, p, b) => OnlyBadge(cap, p, type, b)
<1> SUFFICES ASSUME NEW cap, NEW p, NEW type, NEW b, cap = Badged(type, p, b), NEW type2, NEW b2, cap = Badged(type2, p, b2)
             PROVE  type2 = type /\ b2 = b
  BY DEF OnlyBadge
<1>1. Badged(type, p, b) = Badged(type2, p, b2)
  OBVIOUS
<1> QED
  BY <1>1 DEF Badged

LEMMA CapTells ==
  ASSUME NEW s, NEW p, Sends(s, p)
  PROVE  ToldBy(s, p)
<1>0. "ep" # "ntfn"
  OBVIOUS
<1>1. CASE ByInput(s, p)
  <2>1. PICK type : s.cap = Badged(type, p, 0)
    BY Zenon, <1>1 DEF ByInput
  <2>2. OnlyBadge(s.cap, p, type, 0)
    BY Zenon, <2>1, OneBadge
  <2>3. FaultRootBadge # 0
    BY DEF FaultRootBadge
  <2>4. \A id \in Numbers999 : NtfnBadge(id) # 0 /\ PpcBadge(id) # 0 /\ RootPpcBadge(id) # 0 /\ FaultBadge(id) # 0
    BY Zenon, BadgesApart
  <2> QED
    BY Zenon, <1>1, <2>2, <2>3, <2>4 DEF ToldBy, OnlyBadge
<1>2. CASE ByOwnFault(s, p)
  <2>1. s.cap = Badged("ep", p, FaultRootBadge)
    BY Zenon, <1>2 DEF ByOwnFault
  <2>2. OnlyBadge(s.cap, p, "ep", FaultRootBadge)
    BY Zenon, <2>1, OneBadge
  <2>3. FaultRootBadge # 0
    BY DEF FaultRootBadge
  <2>4. \A id \in Numbers999 : PpcBadge(id) # FaultRootBadge /\ RootPpcBadge(id) # FaultRootBadge /\ FaultBadge(id) # FaultRootBadge
    BY Zenon, BadgesApart
  <2> QED
    BY <1>0, <1>2, <2>2, <2>3, <2>4 DEF ToldBy, OnlyBadge
<1>3. ASSUME NEW id \in Numbers999, BySignal(s, p, id) \/ ByIrq(s, p, id)
      PROVE  ToldBy(s, p)
  <2>1. s.cap = Badged("ntfn", p, NtfnBadge(id))
    BY Zenon, <1>3 DEF BySignal, ByIrq
  <2>2. OnlyBadge(s.cap, p, "ntfn", NtfnBadge(id))
    BY Zenon, <2>1, OneBadge
  <2>3. NtfnBadge(id) # 0
    BY Zenon, BadgesApart
  <2>4. \A j \in Numbers999 : (NtfnBadge(j) = NtfnBadge(id) => j = id)
    BY Zenon, BadgesApart
  <2> QED
    BY <1>0, <1>3, <2>2, <2>3, <2>4 DEF ToldBy, OnlyBadge
<1>4. ASSUME NEW id \in Numbers999, ByCall(s, p, id)
      PROVE  ToldBy(s, p)
  <2>1. s.cap = Badged("ep", p, PpcBadge(id))
    BY Zenon, <1>4 DEF ByCall
  <2>2. OnlyBadge(s.cap, p, "ep", PpcBadge(id))
    BY Zenon, <2>1, OneBadge
  <2>3. PpcBadge(id) # 0
    BY Zenon, BadgesApart
  <2>4. \A j \in Numbers999 : (PpcBadge(j) = PpcBadge(id) => j = id) /\ PpcBadge(id) # FaultRootBadge /\ RootPpcBadge(j) # PpcBadge(id) /\ FaultBadge(j) # PpcBadge(id)
    BY Zenon, BadgesApart
  <2> QED
    BY <1>0, <1>4, <2>2, <2>3, <2>4 DEF ToldBy, OnlyBadge
<1>5. ASSUME NEW id \in Numbers999, ByThread(s, p, id)
      PROVE  ToldBy(s, p)
  <2>1. s.cap = Badged("ep", p, RootPpcBadge(id))
    BY Zenon, <1>5 DEF ByThread
  <2>2. OnlyBadge(s.cap, p, "ep", RootPpcBadge(id))
    BY Zenon, <2>1, OneBadge
  <2>3. RootPpcBadge(id) # 0
    BY Zenon, BadgesApart
  <2>4. \A j \in Numbers999 : (RootPpcBadge(j) = RootPpcBadge(id) => j = id) /\ RootPpcBadge(id) # FaultRootBadge /\ PpcBadge(j) # RootPpcBadge(id) /\ FaultBadge(j) # RootPpcBadge(id)
    BY Zenon, BadgesApart
  <2> QED
    BY <1>0, <1>5, <2>2, <2>3, <2>4 DEF ToldBy, OnlyBadge
<1>6. ASSUME NEW id \in Numbers999, ByFault(s, p, id)
      PROVE  ToldBy(s, p)
  <2>1. s.cap = Badged("ep", p, FaultBadge(id))
    BY Zenon, <1>6 DEF ByFault
  <2>2. OnlyBadge(s.cap, p, "ep", FaultBadge(id))
    BY Zenon, <2>1, OneBadge
  <2>3. FaultBadge(id) # 0
    BY Zenon, BadgesApart
  <2>4. \A j \in Numbers999 : (FaultBadge(j) = FaultBadge(id) => j = id) /\ FaultBadge(id) # FaultRootBadge /\ PpcBadge(j) # FaultBadge(id) /\ RootPpcBadge(j) # FaultBadge(id)
    BY Zenon, BadgesApart
  <2> QED
    BY <1>0, <1>6, <2>2, <2>3, <2>4 DEF ToldBy, OnlyBadge
<1> QED
  BY Zenon, <1>1, <1>2, <1>3, <1>4, <1>5, <1>6 DEF Sends

-----------------------------------------------------------------------------
(* What PDs and threads hold to send with *)

\* A thread has its slots in the CSpace of the root PD, which limits how many there are.
LEMMA ThreadNumber ==
  ASSUME Final, CapsTyped, NEW p \in DOMAIN pds, pds[p].threads > 0, NEW t \in Cardinality(Children(p))..pds[p].threads - 1
  PROVE  t \in Numbers999
<1> DEFINE n == pds[p].threads
<1>1. n \in Nat /\ t \in Nat
  <2>1. Cardinality(Children(p)) \in Nat /\ n \in Nat
    BY FamilyOf
  <2> QED
    BY <2>1
<1>2. ThreadReply(n, t) \in DOMAIN Held(p)
  <2>1. ThreadGift(p, t, Gift(<<"cnode", p>>, ThreadReply(n, t), <<"thread reply", p, t>>, 0))
    BY Zenon DEF ThreadGift
  <2>2. GiftKinds(Gift(<<"cnode", p>>, ThreadReply(n, t), <<"thread reply", p, t>>, 0))
    BY Zenon, <2>1 DEF GiftKinds, ThreadGifts
  <2> QED
    BY Zenon, <2>2, PlainHeld
<1>3. ThreadReply(n, t) \in 0..PdSlots - 1
  <2>1. <<"cnode", p>> \in DOMAIN kernel.cspace
    BY HeldIs
  <2>2. ThreadReply(n, t) \in DOMAIN kernel.cspace[<<"cnode", p>>]
    BY Zenon, <1>2 DEF Held
  <2>3. ThreadReply(n, t) \in SlotsOf(<<"cnode", p>>)
    BY Zenon, <2>1, <2>2 DEF CapsTyped
  <2>4. <<"cnode", p>> # System /\ <<"cnode", p>>[1] = "cnode"
    BY DEF System
  <2> QED
    BY <2>3, <2>4 DEF SlotsOf
<1> HIDE DEF n
<1>4. ThreadReply(n, t) = TcbSlot + n * 3 + t /\ TcbSlot \in Nat
  BY <1>1, ThreadSlotsFrom, SlotNumbers
<1>5. n * 3 \in Nat
  BY <1>1
<1> DEFINE reply == ThreadReply(n, t)
           before == n * 3
<1>6. reply = TcbSlot + before + t /\ TcbSlot \in Nat /\ before \in Nat /\ t \in Nat /\ reply \in 0..PdSlots - 1
  BY Zenon, <1>1, <1>3, <1>4, <1>5
<1>7. PdSlots \in 0..999
  BY Zenon, PdSlotsAssumption
<1> HIDE DEF reply, before
<1>8. t \in 0..998
  BY <1>6, <1>7
<1> QED
  BY Zenon, <1>8 DEF Numbers999

LEMMA ChildNumber ==
  ASSUME Final, NEW p \in DOMAIN pds, NEW c \in Children(p)
  PROVE  pds[c].pd_id \in Numbers999
<1>1. pds[c].pd_id \in 0..255
  BY WhoNeedsEp, FinalPlan, PdTyped
<1> QED
  BY <1>1 DEF Numbers999

\* A gift as a sender.
SenderOf(g) == [by |-> g.to, slot |-> g.slot, cap |-> g.cap]

IsSender(s, to, slot, cap) == s.by = to /\ s.slot = slot /\ s.cap = cap

LEMMA SenderParts ==
  \A g, to, slot, p, badge :
    /\ g = Gift(to, slot, <<"ep", p>>, badge) => IsSender(SenderOf(g), to, slot, Badged("ep", p, badge))
    /\ g = Gift(to, slot, <<"ntfn", p>>, badge) => IsSender(SenderOf(g), to, slot, Badged("ntfn", p, badge))
<1> TAKE g, to, slot, p, badge
<1>1. Sealed(<<"ep", p>>, badge) = Badged("ep", p, badge) /\ Sealed(<<"ntfn", p>>, badge) = Badged("ntfn", p, badge)
  BY DEF Sealed, Badged
<1> QED
  BY <1>1 DEF Gift, SenderOf, IsSender

SendTypes == {"ep", "ntfn"}
LEMMA NoSender ==
  ASSUME NEW g, g.cap.obj[1] \in SendTypes
  PROVE  /\ \A to, slot, badge : g # Gift(to, slot, <<"schedcontrol">>, badge)
         /\ \A type, x, to, slot, badge : type \notin SendTypes => g # Gift(to, slot, <<type, x>>, badge)
         /\ \A type, x, y, to, slot, badge : type \notin SendTypes => g # Gift(to, slot, <<type, x, y>>, badge)
<1>0. \A to, slot, obj, badge : g = Gift(to, slot, obj, badge) => g.cap.obj = obj
  BY Zenon, GiftEquals
<1>1. ASSUME NEW to, NEW slot, NEW badge, NEW o, g = Gift(to, slot, o, badge)
      PROVE  o[1] \in SendTypes
  <2>1. g.cap.obj = o
    BY Zenon, <1>0, <1>1
  <2> QED
    BY Zenon, <2>1
<1>2. <<"schedcontrol">>[1] \notin SendTypes
  <2>1. "schedcontrol" \notin SendTypes
    BY Zenon DEF SendTypes
  <2> QED
    BY Zenon, <2>1, FirstOf
<1>3. \A type, x : type \notin SendTypes => <<type, x>>[1] \notin SendTypes
  BY Zenon, FirstOf
<1>4. \A type, x, y : type \notin SendTypes => <<type, x, y>>[1] \notin SendTypes
  BY Zenon, FirstOf
<1> QED
  BY Zenon, <1>1, <1>2, <1>3, <1>4

LEMMA GiftSends ==
  ASSUME Final, CapsTyped, NEW g, GiftKinds(g), g.cap.obj[1] \in SendTypes
  PROVE  Sending(SenderOf(g))
<1> DEFINE s == SenderOf(g)
<1>0. /\ "reply" \notin SendTypes /\ "vspace" \notin SendTypes /\ "irq" \notin SendTypes
      /\ "tcb" \notin SendTypes /\ "sc" \notin SendTypes /\ "cnode" \notin SendTypes
      /\ "thread tcb" \notin SendTypes /\ "thread sc" \notin SendTypes /\ "thread cnode" \notin SendTypes
      /\ "thread reply" \notin SendTypes
  BY Zenon DEF SendTypes
<1>1. \A to, slot, p, badge :
        /\ g = Gift(to, slot, <<"ep", p>>, badge) => IsSender(s, to, slot, Badged("ep", p, badge))
        /\ g = Gift(to, slot, <<"ntfn", p>>, badge) => IsSender(s, to, slot, Badged("ntfn", p, badge))
  BY Zenon, SenderParts
<1>2. /\ \A to, slot, badge : g # Gift(to, slot, <<"schedcontrol">>, badge)
      /\ \A type, x, to, slot, badge : type \notin SendTypes => g # Gift(to, slot, <<type, x>>, badge)
      /\ \A type, x, y, to, slot, badge : type \notin SendTypes => g # Gift(to, slot, <<type, x, y>>, badge)
  BY Zenon, NoSender
<1> HIDE DEF s
<1>3. ASSUME InputGift(g)
      PROVE  Sending(s)
  <2>1. PICK p \in DOMAIN pds : g = Gift(<<"cnode", p>>, InputSlot, IF NeedsEp(p) THEN <<"ep", p>> ELSE <<"ntfn", p>>, 0)
    BY Zenon, <1>3 DEF InputGift
  <2>2. g = Gift(<<"cnode", p>>, InputSlot, <<"ep", p>>, 0) \/ g = Gift(<<"cnode", p>>, InputSlot, <<"ntfn", p>>, 0)
    BY Zenon, <2>1
  <2>3. \/ IsSender(s, <<"cnode", p>>, InputSlot, Badged("ep", p, 0))
        \/ IsSender(s, <<"cnode", p>>, InputSlot, Badged("ntfn", p, 0))
    BY Zenon, <1>1, <2>2
  <2>4. ByInput(s, p)
    BY Zenon, <2>3 DEF ByInput, IsSender
  <2> QED
    BY Zenon, <2>4 DEF Sends, Sending
<1>4. ~ReplyGift(g) /\ ~VSpaceGift(g) /\ ~IrqGift(g)
  BY Zenon, <1>0, <1>2 DEF ReplyGift, VSpaceGift, IrqGift
<1>5. ASSUME ChildGifts(g)
      PROVE  Sending(s)
  <2>1. PICK p \in DOMAIN pds : \E c \in Children(p) : ChildGift(p, c, g)
    BY Zenon, <1>5 DEF ChildGifts
  <2>2. PICK c \in Children(p) : ChildGift(p, c, g)
    BY Zenon, <2>1
  <2>3. g = Gift(<<"cnode", c>>, RootEpSlot, <<"ep", p>>, RootPpcBadge(pds[c].pd_id))
    BY Zenon, <1>0, <1>2, <2>2 DEF ChildGift
  <2>4. IsSender(s, <<"cnode", c>>, RootEpSlot, Badged("ep", p, RootPpcBadge(pds[c].pd_id)))
    BY Zenon, <1>1, <2>3
  <2>5. ByThread(s, p, pds[c].pd_id)
    BY Zenon, <2>4 DEF ByThread, IsSender, OfThread
  <2>6. pds[c].pd_id \in Numbers999
    BY ChildNumber
  <2> QED
    BY Zenon, <2>5, <2>6 DEF Sends, Sending
<1>6. ASSUME ThreadGifts(g)
      PROVE  Sending(s)
  <2>1. PICK p \in DOMAIN pds : /\ pds[p].threads > 0
                                /\ \/ SelfGift(p, g)
                                   \/ \E t \in Cardinality(Children(p))..pds[p].threads - 1 : ThreadGift(p, t, g)
    BY Zenon, <1>6 DEF ThreadGifts
  <2>2. ~SelfGift(p, g)
    BY Zenon, <1>0, <1>2 DEF SelfGift
  <2>3. PICK t \in Cardinality(Children(p))..pds[p].threads - 1 : ThreadGift(p, t, g)
    BY Zenon, <2>1, <2>2
  <2>4. g = Gift(<<"thread cnode", p, t>>, RootEpSlot, <<"ep", p>>, RootPpcBadge(t))
    BY Zenon, <1>0, <1>2, <2>3 DEF ThreadGift
  <2>5. IsSender(s, <<"thread cnode", p, t>>, RootEpSlot, Badged("ep", p, RootPpcBadge(t)))
    BY Zenon, <1>1, <2>4
  <2>6. ByThread(s, p, t)
    BY Zenon, <2>5 DEF ByThread, IsSender, OfThread
  <2>7. t \in Numbers999
    BY Zenon, <2>1, ThreadNumber
  <2> QED
    BY Zenon, <2>6, <2>7 DEF Sends, Sending
<1>7. ASSUME JoinGifts(g)
      PROVE  Sending(s)
  <2>1. PICK cc \in ToSet(channels) : Joins(cc, g)
    BY Zenon, <1>7 DEF JoinGifts
  <2> DEFINE a == Named(cc.a)
             b == Named(cc.b)
  <2>2. a \in DOMAIN pds /\ b \in DOMAIN pds
    BY EndsNamed
  <2>3. cc.ida \in Numbers999 /\ cc.idb \in Numbers999
    <3>1. cc.ida \in 0..62 /\ cc.idb \in 0..62
      BY FinalPlan, ChannelTyped
    <3> QED
      BY <3>1 DEF Numbers999
  <2>4. Reaches(cc, a, cc.ida, b, cc.idb) /\ Reaches(cc, b, cc.idb, a, cc.ida)
    BY Zenon DEF Reaches
  <2>5. \/ g = Gift(<<"cnode", a>>, NtfnSlot + cc.ida, <<"ntfn", b>>, NtfnBadge(cc.idb))
        \/ g = Gift(<<"cnode", b>>, NtfnSlot + cc.idb, <<"ntfn", a>>, NtfnBadge(cc.ida))
        \/ g = Gift(<<"cnode", a>>, EpSlot + cc.ida, <<"ep", b>>, PpcBadge(cc.idb))
        \/ g = Gift(<<"cnode", b>>, EpSlot + cc.idb, <<"ep", a>>, PpcBadge(cc.ida))
    BY Zenon, <2>1 DEF Joins
  <2> HIDE DEF a, b
  <2>6. \/ IsSender(s, <<"cnode", a>>, NtfnSlot + cc.ida, Badged("ntfn", b, NtfnBadge(cc.idb)))
        \/ IsSender(s, <<"cnode", b>>, NtfnSlot + cc.idb, Badged("ntfn", a, NtfnBadge(cc.ida)))
        \/ IsSender(s, <<"cnode", a>>, EpSlot + cc.ida, Badged("ep", b, PpcBadge(cc.idb)))
        \/ IsSender(s, <<"cnode", b>>, EpSlot + cc.idb, Badged("ep", a, PpcBadge(cc.ida)))
    BY Zenon, <1>1, <2>5
  <2>7. BySignal(s, b, cc.idb) \/ BySignal(s, a, cc.ida) \/ ByCall(s, b, cc.idb) \/ ByCall(s, a, cc.ida)
    BY Zenon, <2>4, <2>6 DEF BySignal, ByCall, IsSender
  <2> QED
    BY Zenon, <2>2, <2>3, <2>7 DEF Sends, Sending
<1>8. Sending(s)
  BY Zenon, <1>3, <1>4, <1>5, <1>6, <1>7 DEF GiftKinds
<1> QED
  BY Zenon, <1>8 DEF s

-----------------------------------------------------------------------------
(* Who sends: slots of CSpaces, TCBs whose faults are handled, and interrupts *)

SenderAt(by, slot, cap) == [by |-> by, slot |-> slot, cap |-> cap]

LEMMA SlotSends ==
  ASSUME Final, CapsTyped, DOMAIN pds # {}, NEW c \in DOMAIN kernel.cspace \ {System}, NEW slot \in DOMAIN kernel.cspace[c],
         kernel.cspace[c][slot].obj[1] \in SendTypes
  PROVE  Sending(SenderAt(c, slot, kernel.cspace[c][slot]))
<1> DEFINE cap == kernel.cspace[c][slot]
           g == [to |-> c, slot |-> slot, cap |-> cap]
<1>1. GiftKinds(g)
  BY Zenon, CapsAreGifts
<1>2. cap.obj[1] \in SendTypes
  OBVIOUS
<1> HIDE DEF cap
<1>3. g.cap = cap /\ SenderOf(g) = SenderAt(c, slot, cap)
  BY DEF SenderOf, SenderAt
<1> HIDE DEF g
<1>4. Sending(SenderOf(g))
  BY Zenon, <1>1, <1>2, <1>3, GiftSends
<1> QED
  BY Zenon, <1>3, <1>4 DEF cap

LEMMA SenderAtParts == \A by, slot, cap : IsSender(SenderAt(by, slot, cap), by, slot, cap)
BY DEF SenderAt, IsSender

\* The fault of a PD is handled by its parent, or else by itself.
LEMMA OwnFaultSends ==
  ASSUME Final, NEW p \in DOMAIN pds
  PROVE  Sending(SenderAt(<<"tcb", p>>, 0, Tcbs(p).fault))
<1> DEFINE s == SenderAt(<<"tcb", p>>, 0, Tcbs(p).fault)
<1>1. s.by = <<"tcb", p>> /\ s.slot = 0 /\ s.cap = Handler(p)
  <2>1. Tcbs(p).fault = Handler(p)
    BY Zenon, FaultIs
  <2>2. IsSender(s, <<"tcb", p>>, 0, Tcbs(p).fault)
    BY Zenon, SenderAtParts
  <2> HIDE DEF s
  <2> QED
    BY Zenon, <2>1, <2>2 DEF IsSender
<1> HIDE DEF s
<1>2. CASE Parented(p)
  <2>1. pds[p].parent \in DOMAIN pds /\ p \in Children(pds[p].parent)
    BY Zenon, <1>2, WhoNeedsEp
  <2>2. s.cap = Badged("ep", pds[p].parent, FaultBadge(pds[p].pd_id))
    BY Zenon, <1>1, <1>2 DEF Handler, Badged
  <2>3. ByFault(s, pds[p].parent, pds[p].pd_id)
    BY Zenon, <1>1, <2>1, <2>2 DEF ByFault, OfThread
  <2>4. pds[p].pd_id \in Numbers999
    BY Zenon, <2>1, ChildNumber
  <2> QED
    BY Zenon, <2>1, <2>3, <2>4 DEF Sends, Sending, s
<1>3. CASE ~Parented(p)
  <2>1. s.cap = Badged("ep", p, FaultRootBadge)
    BY Zenon, <1>1, <1>3 DEF Handler, Badged
  <2>2. ByOwnFault(s, p)
    BY Zenon, <1>1, <2>1 DEF ByOwnFault
  <2> QED
    BY Zenon, <2>2 DEF Sends, Sending, s
<1> QED
  BY Zenon, <1>2, <1>3

LEMMA FaultCallCount ==
  ASSUME Final, NEW q \in DOMAIN pds, pds[q].threads > 0, NEW m, plan[m] = FaultCall(q), NEW i \in 0..plan[m].count - 1
  PROVE  Cardinality(Children(q)) + i \in Cardinality(Children(q))..pds[q].threads - 1
<1> DEFINE n == Spawnable(q)
           k == Cardinality(Children(q))
           args == [tcb |-> Thread("thread tcb", q, k), fault |-> ThreadFaultCap(q)]
           incr == [tcb |-> 1, fault |-> 1]
<1>1. n \in Nat \ {0} /\ n = pds[q].threads - k /\ k \in Nat /\ pds[q].threads \in Nat
  BY FamilyOf
<1>2. plan[m] = Repeat(Do("SetFaultHandler", args), n, incr)
  BY Zenon DEF FaultCall, Spawned
<1> HIDE DEF n, k, args, incr
<1>3. plan[m].count = Times(n)
  BY <1>1, <1>2, RepeatActual
<1>4. Times(n) = n
  BY <1>1 DEF Times
<1>5. k + i \in k..pds[q].threads - 1
  BY <1>1, <1>3, <1>4
<1> QED
  BY Zenon, <1>5 DEF k

\* The fault of a thread that a root PD controls is handled by the root PD.
LEMMA ThreadFaultSends ==
  ASSUME Final, CapsTyped, NEW q \in DOMAIN pds, pds[q].threads > 0, NEW m, plan[m] = FaultCall(q), NEW i, Done(m, i)
  PROVE  Sending(SenderAt(CapAt(m, i, "tcb").obj, 0, CapAt(m, i, "fault")))
<1> DEFINE k == Cardinality(Children(q))
           u == k + i
           s == SenderAt(CapAt(m, i, "tcb").obj, 0, CapAt(m, i, "fault"))
<1>1. i \in 0..plan[m].count - 1
  BY Zenon, DoneInPlan
<1>2. u \in k..pds[q].threads - 1
  BY Zenon, <1>1, FaultCallCount
<1>3. FaultRow(q, m)
  BY Zenon, ThreadRowsWrite
<1>4. CapAt(m, i, "tcb").obj = <<"thread tcb", q, u>> /\ CapAt(m, i, "fault") = [obj |-> <<"ep", q>>, badge |-> FaultBadge(u)]
  BY Zenon, <1>1, <1>3 DEF FaultRow, RowWrites
<1>5. s.by = <<"thread tcb", q, u>> /\ s.slot = 0 /\ s.cap = Badged("ep", q, FaultBadge(u))
  <2>1. IsSender(s, CapAt(m, i, "tcb").obj, 0, CapAt(m, i, "fault"))
    BY Zenon, SenderAtParts
  <2> HIDE DEF s, u
  <2> QED
    BY Zenon, <1>4, <2>1 DEF IsSender, Badged
<1>6. u \in Numbers999
  BY Zenon, <1>2, ThreadNumber
<1> HIDE DEF u, s
<1>7. ByFault(s, q, u)
  BY Zenon, <1>2, <1>5 DEF ByFault, OfThread
<1> QED
  BY Zenon, <1>6, <1>7 DEF Sends, Sending, s

LEMMA FaultSends ==
  ASSUME Final, CapsTyped, DOMAIN pds # {}, NEW t \in DOMAIN kernel.tcb, kernel.tcb[t].fault.obj # NoObject
  PROVE  Sending(SenderAt(t, 0, kernel.tcb[t].fault))
<1>1. LastWritten
  <2>1. Effects
    BY FinalPlan
  <2> QED
    BY Zenon, <2>1 DEF Effects
<1>2. PICK m, i : Writes(m, i, t, "fault") /\ kernel.tcb[t].fault = Fresh(m, i)["fault"]
  <2>1. "fault" \in TcbFields
    BY DEF TcbFields
  <2>2. Blank["fault"].obj = NoObject
    BY DEF Blank, NoCap
  <2>3. kernel.tcb[t].fault = kernel.tcb[t]["fault"]
    OBVIOUS
  <2>4. kernel.tcb[t]["fault"] # Blank["fault"]
    BY Zenon, <2>2, <2>3
  <2> QED
    BY Zenon, <1>1, <2>1, <2>3, <2>4 DEF LastWritten
<1>3. Done(m, i) /\ plan[m].op \in TcbOps /\ CapAt(m, i, "tcb").obj = t /\ "fault" \in DOMAIN Fresh(m, i)
  BY Zenon, <1>2 DEF Writes
<1>4. ASSUME NEW q \in DOMAIN pds, t = <<"tcb", q>>
      PROVE  Sending(SenderAt(t, 0, kernel.tcb[t].fault))
  BY Zenon, <1>4, OwnFaultSends DEF Tcbs
<1>5. CASE plan[m].op \in ThreadOps
  <2>1. PICK q \in DOMAIN pds : pds[q].threads > 0 /\ ThreadWrite(q, plan[m])
    <3>1. IsThreadWrite(plan[m])
      BY <1>3, <1>5, FinalPlan, DoneInPlan, ByOp
    <3> QED
      BY Zenon, <3>1 DEF IsThreadWrite
  <2>2. plan[m].op = "SetFaultHandler"
    <3>1. plan[m].op = "SetCSpace" => DOMAIN Fresh(m, i) = {"cspace"}
      BY Zenon, FreshOfThreads
    <3>2. plan[m].op = "SchedContextBind" => DOMAIN Fresh(m, i) = {"sc"}
      BY Zenon, FreshOfThreads
    <3> QED
      BY <1>3, <1>5, <3>1, <3>2 DEF ThreadOps
  <2>3. plan[m] = FaultCall(q)
    <3>1. plan[m] # CSpaceCall(q)
      <4>1. plan[m] = CSpaceCall(q) => plan[m].op = "SetCSpace"
        BY Zenon, <2>1, ThreadRowsWrite DEF CSpaceRow, RowWrites
      <4> QED
        BY <2>2, <4>1
    <3>2. plan[m] # ScCall(q)
      <4>1. plan[m] = ScCall(q) => plan[m].op = "SchedContextBind"
        BY Zenon, <2>1, ThreadRowsWrite DEF ScRow, RowWrites
      <4> QED
        BY <2>2, <4>1
    <3> QED
      BY Zenon, <2>1, <3>1, <3>2, ThreadCallsAre
  <2>4. Fresh(m, i)["fault"] = CapAt(m, i, "fault")
    BY Zenon, <2>2, FreshOfThreads
  <2>5. Sending(SenderAt(CapAt(m, i, "tcb").obj, 0, CapAt(m, i, "fault")))
    BY Zenon, <1>3, <2>1, <2>3, ThreadFaultSends
  <2> QED
    BY Zenon, <1>2, <1>3, <2>4, <2>5
<1>6. CASE plan[m].op \notin ThreadOps
  <2>1. CASE plan[m].op = "SetSchedParams"
    <3>1. PICK q \in DOMAIN pds : CapAt(m, i, "tcb").obj = <<"tcb", q>>
      BY Zenon, <1>3, <2>1, ParamsWrite
    <3> QED
      BY Zenon, <1>3, <1>4, <3>1
  <2>2. CASE plan[m].op = "SetSpace"
    <3>1. i + 1 \in DOMAIN pds /\ CapAt(m, i, "tcb").obj = <<"tcb", i + 1>>
      BY Zenon, <1>3, <2>2, SpaceWrite
    <3> QED
      BY Zenon, <1>3, <1>4, <3>1
  <2>3. CASE plan[m].op \notin {"SetSchedParams", "SetSpace"}
    <3>1. plan[m].op \in {"SetTimeoutEndpoint", "SetIPCBuffer", "WriteRegisters", "BindNotification", "DomainSet", "Resume"}
      BY <1>3, <1>6, <2>3 DEF TcbOps, ThreadOps
    <3>2. DOMAIN Fresh(m, i) \in {{"timeout"}, {"buffer", "frame"}, {"entry", "x0"}, {"ntfn"}, {"domain"}, {"running"}}
      BY Zenon, <3>1, FreshFields
    <3> DEFINE D == DOMAIN Fresh(m, i)
    <3>3. D \in {{"timeout"}, {"buffer", "frame"}, {"entry", "x0"}, {"ntfn"}, {"domain"}, {"running"}} /\ "fault" \in D
      BY Zenon, <1>3, <3>2
    <3> HIDE DEF D
    <3> QED
      BY <3>3
  <2> QED
    BY Zenon, <2>1, <2>2, <2>3
<1> QED
  BY Zenon, <1>5, <1>6

LEMMA IrqSends ==
  ASSUME Final, NEW irq \in DOMAIN kernel.irqs, kernel.irqs[irq].obj # NoObject
  PROVE  Sending(SenderAt(<<"irq", irq>>, 0, kernel.irqs[irq]))
<1>1. IrqsSet
  <2>1. Effects
    BY FinalPlan
  <2> QED
    BY Zenon, <2>1 DEF Effects
<1>2. PICK m, i : Sets(m, i, irq)
  <2>1. NoCap.obj = NoObject
    BY DEF NoCap
  <2> QED
    BY Zenon, <1>1, <2>1 DEF IrqsSet
<1>3. PICK n \in 1..Len(IrqList) : CapAt(m, i, "handler").obj = <<"irq", IrqList[n].irq>>
  BY Zenon, <1>2, IrqWrite DEF Sets
<1>4. IrqList[n].irq = irq
  BY <1>2, <1>3 DEF Sets
<1>5. Laid
  BY FinalPlan
<1>6. PICK p \in DOMAIN pds : \E e \in ToSet(pds[p].irqs) : IrqList[n] = [pd |-> p, irq |-> e.irq, id |-> e.id]
  BY Zenon, <1>5, IrqListIs
<1>7. PICK e \in ToSet(pds[p].irqs) : IrqList[n] = [pd |-> p, irq |-> e.irq, id |-> e.id]
  BY Zenon, <1>6
<1>8. e.irq = irq
  BY <1>4, <1>7
<1>9. kernel.irqs[irq] = [obj |-> <<"ntfn", p>>, badge |-> NtfnBadge(e.id)]
  BY Zenon, <1>8, IrqArrives
<1> DEFINE s == SenderAt(<<"irq", irq>>, 0, kernel.irqs[irq])
<1>10. s.by = <<"irq", e.irq>> /\ s.slot = 0 /\ s.cap = Badged("ntfn", p, NtfnBadge(e.id))
  <2>1. IsSender(s, <<"irq", irq>>, 0, kernel.irqs[irq])
    BY Zenon, SenderAtParts
  <2> HIDE DEF s
  <2> QED
    BY Zenon, <1>8, <1>9, <2>1 DEF IsSender, Badged
<1> HIDE DEF s
<1>11. ByIrq(s, p, e.id)
  BY Zenon, <1>10 DEF ByIrq
<1>12. e.id \in Numbers999
  <2>1. e.id \in 0..62
    BY FinalPlan, IrqTyped
  <2> QED
    BY <2>1 DEF Numbers999
<1> QED
  BY Zenon, <1>11, <1>12 DEF Sends, Sending, s

-----------------------------------------------------------------------------
(* A badge names one sender *)

LEMMA ReachesOne ==
  ASSUME Final, NEW cc \in ToSet(channels), NEW dd \in ToSet(channels), NEW p, NEW id, NEW q, NEW i, NEW r, NEW j,
         Reaches(cc, q, i, p, id), Reaches(dd, r, j, p, id)
  PROVE  q = r /\ i = j
<1>1. JoinedTo(cc, p, id, q) /\ JoinedTo(dd, p, id, r)
  BY Zenon DEF Reaches, JoinedTo
<1>2. cc = dd
  BY Zenon, <1>1, OneChannel
<1> QED
  BY Zenon, <1>2 DEF Reaches

\* The same place.
AtOne(s, r) == s.by = r.by /\ s.slot = r.slot

LEMMA SignalOne ==
  ASSUME Final, NEW p, NEW id, NEW s, NEW r, BySignal(s, p, id), BySignal(r, p, id)
  PROVE  AtOne(s, r)
<1>1. PICK cc \in ToSet(channels) : \E q, i : Reaches(cc, q, i, p, id) /\ s.by = <<"cnode", q>> /\ s.slot = NtfnSlot + i
  BY Zenon DEF BySignal
<1>2. PICK q, i : Reaches(cc, q, i, p, id) /\ s.by = <<"cnode", q>> /\ s.slot = NtfnSlot + i
  BY Zenon, <1>1
<1>3. PICK dd \in ToSet(channels) : \E x, j : Reaches(dd, x, j, p, id) /\ r.by = <<"cnode", x>> /\ r.slot = NtfnSlot + j
  BY Zenon DEF BySignal
<1>4. PICK x, j : Reaches(dd, x, j, p, id) /\ r.by = <<"cnode", x>> /\ r.slot = NtfnSlot + j
  BY Zenon, <1>3
<1>5. q = x /\ i = j
  BY Zenon, <1>2, <1>4, ReachesOne
<1> QED
  BY Zenon, <1>2, <1>4, <1>5 DEF AtOne

LEMMA CallOne ==
  ASSUME Final, NEW p, NEW id, NEW s, NEW r, ByCall(s, p, id), ByCall(r, p, id)
  PROVE  AtOne(s, r)
<1>1. PICK cc \in ToSet(channels) : \E q, i : Reaches(cc, q, i, p, id) /\ s.by = <<"cnode", q>> /\ s.slot = EpSlot + i
  BY Zenon DEF ByCall
<1>2. PICK q, i : Reaches(cc, q, i, p, id) /\ s.by = <<"cnode", q>> /\ s.slot = EpSlot + i
  BY Zenon, <1>1
<1>3. PICK dd \in ToSet(channels) : \E x, j : Reaches(dd, x, j, p, id) /\ r.by = <<"cnode", x>> /\ r.slot = EpSlot + j
  BY Zenon DEF ByCall
<1>4. PICK x, j : Reaches(dd, x, j, p, id) /\ r.by = <<"cnode", x>> /\ r.slot = EpSlot + j
  BY Zenon, <1>3
<1>5. q = x /\ i = j
  BY Zenon, <1>2, <1>4, ReachesOne
<1> QED
  BY Zenon, <1>2, <1>4, <1>5 DEF AtOne

\* Channels and interrupts of a PD share its numbers.
LEMMA SignalNotIrq ==
  ASSUME Final, NEW p \in DOMAIN pds, NEW id, NEW s, NEW r, BySignal(s, p, id), ByIrq(r, p, id)
  PROVE  FALSE
<1>1. PICK cc \in ToSet(channels) : \E q, i : Reaches(cc, q, i, p, id)
  BY Zenon DEF BySignal
<1>2. Numbers(cc, pds[p].name, id)
  BY Zenon, <1>1, EndsNamed DEF Reaches, Numbers
<1>3. PICK n \in DOMAIN channels : channels[n] = cc
  BY DEF ToSet
<1>4. channels[n].ida \notin IdsBefore(channels[n].a, n) /\ channels[n].idb \notin IdsBefore(channels[n].b, n)
  BY FinalPlan DEF Accepted, ChannelIdsFree
<1>5. PICK irq \in ToSet(pds[p].irqs) : irq.id = id
  BY Zenon DEF ByIrq
<1>6. id \in IdsBefore(pds[p].name, n)
  BY <1>5 DEF IdsBefore
<1> QED
  BY Zenon, <1>2, <1>3, <1>4, <1>6 DEF Numbers

LEMMA IrqOneSender ==
  ASSUME Final, NEW p \in DOMAIN pds, NEW id, NEW s, NEW r, ByIrq(s, p, id), ByIrq(r, p, id)
  PROVE  AtOne(s, r)
<1>1. PICK x \in ToSet(pds[p].irqs) : x.id = id /\ s.by = <<"irq", x.irq>>
  BY Zenon DEF ByIrq
<1>2. PICK y \in ToSet(pds[p].irqs) : y.id = id /\ r.by = <<"irq", y.irq>>
  BY Zenon DEF ByIrq
<1>3. PICK m \in DOMAIN pds[p].irqs : pds[p].irqs[m] = x
  BY DEF ToSet
<1>4. PICK n \in DOMAIN pds[p].irqs : pds[p].irqs[n] = y
  BY DEF ToSet
<1>5. Accepted
  BY FinalPlan
<1>6. m = n
  BY Zenon, <1>1, <1>2, <1>3, <1>4, <1>5 DEF Accepted
<1> QED
  BY Zenon, <1>1, <1>2, <1>3, <1>4, <1>6 DEF AtOne, ByIrq

LEMMA OneChild ==
  ASSUME Final, NEW p \in DOMAIN pds, NEW c \in Children(p), NEW d \in Children(p)
  PROVE  c = d /\ pds[c].pd_id = 0 /\ Cardinality(Children(p)) = 1
<1>1. Cardinality(Children(p)) < 2 /\ pds[c].pd_id = 0 /\ Cardinality(Children(p)) \in Nat
  BY FamilyOf DEF Family
<1>2. IsFiniteSet(Children(p))
  <2>1. DOMAIN pds = 1..Len(pds) /\ Len(pds) \in Int /\ 1 \in Int
    BY FinalPlan, Domains
  <2>2. IsFiniteSet(DOMAIN pds)
    BY <2>1, FS_Interval
  <2> QED
    BY <2>2, FS_Subset DEF Children
<1>3. Cardinality({c}) = 1 /\ IsFiniteSet({c}) /\ {c} \in SUBSET Children(p)
  BY FS_Singleton
<1>4. Cardinality({c}) <= Cardinality(Children(p))
  BY <1>2, <1>3, FS_Subset
<1>5. Cardinality(Children(p)) = 1
  BY <1>1, <1>3, <1>4
<1>6. {c} = Children(p)
  BY <1>2, <1>3, <1>5, FS_Subset
<1> QED
  BY <1>1, <1>5, <1>6

\* A number of a root PD is that of a child or of a thread made for it, and only of one.
LEMMA OneThread ==
  ASSUME Final, NEW p \in DOMAIN pds, NEW t, NEW x, NEW y, NEW childs, NEW threads,
         OfThread(x, p, t, childs, threads), OfThread(y, p, t, childs, threads)
  PROVE  x = y
<1> DEFINE k == Cardinality(Children(p))
           MadeFor == t \in k..pds[p].threads - 1
           IsChild(z) == \E c \in Children(p) : pds[c].pd_id = t /\ z = <<childs, c>>
<1>1. ASSUME NEW z, IsChild(z), MadeFor
      PROVE  FALSE
  <2>1. PICK c \in Children(p) : pds[c].pd_id = t
    BY Zenon, <1>1
  <2>2. t = 0 /\ k = 1
    BY Zenon, <2>1, OneChild
  <2> QED
    BY <1>1, <2>2
<1>2. \/ IsChild(x) /\ IsChild(y)
      \/ MadeFor /\ x = <<threads, p, t>> /\ y = <<threads, p, t>>
  BY Zenon, <1>1 DEF OfThread
<1>3. CASE IsChild(x) /\ IsChild(y)
  <2>1. PICK c \in Children(p) : x = <<childs, c>>
    BY Zenon, <1>3
  <2>2. PICK d \in Children(p) : y = <<childs, d>>
    BY Zenon, <1>3
  <2>3. c = d
    BY Zenon, OneChild
  <2> QED
    BY Zenon, <2>1, <2>2, <2>3
<1> QED
  BY Zenon, <1>2, <1>3

\* Whoever sends to a PD with the same capability sends from the same place.
LEMMA SameSender ==
  ASSUME Final, NEW p \in DOMAIN pds, NEW s, NEW r, Sends(s, p), Sends(r, p), s.cap = r.cap
  PROVE  AtOne(s, r)
<1>1. ToldBy(r, p)
  BY Zenon, CapTells
<1>2. CASE ByInput(s, p)
  <2>1. ByInput(r, p)
    BY Zenon, <1>1, <1>2 DEF ByInput, ToldBy
  <2> QED
    BY Zenon, <1>2, <2>1 DEF ByInput, AtOne
<1>3. CASE ByOwnFault(s, p)
  <2>1. ByOwnFault(r, p)
    BY Zenon, <1>1, <1>3 DEF ByOwnFault, ToldBy
  <2> QED
    BY Zenon, <1>3, <2>1 DEF ByOwnFault, AtOne
<1>4. ASSUME NEW id \in Numbers999, BySignal(s, p, id)
      PROVE  AtOne(s, r)
  <2>1. BySignal(r, p, id) \/ ByIrq(r, p, id)
    BY Zenon, <1>1, <1>4 DEF BySignal, ToldBy
  <2> QED
    BY Zenon, <1>4, <2>1, SignalOne, SignalNotIrq
<1>5. ASSUME NEW id \in Numbers999, ByIrq(s, p, id)
      PROVE  AtOne(s, r)
  <2>1. BySignal(r, p, id) \/ ByIrq(r, p, id)
    BY Zenon, <1>1, <1>5 DEF ByIrq, ToldBy
  <2> QED
    BY Zenon, <1>5, <2>1, IrqOneSender, SignalNotIrq
<1>6. ASSUME NEW id \in Numbers999, ByCall(s, p, id)
      PROVE  AtOne(s, r)
  <2>1. ByCall(r, p, id)
    BY Zenon, <1>1, <1>6 DEF ByCall, ToldBy
  <2> QED
    BY Zenon, <1>6, <2>1, CallOne
<1>7. ASSUME NEW id \in Numbers999, ByThread(s, p, id)
      PROVE  AtOne(s, r)
  <2>1. ByThread(r, p, id)
    BY Zenon, <1>1, <1>7 DEF ByThread, ToldBy
  <2> QED
    BY Zenon, <1>7, <2>1, OneThread DEF ByThread, AtOne
<1>8. ASSUME NEW id \in Numbers999, ByFault(s, p, id)
      PROVE  AtOne(s, r)
  <2>1. ByFault(r, p, id)
    BY Zenon, <1>1, <1>8 DEF ByFault, ToldBy
  <2> QED
    BY Zenon, <1>8, <2>1, OneThread DEF ByFault, AtOne
<1> QED
  BY Zenon, <1>2, <1>3, <1>4, <1>5, <1>6, <1>7, <1>8 DEF Sends

BadgedFor(cap, p, b) == cap.obj[2] = p /\ cap.badge = b
LEMMA BadgedIs == \A cap, type, p, b : cap = Badged(type, p, b) => BadgedFor(cap, p, b)
BY DEF Badged, BadgedFor

LEMMA OneTarget ==
  ASSUME NEW type, NEW p, NEW b, NEW type2, NEW q, NEW b2, Badged(type, p, b) = Badged(type2, q, b2)
  PROVE  p = q
BY DEF Badged

\* A capability to send with says to whom, and only the receiver's own has no badge.
LEMMA SendsCap ==
  ASSUME NEW s, NEW p, Sends(s, p)
  PROVE  /\ \E type, b : s.cap = Badged(type, p, b)
         /\ s.cap.badge = 0 => s.by = <<"cnode", s.cap.obj[2]>>
<1>1. CASE ByInput(s, p)
  <2>1. PICK type : s.cap = Badged(type, p, 0)
    BY Zenon, <1>1 DEF ByInput
  <2>2. s.cap.obj[2] = p
    BY Zenon, <2>1, BadgedIs DEF BadgedFor
  <2> QED
    BY Zenon, <1>1, <2>1, <2>2 DEF ByInput
<1>2. CASE ~ByInput(s, p)
  <2>1. PICK type, b : s.cap = Badged(type, p, b) /\ b # 0
    <3>1. FaultRootBadge # 0
      BY DEF FaultRootBadge
    <3>2. \A id \in Numbers999 : NtfnBadge(id) # 0 /\ PpcBadge(id) # 0 /\ RootPpcBadge(id) # 0 /\ FaultBadge(id) # 0
      BY Zenon, BadgesApart
    <3> QED
      BY Zenon, <1>2, <3>1, <3>2 DEF Sends, ByOwnFault, BySignal, ByIrq, ByCall, ByThread, ByFault
  <2>2. s.cap = Badged(type, p, b)
    BY Zenon, <2>1
  <2>3. BadgedFor(s.cap, p, b)
    BY Zenon, <2>2, BadgedIs
  <2>4. s.cap.badge = b
    BY Zenon, <2>3 DEF BadgedFor
  <2> QED
    BY Zenon, <2>1, <2>4
<1> QED
  BY Zenon, <1>1, <1>2

LEMMA OneSender ==
  ASSUME Final, NEW s, NEW r, Sending(s), Sending(r), s.cap = r.cap
  PROVE  AtOne(s, r)
<1>1. PICK p \in DOMAIN pds : Sends(s, p)
  BY Zenon DEF Sending
<1>2. PICK q \in DOMAIN pds : Sends(r, q)
  BY Zenon DEF Sending
<1>3. PICK type, b : s.cap = Badged(type, p, b)
  BY Zenon, <1>1, SendsCap
<1>4. PICK type2, b2 : r.cap = Badged(type2, q, b2)
  BY Zenon, <1>2, SendsCap
<1>5. Badged(type, p, b) = Badged(type2, q, b2)
  BY Zenon, <1>3, <1>4
<1>6. p = q
  BY Zenon, <1>5, OneTarget
<1> QED
  BY Zenon, <1>1, <1>2, <1>6, SameSender

-----------------------------------------------------------------------------
(* The theorem *)

LEMMA SenderIs == \A s, by, slot, cap : s = SenderAt(by, slot, cap) => IsSender(s, by, slot, cap)
BY DEF SenderAt, IsSender

SenderRecord(s) == s = SenderAt(s.by, s.slot, s.cap)

LEMMA SendersSend ==
  ASSUME Final, CapsTyped, DOMAIN pds # {}, NEW s \in Senders, s.cap.obj # NoObject, s.cap.obj[1] \in SendTypes
  PROVE  Sending(s) /\ SenderRecord(s)
<1>1. SenderRecord(s)
  BY DEF Senders, SenderRecord, SenderAt
<1>2. CASE \E c \in DOMAIN kernel.cspace \ {System} : \E slot \in DOMAIN kernel.cspace[c] :
             s = SenderAt(c, slot, kernel.cspace[c][slot])
  <2>1. PICK c \in DOMAIN kernel.cspace \ {System} : \E slot \in DOMAIN kernel.cspace[c] : s = SenderAt(c, slot, kernel.cspace[c][slot])
    BY Zenon, <1>2
  <2>2. PICK slot \in DOMAIN kernel.cspace[c] : s = SenderAt(c, slot, kernel.cspace[c][slot])
    BY Zenon, <2>1
  <2>3. s.cap = kernel.cspace[c][slot]
    BY Zenon, <2>2, SenderIs DEF IsSender
  <2>4. Sending(SenderAt(c, slot, kernel.cspace[c][slot]))
    BY Zenon, <2>3, SlotSends
  <2> QED
    BY Zenon, <1>1, <2>2, <2>4
<1>3. CASE \E t \in DOMAIN kernel.tcb : s = SenderAt(t, 0, kernel.tcb[t].fault)
  <2>1. PICK t \in DOMAIN kernel.tcb : s = SenderAt(t, 0, kernel.tcb[t].fault)
    BY Zenon, <1>3
  <2>2. s.cap = kernel.tcb[t].fault
    BY Zenon, <2>1, SenderIs DEF IsSender
  <2>3. Sending(SenderAt(t, 0, kernel.tcb[t].fault))
    BY Zenon, <2>2, FaultSends
  <2> QED
    BY Zenon, <1>1, <2>1, <2>3
<1>4. CASE \E irq \in DOMAIN kernel.irqs : s = SenderAt(<<"irq", irq>>, 0, kernel.irqs[irq])
  <2>1. PICK irq \in DOMAIN kernel.irqs : s = SenderAt(<<"irq", irq>>, 0, kernel.irqs[irq])
    BY Zenon, <1>4
  <2>2. s.cap = kernel.irqs[irq]
    BY Zenon, <2>1, SenderIs DEF IsSender
  <2>3. Sending(SenderAt(<<"irq", irq>>, 0, kernel.irqs[irq]))
    BY Zenon, <2>2, IrqSends
  <2> QED
    BY Zenon, <1>1, <2>1, <2>3
<1>5. \/ \E c \in DOMAIN kernel.cspace \ {System} : \E slot \in DOMAIN kernel.cspace[c] :
             s = SenderAt(c, slot, kernel.cspace[c][slot])
      \/ \E t \in DOMAIN kernel.tcb : s = SenderAt(t, 0, kernel.tcb[t].fault)
      \/ \E irq \in DOMAIN kernel.irqs : s = SenderAt(<<"irq", irq>>, 0, kernel.irqs[irq])
  BY DEF Senders, SenderAt
<1> QED
  BY Zenon, <1>1, <1>2, <1>3, <1>4, <1>5

LEMMA SendersApart ==
  ASSUME BootInv, CapsTyped, Peopled
  PROVE  CallersDistinct
<1> DEFINE senders == {s \in Senders : s.cap.obj # NoObject /\ s.cap.obj[1] \in {"ep", "ntfn"}}
<1> SUFFICES ASSUME Started, NEW a \in senders, NEW b \in senders
             PROVE  (a.cap = b.cap => a = b) /\ (a.cap.badge = 0 => a.by = <<"cnode", a.cap.obj[2]>>)
  BY Zenon DEF CallersDistinct
<1>1. Final
  BY Zenon DEF Final
<1>2. DOMAIN pds # {}
  <2>1. pc \in Booting
    BY <1>1, FinalPlan
  <2>2. pds # <<>>
    BY <2>1 DEF Peopled, Booting
  <2>3. pds \in Seq(PdType) /\ DOMAIN pds = 1..Len(pds)
    BY <1>1, FinalPlan, Domains DEF Described
  <2>4. Len(pds) \in Nat \ {0}
    BY <2>2, <2>3, EmptySeq
  <2> DEFINE n == Len(pds)
  <2>5. n \in Nat \ {0} /\ DOMAIN pds = 1..n
    BY Zenon, <2>3, <2>4
  <2> HIDE DEF n
  <2>6. 1 \in DOMAIN pds
    BY <2>5
  <2> QED
    BY Zenon, <2>6
<1>3. \A s \in senders : Sending(s) /\ SenderRecord(s)
  BY Zenon, <1>1, <1>2, SendersSend DEF SendTypes
<1> HIDE DEF senders
<1>4. ASSUME a.cap = b.cap
      PROVE  a = b
  <2>1. AtOne(a, b)
    BY Zenon, <1>1, <1>3, <1>4, OneSender
  <2> QED
    BY Zenon, <1>3, <1>4, <2>1 DEF AtOne, SenderRecord
<1>5. ASSUME a.cap.badge = 0
      PROVE  a.by = <<"cnode", a.cap.obj[2]>>
  <2>1. PICK p : Sends(a, p)
    BY Zenon, <1>3 DEF Sending
  <2> QED
    BY Zenon, <1>5, <2>1, SendsCap
<1> QED
  BY Zenon, <1>4, <1>5

\* Whatever the description: no two capabilities that PDs, threads, fault handlers and
\* interrupts have of one endpoint or notification carry the same badge, and the receiver alone
\* has one without.  So what libsel4cp reads off a badge names one channel, child or thread: the
\* badges that build_system deals out (__main__.py:226-231, and lines 1446 to 1876) come
\* apart because channels and interrupts of a PD share its numbers without repeating one, a
\* root PD has one child at most, and the threads it makes are numbered after it.
THEOREM SendersDistinct == Spec => []CallersDistinct
<1>1. Init => BootInv /\ CapsTyped /\ Peopled
  BY InitBootInv, InitCapsTyped, InitPeopled
<1>2. (BootInv /\ CapsTyped /\ Peopled) /\ [Next]_vars => (BootInv /\ CapsTyped /\ Peopled)'
  BY BootInvNext, CapsTypedNext, PeopledNext
<1>3. BootInv /\ CapsTyped /\ Peopled => CallersDistinct
  BY SendersApart
<1> QED
  BY <1>1, <1>2, <1>3, PTL DEF Spec
=============================================================================
