----------------------- MODULE ObjectAllocator_proofs -----------------------
(***************************************************************************)
(* The plan of kernel objects against the kernel's own rule, for every     *)
(* outcome of the emulated boot and everything a description may ask for.  *)
(***************************************************************************)
EXTENDS ObjectAllocator, Regions_proofs

-----------------------------------------------------------------------------
(* Numbers *)

LEMMA MinOfTwo ==
  ASSUME NEW m \in Int, NEW n \in Int
  PROVE  Min({m, n}) = IF m <= n THEN m ELSE n
BY DEF Min

-----------------------------------------------------------------------------
(* Lists whose elements have no common type *)

IsList(s) == s \in Seq({s[n] : n \in DOMAIN s})

LEMMA ListIs ==
  ASSUME NEW s, IsList(s)
  PROVE  Len(s) \in Nat /\ DOMAIN s = 1..Len(s)
BY DEF IsList

LEMMA EmptyIsList == IsList(<<>>) /\ Len(<<>>) = 0 /\ DOMAIN <<>> = {}
BY DEF IsList

LEMMA ListOfSeq ==
  ASSUME NEW S, NEW s \in Seq(S)
  PROVE  IsList(s)
<1> DEFINE T == {s[n] : n \in DOMAIN s}
<1>1. Len(s) \in Nat /\ DOMAIN s = 1..Len(s)
  OBVIOUS
<1>2. s = [n \in 1..Len(s) |-> s[n]]
  OBVIOUS
<1>3. s \in [1..Len(s) -> T]
  BY <1>1, <1>2
<1>4. s \in Seq(T)
  BY <1>1, <1>3, SeqDef
<1> QED
  BY <1>4 DEF IsList

LEMMA ListOfOne ==
  ASSUME NEW x
  PROVE  IsList(<<x>>) /\ Len(<<x>>) = 1 /\ <<x>>[1] = x
<1>1. <<x>> \in Seq({x})
  OBVIOUS
<1> QED
  BY <1>1, ListOfSeq

LEMMA ListOfFunction ==
  ASSUME NEW n \in Nat, NEW f, f = [i \in 1..n |-> f[i]]
  PROVE  IsList(f) /\ Len(f) = n /\ DOMAIN f = 1..n
<1> DEFINE T == {f[i] : i \in DOMAIN f}
<1>1. DOMAIN f = 1..n
  OBVIOUS
<1>2. f \in [1..n -> T]
  BY <1>1
<1>3. f \in Seq(T)
  BY <1>2, SeqDef
<1>4. Len(f) = n
  BY <1>1, <1>3
<1> QED
  BY <1>1, <1>3, <1>4 DEF IsList

LEMMA LongerList ==
  ASSUME NEW s, NEW t, IsList(s), IsList(t)
  PROVE  /\ IsList(s \o t) /\ Len(s \o t) = Len(s) + Len(t)
         /\ \A n \in 1..Len(s) : (s \o t)[n] = s[n]
         /\ \A n \in 1..Len(t) : (s \o t)[Len(s) + n] = t[n]
<1> DEFINE T == {s[n] : n \in DOMAIN s} \cup {t[n] : n \in DOMAIN t}
<1>1. s \in Seq(T) /\ t \in Seq(T)
  BY SeqMonotonic DEF IsList
<1> HIDE DEF T
<1>2. /\ s \o t \in Seq(T) /\ Len(s \o t) = Len(s) + Len(t)
      /\ \A i \in 1..Len(s) + Len(t) : (s \o t)[i] = IF i <= Len(s) THEN s[i] ELSE t[i - Len(s)]
  BY <1>1, ConcatProperties
<1>3. Len(s) \in Nat /\ Len(t) \in Nat
  BY <1>1
<1>4. IsList(s \o t)
  BY <1>2, ListOfSeq
<1> QED
  BY <1>2, <1>3, <1>4

LEMMA AppendOfList ==
  ASSUME NEW s, NEW x, IsList(s)
  PROVE  Append(s, x) = s \o <<x>>
<1> DEFINE T == {s[n] : n \in DOMAIN s} \cup {x}
<1>1. s \in Seq(T) /\ x \in T
  BY SeqMonotonic DEF IsList
<1> HIDE DEF T
<1> QED
  BY <1>1

-----------------------------------------------------------------------------
(* The inductive invariant *)

Tool(inv) == ToolSize(inv.type, inv.size)
Kernel(inv) == KernelSize(inv.type, inv.size)
ToolEnd(inv) == inv.planned + inv.count * Tool(inv)
SlotsOf(inv) == inv.slot..inv.slot + inv.count - 1
OfNormal(inv) == inv.ut[1] = "normal"

Booting == {"boot", "running", "boot failed"}

NextSlot ==
  IF pc = "root cnode" THEN RootSlot ELSE IF pc = "system cnode" THEN SystemSlot ELSE capSlot

Typed ==
  /\ boot \in Boots /\ need \in Needs
  /\ point \in [DOMAIN boot.normal -> Nat]
  /\ remaining \in 0..boot.tablePages
  /\ capSlot \in Nat
  /\ IsList(invocations) /\ IsList(objects)
  /\ done \in 0..Len(invocations)
  /\ DOMAIN free = Untypeds
  /\ \A k \in DOMAIN boot.normal : free[Normal(k)] \in Nat

\* Where the program is, and what has not begun.
Placed ==
  /\ pc = "table" => stage \in DOMAIN boot.device
  /\ pc = "pages" => stage \in 1..2
  /\ pc = "objects" => stage \in 1..14
  /\ pc \in {"root cnode", "system cnode", "page tables", "reserve", "fixed"} => stage = 1
  /\ pc \notin Booting => /\ done = 0 /\ DOMAIN cnode = {}
                          /\ \A ut \in Untypeds : free[ut] = RegionOf(ut).base
  /\ pc = "running" => done = Len(invocations)

\* The sizes by which the tool and the kernel count an object.
Sized(type, size) ==
  /\ ToolSize(type, size) \in Nat \ {0} /\ KernelSize(type, size) \in Nat \ {0}
  /\ Multiple(ToolSize(type, size), KernelSize(type, size))

\* An invocation that the tool placed in normal memory, below the allocation points at.
Bumped(inv, at) ==
  /\ inv.ut[2] \in DOMAIN boot.normal /\ inv.ut = Normal(inv.ut[2])
  /\ Sized(inv.type, inv.size) /\ inv.planned \in Nat /\ inv.count \in Nat
  /\ Multiple(inv.planned, Kernel(inv))
  /\ boot.normal[inv.ut[2]].base <= inv.planned
  /\ ToolEnd(inv) <= boot.normal[inv.ut[2]].base + at[inv.ut[2]]

\* The invocations of one normal untyped are planned one after the other, each where an
\* object of its size may be, and the kernel is not past the next one.
NormalPlan ==
  /\ \A k \in DOMAIN boot.normal : boot.normal[k].base + point[k] <= boot.normal[k].end
  /\ \A n \in DOMAIN invocations : OfNormal(invocations[n]) => Bumped(invocations[n], point)
  /\ \A m, n \in DOMAIN invocations :
       m < n /\ OfNormal(invocations[m]) /\ invocations[m].ut = invocations[n].ut =>
         ToolEnd(invocations[m]) <= invocations[n].planned
  /\ \A n \in DOMAIN invocations :
       n > done /\ OfNormal(invocations[n]) => free[invocations[n].ut] <= invocations[n].planned

\* Slots are given once, in the order of the invocations.
SlotPlan ==
  /\ \A n \in DOMAIN invocations :
       /\ invocations[n].slot \in Int /\ invocations[n].count \in Nat
       /\ invocations[n].slot + invocations[n].count <= NextSlot
  /\ \A m, n \in DOMAIN invocations :
       m < n => invocations[m].slot + invocations[m].count <= invocations[n].slot

IsOf(object, inv) == object.slot \in SlotsOf(inv) /\ object.type = inv.type

\* Each object has a slot of an invocation of its type, and what was made stays.
Made ==
  /\ \A i \in DOMAIN objects : \E n \in DOMAIN invocations : IsOf(objects[i], invocations[n])
  /\ \A n \in 1..done : \A s \in SlotsOf(invocations[n]) :
       s \in DOMAIN cnode /\ cnode[s].type = invocations[n].type

Inv == Typed /\ Placed /\ NormalPlan /\ SlotPlan /\ Made

\* The numbers of a boot and of a need.
LEMMA InputsAre ==
  ASSUME NEW b \in Boots
  PROVE  /\ b.normal \in Seq(UntypedRegion) /\ b.device \in Seq(UntypedRegion)
         /\ b.device # <<>> /\ b.tablePages \in Nat \ {0}
         /\ DOMAIN b.normal = 1..Len(b.normal) /\ Len(b.normal) \in Nat
         /\ DOMAIN b.device = 1..Len(b.device) /\ Len(b.device) \in Nat /\ 1 \in DOMAIN b.device
         /\ \A k \in DOMAIN b.normal : /\ b.normal[k].base \in Nat /\ b.normal[k].end \in Nat
                                       /\ b.normal[k].base <= b.normal[k].end
         /\ \A k \in DOMAIN b.device : /\ b.device[k].base \in Nat /\ b.device[k].end \in Nat
                                       /\ b.device[k].base <= b.device[k].end
<1>1. b \in [normal : Seq(UntypedRegion), device : Seq(UntypedRegion) \ {<<>>},
              tablePages : Nat \ {0}]
  BY AllocatorAssumption
<1>2. /\ b.normal \in Seq(UntypedRegion) /\ b.device \in Seq(UntypedRegion)
      /\ b.device # <<>> /\ b.tablePages \in Nat \ {0}
  BY <1>1
<1>3. /\ DOMAIN b.normal = 1..Len(b.normal) /\ Len(b.normal) \in Nat
      /\ DOMAIN b.device = 1..Len(b.device) /\ Len(b.device) \in Nat
  BY <1>2
<1>4. 1 \in DOMAIN b.device
  BY <1>2, <1>3, EmptySeq
<1>5. /\ \A k \in DOMAIN b.normal : b.normal[k] \in UntypedRegion
      /\ \A k \in DOMAIN b.device : b.device[k] \in UntypedRegion
  BY <1>2
<1> QED
  BY <1>2, <1>3, <1>4, <1>5 DEF UntypedRegion

\* Every object has a size, and the kernel's divides the tool's.
LEMMA SizesOf ==
  /\ \A t \in FixedTypes, size \in Nat :
       Sized(t, size) /\ ToolSize(t, size) = Fixed[t] /\ KernelSize(t, size) = Fixed[t]
  /\ \A size \in Nat \ {0} :
       Sized("CNode", size) /\ ToolSize("CNode", size) = size * SlotSize
  /\ \A size \in Nat \ {0} : Sized("SchedContext", size)
<1>1. Fixed \in [FixedTypes -> Nat \ {0}] /\ SlotSize \in Nat \ {0}
  BY AllocatorAssumption
<1>2. {"CNode", "SchedContext", "Untyped"} \cap FixedTypes = {}
  BY DEF FixedTypes, Pages
<1>3. ASSUME NEW n \in Nat PROVE Multiple(n, n)
  <2>1. n = 1 * n
    OBVIOUS
  <2> QED
    BY <2>1 DEF Multiple
<1>4. ASSUME NEW t \in FixedTypes, NEW size \in Nat
      PROVE  Sized(t, size) /\ ToolSize(t, size) = Fixed[t] /\ KernelSize(t, size) = Fixed[t]
  <2>1. t # "SchedContext" /\ t # "Untyped"
    BY <1>2
  <2>2. ToolSize(t, size) = Fixed[t] /\ KernelSize(t, size) = Fixed[t]
    BY <2>1 DEF ToolSize, KernelSize
  <2>3. Fixed[t] \in Nat \ {0}
    BY <1>1
  <2> QED
    BY <2>2, <2>3, <1>3 DEF Sized
<1>5. ASSUME NEW size \in Nat \ {0}
      PROVE  size * SlotSize \in Nat \ {0}
  BY <1>1
<1>6. ASSUME NEW size \in Nat \ {0}
      PROVE  Sized("CNode", size) /\ ToolSize("CNode", size) = size * SlotSize
  <2>1. ToolSize("CNode", size) = size * SlotSize /\ KernelSize("CNode", size) = size * SlotSize
    BY <1>2 DEF ToolSize, KernelSize
  <2> QED
    BY <2>1, <1>3, <1>5 DEF Sized
<1>7. ASSUME NEW size \in Nat \ {0}
      PROVE  Sized("SchedContext", size)
  <2>1. ToolSize("SchedContext", size) = size * SlotSize /\ KernelSize("SchedContext", size) = size
    BY <1>2 DEF ToolSize, KernelSize
  <2>2. size * SlotSize = SlotSize * size
    BY <1>1
  <2>3. Multiple(size * SlotSize, size)
    BY <1>1, <2>2 DEF Multiple
  <2> QED
    BY <2>1, <2>3, <1>5 DEF Sized
<1> QED
  BY <1>4, <1>6, <1>7

-----------------------------------------------------------------------------
(* Invocations are added to the plan *)

\* The invocations more fit behind the plan, below the points at and the slot next.
Fits(more, at, next) ==
  /\ IsList(more)
  /\ \A n \in DOMAIN more : /\ more[n].slot \in Int /\ more[n].count \in Nat
                            /\ NextSlot <= more[n].slot /\ more[n].slot + more[n].count <= next
  /\ \A m, n \in DOMAIN more : m < n => more[m].slot + more[m].count <= more[n].slot
  /\ \A n \in DOMAIN more : OfNormal(more[n]) =>
       /\ Bumped(more[n], at)
       /\ boot.normal[more[n].ut[2]].base + point[more[n].ut[2]] <= more[n].planned
  /\ \A m, n \in DOMAIN more :
       m < n /\ OfNormal(more[m]) /\ more[m].ut = more[n].ut => ToolEnd(more[m]) <= more[n].planned

LEMMA OneFits ==
  ASSUME NEW inv, NEW at, NEW next,
         inv.slot \in Int, inv.count \in Nat, NextSlot <= inv.slot, inv.slot + inv.count <= next,
         OfNormal(inv) => /\ Bumped(inv, at)
                          /\ boot.normal[inv.ut[2]].base + point[inv.ut[2]] <= inv.planned
  PROVE  Fits(<<inv>>, at, next)
<1>1. IsList(<<inv>>) /\ DOMAIN <<inv>> = {1} /\ <<inv>>[1] = inv
  BY ListOfOne, ListIs
<1> QED
  BY <1>1 DEF Fits

\* The chunks of one request: which objects each of them makes.
LEMMA ChunkIs ==
  ASSUME NEW count \in Nat, NEW j \in 1..(count + FanOut - 1) \div FanOut
  PROVE  LET before == (j - 1) * FanOut
             size == Min({count - before, FanOut})
         IN  /\ before \in Nat /\ size \in 1..FanOut /\ before + size <= count
             /\ size # FanOut => before + size = count
             /\ j * FanOut = before + FanOut
<1>1. FanOut \in Nat \ {0}
  BY AllocatorAssumption
<1> DEFINE n == count + FanOut - 1
           before == (j - 1) * FanOut
           size == Min({count - before, FanOut})
<1>2. n \in Nat /\ n \div FanOut \in Nat /\ (n \div FanOut) * FanOut <= n
  BY <1>1, Division
<1>3. j \in Nat /\ j - 1 \in Nat /\ j <= n \div FanOut
  BY <1>2
<1>4. j * FanOut <= n
  BY <1>1, <1>2, <1>3, Grow
<1>5. before \in Nat /\ j * FanOut = before + FanOut
  BY <1>1, <1>3, Distributes
<1>6. before < count
  BY <1>1, <1>4, <1>5
<1>7. size = IF count - before <= FanOut THEN count - before ELSE FanOut
  BY <1>1, <1>5, MinOfTwo
<1> HIDE DEF n, before, size
<1>8. /\ before \in Nat /\ size \in 1..FanOut /\ before + size <= count
      /\ size # FanOut => before + size = count
      /\ j * FanOut = before + FanOut
  BY <1>1, <1>5, <1>6, <1>7
<1> QED
  BY <1>8 DEF before, size

\* Every object is made by a chunk.
LEMMA ChunkOf ==
  ASSUME NEW count \in Nat, NEW i \in 0..count - 1
  PROVE  \E j \in 1..(count + FanOut - 1) \div FanOut :
           /\ (j - 1) * FanOut <= i
           /\ i < (j - 1) * FanOut + Min({count - (j - 1) * FanOut, FanOut})
<1>1. FanOut \in Nat \ {0}
  BY AllocatorAssumption
<1> DEFINE q == i \div FanOut
           n == count + FanOut - 1
<1>2. q \in Nat /\ q * FanOut <= i /\ i < q * FanOut + FanOut /\ q * FanOut \in Nat
  BY <1>1, Division
<1>3. n \in Nat /\ n \div FanOut \in Nat /\ n < (n \div FanOut) * FanOut + FanOut
  BY <1>1, Division
<1> HIDE DEF q, n
<1>4. q < n \div FanOut
  <2>1. (q + 1) * FanOut = q * FanOut + FanOut
    BY <1>1, <1>2, Distributes
  <2>2. (n \div FanOut + 1) * FanOut = (n \div FanOut) * FanOut + FanOut
    BY <1>1, <1>3, Distributes
  <2>3. q * FanOut + FanOut <= n
    BY <1>1, <1>2 DEF n
  <2>4. (q + 1) * FanOut < (n \div FanOut + 1) * FanOut
    BY <1>1, <1>2, <1>3, <2>1, <2>2, <2>3
  <2>5. q + 1 < n \div FanOut + 1
    BY <1>1, <1>2, <1>3, <2>4, Shrink
  <2> QED
    BY <1>2, <1>3, <2>5
<1>5. q + 1 \in 1..n \div FanOut /\ (q + 1) - 1 = q
  BY <1>2, <1>3, <1>4
<1>6. Min({count - q * FanOut, FanOut}) = IF count - q * FanOut <= FanOut THEN count - q * FanOut ELSE FanOut
  BY <1>1, <1>2, MinOfTwo
<1>7. i < q * FanOut + Min({count - q * FanOut, FanOut})
  BY <1>1, <1>2, <1>6
<1> QED
  BY <1>2, <1>5, <1>7 DEF n

\* The chunks of one request follow each other, in slots and in memory.
LEMMA ChunksFit ==
  ASSUME NEW k \in DOMAIN boot.normal, NEW type, NEW size, NEW slot \in Int, NEW count \in Nat,
         NEW start \in Nat, NEW at, NEW next \in Int,
         Sized(type, size), Multiple(start, KernelSize(type, size)),
         boot \in Boots, point[k] \in Nat, at[k] \in Nat, NextSlot \in Int,
         boot.normal[k].base + point[k] <= start,
         start + count * ToolSize(type, size) <= boot.normal[k].base + at[k],
         NextSlot <= slot, slot + count <= next
  PROVE  LET c == Chunks(Normal(k), type, size, slot, count, start)
         IN  /\ Fits(c, at, next)
             /\ \A n \in DOMAIN c :
                  c[n].ut = Normal(k) /\ c[n].type = type /\ c[n].count \in 1..FanOut
             /\ \A s \in slot..slot + count - 1 : \E n \in DOMAIN c : s \in SlotsOf(c[n])
<1> DEFINE c == Chunks(Normal(k), type, size, slot, count, start)
           len == (count + FanOut - 1) \div FanOut
           each == ToolSize(type, size)
           before(j) == (j - 1) * FanOut
           many(j) == Min({count - before(j), FanOut})
<1>1. FanOut \in Nat \ {0} /\ each \in Nat \ {0} /\ KernelSize(type, size) \in Nat \ {0}
  BY AllocatorAssumption DEF Sized
<1>2. len \in Nat
  <2>1. count + FanOut - 1 \in Nat
    BY <1>1
  <2> QED
    BY <1>1, <2>1, Division
<1>3. c = [j \in 1..len |-> Retype(Normal(k), type, size, slot + before(j), many(j),
                                   start + before(j) * each)]
  BY DEF Chunks
<1>4. IsList(c) /\ DOMAIN c = 1..len
  BY <1>2, <1>3, ListOfFunction
<1>5. \A j \in DOMAIN c : /\ c[j].ut = Normal(k) /\ c[j].type = type /\ c[j].size = size
                          /\ c[j].slot = slot + before(j) /\ c[j].count = many(j)
                          /\ c[j].planned = start + before(j) * each
  BY <1>3, <1>4 DEF Retype
<1>6. ASSUME NEW j \in DOMAIN c
      PROVE  /\ before(j) \in Nat /\ many(j) \in 1..FanOut /\ before(j) + many(j) <= count
             /\ many(j) # FanOut => before(j) + many(j) = count
             /\ j * FanOut = before(j) + FanOut
  BY <1>4, ChunkIs
<1>7. ASSUME NEW i \in DOMAIN c, NEW j \in DOMAIN c, i < j
      PROVE  before(i) + many(i) <= before(j)
  <2>1. i \in Nat /\ j - 1 \in Nat /\ i <= j - 1
    BY <1>2, <1>4, <1>7
  <2>2. i * FanOut <= before(j)
    BY <1>1, <2>1, Grow
  <2>3. /\ before(i) \in Nat /\ many(i) \in Nat /\ many(i) <= FanOut /\ before(j) \in Nat
        /\ i * FanOut = before(i) + FanOut
    <3>1. /\ before(i) \in Nat /\ many(i) \in 1..FanOut /\ before(j) \in Nat
          /\ i * FanOut = before(i) + FanOut
      BY <1>6
    <3> HIDE DEF before, many, c, len
    <3> QED
      BY <1>1, <3>1
  <2> HIDE DEF before, many, c, len
  <2> QED
    BY <1>1, <2>2, <2>3
<1>8. boot.normal[k].base \in Nat /\ Normal(k)[2] = k /\ Normal(k)[1] = "normal"
  BY InputsAre DEF Normal
<1> HIDE DEF c, len, before, many, each
<1>9. ASSUME NEW j \in DOMAIN c
       PROVE  /\ Bumped(c[j], at)
              /\ boot.normal[c[j].ut[2]].base + point[c[j].ut[2]] <= c[j].planned
              /\ ToolEnd(c[j]) = start + (before(j) + many(j)) * each
  <2>1. before(j) * each \in Nat /\ many(j) \in Nat /\ many(j) * each \in Nat
    BY <1>1, <1>6
  <2>2. (before(j) + many(j)) * each = before(j) * each + many(j) * each
    BY <1>1, <1>6, <2>1, Distributes
  <2>3. (before(j) + many(j)) * each <= count * each
    BY <1>1, <1>6, <2>1, Grow
  <2>4. Tool(c[j]) = each /\ Kernel(c[j]) = KernelSize(type, size)
    BY <1>5 DEF Tool, Kernel, each
  <2>5. ToolEnd(c[j]) = start + (before(j) + many(j)) * each
    BY <1>5, <2>1, <2>2, <2>4 DEF ToolEnd
  <2>6. Multiple(c[j].planned, Kernel(c[j]))
    <3>1. Multiple(each, KernelSize(type, size))
      BY DEF Sized, each
    <3>2. Multiple(before(j) * each, each)
      BY <1>6 DEF Multiple
    <3>3. Multiple(before(j) * each, KernelSize(type, size))
      BY <1>1, <2>1, <3>1, <3>2, MultipleOfMultiple
    <3>4. Multiple(start + before(j) * each, KernelSize(type, size))
      BY <1>1, <2>1, <3>3, SumOfMultiples
    <3> QED
      BY <1>5, <2>4, <3>4
  <2>7. count * each \in Nat /\ (before(j) + many(j)) * each \in Nat
    BY <1>1, <2>1, <2>2
  <2>8. start + count * each <= boot.normal[k].base + at[k]
    BY DEF each
  <2>9. Bumped(c[j], at)
    <3>1. c[j].ut[2] \in DOMAIN boot.normal /\ c[j].ut = Normal(c[j].ut[2])
      BY <1>5, <1>8
    <3>2. Sized(c[j].type, c[j].size)
      BY <1>5
    <3>3. c[j].planned \in Nat /\ boot.normal[c[j].ut[2]].base <= c[j].planned
      BY <1>5, <1>8, <2>1
    <3>4. /\ ToolEnd(c[j]) <= boot.normal[c[j].ut[2]].base + at[c[j].ut[2]]
          /\ c[j].count \in Nat
      BY <1>5, <1>8, <2>1, <2>3, <2>5, <2>7, <2>8
    <3> QED
      BY <2>6, <3>1, <3>2, <3>3, <3>4 DEF Bumped
  <2>10. boot.normal[c[j].ut[2]].base + point[c[j].ut[2]] <= c[j].planned
    BY <1>5, <1>8, <2>1
  <2> QED
    BY <2>5, <2>9, <2>10
<1>10. ASSUME NEW i \in DOMAIN c, NEW j \in DOMAIN c, i < j
       PROVE  ToolEnd(c[i]) <= c[j].planned
  <2>1. before(i) + many(i) \in Nat /\ before(j) \in Nat /\ before(i) + many(i) <= before(j)
    BY <1>6, <1>7, <1>10
  <2>2. (before(i) + many(i)) * each <= before(j) * each
    BY <1>1, <2>1, Grow
  <2>3. (before(i) + many(i)) * each \in Nat /\ before(j) * each \in Nat
    BY <1>1, <2>1
  <2> QED
    BY <1>5, <1>9, <2>2, <2>3
<1>11. ASSUME NEW n \in DOMAIN c
       PROVE  /\ c[n].slot \in Int /\ c[n].count \in Nat
              /\ NextSlot <= c[n].slot /\ c[n].slot + c[n].count <= next
  BY <1>5, <1>6
<1>12. ASSUME NEW m \in DOMAIN c, NEW n \in DOMAIN c, m < n
       PROVE  c[m].slot + c[m].count <= c[n].slot
  <2>1. before(m) + many(m) <= before(n)
    BY <1>7, <1>12
  <2> QED
    BY <1>5, <1>6, <2>1
<1>13. Fits(c, at, next)
  BY <1>4, <1>9, <1>10, <1>11, <1>12 DEF Fits
<1>14. ASSUME NEW s \in slot..slot + count - 1
       PROVE  \E n \in DOMAIN c : s \in SlotsOf(c[n])
  <2>1. s - slot \in 0..count - 1
    OBVIOUS
  <2>2. \E j \in 1..len : before(j) <= s - slot /\ s - slot < before(j) + many(j)
    BY <2>1, ChunkOf DEF len, before, many
  <2>3. PICK j \in DOMAIN c : before(j) <= s - slot /\ s - slot < before(j) + many(j)
    BY <1>4, <2>2
  <2>4. s \in SlotsOf(c[j])
    BY <1>5, <1>6, <2>3 DEF SlotsOf
  <2> QED
    BY <2>4
<1>15. \A n \in DOMAIN c : c[n].ut = Normal(k) /\ c[n].type = type /\ c[n].count \in 1..FanOut
  BY <1>5, <1>6
<1> QED
  BY <1>13, <1>14, <1>15 DEF c

\* Adding them keeps the order of the plan.
LEMMA PlanGrows ==
  ASSUME Inv, NEW more, Fits(more, point', NextSlot'), invocations' = invocations \o more,
         UNCHANGED inputs, UNCHANGED kernel, pc \notin Booting,
         point' \in [DOMAIN boot.normal -> Nat],
         \A k \in DOMAIN boot.normal :
           point[k] <= point'[k] /\ boot.normal[k].base + point'[k] <= boot.normal[k].end,
         NextSlot \in Int, NextSlot' \in Int, NextSlot <= NextSlot'
  PROVE  /\ NormalPlan' /\ SlotPlan' /\ IsList(invocations')
         /\ Len(invocations') = Len(invocations) + Len(more)
         /\ \A n \in DOMAIN invocations : n \in DOMAIN invocations' /\ invocations'[n] = invocations[n]
         /\ \A n \in DOMAIN more :
              Len(invocations) + n \in DOMAIN invocations' /\ invocations'[Len(invocations) + n] = more[n]
<1> DEFINE old == Len(invocations)
           all == invocations'
<1>1. /\ IsList(invocations) /\ old \in Nat /\ DOMAIN invocations = 1..old
      /\ IsList(more) /\ Len(more) \in Nat /\ DOMAIN more = 1..Len(more)
  BY ListIs DEF Inv, Typed, Fits
<1>2. /\ IsList(all) /\ Len(all) = old + Len(more) /\ DOMAIN all = 1..old + Len(more)
      /\ \A n \in DOMAIN invocations : all[n] = invocations[n]
      /\ \A n \in DOMAIN more : all[old + n] = more[n]
  BY <1>1, LongerList, ListIs
<1>3. \A n \in DOMAIN all : n \notin DOMAIN invocations => n - old \in DOMAIN more /\ all[n] = more[n - old]
  <2> SUFFICES ASSUME NEW n \in DOMAIN all, n \notin DOMAIN invocations
               PROVE  n - old \in DOMAIN more /\ all[n] = more[n - old]
    OBVIOUS
  <2>1. n - old \in DOMAIN more /\ old + (n - old) = n
    BY <1>1, <1>2
  <2> QED
    BY <1>2, <2>1
<1>4. /\ boot' = boot /\ done' = done /\ free' = free /\ done = 0
      /\ \A k \in DOMAIN boot.normal : free[Normal(k)] = boot.normal[k].base
  <2>1. \A k \in DOMAIN boot.normal : Normal(k) \in Untypeds /\ RegionOf(Normal(k)) = boot.normal[k]
    BY DEF Normal, Untypeds, RegionOf
  <2> QED
    BY <2>1 DEF inputs, kernel, Inv, Placed
<1>5. /\ boot \in Boots /\ point \in [DOMAIN boot.normal -> Nat]
      /\ \A k \in DOMAIN boot.normal : boot.normal[k].base \in Nat
  BY InputsAre DEF Inv, Typed
<1>6. /\ \A n \in DOMAIN more : OfNormal(more[n]) =>
           /\ Bumped(more[n], point')
           /\ boot.normal[more[n].ut[2]].base + point[more[n].ut[2]] <= more[n].planned
      /\ \A m, n \in DOMAIN more :
           m < n /\ OfNormal(more[m]) /\ more[m].ut = more[n].ut => ToolEnd(more[m]) <= more[n].planned
      /\ \A n \in DOMAIN more : /\ more[n].slot \in Int /\ more[n].count \in Nat
                                /\ NextSlot <= more[n].slot /\ more[n].slot + more[n].count <= NextSlot'
      /\ \A m, n \in DOMAIN more : m < n => more[m].slot + more[m].count <= more[n].slot
  BY DEF Fits
<1>7. /\ \A n \in DOMAIN invocations : OfNormal(invocations[n]) => Bumped(invocations[n], point)
      /\ \A m, n \in DOMAIN invocations :
           m < n /\ OfNormal(invocations[m]) /\ invocations[m].ut = invocations[n].ut =>
             ToolEnd(invocations[m]) <= invocations[n].planned
      /\ \A n \in DOMAIN invocations :
           /\ invocations[n].slot \in Int /\ invocations[n].count \in Nat
           /\ invocations[n].slot + invocations[n].count <= NextSlot
      /\ \A m, n \in DOMAIN invocations :
           m < n => invocations[m].slot + invocations[m].count <= invocations[n].slot
  BY DEF Inv, NormalPlan, SlotPlan
<1> HIDE DEF old, all
<1>8. ASSUME NEW inv, Bumped(inv, point)
      PROVE  Bumped(inv, point') /\ ToolEnd(inv) \in Int
  <2> DEFINE k == inv.ut[2]
  <2>1. k \in DOMAIN boot.normal /\ point[k] \in Nat /\ point'[k] \in Nat /\ point[k] <= point'[k]
    BY <1>5, <1>8 DEF Bumped
  <2>2. ToolEnd(inv) <= boot.normal[k].base + point[k] /\ inv.planned \in Nat
    BY <1>8 DEF Bumped
  <2>3. ToolEnd(inv) \in Int /\ ToolEnd(inv) <= boot.normal[k].base + point'[k]
    <3>1. ToolEnd(inv) \in Int
      BY <1>8 DEF Bumped, ToolEnd, Tool, Sized
    <3> QED
      BY <1>5, <2>1, <2>2, <3>1
  <2> QED
    BY <1>8, <2>3 DEF Bumped
<1>9. ASSUME NEW k \in DOMAIN boot.normal
      PROVE  boot.normal[k].base + point'[k] <= boot.normal[k].end
  OBVIOUS
<1>10. ASSUME NEW n \in DOMAIN all, OfNormal(all[n])
       PROVE  Bumped(all[n], point')
  <2>1. CASE n \in DOMAIN invocations
    BY <1>2, <1>7, <1>8, <1>10, <2>1
  <2>2. CASE n \notin DOMAIN invocations
    BY <1>3, <1>6, <1>10, <2>2
  <2> QED
    BY <2>1, <2>2
<1>11. ASSUME NEW m \in DOMAIN all, NEW n \in DOMAIN all, m < n, OfNormal(all[m]),
              all[m].ut = all[n].ut
       PROVE  ToolEnd(all[m]) <= all[n].planned
  <2>1. CASE n \in DOMAIN invocations
    <3>1. m \in DOMAIN invocations
      BY <1>1, <1>2, <1>11, <2>1
    <3> QED
      BY <1>2, <1>7, <1>11, <2>1, <3>1
  <2>2. CASE m \in DOMAIN invocations /\ n \notin DOMAIN invocations
    <3>1. OfNormal(all[n]) /\ all[m] = invocations[m] /\ all[n] = more[n - old] /\ n - old \in DOMAIN more
      BY <1>2, <1>3, <1>11, <2>2 DEF OfNormal
    <3> DEFINE k == all[n].ut[2]
    <3>2. Bumped(all[m], point) /\ all[m].ut[2] = k
      BY <1>7, <1>11, <2>2, <3>1
    <3>3. ToolEnd(all[m]) \in Int /\ ToolEnd(all[m]) <= boot.normal[k].base + point[k] /\ k \in DOMAIN boot.normal
      BY <1>8, <3>2 DEF Bumped
    <3>4. boot.normal[k].base + point[k] <= all[n].planned /\ all[n].planned \in Nat
      BY <1>6, <3>1 DEF Bumped
    <3> HIDE DEF k
    <3>5. boot.normal[k].base + point[k] \in Nat
      BY <1>5, <3>3
    <3> QED
      BY <3>3, <3>4, <3>5
  <2>3. CASE m \notin DOMAIN invocations
    <3>1. n \notin DOMAIN invocations
      BY <1>1, <1>2, <1>11, <2>3
    <3>2. /\ m - old \in DOMAIN more /\ n - old \in DOMAIN more /\ m - old < n - old
          /\ all[m] = more[m - old] /\ all[n] = more[n - old]
      BY <1>1, <1>2, <1>3, <1>11, <2>3, <3>1
    <3> QED
      BY <1>6, <1>11, <3>2
  <2> QED
    BY <2>1, <2>2, <2>3
<1>12. ASSUME NEW n \in DOMAIN all, OfNormal(all[n])
       PROVE  free'[all[n].ut] <= all[n].planned
  <2>1. Bumped(all[n], point')
    BY <1>10, <1>12
  <2> QED
    BY <1>4, <2>1 DEF Bumped
<1>13. ASSUME NEW n \in DOMAIN all
       PROVE  /\ all[n].slot \in Int /\ all[n].count \in Nat
              /\ all[n].slot + all[n].count <= NextSlot'
  <2>1. CASE n \in DOMAIN invocations
    <3>1. all[n] = invocations[n]
      BY <1>2, <2>1
    <3> QED
      BY <1>7, <2>1, <3>1
  <2>2. CASE n \notin DOMAIN invocations
    BY <1>3, <1>6, <2>2
  <2> QED
    BY <2>1, <2>2
<1>14. ASSUME NEW m \in DOMAIN all, NEW n \in DOMAIN all, m < n
       PROVE  all[m].slot + all[m].count <= all[n].slot
  <2>1. CASE n \in DOMAIN invocations
    <3>1. m \in DOMAIN invocations
      BY <1>1, <1>2, <1>14, <2>1
    <3> QED
      BY <1>2, <1>7, <1>14, <2>1, <3>1
  <2>2. CASE m \in DOMAIN invocations /\ n \notin DOMAIN invocations
    <3>1. /\ all[m].slot \in Int /\ all[m].count \in Nat
          /\ all[m].slot + all[m].count <= NextSlot
      BY <1>2, <1>7, <2>2
    <3>2. NextSlot <= all[n].slot /\ all[n].slot \in Int
      BY <1>3, <1>6, <2>2
    <3> QED
      BY <3>1, <3>2
  <2>3. CASE m \notin DOMAIN invocations
    <3>1. n \notin DOMAIN invocations
      BY <1>1, <1>2, <1>14, <2>3
    <3>2. /\ m - old \in DOMAIN more /\ n - old \in DOMAIN more /\ m - old < n - old
          /\ all[m] = more[m - old] /\ all[n] = more[n - old]
      BY <1>1, <1>2, <1>3, <1>14, <2>3, <3>1
    <3> QED
      BY <1>6, <3>2
  <2> QED
    BY <2>1, <2>2, <2>3
<1>15. NormalPlan'
  <2>1. \A k \in DOMAIN boot'.normal : boot'.normal[k].base + point'[k] <= boot'.normal[k].end
    BY <1>4, <1>9
  <2>2. ASSUME NEW n \in DOMAIN invocations', OfNormal(invocations[n])'
        PROVE  Bumped(invocations[n], point)'
    <3>1. n \in DOMAIN all /\ OfNormal(all[n])
      BY <2>2 DEF all, OfNormal
    <3>2. Bumped(all[n], point')
      BY <1>10, <3>1
    <3> QED
      BY <1>4, <3>2 DEF Bumped, all, ToolEnd, Tool, Kernel
  <2>3. \A m, n \in DOMAIN invocations' :
          (m < n /\ OfNormal(invocations[m]) /\ invocations[m].ut = invocations[n].ut =>
            ToolEnd(invocations[m]) <= invocations[n].planned)'
    BY <1>11 DEF all, OfNormal, ToolEnd, Tool
  <2>4. \A n \in DOMAIN invocations' :
          (n > done /\ OfNormal(invocations[n]) => free[invocations[n].ut] <= invocations[n].planned)'
    BY <1>12 DEF all, OfNormal
  <2> QED
    BY <2>1, <2>2, <2>3, <2>4 DEF NormalPlan
<1>16. SlotPlan'
  BY <1>13, <1>14 DEF SlotPlan, all
<1> QED
  BY <1>1, <1>2, <1>15, <1>16 DEF old, all

\* An allocation begins at the first aligned address behind the allocation point.
LEMMA FirstFits ==
  ASSUME Inv, NEW size \in Nat \ {0}, NEW count \in Nat, FittingUntypeds(size, count) # {}
  PROVE  /\ First(size, count) \in DOMAIN boot.normal
         /\ Start(First(size, count), size) + count * size <= boot.normal[First(size, count)].end
<1>1. DOMAIN boot.normal \in SUBSET Nat
  BY InputsAre DEF Inv, Typed
<1>2. FittingUntypeds(size, count) \in SUBSET Nat
  BY <1>1 DEF FittingUntypeds
<1>3. First(size, count) \in FittingUntypeds(size, count)
  BY <1>2, MinIsIn DEF First
<1> QED
  BY <1>3 DEF FittingUntypeds

LEMMA StartIs ==
  ASSUME Inv, NEW size \in Nat \ {0}, NEW count \in Nat, NEW k \in DOMAIN boot.normal
  PROVE  /\ Start(k, size) \in Nat /\ Multiple(Start(k, size), size)
         /\ boot.normal[k].base + point[k] <= Start(k, size)
         /\ boot.normal[k].base \in Nat /\ boot.normal[k].end \in Nat /\ point[k] \in Nat
         /\ PointAfter(k, size, count) \in Nat /\ point[k] <= PointAfter(k, size, count)
         /\ boot.normal[k].base + PointAfter(k, size, count) = Start(k, size) + count * size
<1>1. boot.normal[k].base \in Nat /\ boot.normal[k].end \in Nat /\ point[k] \in Nat
  BY InputsAre DEF Inv, Typed
<1> DEFINE n == boot.normal[k].base + point[k]
<1>2. n \in Nat
  BY <1>1
<1> HIDE DEF n
<1>3. RoundUp(n, size) \in Nat /\ n <= RoundUp(n, size) /\ Multiple(RoundUp(n, size), size)
  BY <1>2, RoundUpIs
<1>4. Start(k, size) = RoundUp(n, size)
  BY DEF Start, n
<1>5. count * size \in Nat
  OBVIOUS
<1>6. PointAfter(k, size, count) = Start(k, size) - boot.normal[k].base + count * size
  BY DEF PointAfter
<1> QED
  BY <1>1, <1>3, <1>4, <1>5, <1>6 DEF n

\* The allocation points only rise, and stay inside their untypeds.
LEMMA PointsRise ==
  ASSUME Inv, NEW size \in Nat \ {0}, NEW count \in Nat, NEW k \in DOMAIN boot.normal,
         Start(k, size) + count * size <= boot.normal[k].end,
         point' = [point EXCEPT ![k] = PointAfter(k, size, count)]
  PROVE  /\ point' \in [DOMAIN boot.normal -> Nat]
         /\ point'[k] = PointAfter(k, size, count)
         /\ \A i \in DOMAIN boot.normal :
              point[i] <= point'[i] /\ boot.normal[i].base + point'[i] <= boot.normal[i].end
<1>1. point \in [DOMAIN boot.normal -> Nat]
  BY DEF Inv, Typed
<1>2. /\ PointAfter(k, size, count) \in Nat /\ point[k] <= PointAfter(k, size, count)
      /\ boot.normal[k].base + PointAfter(k, size, count) <= boot.normal[k].end
  BY StartIs
<1>3. \A i \in DOMAIN boot.normal : boot.normal[i].base + point[i] <= boot.normal[i].end
  BY DEF Inv, NormalPlan
<1>4. \A i \in DOMAIN boot.normal : point[i] <= point[i]
  BY <1>1
<1> QED
  BY <1>1, <1>2, <1>3, <1>4

\* The next slot.
LEMMA NextSlotIs ==
  ASSUME Inv
  PROVE  /\ NextSlot \in Int /\ NextSlot <= capSlot
         /\ pc = "root cnode" => NextSlot = RootSlot
         /\ pc = "system cnode" => NextSlot = SystemSlot
         /\ pc \notin {"root cnode", "system cnode"} => NextSlot = capSlot
<1>1. capSlot \in Nat
  BY DEF Inv, Typed
<1>2. /\ pc = "root cnode" => NextSlot = RootSlot
      /\ pc = "system cnode" => NextSlot = SystemSlot
      /\ pc \notin {"root cnode", "system cnode"} => NextSlot = capSlot
  BY DEF NextSlot
<1>3. RootSlot \in Int /\ RootSlot <= capSlot /\ SystemSlot \in Int /\ SystemSlot <= capSlot
  BY <1>1 DEF RootSlot, SystemSlot
<1>4. NextSlot \in Int /\ NextSlot <= capSlot
  <2>1. CASE pc = "root cnode"
    <3>1. NextSlot = RootSlot
      BY <1>2, <2>1
    <3> QED
      BY <1>3, <3>1
  <2>2. CASE pc = "system cnode"
    <3>1. NextSlot = SystemSlot
      BY <1>2, <2>2
    <3> QED
      BY <1>3, <3>1
  <2>3. CASE pc \notin {"root cnode", "system cnode"}
    <3>1. NextSlot = capSlot
      BY <1>2, <2>3
    <3> QED
      BY <1>1, <3>1
  <2> QED
    BY <2>1, <2>2, <2>3
<1> QED
  BY <1>2, <1>4

\* What the tool's objects need of a longer plan.
Kept(i) == i \in DOMAIN objects /\ objects'[i] = objects[i]

LEMMA MadeGrows ==
  ASSUME Inv, pc \notin Booting, UNCHANGED kernel,
         \A n \in DOMAIN invocations : n \in DOMAIN invocations' /\ invocations'[n] = invocations[n],
         \A i \in DOMAIN objects' :
           Kept(i) \/ \E n \in DOMAIN invocations' : IsOf(objects'[i], invocations'[n])
  PROVE  Made'
<1>1. ASSUME NEW i \in DOMAIN objects'
      PROVE  \E n \in DOMAIN invocations' : IsOf(objects'[i], invocations'[n])
  <2>1. CASE Kept(i)
    <3>1. i \in DOMAIN objects /\ objects'[i] = objects[i]
      BY <2>1 DEF Kept
    <3>2. PICK n \in DOMAIN invocations : IsOf(objects[i], invocations[n])
      BY <3>1 DEF Inv, Made
    <3>3. n \in DOMAIN invocations' /\ invocations'[n] = invocations[n]
      OBVIOUS
    <3>4. IsOf(objects'[i], invocations'[n])
      BY <3>1, <3>2, <3>3
    <3> QED
      BY <3>3, <3>4
  <2> QED
    BY <1>1, <2>1
<1>2. done' = 0
  BY DEF Inv, Placed, kernel
<1>3. \A i \in DOMAIN objects' : \E n \in DOMAIN invocations' : IsOf(objects[i], invocations[n])'
  BY <1>1 DEF IsOf, SlotsOf
<1> QED
  BY <1>2, <1>3 DEF Made

\* A step that plans nothing.
LEMMA QuietKeeps ==
  ASSUME Inv, UNCHANGED <<inputs, point, capSlot, remaining, invocations, objects, kernel>>,
         NextSlot <= NextSlot', NextSlot' \in Int
  PROVE  Typed' /\ NormalPlan' /\ SlotPlan' /\ Made'
<1> USE DEF inputs, kernel
<1>1. Typed'
  BY DEF Inv, Typed, Untypeds, Normal, Device
<1>2. NormalPlan'
  BY DEF Inv, NormalPlan, Bumped, OfNormal, ToolEnd, Tool, Kernel, Normal
<1>3. SlotPlan'
  <2>1. NextSlot \in Int
    BY NextSlotIs
  <2>2. \A n \in DOMAIN invocations :
           /\ invocations[n].slot \in Int /\ invocations[n].count \in Nat
           /\ invocations[n].slot + invocations[n].count <= NextSlot'
    BY <2>1 DEF Inv, SlotPlan
  <2> QED
    BY <2>2 DEF Inv, SlotPlan
<1>4. Made'
  BY DEF Inv, Made, SlotsOf, IsOf
<1> QED
  BY <1>1, <1>2, <1>3, <1>4

\* A step that ends with an exception.
LEMMA RaiseKeeps ==
  ASSUME Inv, NEW reason, Raise(reason), UNCHANGED <<inputs, tool, kernel>>, pc \notin Booting
  PROVE  Inv'
<1>1. NextSlot' = capSlot /\ NextSlot <= capSlot /\ capSlot \in Int /\ pc' = "failed"
  <2>0. capSlot \in Int
    BY DEF Inv, Typed
  <2>1. NextSlot <= capSlot
    BY NextSlotIs
  <2>2. pc' = "failed" /\ capSlot' = capSlot
    BY DEF Raise, tool
  <2> QED
    BY <2>0, <2>1, <2>2 DEF NextSlot
<1>2. Typed' /\ NormalPlan' /\ SlotPlan' /\ Made'
  BY <1>1, QuietKeeps DEF tool
<1>3. Placed'
  BY <1>1 DEF Inv, Placed, Booting, kernel, inputs, Untypeds, RegionOf, Normal, Device
<1> QED
  BY <1>2, <1>3 DEF Inv

\* A step that plans, and what is left of its types.
LEMMA TypedGrows ==
  ASSUME Inv, pc \notin Booting, UNCHANGED inputs, UNCHANGED kernel,
         point' \in [DOMAIN boot.normal -> Nat], remaining' \in 0..boot.tablePages,
         capSlot' \in Nat, IsList(invocations'), IsList(objects')
  PROVE  Typed'
<1>1. done' = 0 /\ Len(invocations') \in Nat
  BY ListIs DEF Inv, Placed, kernel
<1> QED
  BY <1>1 DEF Inv, Typed, inputs, kernel, Untypeds, Normal, Device

LEMMA AppendedIs ==
  ASSUME NEW x, IsList(invocations), invocations' = Append(invocations, x)
  PROVE  invocations' = invocations \o <<x>>
BY AppendOfList

\* A step that adds one invocation.
LEMMA OneAdded ==
  ASSUME Inv, pc \notin Booting, NEW inv,
         inv.slot \in Int, inv.count \in Nat, NextSlot <= inv.slot, NextSlot' \in Int,
         inv.slot + inv.count <= NextSlot',
         OfNormal(inv) => /\ Bumped(inv, point')
                          /\ boot.normal[inv.ut[2]].base + point[inv.ut[2]] <= inv.planned,
         invocations' = Append(invocations, inv), UNCHANGED inputs, UNCHANGED kernel,
         point' \in [DOMAIN boot.normal -> Nat],
         \A k \in DOMAIN boot.normal :
           point[k] <= point'[k] /\ boot.normal[k].base + point'[k] <= boot.normal[k].end
  PROVE  /\ NormalPlan' /\ SlotPlan' /\ IsList(invocations')
         /\ Len(invocations') = Len(invocations) + 1
         /\ \A n \in DOMAIN invocations : n \in DOMAIN invocations' /\ invocations'[n] = invocations[n]
         /\ Len(invocations) + 1 \in DOMAIN invocations' /\ invocations'[Len(invocations) + 1] = inv
<1>1. IsList(invocations)
  BY DEF Inv, Typed
<1>2. invocations' = invocations \o <<inv>>
  BY <1>1, AppendedIs
<1>3. Fits(<<inv>>, point', NextSlot')
  BY OneFits
<1>4. NextSlot \in Int /\ NextSlot <= NextSlot'
  <2>1. NextSlot \in Int
    BY NextSlotIs
  <2> QED
    BY <2>1
<1>5. Len(<<inv>>) = 1 /\ DOMAIN <<inv>> = {1} /\ <<inv>>[1] = inv
  BY ListOfOne, ListIs
<1>6. /\ NormalPlan' /\ SlotPlan' /\ IsList(invocations')
      /\ Len(invocations') = Len(invocations) + Len(<<inv>>)
      /\ \A n \in DOMAIN invocations : n \in DOMAIN invocations' /\ invocations'[n] = invocations[n]
      /\ \A n \in DOMAIN <<inv>> : /\ Len(invocations) + n \in DOMAIN invocations'
                                   /\ invocations'[Len(invocations) + n] = <<inv>>[n]
  BY <1>2, <1>3, <1>4, PlanGrows
<1> QED
  BY <1>5, <1>6

\* Objects of one invocation in the first normal untyped with the space.
LEMMA OneBumped ==
  ASSUME Inv, pc \notin Booting, NEW k \in DOMAIN boot.normal,
         NEW type, NEW size, NEW slot \in Int, NEW count \in Nat, Sized(type, size),
         Start(k, ToolSize(type, size)) + count * ToolSize(type, size) <= boot.normal[k].end,
         point' = [point EXCEPT ![k] = PointAfter(k, ToolSize(type, size), count)],
         invocations' = Append(invocations,
           Retype(Normal(k), type, size, slot, count, Start(k, ToolSize(type, size)))),
         UNCHANGED inputs, UNCHANGED kernel, UNCHANGED objects, UNCHANGED remaining,
         NextSlot = slot, NextSlot' \in Int, slot + count <= NextSlot', capSlot' \in Nat
  PROVE  Typed' /\ NormalPlan' /\ SlotPlan' /\ Made'
<1> DEFINE each == ToolSize(type, size)
           inv == Retype(Normal(k), type, size, slot, count, Start(k, each))
<1>1. each \in Nat \ {0} /\ KernelSize(type, size) \in Nat \ {0} /\ Multiple(each, KernelSize(type, size))
  BY DEF Sized
<1>2. /\ inv.ut = Normal(k) /\ inv.ut[2] = k /\ inv.type = type /\ inv.size = size
      /\ inv.slot = slot /\ inv.count = count /\ inv.planned = Start(k, each)
  BY DEF Retype, Normal
<1>3. Tool(inv) = each /\ Kernel(inv) = KernelSize(type, size) /\ ToolEnd(inv) = Start(k, each) + count * each
  BY <1>2 DEF Tool, Kernel, ToolEnd
<1> HIDE DEF each, inv
<1>4. /\ Start(k, each) \in Nat /\ Multiple(Start(k, each), each)
      /\ boot.normal[k].base + point[k] <= Start(k, each)
      /\ boot.normal[k].base \in Nat /\ boot.normal[k].end \in Nat /\ point[k] \in Nat
      /\ PointAfter(k, each, count) \in Nat
      /\ boot.normal[k].base + PointAfter(k, each, count) = Start(k, each) + count * each
  BY <1>1, StartIs
<1>5. /\ point' \in [DOMAIN boot.normal -> Nat]
      /\ point'[k] = PointAfter(k, each, count)
      /\ \A i \in DOMAIN boot.normal :
           point[i] <= point'[i] /\ boot.normal[i].base + point'[i] <= boot.normal[i].end
  <2>1. point' = [point EXCEPT ![k] = PointAfter(k, each, count)]
    BY DEF each
  <2>2. Start(k, each) + count * each <= boot.normal[k].end
    BY DEF each
  <2> QED
    BY <1>1, <2>1, <2>2, PointsRise
<1>6. Multiple(Start(k, each), KernelSize(type, size))
  BY <1>1, <1>4, MultipleOfMultiple
<1>7. Bumped(inv, point')
  <2>1. inv.ut[2] \in DOMAIN boot.normal /\ inv.ut = Normal(inv.ut[2])
    BY <1>2
  <2>2. Sized(inv.type, inv.size) /\ inv.planned \in Nat /\ inv.count \in Nat
    BY <1>2, <1>4
  <2>3. Multiple(inv.planned, Kernel(inv))
    BY <1>2, <1>3, <1>6
  <2>4. boot.normal[inv.ut[2]].base <= inv.planned
    BY <1>2, <1>4
  <2>5. ToolEnd(inv) <= boot.normal[inv.ut[2]].base + point'[inv.ut[2]]
    <3>1. count * each \in Nat
      BY <1>1
    <3> QED
      BY <1>2, <1>3, <1>4, <1>5, <3>1
  <2> QED
    BY <2>1, <2>2, <2>3, <2>4, <2>5 DEF Bumped
<1>8. boot.normal[inv.ut[2]].base + point[inv.ut[2]] <= inv.planned
  BY <1>2, <1>4
<1>9. invocations' = Append(invocations, inv)
  BY DEF inv, each
<1>10. inv.slot \in Int /\ inv.count \in Nat /\ NextSlot <= inv.slot /\ inv.slot + inv.count <= NextSlot'
  BY <1>2
<1>11. /\ NormalPlan' /\ SlotPlan' /\ IsList(invocations')
       /\ \A n \in DOMAIN invocations : n \in DOMAIN invocations' /\ invocations'[n] = invocations[n]
  BY <1>5, <1>7, <1>8, <1>9, <1>10, OneAdded
<1>12. Made'
  <2>1. \A i \in DOMAIN objects' : Kept(i)
    BY DEF Kept
  <2> QED
    BY <1>11, <2>1, MadeGrows
<1>13. Typed'
  <2>1. IsList(objects') /\ remaining' \in 0..boot.tablePages
    BY DEF Inv, Typed
  <2> QED
    BY <1>5, <1>11, <2>1, TypedGrows
<1> QED
  BY <1>11, <1>12, <1>13

-----------------------------------------------------------------------------
(* The steps *)

LEMMA CnodeInv ==
  ASSUME Inv, NEW at, NEW slots \in Nat \ {0}, NEW slot \in Int, NEW next,
         AllocateCnode(at, slots, slot, next),
         at \in {"root cnode", "system cnode"}, next \in {"system cnode", "table"},
         NextSlot = slot, pc' = next => NextSlot' \in Int /\ slot + 1 <= NextSlot'
  PROVE  Inv'
<1> DEFINE size == slots * SlotSize
           k == First(size, 1)
<1>1. pc = at /\ pc \notin Booting
  BY DEF AllocateCnode, Booting
<1>2. CASE FittingUntypeds(size, 1) = {}
  <2>1. Raise("no space") /\ UNCHANGED <<inputs, tool, kernel>>
    BY <1>2 DEF AllocateCnode
  <2> QED
    BY <1>1, <2>1, RaiseKeeps
<1>3. CASE FittingUntypeds(size, 1) # {}
  <2>1. /\ pc' = next /\ point' = [point EXCEPT ![k] = PointAfter(k, size, 1)]
        /\ invocations' = Append(invocations, Retype(Normal(k), "CNode", slots, slot, 1, Start(k, size)))
        /\ UNCHANGED inputs /\ UNCHANGED kernel /\ UNCHANGED objects /\ UNCHANGED remaining
        /\ UNCHANGED <<stage, capSlot>>
    BY <1>3 DEF AllocateCnode
  <2>2. Sized("CNode", slots) /\ ToolSize("CNode", slots) = size /\ size \in Nat \ {0}
    <3>1. Sized("CNode", slots) /\ ToolSize("CNode", slots) = size
      BY SizesOf
    <3> QED
      BY <3>1 DEF Sized
  <2> HIDE DEF size
  <2>3. k \in DOMAIN boot.normal /\ Start(k, size) + 1 * size <= boot.normal[k].end
    BY <1>3, <2>2, FirstFits
  <2> HIDE DEF k
  <2>4. capSlot \in Nat /\ capSlot' = capSlot
    BY <2>1 DEF Inv, Typed
  <2>5. NextSlot' \in Int /\ slot + 1 <= NextSlot'
    BY <2>1
  <2>7. Typed' /\ NormalPlan' /\ SlotPlan' /\ Made'
    BY <1>1, <2>1, <2>2, <2>3, <2>4, <2>5, OneBumped
  <2>8. Placed'
    <3>1. 1 \in DOMAIN boot.device
      BY InputsAre DEF Inv, Typed
    <3> QED
      BY <1>1, <2>1, <3>1 DEF Inv, Placed, Booting, inputs, kernel, Untypeds, RegionOf, Normal, Device
  <2> QED
    BY <2>7, <2>8 DEF Inv
<1> QED
  BY <1>2, <1>3

LEMMA CnodesInv ==
  ASSUME Inv, RootCnode \/ SystemCnode
  PROVE  Inv'
<1>1. SystemSlots \in Nat \ {0} /\ 2 \in Nat \ {0} /\ capSlot \in Nat
  BY AllocatorAssumption DEF Inv, Typed
<1>2. /\ RootSlot \in Int /\ SystemSlot \in Int /\ RootSlot + 1 <= SystemSlot
      /\ SystemSlot + 1 <= capSlot
  BY <1>1 DEF RootSlot, SystemSlot
<1>3. CASE RootCnode
  <2>1. AllocateCnode("root cnode", 2, RootSlot, "system cnode") /\ pc = "root cnode"
    BY <1>3 DEF RootCnode, AllocateCnode
  <2>2. NextSlot = RootSlot
    BY <2>1, NextSlotIs
  <2>3. pc' = "system cnode" => NextSlot' = SystemSlot
    BY DEF NextSlot, SystemSlot
  <2>4. pc' = "system cnode" => NextSlot' \in Int /\ RootSlot + 1 <= NextSlot'
    BY <1>2, <2>3
  <2> QED
    BY <1>1, <1>2, <2>1, <2>2, <2>4, CnodeInv
<1>4. CASE SystemCnode
  <2>1. AllocateCnode("system cnode", SystemSlots, SystemSlot, "table") /\ pc = "system cnode"
    BY <1>4 DEF SystemCnode, AllocateCnode
  <2>2. NextSlot = SystemSlot
    BY <2>1, NextSlotIs
  <2>3. capSlot' = capSlot
    BY <2>1 DEF AllocateCnode, tool
  <2>4. pc' = "table" => NextSlot' = capSlot
    BY <2>3 DEF NextSlot
  <2>5. pc' = "table" => NextSlot' \in Int /\ SystemSlot + 1 <= NextSlot'
    BY <1>1, <1>2, <2>4
  <2> QED
    BY <1>1, <1>2, <2>1, <2>2, <2>5, CnodeInv
<1> QED
  BY <1>3, <1>4

LEMMA PageTablesInv ==
  ASSUME Inv, PageTables
  PROVE  Inv'
<1> DEFINE bytes == boot.tablePages * Fixed["SmallPage"]
           count == RoundUp(bytes, Fixed["LargePage"]) \div Fixed["LargePage"]
           size == Fixed["PageTable"]
           k == First(size, count)
<1>1. pc = "page tables" /\ pc \notin Booting
  BY DEF PageTables, Booting
<1>2. CASE FittingUntypeds(size, count) = {} \/ count > FanOut
  <2>1. PICK reason : Raise(reason) /\ UNCHANGED <<inputs, tool, kernel>>
    BY <1>2 DEF PageTables
  <2> QED
    BY <1>1, <2>1, RaiseKeeps
<1>3. CASE ~(FittingUntypeds(size, count) = {} \/ count > FanOut)
  <2>1. /\ pc' = "reserve" /\ point' = [point EXCEPT ![k] = PointAfter(k, size, count)]
        /\ invocations' = Append(invocations,
             Retype(Normal(k), "PageTable", 0, capSlot, count, Start(k, size)))
        /\ UNCHANGED inputs /\ UNCHANGED kernel /\ UNCHANGED objects /\ UNCHANGED remaining
        /\ UNCHANGED stage /\ capSlot' = capSlot + count
    BY <1>3 DEF PageTables
  <2>2. Sized("PageTable", 0) /\ ToolSize("PageTable", 0) = size /\ size \in Nat \ {0}
    BY SizesOf DEF FixedTypes, Sized
  <2>3. count \in Nat
    <3>1. /\ Fixed["SmallPage"] \in Nat \ {0} /\ Fixed["LargePage"] \in Nat \ {0}
          /\ boot.tablePages \in Nat
      BY AllocatorAssumption, InputsAre DEF Inv, Typed, FixedTypes, Pages
    <3>2. bytes \in Nat
      BY <3>1
    <3> HIDE DEF bytes
    <3>3. RoundUp(bytes, Fixed["LargePage"]) \in Nat
      BY <3>1, <3>2, RoundUpIs
    <3> QED
      BY <3>1, <3>3, Division
  <2>4. FittingUntypeds(size, count) # {}
    BY <1>3
  <2> HIDE DEF size, count
  <2>5. k \in DOMAIN boot.normal /\ Start(k, size) + count * size <= boot.normal[k].end
    BY <2>2, <2>3, <2>4, FirstFits
  <2> HIDE DEF k
  <2>6. capSlot \in Nat /\ capSlot' \in Nat
    BY <2>1, <2>3 DEF Inv, Typed
  <2>7. NextSlot = capSlot /\ NextSlot' = capSlot + count
    <3>1. NextSlot = capSlot
      BY <1>1, NextSlotIs
    <3> QED
      BY <2>1, <3>1 DEF NextSlot
  <2>8. Typed' /\ NormalPlan' /\ SlotPlan' /\ Made'
    <3>1. NextSlot' \in Int /\ capSlot + count <= NextSlot' /\ capSlot \in Int
      BY <2>3, <2>6, <2>7
    <3> QED
      BY <1>1, <2>1, <2>2, <2>3, <2>5, <2>6, <2>7, <3>1, OneBumped
  <2>9. Placed'
    BY <1>1, <2>1 DEF Inv, Placed, Booting, inputs, kernel, Untypeds, RegionOf, Normal, Device
  <2> QED
    BY <2>8, <2>9 DEF Inv
<1> QED
  BY <1>2, <1>3

LEMMA PointsStay ==
  ASSUME Inv, UNCHANGED point
  PROVE  /\ point' \in [DOMAIN boot.normal -> Nat]
         /\ \A i \in DOMAIN boot.normal :
              point[i] <= point'[i] /\ boot.normal[i].base + point'[i] <= boot.normal[i].end
<1>1. point \in [DOMAIN boot.normal -> Nat]
  BY DEF Inv, Typed
<1>2. \A i \in DOMAIN boot.normal : boot.normal[i].base + point[i] <= boot.normal[i].end
  BY DEF Inv, NormalPlan
<1> QED
  BY <1>1, <1>2

LEMMA SlotsAfter ==
  ASSUME NEW slot, NEW count, capSlot <= slot, slot + count <= capSlot', capSlot' \in Nat,
         NextSlot = capSlot, NextSlot' = capSlot'
  PROVE  NextSlot <= slot /\ NextSlot' \in Int /\ slot + count <= NextSlot'
OBVIOUS

\* The new objects are those of one invocation.
Adds(inv) == \A i \in DOMAIN objects' : Kept(i) \/ IsOf(objects'[i], inv)

\* A step that adds an invocation of a device untyped.
LEMMA OneOfDevice ==
  ASSUME Inv, pc \notin Booting, pc \notin {"root cnode", "system cnode"},
         pc' \notin {"root cnode", "system cnode"},
         NEW inv, ~OfNormal(inv), inv.slot \in Int, capSlot <= inv.slot, inv.count \in Nat,
         inv.slot + inv.count <= capSlot', capSlot' \in Nat,
         invocations' = Append(invocations, inv),
         UNCHANGED inputs, UNCHANGED kernel, UNCHANGED point,
         remaining' \in 0..boot.tablePages, IsList(objects'),
         Adds(inv)
  PROVE  Typed' /\ NormalPlan' /\ SlotPlan' /\ Made'
<1>2. NextSlot = capSlot /\ NextSlot' = capSlot'
  <2>1. NextSlot = capSlot
    BY NextSlotIs
  <2> QED
    BY <2>1 DEF NextSlot
<1>4. /\ point' \in [DOMAIN boot.normal -> Nat]
      /\ \A i \in DOMAIN boot.normal :
           point[i] <= point'[i] /\ boot.normal[i].base + point'[i] <= boot.normal[i].end
  BY PointsStay
<1>5. /\ NextSlot <= inv.slot /\ NextSlot' \in Int
      /\ inv.slot + inv.count <= NextSlot'
  BY <1>2, SlotsAfter
<1>6. /\ NormalPlan' /\ SlotPlan' /\ IsList(invocations')
      /\ \A n \in DOMAIN invocations : n \in DOMAIN invocations' /\ invocations'[n] = invocations[n]
      /\ Len(invocations) + 1 \in DOMAIN invocations' /\ invocations'[Len(invocations) + 1] = inv
  BY <1>4, <1>5, OneAdded
<1>7. Typed'
  BY <1>4, <1>6, TypedGrows
<1>8. ASSUME NEW i \in DOMAIN objects', ~Kept(i)
      PROVE  \E n \in DOMAIN invocations' : IsOf(objects'[i], invocations'[n])
  <2>1. IsOf(objects'[i], inv)
    BY <1>8 DEF Adds
  <2> QED
    BY <1>6, <2>1
<1>9. Made'
  BY <1>6, <1>8, MadeGrows
<1> QED
  BY <1>6, <1>7, <1>9

LEMMA RetypeTablePagesInv ==
  ASSUME Inv, RetypeTablePages
  PROVE  Inv'
<1> DEFINE ut == boot.device[stage]
           count == Min({Size(ut) \div Fixed["SmallPage"], remaining})
           addr == TableBase + (boot.tablePages - remaining) * Fixed["SmallPage"]
           last == remaining = count \/ stage = Len(boot.device)
<1>1. pc = "table" /\ pc \notin Booting /\ pc \notin {"root cnode", "system cnode"}
  BY DEF RetypeTablePages, Booting
<1>2. CASE count > FanOut
  <2>1. Raise("fan out") /\ UNCHANGED <<inputs, tool, kernel>>
    BY <1>2 DEF RetypeTablePages, tool
  <2> QED
    BY <1>1, <2>1, RaiseKeeps
<1>3. CASE ~(count > FanOut)
  <2>1. /\ pc' = IF last THEN "page tables" ELSE "table"
        /\ stage' = IF last THEN 1 ELSE stage + 1
        /\ invocations' = Append(invocations, Retype(Device(stage), "SmallPage", 0, capSlot, count, addr))
        /\ capSlot' = capSlot + count /\ remaining' = remaining - count
        /\ UNCHANGED inputs /\ UNCHANGED kernel /\ UNCHANGED point /\ UNCHANGED objects
    BY <1>3 DEF RetypeTablePages
  <2>2. stage \in DOMAIN boot.device /\ remaining \in 0..boot.tablePages /\ boot.tablePages \in Nat
    BY <1>1, InputsAre DEF Inv, Typed, Placed
  <2>3. count \in 0..remaining
    <3>1. Fixed["SmallPage"] \in Nat \ {0}
      BY AllocatorAssumption DEF FixedTypes, Pages
    <3>2. boot \in Boots
      BY DEF Inv, Typed
    <3>3. Size(ut) \in Nat
      BY <2>2, <3>2, InputsAre DEF Size
    <3> DEFINE n == Size(ut) \div Fixed["SmallPage"]
    <3>4. n \in Nat
      BY <3>1, <3>3, Division
    <3> HIDE DEF n
    <3>5. Min({n, remaining}) = IF n <= remaining THEN n ELSE remaining
      BY <2>2, <3>4, MinOfTwo
    <3> QED
      BY <2>2, <3>4, <3>5 DEF n
  <2>4. ~last => stage + 1 \in DOMAIN boot.device
    BY <2>2, InputsAre DEF Inv, Typed
  <2> HIDE DEF ut, count, addr, last
  <2>5. remaining' \in 0..boot.tablePages /\ count \in Nat
    <3>1. remaining' = remaining - count
      BY <2>1
    <3> QED
      BY <2>2, <2>3, <3>1
  <2>6. pc' \in {"page tables", "table"}
    BY <2>1
  <2>7. IsList(objects')
    BY <2>1 DEF Inv, Typed
  <2>8. ASSUME NEW inv PROVE Adds(inv)
    BY <2>1 DEF Kept, Adds
  <2> DEFINE inv == Retype(Device(stage), "SmallPage", 0, capSlot, count, addr)
  <2>a. ~OfNormal(inv) /\ inv.slot = capSlot /\ inv.count = count
    BY DEF Retype, OfNormal, Device
  <2>b. invocations' = Append(invocations, inv)
    BY <2>1
  <2>c. /\ inv.slot \in Int /\ capSlot <= inv.slot /\ inv.count \in Nat
        /\ inv.slot + inv.count <= capSlot' /\ capSlot' \in Nat
    <3>1. capSlot \in Nat
      BY DEF Inv, Typed
    <3>2. capSlot' = capSlot + count
      BY <2>1
    <3> HIDE DEF inv
    <3> QED
      BY <2>5, <2>a, <3>1, <3>2
  <2> HIDE DEF inv
  <2>9. Typed' /\ NormalPlan' /\ SlotPlan' /\ Made'
    BY <1>1, <2>1, <2>5, <2>6, <2>7, <2>8, <2>a, <2>b, <2>c, OneOfDevice
  <2>10. Placed'
    <3>1. pc' = "table" => stage' \in DOMAIN boot'.device
      BY <2>1, <2>4 DEF inputs
    <3>2. pc' = "page tables" => stage' = 1
      BY <2>1
    <3>3. done' = 0 /\ DOMAIN cnode' = {} /\ \A u \in Untypeds' : free'[u] = RegionOf(u)'.base
      BY <1>1, <2>1 DEF Inv, Placed, inputs, kernel, Untypeds, RegionOf, Normal, Device
    <3> QED
      BY <2>6, <3>1, <3>2, <3>3 DEF Placed, Booting
  <2> QED
    BY <2>9, <2>10 DEF Inv
<1> QED
  BY <1>2, <1>3

LEMMA ReserveInv ==
  ASSUME Inv, Reserve
  PROVE  Inv'
<1>1. /\ pc = "reserve" /\ pc' \in {"pages", "failed"} /\ UNCHANGED stage
      /\ UNCHANGED <<inputs, point, capSlot, remaining, invocations, objects, kernel>>
  BY DEF Reserve, Raise
<1>2. NextSlot = capSlot /\ NextSlot' = capSlot' /\ capSlot \in Nat
  BY <1>1 DEF NextSlot, Inv, Typed
<1>3. Typed' /\ NormalPlan' /\ SlotPlan' /\ Made'
  BY <1>1, <1>2, QuietKeeps
<1>4. Placed'
  <2>1. stage' = 1
    BY <1>1 DEF Inv, Placed
  <2>2. done' = 0 /\ DOMAIN cnode' = {} /\ \A u \in Untypeds' : free'[u] = RegionOf(u)'.base
    BY <1>1 DEF Inv, Placed, Booting, inputs, kernel, Untypeds, RegionOf, Normal, Device
  <2>3. CASE pc' = "pages"
    BY <2>1, <2>2, <2>3 DEF Placed, Booting
  <2>4. CASE pc' = "failed"
    BY <2>2, <2>4 DEF Placed, Booting
  <2> QED
    BY <1>1, <2>3, <2>4
<1> QED
  BY <1>3, <1>4 DEF Inv

\* What build_system asks for is sized.
LEMMA RequestIs ==
  ASSUME Inv, pc \in {"pages", "objects"}
  PROVE  /\ Sized(Requests[stage].type, Requests[stage].size) /\ Requests[stage].count \in Nat
         /\ Len(Requests) = IF pc = "pages" THEN 2 ELSE 14
<1>1. /\ need.large \in Nat /\ need.small \in Nat /\ need.pds \in Nat /\ need.endpoints \in Nat
      /\ need.threads \in Nat
  <2>1. need \in [large : Nat, small : Nat, pds : Nat, endpoints : Nat, threads : Nat]
    BY AllocatorAssumption DEF Inv, Typed
  <2> QED
    BY <2>1
<1>2. \A t \in FixedTypes : Sized(t, 0)
  BY SizesOf
<1>3. Sized("CNode", PdSlots) /\ Sized("CNode", ThreadSlots) /\ Sized("SchedContext", ScSize)
  BY AllocatorAssumption, SizesOf
<1>4. {"TCB", "Endpoint", "Notification", "Reply", "VSpace", "PageUpperDirectory",
       "PageDirectory", "PageTable", "SmallPage", "LargePage"} \subseteq FixedTypes
  BY DEF FixedTypes, Pages
<1>5. CASE pc = "pages"
  <2>1. stage \in 1..2
    BY <1>5 DEF Inv, Placed
  <2>2. Requests = PageRequests
    BY <1>5 DEF Requests
  <2>3. /\ Len(PageRequests) = 2
        /\ PageRequests[1] = Ask("LargePage", 0, need.large)
        /\ PageRequests[2] = Ask("SmallPage", 0, need.small)
    BY DEF PageRequests
  <2>4. Sized(PageRequests[stage].type, PageRequests[stage].size) /\ PageRequests[stage].count \in Nat
    <3>1. CASE stage = 1
      BY <1>1, <1>2, <1>4, <2>3, <3>1 DEF Ask
    <3>2. CASE stage = 2
      BY <1>1, <1>2, <1>4, <2>3, <3>2 DEF Ask
    <3> QED
      BY <2>1, <3>1, <3>2
  <2> QED
    BY <1>5, <2>2, <2>3, <2>4
<1>6. CASE pc = "objects"
  <2>1. stage \in 1..14
    BY <1>6 DEF Inv, Placed
  <2>2. Requests = ObjectRequests
    BY <1>6 DEF Requests
  <2>3. Len(ObjectRequests) = 14
    BY DEF ObjectRequests
  <2>4. \A i \in 1..14 : \E t \in FixedTypes, n \in Nat :
          \/ ObjectRequests[i] = Ask(t, 0, n) \/ ObjectRequests[i] = Ask("SchedContext", ScSize, n)
          \/ ObjectRequests[i] = Ask("CNode", PdSlots, n)
          \/ ObjectRequests[i] = Ask("CNode", ThreadSlots, n)
    BY <1>1, <1>4 DEF ObjectRequests
  <2>5. Sized(ObjectRequests[stage].type, ObjectRequests[stage].size) /\ ObjectRequests[stage].count \in Nat
    <3>1. PICK t \in FixedTypes, n \in Nat :
            \/ ObjectRequests[stage] = Ask(t, 0, n) \/ ObjectRequests[stage] = Ask("SchedContext", ScSize, n)
            \/ ObjectRequests[stage] = Ask("CNode", PdSlots, n)
            \/ ObjectRequests[stage] = Ask("CNode", ThreadSlots, n)
      BY <2>1, <2>4
    <3>2. ASSUME NEW type, NEW size, ObjectRequests[stage] = Ask(type, size, n), Sized(type, size)
          PROVE  Sized(ObjectRequests[stage].type, ObjectRequests[stage].size) /\ ObjectRequests[stage].count \in Nat
      <4>1. Ask(type, size, n).type = type /\ Ask(type, size, n).size = size /\ Ask(type, size, n).count = n
        BY DEF Ask
      <4> QED
        BY <3>2, <4>1
    <3>3. Sized(t, 0)
      BY <1>2
    <3> QED
      BY <1>3, <3>1, <3>2, <3>3
  <2> QED
    BY <1>6, <2>2, <2>3, <2>5
<1> QED
  BY <1>5, <1>6

\* The new objects have the slots of the request.
LEMMA NewObjectsAre ==
  ASSUME NEW old, IsList(old), NEW type, NEW size, NEW slot \in Int, NEW count \in Nat, NEW start
  PROVE  LET all == old \o NewObjects(type, size, slot, count, start)
         IN  /\ IsList(all)
             /\ \A i \in DOMAIN all :
                  \/ i \in DOMAIN old /\ all[i] = old[i]
                  \/ all[i].type = type /\ all[i].slot \in slot..slot + count - 1
<1> DEFINE new == NewObjects(type, size, slot, count, start)
           all == old \o new
<1>1. IsList(new) /\ DOMAIN new = 1..count /\ Len(new) = count
  BY ListOfFunction DEF NewObjects
<1>2. \A j \in 1..count : new[j].type = type /\ new[j].slot = slot + j - 1
  BY DEF NewObjects
<1>3. DOMAIN old = 1..Len(old) /\ Len(old) \in Nat
  BY ListIs
<1> HIDE DEF new
<1>4. /\ IsList(all) /\ Len(all) = Len(old) + count
      /\ \A n \in 1..Len(old) : all[n] = old[n]
      /\ \A n \in 1..count : all[Len(old) + n] = new[n]
  BY <1>1, LongerList
<1>5. DOMAIN all = 1..Len(old) + count
  BY <1>4, ListIs
<1> HIDE DEF all
<1>6. ASSUME NEW i \in DOMAIN all
      PROVE  \/ i \in DOMAIN old /\ all[i] = old[i]
             \/ all[i].type = type /\ all[i].slot \in slot..slot + count - 1
  <2>1. CASE i <= Len(old)
    BY <1>3, <1>4, <1>5, <2>1
  <2>2. CASE ~(i <= Len(old))
    <3> DEFINE j == i - Len(old)
    <3>1. j \in 1..count /\ Len(old) + j = i
      BY <1>3, <1>5, <2>2
    <3>2. all[i] = new[j]
      BY <1>4, <3>1
    <3>3. all[i].type = type /\ all[i].slot = slot + j - 1
      BY <1>2, <3>1, <3>2
    <3>4. slot + j - 1 \in slot..slot + count - 1
      BY <3>1
    <3> QED
      BY <3>3, <3>4
  <2> QED
    BY <2>1, <2>2
<1> QED
  BY <1>4, <1>6 DEF all, new

LEMMA AllocateObjectsInv ==
  ASSUME Inv, AllocateObjects
  PROVE  Inv'
<1> DEFINE ask == Requests[stage]
           size == ToolSize(ask.type, ask.size)
           k == First(size, ask.count)
           last == stage = Len(Requests)
           start == Start(k, size)
           chunks == Chunks(Normal(k), ask.type, ask.size, capSlot, ask.count, start)
<1>1. pc \in {"pages", "objects"} /\ pc \notin Booting
  BY DEF AllocateObjects, Booting
<1>2. CASE FittingUntypeds(size, ask.count) = {}
  <2>1. Raise("no space") /\ UNCHANGED <<inputs, tool, kernel>>
    BY <1>2 DEF AllocateObjects, tool
  <2> QED
    BY <1>1, <2>1, RaiseKeeps
<1>3. CASE FittingUntypeds(size, ask.count) # {}
  <2>1. /\ pc' = CASE ~last -> pc [] last /\ pc = "pages" -> "fixed" [] OTHER -> "boot"
        /\ stage' = IF last THEN 1 ELSE stage + 1
        /\ point' = [point EXCEPT ![k] = PointAfter(k, size, ask.count)]
        /\ invocations' = invocations \o chunks
        /\ objects' = objects \o NewObjects(ask.type, ask.size, capSlot, ask.count, start)
        /\ capSlot' = capSlot + ask.count
        /\ UNCHANGED inputs /\ UNCHANGED kernel /\ UNCHANGED remaining
    BY <1>3 DEF AllocateObjects
  <2>2. /\ Sized(ask.type, ask.size) /\ ask.count \in Nat
        /\ Len(Requests) = IF pc = "pages" THEN 2 ELSE 14
    BY <1>1, RequestIs
  <2> DEFINE count == ask.count
             type == ask.type
  <2> HIDE DEF ask, last
  <2>3. size \in Nat \ {0} /\ KernelSize(type, ask.size) \in Nat \ {0}
        /\ Multiple(size, KernelSize(type, ask.size))
    BY <2>2 DEF Sized
  <2> HIDE DEF size
  <2>4. k \in DOMAIN boot.normal /\ Start(k, size) + count * size <= boot.normal[k].end
    BY <1>3, <2>2, <2>3, FirstFits
  <2> HIDE DEF k
  <2>5. /\ start \in Nat /\ Multiple(start, size) /\ boot.normal[k].base + point[k] <= start
        /\ boot.normal[k].base \in Nat /\ point[k] \in Nat
        /\ boot.normal[k].base + PointAfter(k, size, count) = start + count * size
        /\ PointAfter(k, size, count) \in Nat
    BY <2>2, <2>3, <2>4, StartIs
  <2>6. Multiple(start, KernelSize(type, ask.size))
    BY <2>3, <2>5, MultipleOfMultiple
  <2>7. /\ point' \in [DOMAIN boot.normal -> Nat]
        /\ point'[k] = PointAfter(k, size, count)
        /\ \A i \in DOMAIN boot.normal :
             point[i] <= point'[i] /\ boot.normal[i].base + point'[i] <= boot.normal[i].end
    BY <2>1, <2>2, <2>3, <2>4, PointsRise
  <2>8. capSlot \in Nat /\ boot \in Boots
    BY DEF Inv, Typed
  <2>9. capSlot' \in Nat /\ capSlot' = capSlot + count
    BY <2>1, <2>2, <2>8
  <2>10. pc' \in {"pages", "objects", "fixed", "boot"}
    BY <1>1, <2>1
  <2>11. NextSlot = capSlot /\ NextSlot' = capSlot'
    <3>1. NextSlot = capSlot
      BY <1>1, NextSlotIs
    <3> QED
      BY <2>10, <3>1 DEF NextSlot
  <2> HIDE DEF start, count, type
  <2>12. start + count * ToolSize(type, ask.size) <= boot.normal[k].base + point'[k]
    <3>1. size = ToolSize(type, ask.size)
      BY DEF size, type
    <3>2. start + count * size = boot.normal[k].base + point'[k]
      BY <2>5, <2>7
    <3>3. count * size \in Nat
      BY <2>2, <2>3 DEF count
    <3> QED
      BY <2>5, <3>1, <3>2, <3>3
  <2>13. count \in Nat /\ Sized(type, ask.size) /\ chunks = Chunks(Normal(k), type, ask.size, capSlot, count, start)
    BY <2>2 DEF count, type
  <2> HIDE DEF chunks
  <2>14. /\ Fits(chunks, point', NextSlot')
         /\ \A n \in DOMAIN chunks : chunks[n].type = type
         /\ \A s \in capSlot..capSlot + count - 1 : \E n \in DOMAIN chunks : s \in SlotsOf(chunks[n])
    <3>1. point'[k] \in Nat /\ NextSlot \in Int /\ NextSlot <= capSlot /\ capSlot \in Int
      BY <2>4, <2>7, <2>8, <2>11
    <3>2. NextSlot' \in Int /\ capSlot + count <= NextSlot'
      BY <2>8, <2>9, <2>11, <2>13
    <3> DEFINE c == Chunks(Normal(k), type, ask.size, capSlot, count, start)
    <3>3. /\ Fits(c, point', NextSlot')
          /\ \A n \in DOMAIN c : c[n].ut = Normal(k) /\ c[n].type = type /\ c[n].count \in 1..FanOut
          /\ \A s \in capSlot..capSlot + count - 1 : \E n \in DOMAIN c : s \in SlotsOf(c[n])
      BY <2>4, <2>5, <2>6, <2>8, <2>12, <2>13, <3>1, <3>2, ChunksFit
    <3> QED
      BY <2>13, <3>3
  <2>15. /\ NormalPlan' /\ SlotPlan' /\ IsList(invocations')
         /\ \A n \in DOMAIN invocations : n \in DOMAIN invocations' /\ invocations'[n] = invocations[n]
         /\ \A n \in DOMAIN chunks : Len(invocations) + n \in DOMAIN invocations'
                                     /\ invocations'[Len(invocations) + n] = chunks[n]
    <3>1. NextSlot \in Int /\ NextSlot' \in Int /\ NextSlot <= NextSlot'
      BY <2>8, <2>9, <2>11, <2>13
    <3>2. invocations' = invocations \o chunks
      BY <2>1
    <3> QED
      BY <1>1, <2>1, <2>7, <2>14, <3>1, <3>2, PlanGrows
  <2>16. /\ IsList(objects')
         /\ \A i \in DOMAIN objects' : \/ i \in DOMAIN objects /\ objects'[i] = objects[i]
                                       \/ /\ objects'[i].type = type
                                          /\ objects'[i].slot \in capSlot..capSlot + count - 1
    <3>1. IsList(objects) /\ capSlot \in Int
      BY <2>8 DEF Inv, Typed
    <3>2. objects' = objects \o NewObjects(type, ask.size, capSlot, count, start)
      BY <2>1 DEF type, count
    <3> DEFINE all == objects \o NewObjects(type, ask.size, capSlot, count, start)
    <3>3. /\ IsList(all)
          /\ \A i \in DOMAIN all : \/ i \in DOMAIN objects /\ all[i] = objects[i]
                                   \/ all[i].type = type /\ all[i].slot \in capSlot..capSlot + count - 1
      BY <2>13, <3>1, NewObjectsAre
    <3> QED
      BY <3>2, <3>3
  <2>17. Made'
    <3>1. ASSUME NEW i \in DOMAIN objects'
          PROVE  Kept(i) \/ \E n \in DOMAIN invocations' : IsOf(objects'[i], invocations'[n])
      <4>1. CASE i \in DOMAIN objects /\ objects'[i] = objects[i]
        BY <4>1 DEF Kept
      <4>2. CASE objects'[i].type = type /\ objects'[i].slot \in capSlot..capSlot + count - 1
        <5>1. PICK n \in DOMAIN chunks : objects'[i].slot \in SlotsOf(chunks[n])
          BY <2>14, <4>2
        <5>2. IsOf(objects'[i], chunks[n])
          BY <2>14, <4>2, <5>1 DEF IsOf
        <5> QED
          BY <2>15, <5>2
      <4> QED
        BY <2>16, <4>1, <4>2
    <3> QED
      BY <1>1, <2>1, <2>15, <3>1, MadeGrows
  <2>18. Typed'
    <3>1. remaining' \in 0..boot.tablePages
      BY <2>1 DEF Inv, Typed
    <3> QED
      BY <1>1, <2>1, <2>7, <2>9, <2>15, <2>16, <3>1, TypedGrows
  <2>19. Placed'
    <3>1. done' = 0 /\ DOMAIN cnode' = {} /\ \A u \in Untypeds' : free'[u] = RegionOf(u)'.base
      BY <1>1, <2>1 DEF Inv, Placed, inputs, kernel, Untypeds, RegionOf, Normal, Device
    <3>2. CASE last
      <4>1. stage' = 1 /\ pc' \in {"fixed", "boot"}
        BY <1>1, <2>1, <3>2
      <4> QED
        BY <3>1, <4>1 DEF Placed, Booting
    <3>3. CASE ~last
      <4>1. stage' = stage + 1 /\ pc' = pc
        BY <1>1, <2>1, <3>3
      <4>2. /\ pc = "pages" => stage \in 1..2 /\ Len(Requests) = 2
            /\ pc = "objects" => stage \in 1..14 /\ Len(Requests) = 14
        BY <2>2 DEF Inv, Placed
      <4>3. stage # Len(Requests)
        BY <3>3 DEF last
      <4>4. CASE pc = "pages"
        <5>1. stage' \in 1..2 /\ pc' = "pages"
          BY <4>1, <4>2, <4>3, <4>4
        <5> QED
          BY <3>1, <5>1 DEF Placed, Booting
      <4>5. CASE pc = "objects"
        <5>1. stage' \in 1..14 /\ pc' = "objects"
          BY <4>1, <4>2, <4>3, <4>5
        <5> QED
          BY <3>1, <5>1 DEF Placed, Booting
      <4> QED
        BY <1>1, <4>4, <4>5
    <3> QED
      BY <3>2, <3>3
  <2> QED
    BY <2>15, <2>17, <2>18, <2>19 DEF Inv
<1> QED
  BY <1>2, <1>3

LEMMA NewObjectIs ==
  ASSUME NEW old, IsList(old), NEW type, NEW slot \in Int, NEW start
  PROVE  LET all == old \o NewObjects(type, 0, slot, 1, start)
         IN  /\ IsList(all)
             /\ \A i \in DOMAIN all : \/ i \in DOMAIN old /\ all[i] = old[i]
                                      \/ all[i].type = type /\ all[i].slot = slot
<1> DEFINE all == old \o NewObjects(type, 0, slot, 1, start)
<1>1. /\ IsList(all)
      /\ \A i \in DOMAIN all : \/ i \in DOMAIN old /\ all[i] = old[i]
                               \/ all[i].type = type /\ all[i].slot \in slot..slot + 1 - 1
  <2>1. 1 \in Nat
    OBVIOUS
  <2> QED
    BY <2>1, NewObjectsAre
<1> HIDE DEF all
<1>2. slot..slot + 1 - 1 = {slot}
  OBVIOUS
<1>3. /\ IsList(all)
      /\ \A i \in DOMAIN all : \/ i \in DOMAIN old /\ all[i] = old[i]
                               \/ all[i].type = type /\ all[i].slot = slot
  BY <1>1, <1>2
<1> QED
  BY <1>3 DEF all

\* The steps among the fixed pages that make one object: padding, or a page.
LEMMA OneFixed ==
  ASSUME Inv, pc = "fixed", pc' = "fixed", stage' = stage, UNCHANGED inputs, UNCHANGED kernel,
         UNCHANGED point, UNCHANGED remaining, NEW k, NEW type, NEW size, NEW addr,
         MakeFixed(k, type, size, addr), IsList(objects'),
         \A i \in DOMAIN objects' : \/ i \in DOMAIN objects /\ objects'[i] = objects[i]
                                    \/ objects'[i].type = type /\ objects'[i].slot = capSlot
  PROVE  Inv'
<1> DEFINE inv == Retype(Device(k), type, size, capSlot, 1, addr)
<1>1. ~OfNormal(inv) /\ inv.slot = capSlot /\ inv.count = 1 /\ inv.type = type
  BY DEF Retype, OfNormal, Device
<1>2. invocations' = Append(invocations, inv) /\ capSlot' = capSlot + 1
  BY DEF MakeFixed
<1> HIDE DEF inv
<1>3. capSlot \in Nat
  BY DEF Inv, Typed
<1>4. /\ inv.slot \in Int /\ capSlot <= inv.slot /\ inv.count \in Nat
      /\ inv.slot + inv.count <= capSlot' /\ capSlot' \in Nat
  BY <1>1, <1>2, <1>3
<1>5. capSlot \in SlotsOf(inv)
  BY <1>1, <1>3 DEF SlotsOf
<1>6. Adds(inv)
  <2>1. ASSUME NEW i \in DOMAIN objects' PROVE Kept(i) \/ IsOf(objects'[i], inv)
    <3>1. CASE i \in DOMAIN objects /\ objects'[i] = objects[i]
      BY <3>1 DEF Kept
    <3>2. CASE objects'[i].type = type /\ objects'[i].slot = capSlot
      BY <1>1, <1>5, <3>2 DEF IsOf
    <3> QED
      BY <3>1, <3>2
  <2> QED
    BY <2>1 DEF Adds
<1>7. remaining' \in 0..boot.tablePages
  BY DEF Inv, Typed
<1>8. pc \notin Booting /\ pc \notin {"root cnode", "system cnode"}
      /\ pc' \notin {"root cnode", "system cnode"}
  BY DEF Booting
<1>9. Typed' /\ NormalPlan' /\ SlotPlan' /\ Made'
  BY <1>1, <1>2, <1>4, <1>6, <1>7, <1>8, OneOfDevice
<1>10. Placed'
  BY <1>8 DEF Inv, Placed, Booting, inputs, kernel, Untypeds, RegionOf, Normal, Device
<1> QED
  BY <1>9, <1>10 DEF Inv

LEMMA FixedInv ==
  ASSUME Inv, RefuseFixed \/ PadFixed \/ AllocateFixed
  PROVE  Inv'
<1>1. CASE RefuseFixed
  <2>1. pc \notin Booting /\ Raise(Refusal(Head(pages).addr)) /\ UNCHANGED <<inputs, tool, kernel>>
    BY <1>1 DEF RefuseFixed, Booting
  <2> QED
    BY <2>1, RaiseKeeps
<1>2. CASE PadFixed
  <2>1. PICK k, type, size, addr :
          /\ pc = "fixed" /\ pc' = "fixed" /\ stage' = stage
          /\ UNCHANGED inputs /\ UNCHANGED kernel /\ UNCHANGED point /\ UNCHANGED remaining
          /\ objects' = objects /\ MakeFixed(k, type, size, addr)
    BY <1>2 DEF PadFixed
  <2>2. IsList(objects')
    BY <2>1 DEF Inv, Typed
  <2>3. \A i \in DOMAIN objects' : i \in DOMAIN objects /\ objects'[i] = objects[i]
    BY <2>1
  <2> QED
    BY <2>1, <2>2, <2>3, OneFixed
<1>3. CASE AllocateFixed
  <2>1. PICK k, type, addr :
          /\ pc = "fixed" /\ pc' = "fixed" /\ stage' = stage
          /\ UNCHANGED inputs /\ UNCHANGED kernel /\ UNCHANGED point /\ UNCHANGED remaining
          /\ objects' = objects \o NewObjects(type, 0, capSlot, 1, addr)
          /\ MakeFixed(k, type, 0, addr)
    BY <1>3 DEF AllocateFixed
  <2>2. IsList(objects) /\ capSlot \in Int
    BY DEF Inv, Typed
  <2> DEFINE all == objects \o NewObjects(type, 0, capSlot, 1, addr)
  <2>4. /\ IsList(all)
        /\ \A i \in DOMAIN all : \/ i \in DOMAIN objects /\ all[i] = objects[i]
                                 \/ all[i].type = type /\ all[i].slot = capSlot
    BY <2>2, NewObjectIs
  <2> HIDE DEF all
  <2>5. objects' = all
    BY <2>1 DEF all
  <2>6. /\ IsList(objects')
        /\ \A i \in DOMAIN objects' : \/ i \in DOMAIN objects /\ objects'[i] = objects[i]
                                      \/ objects'[i].type = type /\ objects'[i].slot = capSlot
    BY <2>4, <2>5
  <2> QED
    BY <2>1, <2>6, OneFixed
<1> QED
  BY <1>1, <1>2, <1>3

LEMMA DoneInv ==
  ASSUME Inv, FixedDone \/ BootDone
  PROVE  Inv'
<1>1. /\ pc \in {"fixed", "boot"} /\ pc' \in {"objects", "running"} /\ stage' = stage
      /\ UNCHANGED <<inputs, tool, kernel>>
      /\ pc = "fixed" => pc' = "objects"
      /\ pc = "boot" => pc' = "running" /\ done = Len(invocations)
  BY DEF FixedDone, BootDone
<1>2. NextSlot = capSlot /\ NextSlot' = capSlot' /\ capSlot \in Nat /\ capSlot' = capSlot
  BY <1>1 DEF NextSlot, Inv, Typed, tool
<1>3. Typed' /\ NormalPlan' /\ SlotPlan' /\ Made'
  <2>1. UNCHANGED <<inputs, point, capSlot, remaining, invocations, objects, kernel>>
    BY <1>1 DEF tool
  <2>2. NextSlot <= NextSlot' /\ NextSlot' \in Int
    BY <1>2
  <2> QED
    BY <2>1, <2>2, QuietKeeps
<1>4. Placed'
  <2>1. CASE pc = "fixed"
    <3>1. pc' = "objects" /\ stage' = 1
      BY <1>1, <2>1 DEF Inv, Placed
    <3>2. done' = 0 /\ DOMAIN cnode' = {} /\ \A u \in Untypeds' : free'[u] = RegionOf(u)'.base
      BY <1>1, <2>1 DEF Inv, Placed, Booting, inputs, kernel, Untypeds, RegionOf, Normal, Device
    <3> QED
      BY <3>1, <3>2 DEF Placed, Booting
  <2>2. CASE pc = "boot"
    <3>1. pc' = "running" /\ done' = Len(invocations')
      BY <1>1, <2>2 DEF kernel, tool
    <3> QED
      BY <3>1 DEF Placed, Booting
  <2> QED
    BY <1>1, <2>1, <2>2
<1> QED
  BY <1>3, <1>4 DEF Inv

\* The kernel never counts more than the tool.
LEMMA KernelCountsLess ==
  ASSUME NEW type, NEW size, Sized(type, size), NEW count \in Nat
  PROVE  count * KernelSize(type, size) <= count * ToolSize(type, size)
<1> DEFINE t == ToolSize(type, size)
           m == KernelSize(type, size)
<1>1. t \in Nat \ {0} /\ m \in Nat \ {0} /\ Multiple(t, m)
  BY DEF Sized
<1> HIDE DEF t, m
<1>2. PICK q \in Nat : t = q * m
  BY <1>1 DEF Multiple
<1>3. q # 0
  BY <1>1, <1>2
<1>4. 1 * m <= q * m
  BY <1>1, <1>3, Grow
<1>5. m <= t
  BY <1>1, <1>2, <1>4
<1>6. m * count <= t * count
  BY <1>1, <1>5, Grow
<1> QED
  BY <1>1, <1>6 DEF t, m

\* What the kernel makes ends where the tool planned it to end, or below.
LEMMA KernelBelowPlan ==
  ASSUME Inv, NEW n \in DOMAIN invocations, n > done, OfNormal(invocations[n])
  PROVE  LET inv == invocations[n]
             start == RoundUp(free[inv.ut], Kernel(inv))
         IN  /\ start \in Nat /\ start <= inv.planned /\ inv.planned \in Nat
             /\ inv.count * Kernel(inv) \in Nat /\ ToolEnd(inv) \in Nat
             /\ start + inv.count * Kernel(inv) <= ToolEnd(inv)
<1> DEFINE inv == invocations[n]
           start == RoundUp(free[inv.ut], Kernel(inv))
<1>1. Bumped(inv, point) /\ free[inv.ut] <= inv.planned
  BY DEF Inv, NormalPlan
<1>2. free[inv.ut] \in Nat
  BY <1>1 DEF Inv, Typed, Bumped
<1>3. /\ Sized(inv.type, inv.size) /\ inv.planned \in Nat /\ inv.count \in Nat
      /\ Multiple(inv.planned, Kernel(inv))
  BY <1>1 DEF Bumped
<1>4. Kernel(inv) \in Nat \ {0} /\ Tool(inv) \in Nat \ {0}
  BY <1>3 DEF Sized, Kernel, Tool
<1> HIDE DEF inv
<1>5. start \in Nat
  BY <1>2, <1>4, RoundUpIs
<1>6. start <= inv.planned
  BY <1>1, <1>2, <1>3, <1>4, RoundUpLeast
<1>7. inv.count * Kernel(inv) <= inv.count * Tool(inv)
  BY <1>3, KernelCountsLess DEF Kernel, Tool
<1>8. inv.count * Kernel(inv) \in Nat /\ inv.count * Tool(inv) \in Nat
  BY <1>3, <1>4
<1> HIDE DEF start
<1>9. ToolEnd(inv) = inv.planned + inv.count * Tool(inv)
  BY DEF ToolEnd
<1>10. /\ ToolEnd(inv) \in Nat /\ start + inv.count * Kernel(inv) <= ToolEnd(inv)
  BY <1>3, <1>5, <1>6, <1>7, <1>8, <1>9
<1> QED
  BY <1>3, <1>5, <1>6, <1>8, <1>10 DEF inv, start

\* The kernel makes one invocation's objects.
LEMMA PerformedIs ==
  ASSUME Inv, done < Len(invocations)
  PROVE  /\ done + 1 \in DOMAIN invocations /\ done + 1 > done /\ done \in Nat
         /\ DOMAIN invocations = 1..Len(invocations) /\ Len(invocations) \in Nat
<1>1. IsList(invocations) /\ done \in 0..Len(invocations)
  BY DEF Inv, Typed
<1>2. DOMAIN invocations = 1..Len(invocations) /\ Len(invocations) \in Nat
  BY <1>1, ListIs
<1> QED
  BY <1>1, <1>2

LEMMA PerformRetypeInv ==
  ASSUME Inv, PerformRetype
  PROVE  Inv'
<1> DEFINE inv == invocations[done + 1]
           size == KernelSize(inv.type, inv.size)
           start == RoundUp(free[inv.ut], size)
           slots == inv.slot..inv.slot + inv.count - 1
<1>1. /\ pc = "boot" /\ done < Len(invocations) /\ UNCHANGED <<inputs, stage, tool>>
      /\ \/ pc' = "boot failed" /\ UNCHANGED kernel
         \/ /\ slots \cap DOMAIN cnode = {} /\ done' = done + 1 /\ pc' = pc
            /\ free' = [free EXCEPT ![inv.ut] = start + inv.count * size]
            /\ cnode' = [s \in slots \cup DOMAIN cnode |->
                 IF s \in slots THEN [type |-> inv.type, base |-> start + (s - inv.slot) * size]
                 ELSE cnode[s]]
  BY DEF PerformRetype
<1>2. CASE pc' = "boot failed" /\ UNCHANGED kernel
  <2>1. NextSlot = capSlot /\ NextSlot' = capSlot' /\ capSlot \in Nat /\ capSlot' = capSlot
    BY <1>1, <1>2 DEF NextSlot, Inv, Typed, tool
  <2>2. NextSlot <= NextSlot' /\ NextSlot' \in Int
    BY <2>1
  <2>3. UNCHANGED <<inputs, point, capSlot, remaining, invocations, objects, kernel>>
    BY <1>1, <1>2 DEF tool
  <2>4. Typed' /\ NormalPlan' /\ SlotPlan' /\ Made'
    BY <2>2, <2>3, QuietKeeps
  <2>5. Placed'
    BY <1>2 DEF Placed, Booting
  <2> QED
    BY <2>4, <2>5 DEF Inv
<1>3. CASE /\ slots \cap DOMAIN cnode = {} /\ done' = done + 1 /\ pc' = pc
           /\ free' = [free EXCEPT ![inv.ut] = start + inv.count * size]
           /\ cnode' = [s \in slots \cup DOMAIN cnode |->
                IF s \in slots THEN [type |-> inv.type, base |-> start + (s - inv.slot) * size]
                ELSE cnode[s]]
  <2>1. /\ done + 1 \in DOMAIN invocations /\ done + 1 > done /\ done \in Nat
        /\ DOMAIN invocations = 1..Len(invocations) /\ Len(invocations) \in Nat
    BY <1>1, PerformedIs
  <2>2. done' = done + 1 /\ done' \in 1..Len(invocations)
    BY <1>1, <1>3, <2>1
  <2>3. /\ boot' = boot /\ need' = need /\ point' = point /\ remaining' = remaining
        /\ capSlot' = capSlot /\ invocations' = invocations /\ objects' = objects
    BY <1>1 DEF inputs, tool
  <2>4. OfNormal(inv) => /\ start + inv.count * size \in Nat
                         /\ start + inv.count * size <= ToolEnd(inv)
    <3>1. ASSUME OfNormal(inv)
          PROVE  start + inv.count * size \in Nat /\ start + inv.count * size <= ToolEnd(inv)
      <4> DEFINE begin == RoundUp(free[inv.ut], Kernel(inv))
      <4>1. /\ begin \in Nat /\ inv.count * Kernel(inv) \in Nat
            /\ begin + inv.count * Kernel(inv) <= ToolEnd(inv)
        BY <2>1, <3>1, KernelBelowPlan
      <4>2. Kernel(inv) = size
        BY DEF Kernel
      <4> HIDE DEF inv, size
      <4> QED
        BY <4>1, <4>2
    <3> QED
      BY <3>1
  <2> HIDE DEF size, start, slots
  <2>5. /\ DOMAIN free' = DOMAIN free
        /\ \A u \in DOMAIN free : u # inv.ut => free'[u] = free[u]
        /\ \A u \in DOMAIN free : u = inv.ut => free'[u] = start + inv.count * size
    BY <1>3
  <2>6. /\ \A s \in slots : s \in DOMAIN cnode' /\ cnode'[s].type = inv.type
        /\ \A s \in DOMAIN cnode : s \in DOMAIN cnode' /\ cnode'[s] = cnode[s]
    BY <1>3
  <2>7. SlotsOf(inv) = slots
    BY DEF SlotsOf, slots
  <2>8. Typed'
    <3>1. \A k \in DOMAIN boot.normal : free'[Normal(k)] \in Nat
      <4>1. TAKE k \in DOMAIN boot.normal
      <4>2. free[Normal(k)] \in Nat /\ Normal(k) \in DOMAIN free
        BY DEF Inv, Typed, Untypeds
      <4>3. CASE Normal(k) = inv.ut
        <5>1. OfNormal(inv)
          BY <4>3 DEF OfNormal, Normal
        <5>2. free'[Normal(k)] = start + inv.count * size
          BY <2>5, <4>2, <4>3
        <5> QED
          BY <2>4, <5>1, <5>2
      <4>4. CASE Normal(k) # inv.ut
        BY <2>5, <4>2, <4>4
      <4> QED
        BY <4>3, <4>4
    <3>2. done' \in 0..Len(invocations)
      BY <2>1, <2>2
    <3> QED
      BY <2>3, <2>5, <3>1, <3>2 DEF Inv, Typed, Untypeds, Normal, Device
  <2>9. NormalPlan'
    <3>1. ASSUME NEW n \in DOMAIN invocations, n > done', OfNormal(invocations[n])
          PROVE  free'[invocations[n].ut] <= invocations[n].planned
      <4> DEFINE other == invocations[n]
      <4>1. n > done /\ done + 1 < n
        BY <2>1, <2>2, <3>1
      <4>2. free[other.ut] <= other.planned /\ Bumped(other, point)
        BY <3>1, <4>1 DEF Inv, NormalPlan
      <4>3. other.ut \in DOMAIN free /\ other.planned \in Nat
        BY <4>2 DEF Inv, Typed, Untypeds, Bumped
      <4>4. CASE other.ut # inv.ut
        BY <2>5, <4>2, <4>3, <4>4
      <4>5. CASE other.ut = inv.ut
        <5>1. OfNormal(inv)
          BY <3>1, <4>5 DEF OfNormal
        <5>2. ToolEnd(inv) <= other.planned
          BY <2>1, <4>1, <4>5, <5>1 DEF Inv, NormalPlan
        <5>3. start + inv.count * size \in Nat /\ start + inv.count * size <= ToolEnd(inv)
          BY <2>4, <5>1
        <5>4. ToolEnd(inv) \in Nat
          BY <2>1, <5>1, KernelBelowPlan
        <5>5. free'[other.ut] = start + inv.count * size
          BY <2>5, <4>3, <4>5
        <5> HIDE DEF inv, other
        <5>6. start + inv.count * size <= other.planned
          BY <4>3, <5>2, <5>3, <5>4
        <5> QED
          BY <5>5, <5>6 DEF other
      <4> QED
        BY <4>4, <4>5
    <3>2. /\ \A k \in DOMAIN boot.normal : boot.normal[k].base + point[k] <= boot.normal[k].end
          /\ \A n \in DOMAIN invocations : OfNormal(invocations[n]) => Bumped(invocations[n], point)
          /\ \A m, n \in DOMAIN invocations :
               m < n /\ OfNormal(invocations[m]) /\ invocations[m].ut = invocations[n].ut =>
                 ToolEnd(invocations[m]) <= invocations[n].planned
      BY DEF Inv, NormalPlan
    <3> QED
      BY <2>3, <3>1, <3>2 DEF NormalPlan, Bumped, OfNormal, ToolEnd, Tool, Kernel, Normal
  <2>10. SlotPlan'
    BY <1>1, <1>3, <2>3 DEF Inv, SlotPlan, NextSlot
  <2>11. Made'
    <3>1. \A i \in DOMAIN objects : \E n \in DOMAIN invocations : IsOf(objects[i], invocations[n])
      BY DEF Inv, Made
    <3>2. ASSUME NEW n \in 1..done', NEW s \in SlotsOf(invocations[n])
          PROVE  s \in DOMAIN cnode' /\ cnode'[s].type = invocations[n].type
      <4>1. CASE n = done + 1
        BY <2>6, <2>7, <3>2, <4>1
      <4>2. CASE n # done + 1
        <5>1. n \in 1..done
          BY <2>1, <2>2, <4>2
        <5>2. s \in DOMAIN cnode /\ cnode[s].type = invocations[n].type
          BY <3>2, <5>1 DEF Inv, Made
        <5> QED
          BY <2>6, <5>2
      <4> QED
        BY <4>1, <4>2
    <3> QED
      BY <2>3, <3>1, <3>2 DEF Made, IsOf, SlotsOf
  <2>12. Placed'
    BY <1>1, <1>3 DEF Placed, Booting
  <2> QED
    BY <2>8, <2>9, <2>10, <2>11, <2>12 DEF Inv
<1> QED
  BY <1>1, <1>2, <1>3

LEMMA InitInv == Init => Inv
<1> SUFFICES ASSUME Init PROVE Inv
  OBVIOUS
<1>1. /\ boot \in Boots /\ pc = "root cnode" /\ stage = 1 /\ capSlot = 0 /\ done = 0
      /\ point = [k \in DOMAIN boot.normal |-> 0] /\ remaining = boot.tablePages
      /\ invocations = <<>> /\ objects = <<>> /\ cnode = << >>
      /\ free = [ut \in Untypeds |-> RegionOf(ut).base] /\ need \in Needs
  BY DEF Init
<1>2. /\ boot.tablePages \in Nat
      /\ \A k \in DOMAIN boot.normal : /\ boot.normal[k].base \in Nat /\ boot.normal[k].end \in Nat
                                       /\ boot.normal[k].base <= boot.normal[k].end
  BY <1>1, InputsAre
<1>3. IsList(<<>>) /\ Len(<<>>) = 0 /\ DOMAIN <<>> = {}
  BY EmptyIsList
<1>4. \A k \in DOMAIN boot.normal : Normal(k) \in Untypeds /\ RegionOf(Normal(k)) = boot.normal[k]
  BY DEF Normal, Untypeds, RegionOf
<1>5. Typed
  <2>1. point \in [DOMAIN boot.normal -> Nat]
    BY DEF Init
  <2>2. remaining \in 0..boot.tablePages
    <3>1. \A n \in Nat : n \in 0..n
      OBVIOUS
    <3>2. boot.tablePages \in 0..boot.tablePages
      BY <1>2, <3>1
    <3>3. remaining = boot.tablePages
      BY DEF Init
    <3> QED
      BY <3>2, <3>3, Zenon
  <2>3. IsList(invocations) /\ IsList(objects)
    BY <1>3 DEF Init
  <2>4. done \in 0..Len(invocations) /\ capSlot \in Nat
    <3>1. done = 0 /\ Len(invocations) = 0
      BY <1>3 DEF Init
    <3>2. capSlot = 0
      BY DEF Init
    <3>3. 0 \in 0..0 /\ 0 \in Nat
      OBVIOUS
    <3> QED
      BY <3>1, <3>2, <3>3, Zenon
  <2>5. \A k \in DOMAIN boot.normal : free[Normal(k)] \in Nat
    BY <1>1, <1>2, <1>4
  <2>6. DOMAIN free = Untypeds
    BY <1>1
  <2> QED
    BY <1>1, <2>1, <2>2, <2>3, <2>4, <2>5, <2>6 DEF Typed
<1>6. Placed
  <2>1. DOMAIN cnode = {} /\ \A ut \in Untypeds : free[ut] = RegionOf(ut).base
    BY <1>1, <1>3
  <2> QED
    BY <1>1, <2>1 DEF Placed, Booting
<1>7. DOMAIN invocations = {} /\ DOMAIN objects = {}
  BY <1>3 DEF Init
<1>8. NormalPlan
  <2>1. ASSUME NEW k \in DOMAIN boot.normal
        PROVE  boot.normal[k].base + point[k] <= boot.normal[k].end
    <3>1. point[k] = 0
      BY DEF Init
    <3> QED
      BY <1>2, <3>1
  <2> QED
    BY <1>7, <2>1 DEF NormalPlan
<1>9. SlotPlan /\ Made
  <2>1. 1..done = {}
    <3>1. done = 0
      BY DEF Init
    <3> QED
      BY <3>1
  <2> QED
    BY <1>7, <2>1 DEF SlotPlan, Made
<1> QED
  BY <1>5, <1>6, <1>8, <1>9 DEF Inv

LEMMA NextInv == Inv /\ [Next]_vars => Inv'
<1> SUFFICES ASSUME Inv, [Next]_vars PROVE Inv'
  OBVIOUS
<1>1. CASE RootCnode \/ SystemCnode
  BY <1>1, CnodesInv
<1>2. CASE RetypeTablePages
  BY <1>2, RetypeTablePagesInv
<1>3. CASE PageTables
  BY <1>3, PageTablesInv
<1>4. CASE Reserve
  BY <1>4, ReserveInv
<1>5. CASE AllocateObjects
  BY <1>5, AllocateObjectsInv
<1>6. CASE RefuseFixed \/ PadFixed \/ AllocateFixed
  BY <1>6, FixedInv
<1>7. CASE FixedDone \/ BootDone
  BY <1>7, DoneInv
<1>8. CASE PerformRetype
  BY <1>8, PerformRetypeInv
<1>9. CASE UNCHANGED vars
  <2>1. UNCHANGED <<inputs, point, capSlot, remaining, invocations, objects, kernel>>
        /\ pc' = pc /\ stage' = stage
    BY <1>9 DEF vars, tool
  <2>2. NextSlot' = NextSlot /\ NextSlot \in Int
    <3>1. NextSlot \in Int
      BY NextSlotIs
    <3> QED
      BY <2>1, <3>1 DEF NextSlot
  <2>3. NextSlot <= NextSlot' /\ NextSlot' \in Int
    BY <2>2
  <2>4. Typed' /\ NormalPlan' /\ SlotPlan' /\ Made'
    BY <2>1, <2>3, QuietKeeps
  <2>5. Placed'
    BY <2>1 DEF Inv, Placed, Booting, inputs, kernel, Untypeds, RegionOf, Normal, Device
  <2> QED
    BY <2>4, <2>5 DEF Inv
<1> QED
  BY <1>1, <1>2, <1>3, <1>4, <1>5, <1>6, <1>7, <1>8, <1>9 DEF Next

LEMMA InvAlways == Spec => []Inv
BY InitInv, NextInv, PTL DEF Spec

-----------------------------------------------------------------------------
(* The theorems *)

\* Whatever the boards, the description and the sizes of the objects are: what the kernel
\* still has to make in normal memory it will make where the bump allocator of the tool
\* planned it or below, and inside its untyped (__main__.py:266-377), so no allocation in
\* normal memory that fits in the plan can fail at boot.
THEOREM PlanBoundsKernel == Spec => []NothingAbovePlan
<1>1. Inv => NothingAbovePlan
  <2> SUFFICES ASSUME Inv, NEW n \in done + 1..Len(invocations), invocations[n].ut[1] = "normal"
               PROVE  LET inv == invocations[n]
                      IN  /\ RoundUp(free[inv.ut], KernelSize(inv.type, inv.size)) <= inv.planned
                          /\ inv.planned + inv.count * ToolSize(inv.type, inv.size)
                               <= RegionOf(inv.ut).end
    BY DEF NothingAbovePlan
  <2> DEFINE inv == invocations[n]
             k == inv.ut[2]
  <2>1. n \in DOMAIN invocations /\ n > done
    <3>1. IsList(invocations) /\ done \in 0..Len(invocations)
      BY DEF Inv, Typed
    <3>2. DOMAIN invocations = 1..Len(invocations) /\ Len(invocations) \in Nat
      BY <3>1, ListIs
    <3> QED
      BY <3>1, <3>2
  <2>2. OfNormal(inv)
    BY DEF OfNormal
  <2>3. RoundUp(free[inv.ut], Kernel(inv)) <= inv.planned /\ ToolEnd(inv) \in Nat
    BY <2>1, <2>2, KernelBelowPlan
  <2>4. /\ k \in DOMAIN boot.normal /\ inv.ut = Normal(k)
        /\ ToolEnd(inv) <= boot.normal[k].base + point[k]
    BY <2>1, <2>2 DEF Inv, NormalPlan, Bumped
  <2>5. /\ boot.normal[k].base + point[k] <= boot.normal[k].end /\ point[k] \in Nat
        /\ boot.normal[k].base \in Nat /\ boot.normal[k].end \in Nat
    BY <2>4, InputsAre DEF Inv, NormalPlan, Typed
  <2>6. RegionOf(inv.ut) = boot.normal[k]
    BY <2>4 DEF RegionOf, Normal
  <2> HIDE DEF inv, k
  <2>7. ToolEnd(inv) <= RegionOf(inv.ut).end
    BY <2>3, <2>4, <2>5, <2>6
  <2> QED
    BY <2>3, <2>7 DEF inv, Kernel, ToolEnd, Tool
<1> QED
  BY <1>1, InvAlways, PTL

\* When the init task has performed all invocations, every object of the tool's list is in
\* its slot: the chunks of a request cover its objects, and no later invocation, padding
\* included, takes their slots (__main__.py:577-651).
THEOREM ObjectsAreMade == Spec => []AllObjectsMade
<1>1. Inv => AllObjectsMade
  <2> SUFFICES ASSUME Inv, pc = "running", NEW i \in DOMAIN objects
               PROVE  /\ objects[i].slot \in DOMAIN cnode
                      /\ cnode[objects[i].slot].type = objects[i].type
    BY DEF AllObjectsMade
  <2>1. PICK n \in DOMAIN invocations : IsOf(objects[i], invocations[n])
    BY DEF Inv, Made
  <2>2. n \in 1..done
    <3>1. IsList(invocations) /\ done = Len(invocations)
      BY DEF Inv, Typed, Placed
    <3> QED
      BY <3>1, ListIs
  <2> QED
    BY <2>1, <2>2 DEF IsOf, Inv, Made
<1> QED
  BY <1>1, InvAlways, PTL

-----------------------------------------------------------------------------
(* Device memory: powers of two *)

\* Padding is aligned to its size and ends at the page, or below.
LEMMA PadIs ==
  ASSUME PowersOfTwo, NEW wm \in Nat \ {0}, NEW addr \in Nat, wm < addr
  PROVE  /\ PadSize(wm, addr) \in Nat \ {0} /\ Multiple(wm, PadSize(wm, addr))
         /\ wm + PadSize(wm, addr) <= addr
<1> DEFINE gap == addr - wm
           l == Lsb(wm)
           m == Msb(gap)
<1>1. gap \in Nat \ {0}
  OBVIOUS
<1> HIDE DEF gap
<1>2. l \in 0..WordBits /\ Multiple(wm, 2^l)
  BY LowestBit
<1>3. m \in 0..WordBits /\ 2^m <= gap
  BY <1>1, HighestBit
<1>4. PadSize(wm, addr) = 2^Min({l, m})
  BY DEF PadSize, gap
<1> HIDE DEF l, m
<1>5. Min({l, m}) = IF l <= m THEN l ELSE m
  BY <1>2, <1>3, MinOfTwo
<1>6. CASE l <= m
  <2>1. Min({l, m}) = l
    BY <1>5, <1>6
  <2>2. l \in 0..m
    BY <1>2, <1>3, <1>6
  <2>3. 2^m \in Nat \ {0} /\ 2^l \in Nat \ {0} /\ 2^l <= 2^m
    BY <1>3, <2>2, SmallerPower
  <2> DEFINE a == 2^l
             b == 2^m
  <2> HIDE DEF a, b
  <2>4. a \in Nat \ {0} /\ a <= b /\ b <= gap /\ b \in Nat /\ Multiple(wm, a)
    BY <1>2, <1>3, <2>3 DEF a, b
  <2>5. wm + a <= addr
    BY <2>4 DEF gap
  <2>6. PadSize(wm, addr) = a
    BY <1>4, <2>1 DEF a
  <2> QED
    BY <2>4, <2>5, <2>6
<1>7. CASE ~(l <= m)
  <2>1. Min({l, m}) = m
    BY <1>5, <1>7
  <2>2. m \in 0..l
    BY <1>2, <1>3, <1>7
  <2>3. 2^m \in Nat \ {0} /\ 2^l \in Nat \ {0} /\ Multiple(2^l, 2^m)
    BY <1>2, <2>2, SmallerPower
  <2> DEFINE a == 2^l
             b == 2^m
  <2> HIDE DEF a, b
  <2>4. a \in Nat /\ b \in Nat \ {0} /\ b <= gap /\ Multiple(wm, a) /\ Multiple(a, b)
    BY <1>2, <1>3, <2>3 DEF a, b
  <2>5. Multiple(wm, b)
    BY <2>4, MultipleOfMultiple
  <2>6. wm + b <= addr
    BY <2>4 DEF gap
  <2>7. PadSize(wm, addr) = b
    BY <1>4, <2>1 DEF b
  <2> QED
    BY <2>4, <2>5, <2>6, <2>7
<1> QED
  BY <1>6, <1>7

-----------------------------------------------------------------------------
(* Device memory: the inductive invariant *)

OfDevice(inv, k) == inv.ut = Device(k)
KernelEnd(inv) == inv.planned + inv.count * Kernel(inv)

\* What the first n invocations of the list make in the untyped k ends at a.
EndsAt(b, list, a, k, n) ==
  /\ a \in Nat /\ b.device[k].base <= a
  /\ \A m \in 1..n : OfDevice(list[m], k) => KernelEnd(list[m]) <= a
  /\ a # b.device[k].base => \E m \in 1..n : OfDevice(list[m], k) /\ KernelEnd(list[m]) = a

\* An invocation in a device untyped, at an address where its objects may be.  Only a page
\* of the description may reach beyond the untyped.
Planted(b, inv) ==
  /\ inv.ut[2] \in DOMAIN b.device /\ inv.ut = Device(inv.ut[2])
  /\ inv.type \in Pages \cup {"Untyped"}
  /\ Kernel(inv) \in Nat \ {0} /\ inv.planned \in Nat /\ inv.count \in Nat \ {0}
  /\ Multiple(inv.planned, Kernel(inv))
  /\ \/ KernelEnd(inv) <= b.device[inv.ut[2]].end
     \/ inv.type \in Pages /\ inv.count = 1

Counted(inv) == inv.count \in 1..FanOut /\ inv.type \in Types

\* Each invocation of a device untyped is planned where the one before it ended.
DevicePlan ==
  \A n \in DOMAIN invocations :
    LET inv == invocations[n]
    IN  /\ Counted(inv)
        /\ ~OfNormal(inv) =>
             Planted(boot, inv) /\ EndsAt(boot, invocations, inv.planned, inv.ut[2], n - 1)

InPlace(inv) ==
  \A s \in SlotsOf(inv) : cnode[s].base = inv.planned + (s - inv.slot) * Kernel(inv)

\* The kernel is where the plan is.
KernelFollows ==
  /\ \A k \in DOMAIN boot.device : EndsAt(boot, invocations, free[Device(k)], k, done)
  /\ \A ut \in Untypeds : free[ut] \in RegionOf(ut).base..RegionOf(ut).end
  /\ \A n \in 1..done : ~OfNormal(invocations[n]) => InPlace(invocations[n])
  /\ \A s \in DOMAIN cnode : \E n \in 1..done : s \in SlotsOf(invocations[n])

BeforeReserve == {"root cnode", "system cnode", "table", "page tables", "reserve"}
AfterReserve == {"pages", "fixed", "objects"}

\* The entry i of the reservations is where the table ends in the untyped i.
Reserved(i) ==
  /\ i \in DOMAIN boot.device /\ reserving[i][1] = i
  /\ EndsAt(boot, invocations, reserving[i][2], i, Len(invocations))
  /\ TableBase <= boot.device[i].base
  /\ reserving[i][2] <= TableEnd /\ reserving[i][2] <= boot.device[i].end

TableNext == TableBase + (boot.tablePages - remaining) * Fixed["SmallPage"]

\* The tool's watermarks are where the plan is, as soon as they are used.
WatermarkPlan ==
  /\ DOMAIN watermark = DOMAIN boot.device
  /\ \A k \in DOMAIN boot.device : watermark[k] \in Nat /\ boot.device[k].base <= watermark[k]
  /\ pc \in BeforeReserve =>
       /\ \A k \in DOMAIN boot.device : watermark[k] = boot.device[k].base
       /\ IsList(reserving) /\ \A i \in DOMAIN reserving : Reserved(i)
       /\ \A n \in DOMAIN invocations :
            ~OfNormal(invocations[n]) => invocations[n].ut[2] \in DOMAIN reserving
  /\ pc \in {"root cnode", "system cnode"} => reserving = <<>> /\ remaining = boot.tablePages
  /\ pc = "table" =>
       /\ remaining > 0 /\ TableNext = boot.device[stage].base /\ Len(reserving) = stage - 1
       /\ \E m \in DOMAIN boot.device : Follows(boot, m) /\ stage <= m
  /\ pc \in AfterReserve =>
       \A k \in DOMAIN boot.device : EndsAt(boot, invocations, watermark[k], k, Len(invocations))

FixedPage == [addr : Nat, type : Pages]

\* The last fixed page ends at lastFixed, and the pages to come begin behind its address.
Behind(last, object) ==
  /\ object.type \in Pages /\ object.phys \in Nat
  /\ object.phys + Fixed[object.type] = last
  /\ \A n \in DOMAIN pages : object.phys <= pages[n].addr

\* Why the watermark of an untyped is where it is.
Explained(k) ==
  \/ watermark[k] <= lastFixed
  \/ watermark[k] = boot.device[k].base
  \/ TableBase <= boot.device[k].base /\ watermark[k] <= TableEnd
  \/ pages # <<>> /\ watermark[k] <= Head(pages).addr

Fixing ==
  /\ pages \in Seq(FixedPage)
  /\ \A m, n \in DOMAIN pages : m < n => pages[m].addr < pages[n].addr
  /\ \A n \in DOMAIN pages : pages[n].addr % Fixed[pages[n].type] = 0
  /\ lastFixed \in Nat
  /\ lastFixed # 0 => \E n \in DOMAIN objects : Behind(lastFixed, objects[n])
  /\ pc \in AfterReserve => \A k \in DOMAIN boot.device : Explained(k)

\* How the tool and the boot may end.
Ending ==
  /\ raised # "ok" <=> pc \in {"failed", "boot failed"}
  /\ RefusedForCause /\ BootSucceeds

DeviceInv == DevicePlan /\ KernelFollows /\ WatermarkPlan /\ Fixing /\ Ending

-----------------------------------------------------------------------------
(* The end of a plan *)

LEMMA EndsAtOfLonger ==
  ASSUME NEW b, NEW list, NEW longer, NEW a, NEW k, NEW n \in Nat,
         \A m \in 1..n : longer[m] = list[m], EndsAt(b, list, a, k, n)
  PROVE  EndsAt(b, longer, a, k, n)
BY DEF EndsAt

LEMMA EndsAtOthers ==
  ASSUME NEW b, NEW list, NEW a, NEW k, NEW n \in Nat, NEW p \in Nat, n <= p,
         \A m \in n + 1..p : ~OfDevice(list[m], k), EndsAt(b, list, a, k, n)
  PROVE  EndsAt(b, list, a, k, p)
<1>1. \A m \in 1..n : m \in 1..p
  OBVIOUS
<1>2. \A m \in 1..p : OfDevice(list[m], k) => m \in 1..n
  OBVIOUS
<1> QED
  BY <1>1, <1>2 DEF EndsAt

LEMMA EndsAtNext ==
  ASSUME NEW b, NEW list, NEW a, NEW k, NEW n \in Nat, EndsAt(b, list, a, k, n),
         b.device[k].base \in Nat,
         OfDevice(list[n + 1], k), list[n + 1].planned = a, KernelEnd(list[n + 1]) \in Nat,
         a <= KernelEnd(list[n + 1]), \A m \in 1..n : KernelEnd(list[m]) \in Int \/ ~OfDevice(list[m], k)
  PROVE  EndsAt(b, list, KernelEnd(list[n + 1]), k, n + 1)
<1> DEFINE c == KernelEnd(list[n + 1])
<1>1. c \in Nat /\ a \in Nat /\ a <= c /\ b.device[k].base <= c
  BY DEF EndsAt
<1>2. n + 1 \in 1..n + 1
  OBVIOUS
<1>3. ASSUME NEW m \in 1..n + 1, OfDevice(list[m], k) PROVE KernelEnd(list[m]) <= c
  <2>1. CASE m = n + 1
    BY <1>1, <2>1
  <2>2. CASE m # n + 1
    <3>1. m \in 1..n
      BY <2>2
    <3>2. KernelEnd(list[m]) <= a /\ KernelEnd(list[m]) \in Int
      BY <1>3, <3>1 DEF EndsAt
    <3> QED
      BY <1>1, <3>2
  <2> QED
    BY <2>1, <2>2
<1> QED
  BY <1>1, <1>2, <1>3 DEF EndsAt

LEMMA EndsAtUnique ==
  ASSUME NEW b, NEW list, NEW a, NEW c, NEW k, NEW n, b.device[k].base \in Nat,
         EndsAt(b, list, a, k, n), EndsAt(b, list, c, k, n)
  PROVE  a = c
<1> DEFINE base == b.device[k].base
<1>1. a \in Nat /\ c \in Nat /\ base <= a /\ base <= c
  BY DEF EndsAt
<1>2. a # base => a <= c
  BY DEF EndsAt
<1>3. c # base => c <= a
  BY DEF EndsAt
<1> HIDE DEF base
<1>4. base \in Nat
  BY DEF base
<1> QED
  BY <1>1, <1>2, <1>3, <1>4

\* An untyped of which nothing is made.
LEMMA EndsAtBase ==
  ASSUME NEW b, NEW list, NEW k, NEW n, b.device[k].base \in Nat,
         \A m \in 1..n : ~OfDevice(list[m], k)
  PROVE  EndsAt(b, list, b.device[k].base, k, n)
BY DEF EndsAt

LEMMA SameDevice ==
  ASSUME NEW i, NEW k
  PROVE  /\ Device(i) = Device(k) <=> i = k
         /\ Device(i)[2] = i /\ Device(i)[1] = "device" /\ \A j : Device(i) # Normal(j)
BY DEF Device, Normal

LEMMA PlantedIs ==
  ASSUME NEW b, NEW inv, Planted(b, inv)
  PROVE  KernelEnd(inv) \in Nat /\ inv.planned <= KernelEnd(inv)
<1> DEFINE size == inv.count * Kernel(inv)
<1>1. inv.planned \in Nat /\ size \in Nat
  BY DEF Planted
<1> HIDE DEF size
<1>2. KernelEnd(inv) = inv.planned + size
  BY DEF KernelEnd, size
<1> QED
  BY <1>1, <1>2

-----------------------------------------------------------------------------
(* Device memory: what most steps keep *)

\* The list of invocations becomes longer.
Grows ==
  /\ IsList(invocations') /\ Len(invocations) <= Len(invocations')
  /\ DOMAIN invocations = 1..Len(invocations) /\ Len(invocations) \in Nat
  /\ DOMAIN invocations' = 1..Len(invocations') /\ Len(invocations') \in Nat
  /\ \A n \in DOMAIN invocations : n \in DOMAIN invocations' /\ invocations'[n] = invocations[n]

NewOnes == DOMAIN invocations' \ DOMAIN invocations

LEMMA AppendGrows ==
  ASSUME IsList(invocations), NEW inv, invocations' = Append(invocations, inv)
  PROVE  /\ Grows /\ Len(invocations') = Len(invocations) + 1
         /\ NewOnes = {Len(invocations) + 1} /\ invocations'[Len(invocations) + 1] = inv
<1>1. invocations' = invocations \o <<inv>>
  BY AppendedIs
<1>2. IsList(<<inv>>) /\ Len(<<inv>>) = 1 /\ <<inv>>[1] = inv
  BY ListOfOne
<1> DEFINE old == Len(invocations)
<1>3. /\ IsList(invocations') /\ Len(invocations') = old + 1
      /\ \A n \in 1..old : invocations'[n] = invocations[n]
      /\ \A n \in 1..1 : invocations'[old + n] = <<inv>>[n]
  BY <1>1, <1>2, LongerList
<1>4. DOMAIN invocations = 1..old /\ old \in Nat /\ DOMAIN invocations' = 1..old + 1
  BY <1>3, ListIs
<1>5. invocations'[old + 1] = inv
  <2>1. 1 \in 1..1
    OBVIOUS
  <2> QED
    BY <1>2, <1>3, <2>1
<1> HIDE DEF old
<1>6. /\ old <= old + 1 /\ old + 1 \in Nat /\ (1..old + 1) \ (1..old) = {old + 1}
      /\ \A n \in 1..old : n \in 1..old + 1
  BY <1>4
<1> QED
  BY <1>3, <1>4, <1>5, <1>6 DEF old, Grows, NewOnes

LEMMA DeviceNumbers ==
  ASSUME Inv
  PROVE  /\ \A k \in DOMAIN boot.device :
              /\ boot.device[k].base \in Nat /\ boot.device[k].end \in Nat
              /\ boot.device[k].base <= boot.device[k].end
         /\ DOMAIN boot.device = 1..Len(boot.device) /\ Len(boot.device) \in Nat
         /\ 1 \in DOMAIN boot.device /\ boot.tablePages \in Nat \ {0}
         /\ Fixed["SmallPage"] \in Nat \ {0} /\ TableBase \in Nat /\ TableEnd \in Nat
<1>1. boot \in Boots
  BY DEF Inv, Typed
<1>2. /\ \A k \in DOMAIN boot.device :
           /\ boot.device[k].base \in Nat /\ boot.device[k].end \in Nat
           /\ boot.device[k].base <= boot.device[k].end
      /\ DOMAIN boot.device = 1..Len(boot.device) /\ Len(boot.device) \in Nat
      /\ 1 \in DOMAIN boot.device /\ boot.tablePages \in Nat \ {0}
  BY <1>1, InputsAre
<1>3. Fixed["SmallPage"] \in Nat \ {0}
  BY AllocatorAssumption DEF FixedTypes, Pages
<1>4. TableBase \in Nat
  BY <1>2 DEF TableBase
<1>5. TableEnd \in Nat
  BY <1>2, <1>3, <1>4 DEF TableEnd
<1> QED
  BY <1>2, <1>3, <1>4, <1>5

\* An invocation that may stand behind the others.
Follower(n) ==
  /\ Counted(invocations'[n])
  /\ ~OfNormal(invocations'[n]) =>
       /\ Planted(boot, invocations'[n])
       /\ EndsAt(boot, invocations', invocations'[n].planned, invocations'[n].ut[2], n - 1)

LEMMA DevicePlanGrows ==
  ASSUME DevicePlan, Grows, UNCHANGED inputs, \A n \in NewOnes : Follower(n)
  PROVE  DevicePlan'
<1>1. boot' = boot
  BY DEF inputs
<1>2. ASSUME NEW n \in DOMAIN invocations' PROVE Follower(n)
  <2>1. CASE n \in NewOnes
    BY <2>1
  <2>2. CASE n \in DOMAIN invocations
    <3>1. invocations'[n] = invocations[n] /\ Counted(invocations[n])
      BY <2>2 DEF Grows, DevicePlan
    <3>2. ASSUME ~OfNormal(invocations[n])
          PROVE  /\ Planted(boot, invocations[n])
                 /\ EndsAt(boot, invocations', invocations[n].planned, invocations[n].ut[2], n - 1)
      <4>1. /\ Planted(boot, invocations[n])
            /\ EndsAt(boot, invocations, invocations[n].planned, invocations[n].ut[2], n - 1)
        BY <2>2, <3>2 DEF DevicePlan
      <4>2. n - 1 \in Nat /\ \A m \in 1..n - 1 : m \in DOMAIN invocations
        BY <2>2 DEF Grows
      <4>3. \A m \in 1..n - 1 : invocations'[m] = invocations[m]
        BY <4>2 DEF Grows
      <4> QED
        BY <4>1, <4>2, <4>3, EndsAtOfLonger
    <3> QED
      BY <3>1, <3>2 DEF Follower
  <2> QED
    BY <2>1, <2>2 DEF NewOnes
<1> QED
  BY <1>1, <1>2 DEF DevicePlan, Follower

LEMMA KernelQuiet ==
  ASSUME Inv, pc \notin Booting, UNCHANGED inputs, UNCHANGED kernel
  PROVE  KernelFollows'
<1>1. boot' = boot /\ done' = 0 /\ free' = free /\ DOMAIN cnode' = {}
      /\ \A ut \in Untypeds : free[ut] = RegionOf(ut).base
  BY DEF inputs, kernel, Inv, Placed
<1>2. \A k \in DOMAIN boot.device : Device(k) \in Untypeds /\ RegionOf(Device(k)) = boot.device[k]
  BY DEF Untypeds, RegionOf, Device
<1>3. ASSUME NEW k \in DOMAIN boot.device
      PROVE  EndsAt(boot, invocations', free[Device(k)], k, 0)
  <2>1. free[Device(k)] = boot.device[k].base /\ boot.device[k].base \in Nat
    BY <1>1, <1>2, DeviceNumbers
  <2>2. EndsAt(boot, invocations', boot.device[k].base, k, 0)
    BY <2>1 DEF EndsAt
  <2> QED
    BY <2>1, <2>2
<1>4. ASSUME NEW ut \in Untypeds
      PROVE  free[ut] \in RegionOf(ut).base..RegionOf(ut).end
  <2>1. RegionOf(ut).base \in Nat /\ RegionOf(ut).end \in Nat /\ RegionOf(ut).base <= RegionOf(ut).end
    <3>1. boot \in Boots
      BY DEF Inv, Typed
    <3>2. /\ \A k \in DOMAIN boot.normal : /\ boot.normal[k].base \in Nat /\ boot.normal[k].end \in Nat
                                           /\ boot.normal[k].base <= boot.normal[k].end
          /\ \A k \in DOMAIN boot.device : /\ boot.device[k].base \in Nat /\ boot.device[k].end \in Nat
                                           /\ boot.device[k].base <= boot.device[k].end
      BY <3>1, InputsAre
    <3>3. \/ \E k \in DOMAIN boot.normal : RegionOf(ut) = boot.normal[k]
          \/ \E k \in DOMAIN boot.device : RegionOf(ut) = boot.device[k]
      BY DEF Untypeds, RegionOf, Normal, Device
    <3> QED
      BY <3>2, <3>3
  <2>2. free[ut] = RegionOf(ut).base
    BY <1>1
  <2>3. RegionOf(ut).base \in RegionOf(ut).base..RegionOf(ut).end
    BY <2>1
  <2> QED
    BY <2>2, <2>3
<1>5. 1..0 = {}
  OBVIOUS
<1>6. Untypeds' = Untypeds /\ \A ut \in Untypeds : RegionOf(ut)' = RegionOf(ut)
  BY <1>1 DEF Untypeds, RegionOf
<1> QED
  BY <1>1, <1>3, <1>4, <1>5, <1>6 DEF KernelFollows

LEMMA EndingQuiet ==
  ASSUME Ending, pc \notin {"failed", "boot failed"}, pc' \notin {"failed", "boot failed"},
         raised' = raised
  PROVE  Ending'
<1>1. raised = "ok" /\ raised' = "ok"
  BY DEF Ending
<1> QED
  BY <1>1 DEF Ending, RefusedForCause, BootSucceeds

LEMMA FixingStays ==
  ASSUME Fixing, UNCHANGED <<pages, lastFixed, watermark>>, UNCHANGED inputs,
         \A n \in DOMAIN objects : n \in DOMAIN objects' /\ objects'[n] = objects[n],
         pc' \in AfterReserve => pc \in AfterReserve
  PROVE  Fixing'
<1>1. boot' = boot /\ pages' = pages /\ lastFixed' = lastFixed /\ watermark' = watermark
  BY DEF inputs
<1>2. lastFixed # 0 => \E n \in DOMAIN objects' : Behind(lastFixed, objects[n])'
  BY <1>1 DEF Fixing, Behind
<1>3. pc' \in AfterReserve => \A k \in DOMAIN boot.device : Explained(k)'
  BY <1>1 DEF Fixing, Explained, TableBase, TableEnd
<1> QED
  BY <1>1, <1>2, <1>3 DEF Fixing

\* An exception ends the tool.
LEMMA DeviceRaise ==
  ASSUME Inv, DeviceInv, NEW reason, Raise(reason), UNCHANGED <<inputs, tool, kernel>>,
         pc \notin Booting, reason # "ok", RefusedForCause'
  PROVE  DeviceInv'
<1>1. pc' = "failed" /\ raised' = reason /\ boot' = boot /\ invocations' = invocations
      /\ watermark' = watermark /\ pages' = pages /\ lastFixed' = lastFixed /\ objects' = objects
  BY DEF Raise, inputs, tool
<1>2. DevicePlan'
  BY <1>1 DEF DeviceInv, DevicePlan
<1>3. KernelFollows'
  BY KernelQuiet
<1>4. WatermarkPlan'
  <2>1. pc' \notin BeforeReserve /\ pc' \notin AfterReserve
    BY <1>1 DEF BeforeReserve, AfterReserve
  <2>2. pc' \notin {"root cnode", "system cnode"} /\ pc' # "table"
    BY <1>1
  <2>3. /\ DOMAIN watermark = DOMAIN boot.device
        /\ \A k \in DOMAIN boot.device : watermark[k] \in Nat /\ boot.device[k].base <= watermark[k]
    BY DEF DeviceInv, WatermarkPlan
  <2> QED
    BY <1>1, <2>1, <2>2, <2>3 DEF WatermarkPlan
<1>5. Fixing'
  <2>1. pc' \notin AfterReserve
    BY <1>1 DEF AfterReserve
  <2> QED
    BY <1>1, <2>1, FixingStays DEF DeviceInv
<1>6. Ending'
  BY <1>1 DEF Ending, BootSucceeds
<1> QED
  BY <1>2, <1>3, <1>4, <1>5, <1>6 DEF DeviceInv

\* Invocations of normal memory leave the devices alone.
LEMMA NormalsKeepEnds ==
  ASSUME Inv, Grows, \A n \in NewOnes : OfNormal(invocations'[n]),
         NEW a, NEW k, EndsAt(boot, invocations, a, k, Len(invocations))
  PROVE  EndsAt(boot, invocations', a, k, Len(invocations'))
<1>1. /\ DOMAIN invocations = 1..Len(invocations) /\ Len(invocations) \in Nat
      /\ DOMAIN invocations' = 1..Len(invocations') /\ Len(invocations') \in Nat
      /\ Len(invocations) <= Len(invocations')
      /\ \A n \in 1..Len(invocations) : invocations'[n] = invocations[n]
  BY DEF Grows
<1>2. EndsAt(boot, invocations', a, k, Len(invocations))
  BY <1>1, EndsAtOfLonger
<1>3. ASSUME NEW m \in Len(invocations) + 1..Len(invocations')
      PROVE  ~OfDevice(invocations'[m], k)
  <2>1. m \in NewOnes
    BY <1>1 DEF NewOnes
  <2> QED
    BY <2>1 DEF OfNormal, OfDevice, Device
<1> QED
  BY <1>1, <1>2, <1>3, EndsAtOthers

LEMMA NormalsFollow ==
  ASSUME DevicePlan, Grows, UNCHANGED inputs,
         \A n \in NewOnes : OfNormal(invocations'[n]) /\ Counted(invocations'[n])
  PROVE  DevicePlan'
<1>1. \A n \in NewOnes : Follower(n)
  BY DEF Follower
<1> QED
  BY <1>1, DevicePlanGrows

\* A step among the bootstrap that plans objects in normal memory.
LEMMA ReservedStay ==
  ASSUME Inv, WatermarkPlan, pc \in BeforeReserve, Grows,
         \A n \in NewOnes : OfNormal(invocations'[n]), UNCHANGED inputs,
         UNCHANGED watermark, UNCHANGED reserving
  PROVE  /\ \A k \in DOMAIN boot'.device : watermark'[k] = boot'.device[k].base
         /\ IsList(reserving') /\ \A i \in DOMAIN reserving' : Reserved(i)'
         /\ \A n \in DOMAIN invocations' :
              ~OfNormal(invocations'[n]) => invocations'[n].ut[2] \in DOMAIN reserving'
<1>1. boot' = boot /\ watermark' = watermark /\ reserving' = reserving
  BY DEF inputs
<1>2. /\ \A k \in DOMAIN boot.device : watermark[k] = boot.device[k].base
      /\ IsList(reserving) /\ \A i \in DOMAIN reserving : Reserved(i)
      /\ \A n \in DOMAIN invocations :
           ~OfNormal(invocations[n]) => invocations[n].ut[2] \in DOMAIN reserving
  BY DEF WatermarkPlan
<1>3. ASSUME NEW i \in DOMAIN reserving PROVE Reserved(i)'
  <2>1. Reserved(i)
    BY <1>2
  <2>2. EndsAt(boot, invocations', reserving[i][2], i, Len(invocations'))
    BY <2>1, NormalsKeepEnds DEF Reserved
  <2> QED
    BY <1>1, <2>1, <2>2 DEF Reserved, TableBase, TableEnd
<1>4. ASSUME NEW n \in DOMAIN invocations', ~OfNormal(invocations'[n])
      PROVE  invocations'[n].ut[2] \in DOMAIN reserving
  <2>1. n \in DOMAIN invocations /\ invocations'[n] = invocations[n]
    BY <1>4 DEF Grows, NewOnes
  <2> QED
    BY <1>2, <1>4, <2>1
<1> QED
  BY <1>1, <1>2, <1>3, <1>4

-----------------------------------------------------------------------------
(* Device memory: the bootstrap *)

LEMMA NoRefusal ==
  ASSUME raised' \notin {"not in order", "below watermark", "not in untyped region"}
  PROVE  RefusedForCause'
BY DEF RefusedForCause

\* What is left to show of a step that plans objects in normal memory.
LEMMA DeviceNormal ==
  ASSUME Inv, DeviceInv, pc \notin Booting, pc # "failed", pc' # "failed", pc' # "boot failed", Grows,
         \A n \in NewOnes : OfNormal(invocations'[n]) /\ Counted(invocations'[n]),
         UNCHANGED inputs, UNCHANGED kernel, UNCHANGED <<watermark, lastFixed, pages>>,
         raised' = raised, pc' \in AfterReserve => pc \in AfterReserve,
         \A n \in DOMAIN objects : n \in DOMAIN objects' /\ objects'[n] = objects[n],
         WatermarkPlan'
  PROVE  DeviceInv'
<1>1. DevicePlan' /\ KernelFollows'
  BY NormalsFollow, KernelQuiet DEF DeviceInv
<1>2. Fixing'
  BY FixingStays DEF DeviceInv
<1>3. Ending'
  <2>1. pc \notin {"failed", "boot failed"} /\ pc' \notin {"failed", "boot failed"}
    BY DEF Booting
  <2> QED
    BY <2>1, EndingQuiet DEF DeviceInv
<1> QED
  BY <1>1, <1>2, <1>3 DEF DeviceInv

LEMMA CnodesDevice ==
  ASSUME Inv, DeviceInv, TableFollows, RootCnode \/ SystemCnode
  PROVE  DeviceInv'
<1>1. PICK at, slots, slot, next :
        /\ AllocateCnode(at, slots, slot, next)
        /\ at \in {"root cnode", "system cnode"} /\ next \in {"system cnode", "table"}
  BY DEF RootCnode, SystemCnode
<1> DEFINE size == slots * SlotSize
           k == First(size, 1)
           inv == Retype(Normal(k), "CNode", slots, slot, 1, Start(k, size))
<1>2. pc = at /\ pc \notin Booting
  BY <1>1 DEF AllocateCnode, Booting
<1>3. CASE FittingUntypeds(size, 1) = {}
  <2>1. Raise("no space") /\ UNCHANGED <<inputs, tool, kernel>>
    BY <1>1, <1>3 DEF AllocateCnode
  <2>2. RefusedForCause'
    BY <2>1, NoRefusal DEF Raise
  <2> QED
    BY <1>2, <2>1, <2>2, DeviceRaise
<1>4. CASE FittingUntypeds(size, 1) # {}
  <2>1. /\ pc' = next /\ invocations' = Append(invocations, inv) /\ stage' = stage
        /\ UNCHANGED inputs /\ UNCHANGED kernel /\ UNCHANGED <<watermark, lastFixed, pages>>
        /\ UNCHANGED reserving /\ UNCHANGED remaining /\ UNCHANGED objects /\ raised' = raised
    BY <1>1, <1>4 DEF AllocateCnode
  <2>2. OfNormal(inv) /\ Counted(inv)
    <3>1. inv.ut = Normal(k) /\ inv.type = "CNode" /\ inv.count = 1
      BY DEF Retype
    <3>2. 1 \in 1..FanOut
      BY AllocatorAssumption
    <3> HIDE DEF inv
    <3> QED
      BY <3>1, <3>2 DEF OfNormal, Counted, Normal, Types, Variable
  <2> HIDE DEF inv
  <2>3. Grows /\ \A n \in NewOnes : OfNormal(invocations'[n]) /\ Counted(invocations'[n])
    <3>1. IsList(invocations)
      BY DEF Inv, Typed
    <3>2. Grows /\ NewOnes = {Len(invocations) + 1} /\ invocations'[Len(invocations) + 1] = inv
      BY <2>1, <3>1, AppendGrows
    <3> QED
      BY <2>2, <3>2
  <2>4. WatermarkPlan'
    <3>1. pc \in BeforeReserve /\ pc' \notin AfterReserve /\ pc' \in {"system cnode", "table"}
      BY <1>1, <1>2, <2>1 DEF BeforeReserve, AfterReserve
    <3>2. WatermarkPlan /\ reserving = <<>> /\ remaining = boot.tablePages
      BY <1>1, <1>2 DEF DeviceInv, WatermarkPlan
    <3>3. /\ \A i \in DOMAIN boot'.device : watermark'[i] = boot'.device[i].base
          /\ IsList(reserving') /\ \A i \in DOMAIN reserving' : Reserved(i)'
          /\ \A n \in DOMAIN invocations' :
               ~OfNormal(invocations'[n]) => invocations'[n].ut[2] \in DOMAIN reserving'
      BY <2>1, <2>3, <3>1, <3>2, ReservedStay
    <3>4. boot' = boot /\ watermark' = watermark /\ reserving' = <<>> /\ remaining' = boot.tablePages
          /\ boot \in Boots
      BY <2>1, <3>2 DEF inputs, Inv, Typed
    <3>5. stage' = 1
      BY <1>1, <1>2, <2>1 DEF Inv, Placed
    <3>6. /\ remaining' > 0 /\ Len(reserving') = 1 - 1
          /\ \E m \in DOMAIN boot.device : Follows(boot, m) /\ 1 <= m
      <4>1. boot.tablePages > 0
        BY DeviceNumbers
      <4>2. \A m \in DOMAIN boot.device : 1 <= m
        BY DeviceNumbers
      <4>3. \E m \in DOMAIN boot.device : Follows(boot, m)
        BY <3>4 DEF TableFollows
      <4>4. Len(reserving') = 0
        BY <3>4, EmptyIsList
      <4> QED
        BY <3>4, <4>1, <4>2, <4>3, <4>4
    <3>7. TableNext' = boot.device[1].base
      <4>1. TableNext' = TableBase + (boot.tablePages - boot.tablePages) * Fixed["SmallPage"]
        BY <3>4 DEF TableNext, TableBase
      <4>2. TableBase \in Nat /\ Fixed["SmallPage"] \in Nat /\ boot.tablePages \in Nat
        BY DeviceNumbers
      <4>3. (boot.tablePages - boot.tablePages) * Fixed["SmallPage"] = 0
        BY <4>2
      <4> QED
        BY <4>1, <4>2, <4>3 DEF TableBase
    <3>8. /\ DOMAIN watermark = DOMAIN boot.device
          /\ \A i \in DOMAIN boot.device : watermark[i] \in Nat /\ boot.device[i].base <= watermark[i]
      BY <3>2 DEF WatermarkPlan
    <3> QED
      BY <3>1, <3>3, <3>4, <3>5, <3>6, <3>7, <3>8 DEF WatermarkPlan
  <2>5. pc # "failed" /\ pc' # "failed" /\ pc' # "boot failed" /\ pc' \notin AfterReserve
    BY <1>1, <1>2, <2>1 DEF AfterReserve
  <2> QED
    BY <1>2, <2>1, <2>3, <2>4, <2>5, DeviceNormal
<1> QED
  BY <1>3, <1>4

LEMMA DivExact ==
  ASSUME NEW q \in Nat, NEW s \in Nat \ {0}
  PROVE  (q * s) \div s = q
<1> DEFINE n == q * s
           d == n \div s
<1>1. n \in Nat
  OBVIOUS
<1> HIDE DEF n
<1>2. n = d * s + (n % s) /\ d \in Nat /\ n % s \in 0..s - 1
  BY <1>1, Division
<1> HIDE DEF d
<1>3. d * s \in Nat /\ d * s <= n /\ n < d * s + s
  BY <1>1, <1>2
<1>4. (d + 1) * s = d * s + s
  BY <1>2, Distributes
<1>5. q * s < (d + 1) * s /\ d * s <= q * s
  BY <1>3, <1>4 DEF n
<1>6. q < d + 1
  BY <1>2, <1>5, Shrink
<1>7. ~(q < d)
  <2> SUFFICES ASSUME q < d PROVE FALSE
    OBVIOUS
  <2>1. (q + 1) * s <= d * s
    BY <1>2, Grow
  <2>2. (q + 1) * s = q * s + s /\ q * s \in Nat
    BY Distributes
  <2> QED
    BY <1>3, <2>1, <2>2 DEF n
<1>8. d = q
  BY <1>2, <1>6, <1>7
<1> QED
  BY <1>8 DEF d, n

\* There is a page table for the invocation table.
LEMMA SomePageTables ==
  ASSUME NEW bytes \in Nat \ {0}, NEW s \in Nat \ {0}
  PROVE  RoundUp(bytes, s) \div s \in Nat \ {0}
<1>1. RoundUp(bytes, s) \in Nat /\ bytes <= RoundUp(bytes, s) /\ Multiple(RoundUp(bytes, s), s)
  BY RoundUpIs
<1>2. PICK q \in Nat : RoundUp(bytes, s) = q * s
  BY <1>1 DEF Multiple
<1>3. q # 0
  BY <1>1, <1>2
<1>4. RoundUp(bytes, s) \div s = q
  BY <1>2, DivExact
<1> QED
  BY <1>3, <1>4

LEMMA PageTablesDevice ==
  ASSUME Inv, DeviceInv, PageTables
  PROVE  DeviceInv'
<1> DEFINE bytes == boot.tablePages * Fixed["SmallPage"]
           count == RoundUp(bytes, Fixed["LargePage"]) \div Fixed["LargePage"]
           size == Fixed["PageTable"]
           k == First(size, count)
           inv == Retype(Normal(k), "PageTable", 0, capSlot, count, Start(k, size))
<1>1. pc = "page tables" /\ pc \notin Booting
  BY DEF PageTables, Booting
<1>2. CASE FittingUntypeds(size, count) = {} \/ count > FanOut
  <2>1. PICK reason \in {"no space", "fan out"} : Raise(reason) /\ UNCHANGED <<inputs, tool, kernel>>
    BY <1>2 DEF PageTables
  <2>2. RefusedForCause'
    BY <2>1, NoRefusal DEF Raise
  <2>3. reason # "ok"
    OBVIOUS
  <2> QED
    BY <1>1, <2>1, <2>2, <2>3, DeviceRaise
<1>3. CASE ~(FittingUntypeds(size, count) = {} \/ count > FanOut)
  <2>1. /\ pc' = "reserve" /\ invocations' = Append(invocations, inv)
        /\ UNCHANGED inputs /\ UNCHANGED kernel /\ UNCHANGED <<watermark, lastFixed, pages>>
        /\ UNCHANGED reserving /\ UNCHANGED objects /\ raised' = raised
    BY <1>3 DEF PageTables
  <2>2. OfNormal(inv) /\ Counted(inv)
    <3>1. inv.ut = Normal(k) /\ inv.type = "PageTable" /\ inv.count = count
      BY DEF Retype
    <3>2. /\ Fixed["SmallPage"] \in Nat \ {0} /\ boot.tablePages \in Nat \ {0}
          /\ Fixed["LargePage"] \in Nat \ {0} /\ FanOut \in Nat \ {0}
      BY AllocatorAssumption, DeviceNumbers DEF FixedTypes, Pages
    <3>3. bytes \in Nat \ {0}
      BY <3>2
    <3> HIDE DEF bytes
    <3>4. count \in Nat \ {0}
      BY <3>2, <3>3, SomePageTables
    <3>5. ~(count > FanOut)
      BY <1>3
    <3> HIDE DEF count, inv
    <3>6. count \in 1..FanOut
      BY <3>2, <3>4, <3>5
    <3> QED
      BY <3>1, <3>6 DEF OfNormal, Counted, Normal, Types, FixedTypes
  <2> HIDE DEF inv
  <2>3. Grows /\ \A n \in NewOnes : OfNormal(invocations'[n]) /\ Counted(invocations'[n])
    <3>1. IsList(invocations)
      BY DEF Inv, Typed
    <3>2. Grows /\ NewOnes = {Len(invocations) + 1} /\ invocations'[Len(invocations) + 1] = inv
      BY <2>1, <3>1, AppendGrows
    <3> QED
      BY <2>2, <3>2
  <2>4. WatermarkPlan'
    <3>1. pc \in BeforeReserve /\ WatermarkPlan
      BY <1>1 DEF BeforeReserve, DeviceInv
    <3>2. /\ \A i \in DOMAIN boot'.device : watermark'[i] = boot'.device[i].base
          /\ IsList(reserving') /\ \A i \in DOMAIN reserving' : Reserved(i)'
          /\ \A n \in DOMAIN invocations' :
               ~OfNormal(invocations'[n]) => invocations'[n].ut[2] \in DOMAIN reserving'
      BY <2>1, <2>3, <3>1, ReservedStay
    <3>3. boot' = boot /\ watermark' = watermark
      BY <2>1 DEF inputs
    <3>4. /\ DOMAIN watermark = DOMAIN boot.device
          /\ \A i \in DOMAIN boot.device : watermark[i] \in Nat /\ boot.device[i].base <= watermark[i]
      BY <3>1 DEF WatermarkPlan
    <3> QED
      BY <2>1, <3>2, <3>3, <3>4 DEF WatermarkPlan, AfterReserve
  <2>5. pc # "failed" /\ pc' # "failed" /\ pc' # "boot failed" /\ pc' \notin AfterReserve
    BY <1>1, <2>1 DEF AfterReserve
  <2> QED
    BY <1>1, <2>1, <2>3, <2>4, <2>5, DeviceNormal
<1> QED
  BY <1>2, <1>3

LEMMA SpanIs ==
  ASSUME NEW base \in Nat, NEW end \in Nat, NEW p \in Nat \ {0}, base < end,
         base % p = 0, end % p = 0
  PROVE  /\ (end - base) \div p \in Nat \ {0} /\ Multiple(base, p)
         /\ base + ((end - base) \div p) * p = end
<1>1. Multiple(base, p) /\ Multiple(end, p)
  BY MultipleIs
<1>2. PICK x \in Nat : base = x * p
  BY <1>1 DEF Multiple
<1>3. PICK y \in Nat : end = y * p
  BY <1>1 DEF Multiple
<1>4. x < y
  BY <1>2, <1>3, Shrink
<1> DEFINE q == y - x
<1>5. q \in Nat \ {0} /\ x + q = y
  BY <1>4
<1> HIDE DEF q
<1>6. y * p = x * p + q * p
  BY <1>5, Distributes
<1>7. q * p \in Nat
  BY <1>5
<1>8. end - base = q * p
  BY <1>2, <1>3, <1>6, <1>7
<1>9. (end - base) \div p = q
  BY <1>5, <1>8, DivExact
<1>10. base + q * p = end
  BY <1>7, <1>8
<1> QED
  BY <1>1, <1>5, <1>9, <1>10

\* r of the n pages of the table are left when an untyped of q pages begins.
LEMMA TableStep ==
  ASSUME NEW first \in Nat, NEW n \in Nat, NEW r \in 1..n, NEW p \in Nat \ {0},
         NEW base \in Nat, NEW end \in Nat, NEW q \in Nat \ {0}, base + q * p = end,
         first + (n - r) * p = base, NEW count, count = IF q <= r THEN q ELSE r
  PROVE  /\ count \in 1..r /\ base + count * p \in Nat /\ base + count * p <= end
         /\ base + count * p <= first + n * p /\ first <= base
         /\ first + (n - (r - count)) * p = base + count * p
         /\ first + n * p <= end => count = r
         /\ count # r => base + count * p = end
<1>1. count \in 1..r /\ count <= q
  OBVIOUS
<1>2. n - r \in Nat /\ r - count \in Nat /\ count \in Nat /\ q - count \in Nat
  BY <1>1
<1> DEFINE a == (n - r) * p
           c == count * p
           d == (r - count) * p
<1>3. /\ n * p = a + r * p
  <2>1. n = (n - r) + r
    OBVIOUS
  <2> QED
    BY <1>2, <2>1, Distributes
<1>4. r * p = d + c
  <2>1. r = (r - count) + count
    BY <1>2
  <2> QED
    BY <1>2, <2>1, Distributes
<1>5. (n - (r - count)) * p = a + c
  <2>1. n - (r - count) = (n - r) + count
    BY <1>2
  <2> QED
    BY <1>2, <2>1, Distributes
<1>6. c <= q * p
  BY <1>1, <1>2, Grow
<1>7. a \in Nat /\ c \in Nat /\ d \in Nat /\ q * p \in Nat
  BY <1>2
<1>8. count # r => count = q
  OBVIOUS
<1>9. first + n * p <= end => count = r
  <2> SUFFICES ASSUME first + n * p <= end, count # r PROVE FALSE
    OBVIOUS
  <2>1. count = q /\ q < r
    OBVIOUS
  <2>2. (q + 1) * p <= r * p
    BY <2>1, Grow
  <2>3. (q + 1) * p = q * p + p
    BY Distributes
  <2> HIDE DEF a, c, d
  <2>4. r * p \in Nat
    BY <1>4, <1>7
  <2>5. r * p <= q * p
    BY <1>3, <1>7, <2>4 DEF a
  <2> QED
    BY <1>7, <2>2, <2>3, <2>4, <2>5
<1>10. count # r => c = q * p
  BY <1>8
<1>11. base = first + a
  BY <1>7
<1> HIDE DEF a, c, d
<1>12. /\ base + c \in Nat /\ base + c <= end /\ base + c <= first + n * p /\ first <= base
       /\ first + (n - (r - count)) * p = base + c
       /\ count # r => base + c = end
  BY <1>3, <1>4, <1>5, <1>6, <1>7, <1>10, <1>11
<1> QED
  BY <1>1, <1>9, <1>12 DEF c

\* The part of the table that goes into the untyped at hand.
LEMMA TablePart ==
  ASSUME Inv, WatermarkPlan, pc = "table"
  PROVE  LET p == Fixed["SmallPage"]
             ut == boot.device[stage]
             count == Min({Size(ut) \div p, remaining})
         IN  /\ stage \in DOMAIN boot.device /\ TableNext = ut.base /\ Multiple(ut.base, p)
             /\ remaining \in 1..boot.tablePages
             /\ count \in 1..remaining /\ ut.base + count * p \in Nat
             /\ ut.base + count * p <= ut.end /\ ut.base + count * p <= TableEnd
             /\ TableBase <= ut.base
             /\ remaining # count =>
                  /\ stage + 1 \in DOMAIN boot.device
                  /\ TableBase + (boot.tablePages - (remaining - count)) * p = boot.device[stage + 1].base
                  /\ \E m \in DOMAIN boot.device : Follows(boot, m) /\ stage + 1 <= m
<1> DEFINE p == Fixed["SmallPage"]
           ut == boot.device[stage]
           q == (ut.end - ut.base) \div p
           count == Min({Size(ut) \div p, remaining})
<1>1. /\ remaining > 0 /\ TableNext = ut.base /\ Len(reserving) = stage - 1
  BY DEF WatermarkPlan
<1>2. PICK m \in DOMAIN boot.device : Follows(boot, m) /\ stage <= m
  BY DEF WatermarkPlan
<1>3. /\ DOMAIN boot.device = 1..Len(boot.device) /\ Len(boot.device) \in Nat
      /\ stage \in DOMAIN boot.device /\ p \in Nat \ {0} /\ ut.base \in Nat /\ ut.end \in Nat
      /\ TableBase \in Nat /\ boot.tablePages \in Nat /\ remaining \in 0..boot.tablePages
  BY DeviceNumbers DEF Inv, Typed, Placed
<1>4. stage \in 1..m /\ remaining \in 1..boot.tablePages
  BY <1>1, <1>2, <1>3
<1>5. ut.base < ut.end /\ ut.base % p = 0 /\ ut.end % p = 0
  BY <1>2, <1>4 DEF Follows
<1>6. TableBase + (boot.tablePages - remaining) * p = ut.base
  BY <1>1 DEF TableNext
<1>7. TableBase + boot.tablePages * p = TableEnd
  BY DEF TableEnd
<1>8. TableEnd <= boot.device[m].end /\ \A k \in 1..m - 1 : boot.device[k].end = boot.device[k + 1].base
  BY <1>2, <1>7 DEF Follows, TableBase
<1>9. Size(ut) \div p = q
  BY DEF Size
<1> HIDE DEF p, ut
<1>10. q \in Nat \ {0} /\ Multiple(ut.base, p) /\ ut.base + q * p = ut.end
  BY <1>3, <1>5, SpanIs
<1> HIDE DEF q
<1>11. count = IF q <= remaining THEN q ELSE remaining
  BY <1>3, <1>9, <1>10, MinOfTwo
<1> HIDE DEF count
<1>12. /\ count \in 1..remaining /\ ut.base + count * p \in Nat /\ ut.base + count * p <= ut.end
       /\ ut.base + count * p <= TableBase + boot.tablePages * p /\ TableBase <= ut.base
       /\ TableBase + (boot.tablePages - (remaining - count)) * p = ut.base + count * p
       /\ TableBase + boot.tablePages * p <= ut.end => count = remaining
       /\ count # remaining => ut.base + count * p = ut.end
  <2> DEFINE first == TableBase
             n == boot.tablePages
             r == remaining
             base == ut.base
             end == ut.end
  <2>1. /\ first \in Nat /\ n \in Nat /\ r \in 1..n /\ base \in Nat /\ end \in Nat
        /\ p \in Nat \ {0} /\ q \in Nat \ {0}
    BY <1>3, <1>4, <1>10
  <2>2. base + q * p = end
    BY <1>10
  <2>3. first + (n - r) * p = base
    BY <1>6
  <2>4. count = IF q <= r THEN q ELSE r
    BY <1>11
  <2> HIDE DEF first, n, r, base, end
  <2>5. /\ count \in 1..r /\ base + count * p \in Nat /\ base + count * p <= end
        /\ base + count * p <= first + n * p /\ first <= base
        /\ first + (n - (r - count)) * p = base + count * p
        /\ first + n * p <= end => count = r
        /\ count # r => base + count * p = end
    BY <2>1, <2>2, <2>3, <2>4, TableStep
  <2> QED
    BY <2>5 DEF first, n, r, base, end
<1>13. ASSUME remaining # count
       PROVE  /\ stage + 1 \in DOMAIN boot.device
              /\ TableBase + (boot.tablePages - (remaining - count)) * p = boot.device[stage + 1].base
              /\ stage + 1 <= m
  <2>1. stage # m
    BY <1>7, <1>8, <1>12, <1>13 DEF ut
  <2>2. stage \in 1..m - 1 /\ stage + 1 <= m /\ stage + 1 \in DOMAIN boot.device
    BY <1>3, <1>4, <2>1
  <2>3. ut.end = boot.device[stage + 1].base
    BY <1>8, <2>2 DEF ut
  <2>4. TableBase + (boot.tablePages - (remaining - count)) * p = ut.end
    BY <1>12, <1>13
  <2> QED
    BY <2>2, <2>3, <2>4
<1>14. ut.base + count * p <= TableEnd
  BY <1>7, <1>12
<1> QED
  BY <1>1, <1>2, <1>3, <1>4, <1>10, <1>12, <1>13, <1>14 DEF p, ut, count

LEMMA AppendedList ==
  ASSUME NEW s, NEW x, IsList(s)
  PROVE  /\ IsList(Append(s, x)) /\ Len(Append(s, x)) = Len(s) + 1 /\ Len(s) \in Nat
         /\ DOMAIN s = 1..Len(s) /\ DOMAIN Append(s, x) = 1..Len(s) + 1
         /\ \A n \in 1..Len(s) : Append(s, x)[n] = s[n]
         /\ Append(s, x)[Len(s) + 1] = x
<1>1. Append(s, x) = s \o <<x>>
  BY AppendOfList
<1>2. IsList(<<x>>) /\ Len(<<x>>) = 1 /\ <<x>>[1] = x
  BY ListOfOne
<1>3. /\ IsList(s \o <<x>>) /\ Len(s \o <<x>>) = Len(s) + 1
      /\ \A n \in 1..Len(s) : (s \o <<x>>)[n] = s[n]
      /\ \A n \in 1..1 : (s \o <<x>>)[Len(s) + n] = <<x>>[n]
  BY <1>2, LongerList
<1>4. (s \o <<x>>)[Len(s) + 1] = x
  <2>1. 1 \in 1..1
    OBVIOUS
  <2> QED
    BY <1>2, <1>3, <2>1
<1>5. /\ DOMAIN s = 1..Len(s) /\ Len(s) \in Nat /\ DOMAIN (s \o <<x>>) = 1..Len(s) + 1
  BY <1>3, ListIs
<1> QED
  BY <1>1, <1>3, <1>4, <1>5

\* One invocation of a device untyped goes where the plan for it ends.
LEMMA OnePlanted ==
  ASSUME Inv, DevicePlan, UNCHANGED inputs, NEW inv, invocations' = Append(invocations, inv),
         Counted(inv), Planted(boot, inv),
         NEW k \in DOMAIN boot.device, inv.ut = Device(k),
         EndsAt(boot, invocations, inv.planned, k, Len(invocations))
  PROVE  /\ DevicePlan' /\ Grows
         /\ EndsAt(boot, invocations', KernelEnd(inv), k, Len(invocations'))
         /\ \A i, a : i # k /\ EndsAt(boot, invocations, a, i, Len(invocations)) =>
              EndsAt(boot, invocations', a, i, Len(invocations'))
<1> DEFINE last == Len(invocations)
<1>1. IsList(invocations)
  BY DEF Inv, Typed
<1>2. /\ Grows /\ Len(invocations') = last + 1 /\ NewOnes = {last + 1}
      /\ invocations'[last + 1] = inv
  BY <1>1, AppendGrows
<1>3. /\ last \in Nat /\ DOMAIN invocations = 1..last
      /\ \A m \in 1..last : invocations'[m] = invocations[m]
  BY <1>2 DEF Grows
<1>4. inv.ut[2] = k /\ inv.ut[1] = "device" /\ ~OfNormal(inv)
  BY DEF Device, OfNormal
<1> HIDE DEF last
<1>5. EndsAt(boot, invocations', inv.planned, k, last)
  BY <1>3, EndsAtOfLonger DEF last
<1>6. DevicePlan'
  <2>1. (last + 1) - 1 = last
    BY <1>3
  <2>2. Follower(last + 1)
    BY <1>2, <1>4, <1>5, <2>1 DEF Follower
  <2> QED
    BY <1>2, <2>2, DevicePlanGrows
<1>7. EndsAt(boot, invocations', KernelEnd(inv), k, last + 1)
  <2>1. boot.device[k].base \in Nat
    BY DeviceNumbers
  <2>2. KernelEnd(inv) \in Nat /\ inv.planned <= KernelEnd(inv)
    BY PlantedIs
  <2>3. \A m \in 1..last : KernelEnd(invocations'[m]) \in Int \/ ~OfDevice(invocations'[m], k)
    <3>1. TAKE m \in 1..last
    <3>2. ASSUME OfDevice(invocations[m], k) PROVE KernelEnd(invocations[m]) \in Int
      <4>1. ~OfNormal(invocations[m])
        BY <3>2 DEF OfDevice, OfNormal, Device
      <4>2. Planted(boot, invocations[m])
        BY <1>3, <4>1 DEF DevicePlan
      <4>3. KernelEnd(invocations[m]) \in Nat
        BY <4>2, PlantedIs
      <4> QED
        BY <4>3
    <3> QED
      BY <1>3, <3>2
  <2>4. /\ OfDevice(invocations'[last + 1], k) /\ invocations'[last + 1].planned = inv.planned
        /\ KernelEnd(invocations'[last + 1]) = KernelEnd(inv)
    BY <1>2 DEF OfDevice
  <2> HIDE DEF OfDevice
  <2>5. EndsAt(boot, invocations', KernelEnd(invocations'[last + 1]), k, last + 1)
    <3>1. KernelEnd(invocations'[last + 1]) \in Nat /\ inv.planned <= KernelEnd(invocations'[last + 1])
      BY <2>2, <2>4
    <3> QED
      BY <1>3, <1>5, <2>1, <2>3, <2>4, <3>1, EndsAtNext
  <2> QED
    BY <2>4, <2>5
<1>8. ASSUME NEW i, NEW a, i # k, EndsAt(boot, invocations, a, i, last)
      PROVE  EndsAt(boot, invocations', a, i, last + 1)
  <2>1. EndsAt(boot, invocations', a, i, last)
    BY <1>3, <1>8, EndsAtOfLonger
  <2>2. \A m \in last + 1..last + 1 : ~OfDevice(invocations'[m], i)
    <3>1. ~OfDevice(inv, i)
      BY <1>8 DEF OfDevice, Device
    <3>2. \A m \in last + 1..last + 1 : m = last + 1
      BY <1>3
    <3> QED
      BY <1>2, <3>1, <3>2
  <2>3. last + 1 \in Nat /\ last <= last + 1
    BY <1>3
  <2> QED
    BY <1>3, <2>1, <2>2, <2>3, EndsAtOthers
<1> QED
  BY <1>2, <1>6, <1>7, <1>8 DEF last

LEMMA TableDevice ==
  ASSUME Inv, DeviceInv, RetypeTablePages
  PROVE  DeviceInv'
<1> DEFINE p == Fixed["SmallPage"]
           ut == boot.device[stage]
           count == Min({Size(ut) \div p, remaining})
           inv == Retype(Device(stage), "SmallPage", 0, capSlot, count, TableNext)
           last == remaining = count \/ stage = Len(boot.device)
           end == TableNext + count * p
<1>1. pc = "table" /\ pc \notin Booting /\ pc \in BeforeReserve
  BY DEF RetypeTablePages, Booting, BeforeReserve
<1>2. CASE count > FanOut
  <2>1. Raise("fan out") /\ UNCHANGED <<inputs, tool, kernel>>
    BY <1>2 DEF RetypeTablePages, tool
  <2>2. RefusedForCause'
    BY <2>1, NoRefusal DEF Raise
  <2> QED
    BY <1>1, <2>1, <2>2, DeviceRaise
<1>3. CASE ~(count > FanOut)
  <2>1. /\ pc' = IF last THEN "page tables" ELSE "table"
        /\ stage' = IF last THEN 1 ELSE stage + 1
        /\ invocations' = Append(invocations, inv)
        /\ remaining' = remaining - count
        /\ reserving' = Append(reserving, <<stage, end>>)
        /\ UNCHANGED inputs /\ UNCHANGED kernel /\ UNCHANGED objects
        /\ UNCHANGED <<watermark, lastFixed, pages>> /\ raised' = raised
    BY <1>3 DEF RetypeTablePages, TableNext
  <2>2. DevicePlan /\ WatermarkPlan
    BY DEF DeviceInv
  <2>3. /\ stage \in DOMAIN boot.device /\ TableNext = ut.base /\ Multiple(ut.base, p)
        /\ remaining \in 1..boot.tablePages
        /\ count \in 1..remaining /\ ut.base + count * p \in Nat
        /\ ut.base + count * p <= ut.end /\ ut.base + count * p <= TableEnd /\ TableBase <= ut.base
        /\ remaining # count =>
             /\ stage + 1 \in DOMAIN boot.device
             /\ TableBase + (boot.tablePages - (remaining - count)) * p = boot.device[stage + 1].base
             /\ \E m \in DOMAIN boot.device : Follows(boot, m) /\ stage + 1 <= m
    BY <1>1, <2>2, TablePart
  <2>4. p \in Nat \ {0} /\ ut.base \in Nat /\ ut.end \in Nat /\ FanOut \in Nat \ {0}
        /\ boot.tablePages \in Nat /\ DOMAIN boot.device = 1..Len(boot.device)
        /\ Len(boot.device) \in Nat
    BY <2>3, DeviceNumbers, AllocatorAssumption
  <2>5. /\ inv.ut = Device(stage) /\ inv.ut[2] = stage /\ inv.type = "SmallPage" /\ inv.size = 0
        /\ inv.count = count /\ inv.planned = TableNext
    BY DEF Retype, Device
  <2>6. Kernel(inv) = p
    <3>1. KernelSize("SmallPage", 0) = p
      BY SizesOf DEF FixedTypes, Pages
    <3> QED
      BY <2>5, <3>1 DEF Kernel
  <2>7. KernelEnd(inv) = end
    BY <2>5, <2>6 DEF KernelEnd
  <2>8. end = ut.base + count * p
    BY <2>3
  <2> HIDE DEF inv, count, p, ut, end
  <2>9. count \in 1..FanOut /\ count \in Nat \ {0}
    BY <1>3, <2>3, <2>4
  <2>10. Counted(inv)
    BY <2>5, <2>9 DEF Counted, Types, FixedTypes, Pages
  <2>11. Planted(boot, inv)
    <3>1. inv.ut[2] \in DOMAIN boot.device /\ inv.ut = Device(inv.ut[2])
      BY <2>3, <2>5
    <3>2. inv.planned = ut.base
      BY <2>3, <2>5
    <3>3. KernelEnd(inv) <= boot.device[inv.ut[2]].end
      BY <2>3, <2>5, <2>7, <2>8 DEF ut
    <3>4. inv.type \in Pages \cup {"Untyped"}
      BY <2>5 DEF Pages
    <3>5. Kernel(inv) \in Nat \ {0} /\ inv.planned \in Nat /\ inv.count \in Nat \ {0}
          /\ Multiple(inv.planned, Kernel(inv))
      BY <2>3, <2>4, <2>5, <2>6, <2>9, <3>2
    <3> QED
      BY <3>1, <3>3, <3>4, <3>5 DEF Planted
  <2>12. /\ \A i \in DOMAIN boot.device : watermark[i] = boot.device[i].base
         /\ IsList(reserving) /\ \A i \in DOMAIN reserving : Reserved(i)
         /\ \A n \in DOMAIN invocations :
              ~OfNormal(invocations[n]) => invocations[n].ut[2] \in DOMAIN reserving
         /\ Len(reserving) = stage - 1
    BY <1>1, <2>2 DEF WatermarkPlan
  <2>13. DOMAIN reserving = 1..stage - 1
    BY <2>12, ListIs
  <2>14. EndsAt(boot, invocations, inv.planned, stage, Len(invocations))
    <3>1. \A m \in 1..Len(invocations) : ~OfDevice(invocations[m], stage)
      <4>1. TAKE m \in 1..Len(invocations)
      <4>2. m \in DOMAIN invocations
        BY ListIs DEF Inv, Typed
      <4>3. stage \notin 1..stage - 1
        BY <2>3, <2>4
      <4>4. OfDevice(invocations[m], stage) =>
              ~OfNormal(invocations[m]) /\ invocations[m].ut[2] = stage
        BY DEF OfDevice, OfNormal, Device
      <4> QED
        BY <2>12, <2>13, <4>2, <4>3, <4>4
    <3>2. boot.device[stage].base \in Nat
      BY <2>4 DEF ut
    <3>3. EndsAt(boot, invocations, boot.device[stage].base, stage, Len(invocations))
      BY <3>1, <3>2, EndsAtBase
    <3> QED
      BY <2>3, <2>5, <3>3 DEF ut
  <2>15. /\ DevicePlan' /\ Grows
         /\ EndsAt(boot, invocations', end, stage, Len(invocations'))
         /\ \A i, a : i # stage /\ EndsAt(boot, invocations, a, i, Len(invocations)) =>
              EndsAt(boot, invocations', a, i, Len(invocations'))
    <3>1. invocations' = Append(invocations, inv)
      BY <2>1 DEF inv, count, p, ut
    <3>2. stage \in DOMAIN boot.device /\ inv.ut = Device(stage)
      BY <2>3, <2>5
    <3>3. /\ DevicePlan' /\ Grows
          /\ EndsAt(boot, invocations', KernelEnd(inv), stage, Len(invocations'))
          /\ \A i, a : i # stage /\ EndsAt(boot, invocations, a, i, Len(invocations)) =>
               EndsAt(boot, invocations', a, i, Len(invocations'))
      BY <2>1, <2>2, <2>10, <2>11, <2>14, <3>1, <3>2, OnePlanted
    <3> QED
      BY <2>7, <3>3
  <2>16. boot' = boot /\ watermark' = watermark
    BY <2>1 DEF inputs
  <2>17. /\ IsList(reserving') /\ Len(reserving') = stage /\ DOMAIN reserving' = 1..stage
         /\ \A i \in 1..stage - 1 : reserving'[i] = reserving[i]
         /\ reserving'[stage] = <<stage, end>>
    <3> DEFINE longer == Append(reserving, <<stage, end>>)
    <3>1. /\ IsList(longer) /\ Len(longer) = Len(reserving) + 1 /\ Len(reserving) \in Nat
          /\ DOMAIN longer = 1..Len(reserving) + 1
          /\ \A n \in 1..Len(reserving) : longer[n] = reserving[n]
          /\ longer[Len(reserving) + 1] = <<stage, end>>
      BY <2>12, AppendedList
    <3>2. Len(reserving) = stage - 1 /\ Len(reserving) + 1 = stage
      BY <2>3, <2>4, <2>12
    <3>3. reserving' = longer
      BY <2>1 DEF end, count, p, ut
    <3> HIDE DEF longer
    <3> QED
      BY <3>1, <3>2, <3>3
  <2>18. ASSUME NEW i \in DOMAIN reserving' PROVE Reserved(i)'
    <3>1. CASE i = stage
      <4>1. reserving'[i][1] = stage /\ reserving'[i][2] = end
        BY <2>17, <3>1
      <4>2. end <= TableEnd /\ end <= boot.device[i].end /\ TableBase <= boot.device[i].base
        BY <2>3, <2>8, <3>1 DEF ut
      <4>3. TableEnd' = TableEnd /\ TableBase' = TableBase
        BY <2>16 DEF TableEnd, TableBase
      <4> QED
        BY <2>3, <2>15, <2>16, <3>1, <4>1, <4>2, <4>3 DEF Reserved
    <3>2. CASE i # stage
      <4>1. i \in 1..stage - 1
        BY <2>3, <2>4, <2>17, <3>2
      <4>2. Reserved(i) /\ reserving'[i] = reserving[i]
        BY <2>12, <2>13, <2>17, <4>1
      <4>3. EndsAt(boot, invocations', reserving[i][2], i, Len(invocations'))
        BY <2>15, <3>2, <4>2 DEF Reserved
      <4>4. TableEnd' = TableEnd /\ TableBase' = TableBase
        BY <2>16 DEF TableEnd, TableBase
      <4> QED
        BY <2>16, <4>2, <4>3, <4>4 DEF Reserved
    <3> QED
      BY <3>1, <3>2
  <2>19. ASSUME NEW n \in DOMAIN invocations', ~OfNormal(invocations'[n])
         PROVE  invocations'[n].ut[2] \in DOMAIN reserving'
    <3>1. IsList(invocations) /\ invocations' = Append(invocations, inv)
      BY <2>1 DEF inv, count, p, ut, Inv, Typed
    <3>2. /\ DOMAIN invocations = 1..Len(invocations) /\ Len(invocations) \in Nat
          /\ DOMAIN invocations' = 1..Len(invocations) + 1
          /\ \A m \in 1..Len(invocations) : invocations'[m] = invocations[m]
          /\ invocations'[Len(invocations) + 1] = inv
      BY <3>1, AppendedList
    <3>3. CASE n = Len(invocations) + 1
      <4>1. invocations'[n].ut[2] = stage /\ stage \in 1..stage
        BY <2>3, <2>4, <2>5, <3>2, <3>3
      <4> QED
        BY <2>17, <4>1
    <3>4. CASE n # Len(invocations) + 1
      <4>1. n \in DOMAIN invocations /\ invocations'[n] = invocations[n]
        BY <3>2, <3>4
      <4>2. invocations[n].ut[2] \in 1..stage - 1
        BY <2>12, <2>13, <2>19, <4>1
      <4>3. invocations[n].ut[2] \in 1..stage
        BY <2>3, <2>4, <4>2
      <4> QED
        BY <2>17, <4>1, <4>3
    <3> QED
      BY <3>3, <3>4
  <2>20. pc' \in {"table", "page tables"}
    BY <2>1
  <2>21. WatermarkPlan'
    <3>1. /\ DOMAIN watermark = DOMAIN boot.device
          /\ \A i \in DOMAIN boot.device : watermark[i] \in Nat /\ boot.device[i].base <= watermark[i]
      BY <2>2 DEF WatermarkPlan
    <3>2. pc' \in BeforeReserve /\ pc' \notin AfterReserve /\ pc' \notin {"root cnode", "system cnode"}
      BY <2>20 DEF BeforeReserve, AfterReserve
    <3>3. ASSUME pc' = "table"
          PROVE  /\ remaining' > 0 /\ TableNext' = boot.device[stage'].base
                 /\ Len(reserving') = stage' - 1
                 /\ \E m \in DOMAIN boot.device : Follows(boot, m) /\ stage' <= m
      <4>1. remaining # count /\ stage' = stage + 1 /\ remaining' = remaining - count
        BY <2>1, <3>3
      <4>2. remaining - count > 0 /\ stage = (stage + 1) - 1
        BY <2>3, <2>4, <4>1
      <4>3. TableNext' = TableBase + (boot.tablePages - (remaining - count)) * p
        BY <2>16, <4>1 DEF TableNext, TableBase, p
      <4>4. TableNext' = boot.device[stage + 1].base
        BY <2>3, <4>1, <4>3
      <4>5. Len(reserving') = (stage + 1) - 1
        BY <2>17, <4>2
      <4>6. remaining' > 0
        BY <4>1, <4>2
      <4> QED
        BY <2>3, <4>1, <4>4, <4>5, <4>6
    <3> QED
      BY <2>12, <2>16, <2>17, <2>18, <2>19, <3>1, <3>2, <3>3 DEF WatermarkPlan
  <2>22. KernelFollows'
    BY <1>1, <2>1, KernelQuiet
  <2>23. Fixing'
    <3>1. pc' \notin AfterReserve
      BY <2>20 DEF AfterReserve
    <3> QED
      BY <2>1, <3>1, FixingStays DEF DeviceInv
  <2>24. Ending'
    <3>1. pc \notin {"failed", "boot failed"} /\ pc' \notin {"failed", "boot failed"}
      BY <1>1, <2>20
    <3> QED
      BY <2>1, <3>1, EndingQuiet DEF DeviceInv
  <2> QED
    BY <2>15, <2>21, <2>22, <2>23, <2>24 DEF DeviceInv
<1> QED
  BY <1>2, <1>3

-----------------------------------------------------------------------------
(* Device memory: the plan *)

LEMMA MaxOfOne ==
  ASSUME NEW k \in Int
  PROVE  Max({k}) = k
BY DEF Max

\* Where the untypeds continue after the table.
LEMMA ReserveWatermarks ==
  ASSUME Inv, WatermarkPlan, Reserve
  PROVE  /\ DOMAIN watermark' = DOMAIN boot.device
         /\ \A k \in DOMAIN boot.device :
              watermark'[k] = IF k \in DOMAIN reserving THEN reserving[k][2] ELSE boot.device[k].base
<1>1. /\ DOMAIN watermark = DOMAIN boot.device /\ DOMAIN boot.device \subseteq Int
      /\ \A k \in DOMAIN boot.device : watermark[k] = boot.device[k].base
      /\ \A i \in DOMAIN reserving : Reserved(i)
  <2>1. pc \in BeforeReserve
    BY DEF Reserve, BeforeReserve
  <2>2. DOMAIN boot.device \subseteq Int
    BY DeviceNumbers
  <2> QED
    BY <2>1, <2>2 DEF WatermarkPlan
<1>2. \A i \in DOMAIN reserving : reserving[i][1] = i
  BY <1>1 DEF Reserved
<1> DEFINE Mine(k) == {n \in DOMAIN reserving : reserving[n][1] = k}
           after(k) == IF Mine(k) = {} THEN watermark[k] ELSE reserving[Max(Mine(k))][2]
<1>3. watermark' = [k \in DOMAIN watermark |-> after(k)]
  BY DEF Reserve
<1>4. ASSUME NEW k \in DOMAIN boot.device
      PROVE  after(k) = IF k \in DOMAIN reserving THEN reserving[k][2] ELSE boot.device[k].base
  <2>1. Mine(k) = IF k \in DOMAIN reserving THEN {k} ELSE {}
    BY <1>2
  <2>2. CASE k \in DOMAIN reserving
    <3>1. Mine(k) = {k} /\ Max({k}) = k
      BY <1>1, <2>1, <2>2, MaxOfOne
    <3> HIDE DEF Mine
    <3> QED
      BY <2>2, <3>1
  <2>3. CASE k \notin DOMAIN reserving
    <3>1. Mine(k) = {}
      BY <2>1, <2>3
    <3> HIDE DEF Mine
    <3> QED
      BY <1>1, <2>3, <3>1
  <2> QED
    BY <2>2, <2>3
<1> HIDE DEF after
<1> QED
  BY <1>1, <1>3, <1>4

LEMMA ReserveDevice ==
  ASSUME Inv, DeviceInv, Reserve
  PROVE  DeviceInv'
<1>1. /\ pc = "reserve" /\ pc \notin Booting /\ pc \in BeforeReserve
      /\ UNCHANGED inputs /\ UNCHANGED kernel /\ invocations' = invocations /\ objects' = objects
      /\ pages' = pages /\ lastFixed' = lastFixed /\ reserving' = reserving
  BY DEF Reserve, Booting, BeforeReserve
<1>2. boot' = boot /\ WatermarkPlan /\ Fixing
  BY <1>1 DEF inputs, DeviceInv
<1>3. /\ \A i \in DOMAIN reserving : Reserved(i)
      /\ \A n \in DOMAIN invocations :
           ~OfNormal(invocations[n]) => invocations[n].ut[2] \in DOMAIN reserving
  BY <1>1, <1>2 DEF WatermarkPlan
<1>4. /\ DOMAIN watermark' = DOMAIN boot.device
      /\ \A k \in DOMAIN boot.device :
           watermark'[k] = IF k \in DOMAIN reserving THEN reserving[k][2] ELSE boot.device[k].base
  BY <1>2, ReserveWatermarks
<1>5. pc' = "pages" /\ raised' = raised
  <2>1. ASSUME NEW n \in DOMAIN reserving
        PROVE  LET ut == boot.device[reserving[n][1]]
               IN  ut.base <= reserving[n][2] /\ reserving[n][2] <= ut.end
    BY <1>3 DEF Reserved, EndsAt
  <2> QED
    BY <2>1 DEF Reserve
<1>6. ASSUME NEW k \in DOMAIN boot.device
      PROVE  /\ EndsAt(boot, invocations, watermark'[k], k, Len(invocations))
             /\ Explained(k)'
  <2>1. CASE k \in DOMAIN reserving
    <3>1. watermark'[k] = reserving[k][2] /\ Reserved(k)
      BY <1>3, <1>4, <2>1
    <3>2. TableEnd' = TableEnd /\ TableBase' = TableBase
      BY <1>2 DEF TableEnd, TableBase
    <3>3. EndsAt(boot, invocations, watermark'[k], k, Len(invocations))
      BY <3>1 DEF Reserved
    <3>4. TableBase <= boot.device[k].base /\ watermark'[k] <= TableEnd
      BY <3>1 DEF Reserved
    <3>5. Explained(k)'
      BY <1>2, <3>2, <3>4 DEF Explained
    <3> QED
      BY <3>3, <3>5
  <2>2. CASE k \notin DOMAIN reserving
    <3>1. watermark'[k] = boot.device[k].base
      BY <1>4, <2>2
    <3>2. \A m \in 1..Len(invocations) : ~OfDevice(invocations[m], k)
      <4>1. TAKE m \in 1..Len(invocations)
      <4>2. m \in DOMAIN invocations
        BY ListIs DEF Inv, Typed
      <4>3. OfDevice(invocations[m], k) => ~OfNormal(invocations[m]) /\ invocations[m].ut[2] = k
        BY DEF OfDevice, OfNormal, Device
      <4> QED
        BY <1>3, <2>2, <4>2, <4>3
    <3>3. boot.device[k].base \in Nat
      BY DeviceNumbers
    <3>4. EndsAt(boot, invocations, boot.device[k].base, k, Len(invocations))
      BY <3>2, <3>3, EndsAtBase
    <3>5. Explained(k)'
      BY <1>2, <3>1 DEF Explained
    <3> QED
      BY <3>1, <3>4, <3>5
  <2> QED
    BY <2>1, <2>2
<1>7. WatermarkPlan'
  <2>1. \A k \in DOMAIN boot.device : watermark'[k] \in Nat /\ boot.device[k].base <= watermark'[k]
    BY <1>6 DEF EndsAt
  <2>2. pc' \notin BeforeReserve /\ pc' \notin {"root cnode", "system cnode"} /\ pc' # "table"
    BY <1>5 DEF BeforeReserve
  <2> QED
    BY <1>1, <1>2, <1>4, <1>6, <2>1, <2>2 DEF WatermarkPlan
<1>8. Fixing'
  <2>1. lastFixed # 0 => \E n \in DOMAIN objects : Behind(lastFixed, objects[n])'
    BY <1>1, <1>2 DEF Fixing, Behind
  <2> QED
    BY <1>1, <1>2, <1>6, <2>1 DEF Fixing
<1>9. Ending'
  <2>1. pc \notin {"failed", "boot failed"} /\ pc' \notin {"failed", "boot failed"}
    BY <1>1, <1>5
  <2> QED
    BY <1>5, <2>1, EndingQuiet DEF DeviceInv
<1>10. DevicePlan'
  BY <1>1, <1>2 DEF DeviceInv, DevicePlan
<1>11. KernelFollows'
  BY <1>1, KernelQuiet
<1> QED
  BY <1>7, <1>8, <1>9, <1>10, <1>11 DEF DeviceInv

LEMMA RequestTypes ==
  ASSUME Inv, pc \in {"pages", "objects"}
  PROVE  Requests[stage].type \in Types
<1>1. {"TCB", "Endpoint", "Notification", "Reply", "VSpace", "PageUpperDirectory",
       "PageDirectory", "PageTable", "SmallPage", "LargePage", "CNode", "SchedContext"} \subseteq Types
  BY DEF Types, Variable, FixedTypes, Pages
<1>2. CASE pc = "pages"
  <2>1. stage \in 1..2
    BY <1>2 DEF Inv, Placed
  <2>2. Requests = PageRequests
    BY <1>2 DEF Requests
  <2>3. PageRequests[1].type = "LargePage" /\ PageRequests[2].type = "SmallPage"
    BY DEF PageRequests, Ask
  <2>4. stage = 1 \/ stage = 2
    BY <2>1
  <2> QED
    BY <1>1, <2>2, <2>3, <2>4
<1>3. CASE pc = "objects"
  <2>1. stage \in 1..14
    BY <1>3 DEF Inv, Placed
  <2>2. Requests = ObjectRequests
    BY <1>3 DEF Requests
  <2>3. \A i \in 1..14 : ObjectRequests[i].type \in Types
    BY <1>1 DEF ObjectRequests, Ask
  <2> QED
    BY <2>1, <2>2, <2>3
<1> QED
  BY <1>2, <1>3

\* The chunks of a request are invocations of normal memory.
LEMMA ChunksAre ==
  ASSUME NEW k, NEW type \in Types, NEW size, NEW slot, NEW count \in Nat, NEW start
  PROVE  LET c == Chunks(Normal(k), type, size, slot, count, start)
         IN  IsList(c) /\ \A n \in DOMAIN c : OfNormal(c[n]) /\ Counted(c[n])
<1> DEFINE len == (count + FanOut - 1) \div FanOut
           Before(j) == (j - 1) * FanOut
           Count(j) == Min({count - Before(j), FanOut})
           c == Chunks(Normal(k), type, size, slot, count, start)
<1>1. FanOut \in Nat \ {0}
  BY AllocatorAssumption
<1>2. len \in Nat
  BY <1>1, Division
<1>3. \A j \in 1..len : Count(j) \in 1..FanOut
  BY ChunkIs
<1>4. c = [j \in 1..len |-> Retype(Normal(k), type, size, slot + Before(j), Count(j),
                                   start + Before(j) * ToolSize(type, size))]
  BY DEF Chunks
<1> HIDE DEF len, Before, Count, c
<1>5. \A j \in 1..len : c[j].ut = Normal(k) /\ c[j].type = type /\ c[j].count = Count(j)
  BY <1>4 DEF Retype
<1>6. IsList(c) /\ DOMAIN c = 1..len
  <2>1. c = [j \in 1..len |-> c[j]]
    BY <1>4
  <2> QED
    BY <1>2, <2>1, ListOfFunction
<1>7. Normal(k)[1] = "normal"
  BY DEF Normal
<1>8. ASSUME NEW n \in DOMAIN c PROVE OfNormal(c[n]) /\ Counted(c[n])
  BY <1>3, <1>5, <1>6, <1>7, <1>8 DEF OfNormal, Counted
<1> QED
  BY <1>6, <1>8 DEF c

\* The tool's list of objects only becomes longer.
LEMMA ObjectsKept ==
  ASSUME NEW old, IsList(old), NEW type, NEW size, NEW slot, NEW count \in Nat, NEW start
  PROVE  LET all == old \o NewObjects(type, size, slot, count, start)
         IN  \A n \in DOMAIN old : n \in DOMAIN all /\ all[n] = old[n]
<1> DEFINE new == NewObjects(type, size, slot, count, start)
           all == old \o new
<1>1. IsList(new) /\ Len(new) = count
  BY ListOfFunction DEF NewObjects
<1>2. DOMAIN old = 1..Len(old) /\ Len(old) \in Nat
  BY ListIs
<1> HIDE DEF new
<1>3. IsList(all) /\ Len(all) = Len(old) + count /\ \A n \in 1..Len(old) : all[n] = old[n]
  BY <1>1, LongerList
<1>4. DOMAIN all = 1..Len(old) + count
  BY <1>3, ListIs
<1> HIDE DEF all
<1>5. \A n \in 1..Len(old) : n \in 1..Len(old) + count
  BY <1>2
<1> QED
  BY <1>2, <1>3, <1>4, <1>5 DEF all, new

LEMMA AllocateObjectsDevice ==
  ASSUME Inv, DeviceInv, AllocateObjects
  PROVE  DeviceInv'
<1> DEFINE ask == Requests[stage]
           size == ToolSize(ask.type, ask.size)
           k == First(size, ask.count)
           last == stage = Len(Requests)
           start == Start(k, size)
           chunks == Chunks(Normal(k), ask.type, ask.size, capSlot, ask.count, start)
<1>1. pc \in {"pages", "objects"} /\ pc \notin Booting /\ pc \in AfterReserve
  BY DEF AllocateObjects, Booting, AfterReserve
<1>2. CASE FittingUntypeds(size, ask.count) = {}
  <2>1. Raise("no space") /\ UNCHANGED <<inputs, tool, kernel>>
    BY <1>2 DEF AllocateObjects, tool
  <2>2. RefusedForCause'
    BY <2>1, NoRefusal DEF Raise
  <2> QED
    BY <1>1, <2>1, <2>2, DeviceRaise
<1>3. CASE FittingUntypeds(size, ask.count) # {}
  <2>1. /\ pc' \in {"pages", "objects", "fixed", "boot"}
        /\ invocations' = invocations \o chunks
        /\ objects' = objects \o NewObjects(ask.type, ask.size, capSlot, ask.count, start)
        /\ UNCHANGED inputs /\ UNCHANGED kernel /\ UNCHANGED <<watermark, lastFixed, pages>>
        /\ raised' = raised
    <3>1. pc' = CASE ~last -> pc [] last /\ pc = "pages" -> "fixed" [] OTHER -> "boot"
      BY <1>3 DEF AllocateObjects
    <3>2. pc' \in {"pages", "objects", "fixed", "boot"}
      BY <1>1, <3>1
    <3> QED
      BY <1>3, <3>2 DEF AllocateObjects
  <2>2. ask.count \in Nat /\ ask.type \in Types
    BY <1>1, RequestIs, RequestTypes
  <2>3. IsList(chunks) /\ \A n \in DOMAIN chunks : OfNormal(chunks[n]) /\ Counted(chunks[n])
    <3> HIDE DEF ask, start, k
    <3> QED
      BY <2>2, ChunksAre
  <2>4. \A n \in DOMAIN objects : n \in DOMAIN objects' /\ objects'[n] = objects[n]
    <3>1. IsList(objects)
      BY DEF Inv, Typed
    <3> HIDE DEF ask, start
    <3> DEFINE all == objects \o NewObjects(ask.type, ask.size, capSlot, ask.count, start)
    <3>2. \A n \in DOMAIN objects : n \in DOMAIN all /\ all[n] = objects[n]
      BY <2>2, <3>1, ObjectsKept
    <3>3. objects' = all
      BY <2>1
    <3> HIDE DEF all
    <3> QED
      BY <3>2, <3>3
  <2> HIDE DEF chunks
  <2>5. /\ Grows
        /\ \A n \in NewOnes : OfNormal(invocations'[n]) /\ Counted(invocations'[n])
    <3> DEFINE old == Len(invocations)
               longer == invocations \o chunks
    <3>1. IsList(invocations)
      BY DEF Inv, Typed
    <3>2. /\ IsList(longer) /\ Len(longer) = old + Len(chunks)
          /\ \A n \in 1..old : longer[n] = invocations[n]
          /\ \A n \in 1..Len(chunks) : longer[old + n] = chunks[n]
      BY <2>3, <3>1, LongerList
    <3>3. /\ DOMAIN invocations = 1..old /\ old \in Nat
          /\ DOMAIN chunks = 1..Len(chunks) /\ Len(chunks) \in Nat
          /\ DOMAIN longer = 1..Len(longer) /\ Len(longer) \in Nat
      BY <2>3, <3>1, <3>2, ListIs
    <3>4. invocations' = longer
      BY <2>1
    <3> HIDE DEF longer
    <3>5. Grows
      <4>1. old <= old + Len(chunks) /\ \A n \in 1..old : n \in 1..old + Len(chunks)
        BY <3>3
      <4> QED
        BY <3>2, <3>3, <3>4, <4>1 DEF Grows
    <3>6. ASSUME NEW n \in NewOnes PROVE OfNormal(invocations'[n]) /\ Counted(invocations'[n])
      <4> DEFINE i == n - old
      <4> HIDE DEF old
      <4>1. n \in 1..old + Len(chunks) /\ n \notin 1..old
        BY <3>2, <3>3, <3>4 DEF NewOnes, old
      <4>2. i \in 1..Len(chunks) /\ old + i = n
        BY <3>3, <4>1
      <4> HIDE DEF i
      <4>3. longer[n] = chunks[i]
        BY <3>2, <4>2 DEF old
      <4>4. OfNormal(chunks[i]) /\ Counted(chunks[i])
        BY <2>3, <3>3, <4>2
      <4> QED
        BY <3>4, <4>3, <4>4
    <3> QED
      BY <3>5, <3>6
  <2>6. WatermarkPlan'
    <3>1. WatermarkPlan /\ boot' = boot /\ watermark' = watermark
      BY <2>1 DEF DeviceInv, inputs
    <3>2. pc' \notin BeforeReserve /\ pc' \notin {"root cnode", "system cnode"} /\ pc' # "table"
      BY <2>1 DEF BeforeReserve
    <3>3. /\ DOMAIN watermark = DOMAIN boot.device
          /\ \A i \in DOMAIN boot.device : watermark[i] \in Nat /\ boot.device[i].base <= watermark[i]
          /\ \A i \in DOMAIN boot.device : EndsAt(boot, invocations, watermark[i], i, Len(invocations))
      BY <1>1, <3>1 DEF WatermarkPlan
    <3>4. \A i \in DOMAIN boot.device : EndsAt(boot, invocations', watermark[i], i, Len(invocations'))
      BY <2>5, <3>3, NormalsKeepEnds
    <3> QED
      BY <3>1, <3>2, <3>3, <3>4 DEF WatermarkPlan
  <2>7. pc # "failed" /\ pc' # "failed" /\ pc' # "boot failed"
    BY <1>1, <2>1
  <2> QED
    BY <1>1, <2>1, <2>4, <2>5, <2>6, <2>7, DeviceNormal
<1> QED
  BY <1>2, <1>3

\* The fixed page at hand, and those behind it.
LEMMA PageIs ==
  ASSUME Fixing, pages # <<>>
  PROVE  /\ Head(pages) = pages[1] /\ 1 \in DOMAIN pages
         /\ Head(pages).addr \in Nat /\ Head(pages).type \in Pages
         /\ Fixed[Head(pages).type] \in Nat \ {0}
         /\ Multiple(Head(pages).addr, Fixed[Head(pages).type])
         /\ \A n \in DOMAIN pages : Head(pages).addr <= pages[n].addr
         /\ Tail(pages) \in Seq(FixedPage)
         /\ \A n \in DOMAIN Tail(pages) :
              n + 1 \in DOMAIN pages /\ Tail(pages)[n] = pages[n + 1] /\ n \in Nat \ {0}
<1>1. pages \in Seq(FixedPage)
  BY DEF Fixing
<1>2. /\ Head(pages) = pages[1] /\ 1 \in DOMAIN pages /\ Head(pages) \in FixedPage
      /\ Tail(pages) \in Seq(FixedPage) /\ \A n \in DOMAIN pages : n \in Nat \ {0} /\ pages[n] \in FixedPage
  BY <1>1
<1>3. \A n \in DOMAIN Tail(pages) :
        n + 1 \in DOMAIN pages /\ Tail(pages)[n] = pages[n + 1] /\ n \in Nat \ {0}
  BY <1>1
<1>4. Head(pages).addr \in Nat /\ Head(pages).type \in Pages
  BY <1>2 DEF FixedPage
<1>5. Fixed[Head(pages).type] \in Nat \ {0}
  BY <1>4, AllocatorAssumption DEF FixedTypes
<1>6. Head(pages).addr % Fixed[Head(pages).type] = 0
  BY <1>2 DEF Fixing
<1>7. Multiple(Head(pages).addr, Fixed[Head(pages).type])
  BY <1>4, <1>5, <1>6, MultipleIs
<1>8. ASSUME NEW n \in DOMAIN pages PROVE Head(pages).addr <= pages[n].addr
  <2>1. n = 1 \/ 1 < n
    BY <1>2
  <2>2. 1 < n => pages[1].addr < pages[n].addr
    BY <1>2 DEF Fixing
  <2>3. pages[n].addr \in Nat
    BY <1>2 DEF FixedPage
  <2> QED
    BY <1>2, <1>4, <2>1, <2>2, <2>3
<1> QED
  BY <1>2, <1>3, <1>4, <1>5, <1>7, <1>8

\* The untyped of a fixed address.
LEMMA ContainerIs ==
  ASSUME Inv, NEW addr \in Nat, Containing(addr) # {}
  PROVE  LET k == Min(Containing(addr))
         IN  k \in DOMAIN boot.device /\ boot.device[k].base <= addr /\ addr < boot.device[k].end
<1>1. DOMAIN boot.device \subseteq Nat
  BY DeviceNumbers
<1>2. Min(Containing(addr)) \in Containing(addr)
  BY <1>1, MinIsIn DEF Containing
<1> DEFINE k == Min(Containing(addr))
<1> HIDE DEF k
<1>3. k \in DOMAIN boot.device /\ addr \in Addresses(boot.device[k])
  BY <1>2 DEF k, Containing
<1>4. boot.device[k].base \in Nat /\ boot.device[k].end \in Nat
  BY <1>3, DeviceNumbers
<1> QED
  BY <1>3, <1>4 DEF Addresses, k

LEMMA RefuseFixedDevice ==
  ASSUME Inv, DeviceInv, RefuseFixed
  PROVE  DeviceInv'
<1> DEFINE page == Head(pages)
           addr == page.addr
           reason == Refusal(addr)
<1>1. /\ pc = "fixed" /\ pc \notin Booting /\ pc \in AfterReserve /\ pages # <<>> /\ reason # "ok"
      /\ Raise(reason) /\ UNCHANGED <<inputs, tool, kernel>>
  BY DEF RefuseFixed, Booting, AfterReserve
<1>2. boot' = boot /\ pages' = pages /\ lastFixed' = lastFixed /\ objects' = objects
      /\ raised' = reason
  BY <1>1 DEF inputs, tool, Raise
<1>3. Fixing /\ WatermarkPlan
  BY DEF DeviceInv
<1>4. /\ page = pages[1] /\ 1 \in DOMAIN pages /\ addr \in Nat /\ Fixed[page.type] \in Nat \ {0}
  BY <1>1, <1>3, PageIs
<1>5. ASSUME reason \in {"not in order", "below watermark", "not in untyped region"}
      PROVE  \/ addr < TableEnd /\ addr + Fixed[page.type] > TableBase
             \/ \E n \in DOMAIN objects :
                  /\ objects[n].phys = lastFixed - Fixed[objects[n].type]
                  /\ Overlap(page, [addr |-> objects[n].phys, type |-> objects[n].type])
  <2>1. CASE addr < lastFixed
    <3>1. lastFixed # 0 /\ lastFixed \in Nat
      BY <1>3, <1>4, <2>1 DEF Fixing
    <3>2. PICK n \in DOMAIN objects : Behind(lastFixed, objects[n])
      BY <1>3, <3>1 DEF Fixing
    <3> DEFINE o == objects[n]
    <3>3. /\ o.type \in Pages /\ o.phys \in Nat /\ o.phys + Fixed[o.type] = lastFixed
          /\ o.phys <= addr
      BY <1>4, <3>2 DEF Behind
    <3>4. Fixed[o.type] \in Nat \ {0}
      BY <3>3, AllocatorAssumption DEF FixedTypes
    <3>5. o.phys = lastFixed - Fixed[o.type] /\ addr < o.phys + Fixed[o.type]
          /\ o.phys < addr + Fixed[page.type]
      <4> HIDE DEF o, addr, page
      <4> QED
        BY <1>4, <2>1, <3>1, <3>3, <3>4
    <3>6. Overlap(page, [addr |-> o.phys, type |-> o.type])
      BY <3>5 DEF Overlap
    <3> QED
      BY <3>5, <3>6
  <2>2. CASE ~(addr < lastFixed)
    <3> DEFINE k == Min(Containing(addr))
               wm == watermark[k]
    <3>0. lastFixed \in Nat /\ addr >= lastFixed
      BY <1>3, <1>4, <2>2 DEF Fixing
    <3>1. Containing(addr) # {} /\ addr < wm
      <4>1. Refusal(addr) = "not in order" => FALSE
        BY <1>4, <2>2, <3>0 DEF Refusal
      <4>2. Refusal(addr) \in {"not in any device untyped", "below watermark",
                               "negative shift count", "ok", "not in order"}
        BY DEF Refusal
      <4>3. Refusal(addr) = "below watermark"
        BY <1>5, <4>1, <4>2
      <4> HIDE DEF addr
      <4>4. Containing(addr) # {}
        BY <1>4, <3>0, <4>3 DEF Refusal
      <4>5. addr < wm
        BY <1>4, <3>0, <4>3, <4>4 DEF Refusal
      <4> QED
        BY <4>4, <4>5
    <3>2. k \in DOMAIN boot.device /\ boot.device[k].base <= addr
      <4> HIDE DEF addr
      <4> QED
        BY <1>4, <3>1, ContainerIs
    <3>3. Explained(k) /\ wm \in Nat /\ boot.device[k].base \in Nat
      BY <1>1, <1>3, <3>2, DeviceNumbers DEF Fixing, WatermarkPlan
    <3>4. ~(wm <= lastFixed) /\ wm # boot.device[k].base /\ ~(wm <= addr)
      <4> HIDE DEF wm, k, addr
      <4> QED
        BY <1>4, <3>0, <3>1, <3>2, <3>3
    <3>5. TableBase <= boot.device[k].base /\ wm <= TableEnd
      BY <3>3, <3>4 DEF Explained
    <3>6. addr < TableEnd /\ addr + Fixed[page.type] > TableBase
      <4>1. TableBase \in Nat /\ TableEnd \in Nat
        BY DeviceNumbers
      <4> HIDE DEF wm, k, addr, page
      <4> QED
        BY <1>4, <3>1, <3>2, <3>3, <3>5, <4>1
    <3> QED
      BY <3>6
  <2> QED
    BY <2>1, <2>2
<1>6. RefusedForCause'
  <2>1. TableEnd' = TableEnd /\ TableBase' = TableBase
    BY <1>2 DEF TableEnd, TableBase
  <2> HIDE DEF reason
  <2> QED
    BY <1>2, <1>5, <2>1 DEF RefusedForCause
<1> HIDE DEF reason
<1> QED
  BY <1>1, <1>6, DeviceRaise

\* A page that the tool accepts is where its untyped goes on, or behind that.
LEMMA AcceptedIs ==
  ASSUME Inv, DeviceInv, pc = "fixed", pages # <<>>, Refusal(Head(pages).addr) = "ok"
  PROVE  LET addr == Head(pages).addr
             k == Min(Containing(addr))
             wm == watermark[k]
         IN  /\ lastFixed \in Nat /\ lastFixed <= addr /\ k \in DOMAIN boot.device
             /\ boot.device[k].end \in Nat /\ addr < boot.device[k].end
             /\ wm \in Nat /\ wm <= addr /\ (wm # addr => wm # 0)
             /\ EndsAt(boot, invocations, wm, k, Len(invocations))
<1> DEFINE addr == Head(pages).addr
           k == Min(Containing(addr))
           wm == watermark[k]
<1>1. addr \in Nat /\ lastFixed \in Nat /\ WatermarkPlan
  BY PageIs DEF DeviceInv, Fixing
<1> HIDE DEF addr
<1>2. Refusal(addr) = "ok"
  BY DEF addr
<1>3. lastFixed <= addr
  BY <1>1, <1>2 DEF Refusal
<1>4. Containing(addr) # {}
  BY <1>1, <1>2, <1>3 DEF Refusal
<1>5. k \in DOMAIN boot.device /\ addr < boot.device[k].end
  BY <1>1, <1>4, ContainerIs
<1>6. boot.device[k].end \in Nat
  BY <1>5, DeviceNumbers
<1> HIDE DEF k
<1>7. wm \in Nat /\ EndsAt(boot, invocations, wm, k, Len(invocations))
  <2>1. pc \in AfterReserve
    BY DEF AfterReserve
  <2> QED
    BY <1>1, <1>5, <2>1 DEF WatermarkPlan
<1>8. ~(addr < wm) /\ ~(wm = 0 /\ addr # 0)
  BY <1>1, <1>2, <1>3, <1>4 DEF Refusal, k
<1>9. wm <= addr /\ (wm # addr => wm # 0)
  BY <1>1, <1>7, <1>8
<1> QED
  BY <1>1, <1>3, <1>5, <1>6, <1>7, <1>9 DEF k, addr

\* One object is made in a device untyped, where the plan for it ends.
Makes(k, type, size, addr, bytes) ==
  /\ pc = "fixed" /\ pc' = "fixed" /\ UNCHANGED inputs /\ UNCHANGED kernel /\ raised' = raised
  /\ k \in DOMAIN boot.device /\ type \in Pages \cup {"Untyped"} /\ MakeFixed(k, type, size, addr)
  /\ EndsAt(boot, invocations, addr, k, Len(invocations)) /\ watermark[k] = addr
  /\ bytes \in Nat \ {0} /\ KernelSize(type, size) = bytes
  /\ (IF type = "Untyped" THEN size ELSE Fixed[type]) = bytes
  /\ Multiple(addr, bytes)
  /\ addr + bytes <= boot.device[k].end \/ type \in Pages

LEMMA OneMade ==
  ASSUME Inv, DeviceInv, NEW k, NEW type, NEW size, NEW addr, NEW bytes,
         Makes(k, type, size, addr, bytes)
  PROVE  /\ DevicePlan' /\ KernelFollows' /\ WatermarkPlan' /\ Ending'
         /\ \A i \in DOMAIN boot.device :
              watermark'[i] = IF i = k THEN addr + bytes ELSE watermark[i]
<1> DEFINE inv == Retype(Device(k), type, size, capSlot, 1, addr)
<1> USE DEF Makes
<1>1. /\ inv.ut = Device(k) /\ inv.ut[2] = k /\ inv.type = type /\ inv.size = size /\ inv.count = 1
      /\ inv.planned = addr
  BY DEF Retype, Device
<1>2. invocations' = Append(invocations, inv)
  BY DEF MakeFixed
<1> HIDE DEF inv
<1>3. Kernel(inv) = bytes
  BY <1>1 DEF Kernel
<1>4. addr \in Nat
  BY DEF EndsAt
<1>5. KernelEnd(inv) = addr + bytes
  <2>1. 1 * bytes = bytes
    OBVIOUS
  <2> QED
    BY <1>1, <1>3, <2>1 DEF KernelEnd
<1>6. Counted(inv)
  <2>1. 1 \in 1..FanOut
    BY AllocatorAssumption
  <2>2. type \in Types
    BY DEF Types, FixedTypes
  <2> QED
    BY <1>1, <2>1, <2>2 DEF Counted
<1>7. Planted(boot, inv)
  BY <1>1, <1>3, <1>4, <1>5 DEF Planted
<1>8. DevicePlan /\ WatermarkPlan
  BY DEF DeviceInv
<1>9. EndsAt(boot, invocations, inv.planned, k, Len(invocations))
  BY <1>1
<1>10. /\ DevicePlan' /\ Grows
       /\ EndsAt(boot, invocations', addr + bytes, k, Len(invocations'))
       /\ \A i, a : i # k /\ EndsAt(boot, invocations, a, i, Len(invocations)) =>
            EndsAt(boot, invocations', a, i, Len(invocations'))
  <2>1. /\ DevicePlan' /\ Grows
        /\ EndsAt(boot, invocations', KernelEnd(inv), k, Len(invocations'))
        /\ \A i, a : i # k /\ EndsAt(boot, invocations, a, i, Len(invocations)) =>
             EndsAt(boot, invocations', a, i, Len(invocations'))
    BY <1>1, <1>2, <1>6, <1>7, <1>8, <1>9, OnePlanted
  <2> QED
    BY <1>5, <2>1
<1>11. /\ DOMAIN watermark = DOMAIN boot.device
       /\ \A i \in DOMAIN boot.device : watermark[i] \in Nat /\ boot.device[i].base <= watermark[i]
       /\ \A i \in DOMAIN boot.device : EndsAt(boot, invocations, watermark[i], i, Len(invocations))
  <2>1. pc \in AfterReserve
    BY DEF AfterReserve
  <2> QED
    BY <1>8, <2>1 DEF WatermarkPlan
<1>12. watermark' = [watermark EXCEPT ![k] = addr + bytes]
  BY DEF MakeFixed
<1>13. /\ DOMAIN watermark' = DOMAIN boot.device
       /\ \A i \in DOMAIN boot.device :
            watermark'[i] = IF i = k THEN addr + bytes ELSE watermark[i]
  BY <1>11, <1>12
<1>14. ASSUME NEW i \in DOMAIN boot.device
       PROVE  /\ EndsAt(boot, invocations', watermark'[i], i, Len(invocations'))
              /\ watermark'[i] \in Nat /\ boot.device[i].base <= watermark'[i]
  <2>1. EndsAt(boot, invocations', watermark'[i], i, Len(invocations'))
    <3>1. CASE i = k
      BY <1>10, <1>13, <3>1
    <3>2. CASE i # k
      BY <1>10, <1>11, <1>13, <3>2
    <3> QED
      BY <3>1, <3>2
  <2> QED
    BY <2>1 DEF EndsAt
<1>15. boot' = boot
  BY DEF inputs
<1>16. WatermarkPlan'
  <2>1. pc' \notin BeforeReserve /\ pc' \notin {"root cnode", "system cnode"} /\ pc' # "table"
    BY DEF BeforeReserve
  <2> QED
    BY <1>13, <1>14, <1>15, <2>1 DEF WatermarkPlan
<1>17. KernelFollows'
  <2>1. pc \notin Booting
    BY DEF Booting
  <2> QED
    BY <2>1, KernelQuiet
<1>18. Ending'
  BY EndingQuiet DEF DeviceInv
<1> QED
  BY <1>10, <1>13, <1>16, <1>17, <1>18

LEMMA PadFixedDevice ==
  ASSUME PowersOfTwo, Inv, DeviceInv, PadFixed
  PROVE  DeviceInv'
<1> DEFINE addr == Head(pages).addr
           k == Min(Containing(addr))
           wm == watermark[k]
           bytes == PadSize(wm, addr)
<1>1. /\ pc = "fixed" /\ pc' = "fixed" /\ pages # <<>> /\ Refusal(addr) = "ok" /\ wm # addr
      /\ MakeFixed(k, "Untyped", bytes, wm) /\ UNCHANGED inputs /\ UNCHANGED kernel
      /\ raised' = raised /\ pages' = pages /\ lastFixed' = lastFixed /\ objects' = objects
  BY DEF PadFixed
<1>2. /\ k \in DOMAIN boot.device /\ boot.device[k].end \in Nat /\ addr < boot.device[k].end
      /\ wm \in Nat /\ wm <= addr /\ wm # 0
      /\ EndsAt(boot, invocations, wm, k, Len(invocations))
  <2>1. pc = "fixed" /\ pages # <<>> /\ Refusal(addr) = "ok" /\ wm # addr
    BY <1>1
  <2>2. /\ k \in DOMAIN boot.device /\ boot.device[k].end \in Nat /\ addr < boot.device[k].end
        /\ wm \in Nat /\ wm <= addr /\ (wm # addr => wm # 0)
        /\ EndsAt(boot, invocations, wm, k, Len(invocations))
    BY <2>1, AcceptedIs
  <2> HIDE DEF addr, k, wm
  <2> QED
    BY <2>1, <2>2
<1>3. addr \in Nat /\ Fixing
  BY <1>1, PageIs DEF DeviceInv
<1>4. bytes \in Nat \ {0} /\ Multiple(wm, bytes) /\ wm + bytes <= addr
  <2> HIDE DEF addr, wm
  <2>1. wm \in Nat \ {0} /\ wm < addr
    BY <1>1, <1>2, <1>3
  <2> QED
    BY <1>3, <2>1, PadIs
<1>5. KernelSize("Untyped", bytes) = bytes
  BY DEF KernelSize
<1>6. "Untyped" \in Pages \cup {"Untyped"}
  OBVIOUS
<1>7. watermark[k] = wm
  OBVIOUS
<1> HIDE DEF bytes, wm, k, addr
<1>8. wm + bytes <= boot.device[k].end
  BY <1>2, <1>3, <1>4
<1>9. /\ DevicePlan' /\ KernelFollows' /\ WatermarkPlan' /\ Ending'
      /\ \A i \in DOMAIN boot.device :
           watermark'[i] = IF i = k THEN wm + bytes ELSE watermark[i]
  <2>1. Makes(k, "Untyped", bytes, wm, bytes)
    BY <1>1, <1>2, <1>4, <1>5, <1>6, <1>7, <1>8 DEF Makes
  <2> QED
    BY <2>1, OneMade
<1>10. Fixing'
  <2>1. boot' = boot
    BY <1>1 DEF inputs
  <2>2. lastFixed # 0 => \E n \in DOMAIN objects : Behind(lastFixed, objects[n])'
    BY <1>1, <1>3 DEF Fixing, Behind
  <2>3. pc \in AfterReserve
    BY <1>1 DEF AfterReserve
  <2>4. ASSUME NEW i \in DOMAIN boot.device PROVE Explained(i)'
    <3>1. TableEnd' = TableEnd /\ TableBase' = TableBase
      BY <2>1 DEF TableEnd, TableBase
    <3>2. CASE i = k
      <4>1. watermark'[i] <= addr
        BY <1>4, <1>9, <3>2
      <4> QED
        BY <1>1, <4>1 DEF Explained, addr
    <3>3. CASE i # k
      <4>1. watermark'[i] = watermark[i]
        BY <1>9, <3>3
      <4>2. Explained(i)
        BY <1>3, <2>3 DEF Fixing
      <4> QED
        BY <1>1, <2>1, <3>1, <4>1, <4>2 DEF Explained
    <3> QED
      BY <3>2, <3>3
  <2> QED
    BY <1>1, <1>3, <2>1, <2>2, <2>4 DEF Fixing
<1> QED
  BY <1>9, <1>10 DEF DeviceInv

\* The object of a fixed page is at its address.
LEMMA FixedObject ==
  ASSUME NEW old, IsList(old), NEW type \in Pages, NEW slot, NEW addr \in Nat
  PROVE  LET all == old \o NewObjects(type, 0, slot, 1, addr)
         IN  \E n \in DOMAIN all : all[n].type = type /\ all[n].phys = addr
<1> DEFINE new == NewObjects(type, 0, slot, 1, addr)
           all == old \o new
<1>1. IsList(new) /\ Len(new) = 1
  BY ListOfFunction DEF NewObjects
<1>2. new[1].type = type /\ new[1].phys = addr
  <2>1. ToolSize(type, 0) \in Nat
    <3>1. ToolSize(type, 0) = Fixed[type] /\ Fixed[type] \in Nat
      BY SizesOf, AllocatorAssumption DEF FixedTypes
    <3> QED
      BY <3>1
  <2>2. addr + (1 - 1) * ToolSize(type, 0) = addr
    BY <2>1
  <2>3. new[1].type = type /\ new[1].phys = addr + (1 - 1) * ToolSize(type, 0)
    BY DEF NewObjects
  <2> QED
    BY <2>2, <2>3
<1>3. Len(old) \in Nat
  BY ListIs
<1> HIDE DEF new
<1>4. IsList(all) /\ Len(all) = Len(old) + 1 /\ \A n \in 1..1 : all[Len(old) + n] = new[n]
  <2>1. /\ IsList(all) /\ Len(all) = Len(old) + Len(new)
        /\ \A n \in 1..Len(new) : all[Len(old) + n] = new[n]
    <3>1. IsList(new)
      BY <1>1
    <3> QED
      BY <3>1, LongerList
  <2> QED
    BY <1>1, <2>1
<1>5. DOMAIN all = 1..Len(old) + 1
  BY <1>4, ListIs
<1> HIDE DEF all
<1>6. all[Len(old) + 1] = new[1]
  <2>1. 1 \in 1..1
    OBVIOUS
  <2> QED
    BY <1>4, <2>1
<1>7. Len(old) + 1 \in DOMAIN all
  BY <1>3, <1>5
<1> QED
  BY <1>2, <1>6, <1>7 DEF all, new

LEMMA AllocateFixedDevice ==
  ASSUME Inv, DeviceInv, AllocateFixed
  PROVE  DeviceInv'
<1> DEFINE page == Head(pages)
           addr == page.addr
           k == Min(Containing(addr))
           bytes == Fixed[page.type]
<1>1. /\ pc = "fixed" /\ pc' = "fixed" /\ pages # <<>> /\ Refusal(addr) = "ok"
      /\ watermark[k] = addr
      /\ MakeFixed(k, page.type, 0, addr) /\ UNCHANGED inputs /\ UNCHANGED kernel
      /\ raised' = raised /\ pages' = Tail(pages) /\ lastFixed' = addr + bytes
      /\ objects' = objects \o NewObjects(page.type, 0, capSlot, 1, addr)
  BY DEF AllocateFixed
<1>2. /\ k \in DOMAIN boot.device /\ lastFixed \in Nat /\ lastFixed <= addr
      /\ EndsAt(boot, invocations, watermark[k], k, Len(invocations))
  BY <1>1, AcceptedIs
<1>3. Fixing
  BY DEF DeviceInv
<1>4. /\ addr \in Nat /\ page.type \in Pages /\ bytes \in Nat \ {0} /\ Multiple(addr, bytes)
      /\ \A n \in DOMAIN pages : addr <= pages[n].addr
      /\ Tail(pages) \in Seq(FixedPage)
      /\ \A n \in DOMAIN Tail(pages) :
           n + 1 \in DOMAIN pages /\ Tail(pages)[n] = pages[n + 1] /\ n \in Nat \ {0}
  BY <1>1, <1>3, PageIs
<1>5. KernelSize(page.type, 0) = bytes
  BY <1>4, SizesOf DEF FixedTypes
<1>6. page.type # "Untyped" /\ page.type \in Pages \cup {"Untyped"}
  BY <1>4 DEF Pages
<1> DEFINE type == page.type
<1>7. (IF type = "Untyped" THEN 0 ELSE Fixed[type]) = bytes
  BY <1>6
<1> HIDE DEF bytes, k, addr, type, page
<1>8. MakeFixed(k, type, 0, addr) /\ KernelSize(type, 0) = bytes /\ type \in Pages
      /\ type \in Pages \cup {"Untyped"}
      /\ objects' = objects \o NewObjects(type, 0, capSlot, 1, addr)
  BY <1>1, <1>4, <1>5 DEF type
<1>9. EndsAt(boot, invocations, addr, k, Len(invocations))
  BY <1>1, <1>2
<1>10. /\ DevicePlan' /\ KernelFollows' /\ WatermarkPlan' /\ Ending'
       /\ \A i \in DOMAIN boot.device :
            watermark'[i] = IF i = k THEN addr + bytes ELSE watermark[i]
  <2>1. Makes(k, type, 0, addr, bytes)
    BY <1>1, <1>2, <1>4, <1>7, <1>8, <1>9 DEF Makes
  <2> QED
    BY <2>1, OneMade
<1>11. Fixing'
  <2>1. boot' = boot
    BY <1>1 DEF inputs
  <2>2. \E n \in DOMAIN objects' : Behind(lastFixed, objects[n])'
    <3> DEFINE all == objects \o NewObjects(type, 0, capSlot, 1, addr)
    <3>1. IsList(objects)
      BY DEF Inv, Typed
    <3>2. \E n \in DOMAIN all : all[n].type = type /\ all[n].phys = addr
      <4>1. type \in Pages /\ addr \in Nat
        BY <1>4, <1>8
      <4> QED
        BY <3>1, <4>1, FixedObject
    <3>3. objects' = all
      BY <1>8
    <3> HIDE DEF all
    <3>4. PICK n \in DOMAIN objects' : objects'[n].type = type /\ objects'[n].phys = addr
      BY <3>2, <3>3
    <3>5. \A m \in DOMAIN pages' : addr <= pages'[m].addr
      BY <1>1, <1>4
    <3>6. addr + Fixed[type] = lastFixed'
      BY <1>1 DEF bytes, type
    <3> QED
      BY <1>4, <1>8, <3>4, <3>5, <3>6 DEF Behind
  <2>3. pc \in AfterReserve
    BY <1>1 DEF AfterReserve
  <2>4. lastFixed' \in Nat /\ addr <= lastFixed'
    BY <1>1, <1>4
  <2>5. ASSUME NEW i \in DOMAIN boot.device PROVE Explained(i)'
    <3>1. TableEnd' = TableEnd /\ TableBase' = TableBase
      BY <2>1 DEF TableEnd, TableBase
    <3>2. CASE i = k
      <4>1. watermark'[i] = lastFixed'
        BY <1>1, <1>10, <3>2
      <4>2. watermark'[i] <= lastFixed'
        BY <2>4, <4>1
      <4> QED
        BY <4>2 DEF Explained
    <3>3. CASE i # k
      <4>1. watermark'[i] = watermark[i]
        BY <1>10, <3>3
      <4>2. Explained(i)
        BY <1>3, <2>3 DEF Fixing
      <4>3. watermark[i] \in Nat
        BY DEF DeviceInv, WatermarkPlan
      <4>4. CASE watermark[i] <= lastFixed
        <5>1. watermark'[i] <= lastFixed'
          BY <1>2, <1>4, <2>4, <4>1, <4>3, <4>4
        <5> QED
          BY <5>1 DEF Explained
      <4>5. CASE watermark[i] = boot.device[i].base
        BY <2>1, <4>1, <4>5 DEF Explained
      <4>6. CASE TableBase <= boot.device[i].base /\ watermark[i] <= TableEnd
        BY <2>1, <3>1, <4>1, <4>6 DEF Explained
      <4>7. CASE pages # <<>> /\ watermark[i] <= Head(pages).addr
        <5>1. watermark[i] <= addr
          BY <4>7 DEF addr, page
        <5>2. watermark'[i] <= lastFixed'
          BY <1>4, <2>4, <4>1, <4>3, <5>1
        <5> QED
          BY <5>2 DEF Explained
      <4> QED
        BY <4>2, <4>4, <4>5, <4>6, <4>7 DEF Explained
    <3> QED
      BY <3>2, <3>3
  <2>6. /\ pages' \in Seq(FixedPage)
        /\ \A m, n \in DOMAIN pages' : m < n => pages'[m].addr < pages'[n].addr
        /\ \A n \in DOMAIN pages' : pages'[n].addr % Fixed[pages'[n].type] = 0
    <3> DEFINE rest == Tail(pages)
    <3>1. \A n \in DOMAIN rest : rest[n].addr % Fixed[rest[n].type] = 0
      BY <1>3, <1>4 DEF Fixing
    <3>2. \A m, n \in DOMAIN rest : m < n => rest[m].addr < rest[n].addr
      <4> SUFFICES ASSUME NEW m \in DOMAIN rest, NEW n \in DOMAIN rest, m < n
                   PROVE  rest[m].addr < rest[n].addr
        OBVIOUS
      <4>1. /\ m + 1 \in DOMAIN pages /\ n + 1 \in DOMAIN pages /\ m + 1 < n + 1
            /\ rest[m] = pages[m + 1] /\ rest[n] = pages[n + 1]
        BY <1>4
      <4>2. pages[m + 1].addr < pages[n + 1].addr
        BY <1>3, <4>1 DEF Fixing
      <4> QED
        BY <4>1, <4>2
    <3>3. pages' = rest
      BY <1>1
    <3> HIDE DEF rest
    <3>4. rest \in Seq(FixedPage)
      BY <1>4 DEF rest
    <3> QED
      BY <3>1, <3>2, <3>3, <3>4
  <2> QED
    BY <2>1, <2>2, <2>4, <2>5, <2>6 DEF Fixing
<1> QED
  BY <1>10, <1>11 DEF DeviceInv

-----------------------------------------------------------------------------
(* Device memory: the boot *)

\* What only moves on.
LEMMA QuietDevice ==
  ASSUME Inv, DeviceInv, UNCHANGED <<inputs, tool, kernel, raised>>,
         pc' \in AfterReserve => pc \in AfterReserve, pc' \notin BeforeReserve,
         pc \notin {"failed", "boot failed"}, pc' \notin {"failed", "boot failed"}
  PROVE  DeviceInv'
<1>1. /\ boot' = boot /\ invocations' = invocations /\ watermark' = watermark
      /\ objects' = objects /\ pages' = pages /\ lastFixed' = lastFixed
      /\ done' = done /\ free' = free /\ cnode' = cnode /\ raised' = raised
  BY DEF inputs, tool, kernel
<1>2. DevicePlan'
  BY <1>1 DEF DeviceInv, DevicePlan
<1>3. KernelFollows'
  BY <1>1 DEF DeviceInv, KernelFollows, Untypeds, RegionOf, Normal, Device, InPlace, SlotsOf, Kernel
<1>4. WatermarkPlan'
  <2>1. pc' \notin {"root cnode", "system cnode"} /\ pc' # "table"
    BY DEF BeforeReserve
  <2> QED
    BY <1>1, <2>1 DEF DeviceInv, WatermarkPlan
<1>5. Fixing'
  BY <1>1, FixingStays DEF DeviceInv
<1>6. Ending'
  BY <1>1, EndingQuiet DEF DeviceInv
<1> QED
  BY <1>2, <1>3, <1>4, <1>5, <1>6 DEF DeviceInv

LEMMA DoneDevice ==
  ASSUME Inv, DeviceInv, FixedDone \/ BootDone
  PROVE  DeviceInv'
<1>1. /\ UNCHANGED <<inputs, tool, kernel, raised>>
      /\ \/ pc = "fixed" /\ pc' = "objects"
         \/ pc = "boot" /\ pc' = "running"
  BY DEF FixedDone, BootDone
<1>2. /\ pc' \in AfterReserve => pc \in AfterReserve
      /\ pc' \notin BeforeReserve /\ pc \notin {"failed", "boot failed"}
      /\ pc' \notin {"failed", "boot failed"}
  BY <1>1 DEF AfterReserve, BeforeReserve
<1> QED
  BY <1>1, <1>2, QuietDevice

\* What the kernel has to make in normal memory fits.
LEMMA NormalFits ==
  ASSUME Inv, NEW n \in DOMAIN invocations, n > done, OfNormal(invocations[n])
  PROVE  LET inv == invocations[n]
             end == RoundUp(free[inv.ut], Kernel(inv)) + inv.count * Kernel(inv)
         IN  end \in Nat /\ RegionOf(inv.ut).end \in Nat /\ end <= RegionOf(inv.ut).end
<1> DEFINE inv == invocations[n]
           k == inv.ut[2]
           start == RoundUp(free[inv.ut], Kernel(inv))
<1>1. /\ start \in Nat /\ inv.count * Kernel(inv) \in Nat /\ ToolEnd(inv) \in Nat
      /\ start + inv.count * Kernel(inv) <= ToolEnd(inv)
  BY KernelBelowPlan
<1>2. /\ k \in DOMAIN boot.normal /\ inv.ut = Normal(k)
      /\ ToolEnd(inv) <= boot.normal[k].base + point[k]
  BY DEF Inv, NormalPlan, Bumped
<1>3. /\ boot.normal[k].base + point[k] <= boot.normal[k].end /\ point[k] \in Nat
      /\ boot.normal[k].base \in Nat /\ boot.normal[k].end \in Nat
  BY <1>2, InputsAre DEF Inv, NormalPlan, Typed
<1>4. RegionOf(inv.ut) = boot.normal[k]
  BY <1>2 DEF RegionOf, Normal
<1> HIDE DEF inv, k, start
<1>5. /\ start + inv.count * Kernel(inv) \in Nat /\ RegionOf(inv.ut).end \in Nat
      /\ start + inv.count * Kernel(inv) <= RegionOf(inv.ut).end
  BY <1>1, <1>2, <1>3, <1>4
<1> QED
  BY <1>5 DEF inv, start

\* What it has to make in device memory it will make where it is planned.
LEMMA DeviceFits ==
  ASSUME Inv, DeviceInv, done < Len(invocations), ~OfNormal(invocations[done + 1])
  PROVE  LET inv == invocations[done + 1]
             k == inv.ut[2]
         IN  /\ k \in DOMAIN boot.device /\ inv.ut = Device(k) /\ Planted(boot, inv)
             /\ RegionOf(inv.ut) = boot.device[k] /\ boot.device[k].end \in Nat
             /\ free[inv.ut] = inv.planned
             /\ RoundUp(free[inv.ut], Kernel(inv)) = inv.planned
             /\ EndsAt(boot, invocations, inv.planned, k, done)
<1> DEFINE inv == invocations[done + 1]
           k == inv.ut[2]
<1>1. done + 1 \in DOMAIN invocations /\ done \in Nat
  BY PerformedIs
<1>2. (done + 1) - 1 = done
  BY <1>1
<1>3. Planted(boot, inv) /\ EndsAt(boot, invocations, inv.planned, k, done)
  BY <1>1, <1>2 DEF DeviceInv, DevicePlan
<1>4. k \in DOMAIN boot.device /\ inv.ut = Device(k)
  BY <1>3 DEF Planted
<1>5. EndsAt(boot, invocations, free[Device(k)], k, done)
  BY <1>4 DEF DeviceInv, KernelFollows
<1>6. boot.device[k].base \in Nat /\ boot.device[k].end \in Nat
  BY <1>4, DeviceNumbers
<1>7. free[Device(k)] = inv.planned
  <2> HIDE DEF inv, k
  <2> QED
    BY <1>3, <1>5, <1>6, EndsAtUnique
<1>8. RegionOf(inv.ut) = boot.device[k]
  BY <1>4 DEF RegionOf, Device
<1> HIDE DEF inv, k
<1>9. Kernel(inv) \in Nat \ {0} /\ inv.planned \in Nat /\ Multiple(inv.planned, Kernel(inv))
  BY <1>3 DEF Planted
<1>10. RoundUp(inv.planned, Kernel(inv)) = inv.planned
  BY <1>9, AlignedStays
<1> QED
  BY <1>3, <1>4, <1>6, <1>7, <1>8, <1>10 DEF inv, k

LEMMA OneTimes == \A n \in Nat : 1 * n = n
OBVIOUS

LEMMA NotAbove == \A m, n \in Nat : m > n => ~(m <= n)
OBVIOUS

\* No slot is used twice.
LEMMA FreshSlots ==
  ASSUME Inv, DeviceInv, done < Len(invocations)
  PROVE  SlotsOf(invocations[done + 1]) \cap DOMAIN cnode = {}
<1> SUFFICES ASSUME NEW s \in DOMAIN cnode, s \in SlotsOf(invocations[done + 1]) PROVE FALSE
  OBVIOUS
<1> DEFINE next == invocations[done + 1]
<1>1. done + 1 \in DOMAIN invocations /\ done \in Nat /\ DOMAIN invocations = 1..Len(invocations)
      /\ Len(invocations) \in Nat
  BY PerformedIs
<1>2. PICK m \in 1..done : s \in SlotsOf(invocations[m])
  BY DEF DeviceInv, KernelFollows
<1> DEFINE old == invocations[m]
<1>3. m \in DOMAIN invocations /\ m < done + 1
  BY <1>1
<1>4. /\ old.slot \in Int /\ old.count \in Nat /\ next.slot \in Int /\ next.count \in Nat
      /\ old.slot + old.count <= next.slot
  BY <1>1, <1>3 DEF Inv, SlotPlan
<1>5. s \in old.slot..old.slot + old.count - 1 /\ s \in next.slot..next.slot + next.count - 1
  BY <1>2 DEF SlotsOf
<1> HIDE DEF old, next
<1> QED
  BY <1>4, <1>5

\* The only invocation that can fail is a page that reaches beyond its untyped.
LEMMA FailsAtEnd ==
  ASSUME Inv, DeviceInv, PerformRetype, pc' = "boot failed"
  PROVE  LET inv == invocations[done + 1]
         IN  /\ raised' = "not enough memory" /\ inv.ut[1] = "device" /\ inv.type \in Pages
             /\ inv.planned + Fixed[inv.type] > RegionOf(inv.ut).end
<1> DEFINE inv == invocations[done + 1]
           size == KernelSize(inv.type, inv.size)
           start == RoundUp(free[inv.ut], size)
           slots == inv.slot..inv.slot + inv.count - 1
           outcome == CASE inv.count \notin 1..FanOut -> "range error"
                        [] slots \cap DOMAIN cnode # {} -> "slot in use"
                        [] start + inv.count * size > RegionOf(inv.ut).end -> "not enough memory"
                        [] OTHER -> "ok"
           end == start + inv.count * size
<1>1. done < Len(invocations)
  BY DEF PerformRetype
<1>2. raised' = outcome /\ outcome # "ok"
  BY DEF PerformRetype
<1>3. done + 1 \in DOMAIN invocations /\ done + 1 > done
  BY <1>1, PerformedIs
<1>4. inv.count \in 1..FanOut
  BY <1>3 DEF DeviceInv, DevicePlan, Counted
<1>5. slots \cap DOMAIN cnode = {}
  BY <1>1, FreshSlots DEF SlotsOf
<1>6. Kernel(inv) = size
  BY DEF Kernel
<1> HIDE DEF inv, size, start, slots
<1>7. raised' = "not enough memory" /\ end > RegionOf(inv.ut).end
  BY <1>2, <1>4, <1>5
<1> HIDE DEF outcome
<1>8. end = RoundUp(free[inv.ut], Kernel(inv)) + inv.count * Kernel(inv)
  BY <1>6 DEF start
<1> HIDE DEF end
<1>9. ~OfNormal(inv)
  <2> SUFFICES ASSUME OfNormal(inv) PROVE FALSE
    OBVIOUS
  <2> DEFINE stop == RoundUp(free[inv.ut], Kernel(inv)) + inv.count * Kernel(inv)
  <2>1. stop \in Nat /\ RegionOf(inv.ut).end \in Nat /\ stop <= RegionOf(inv.ut).end
    BY <1>3, NormalFits DEF inv
  <2>2. end = stop
    BY <1>8
  <2>3. stop > RegionOf(inv.ut).end
    BY <1>7, <2>2
  <2> HIDE DEF stop
  <2> QED
    BY <2>1, <2>3, NotAbove
<1> DEFINE k == inv.ut[2]
<1>10. /\ inv.ut = Device(k) /\ Planted(boot, inv) /\ RegionOf(inv.ut) = boot.device[k]
       /\ boot.device[k].end \in Nat /\ RoundUp(free[inv.ut], Kernel(inv)) = inv.planned
  BY <1>1, <1>9, DeviceFits DEF inv
<1>11. inv.ut[1] = "device"
  <2> HIDE DEF k
  <2> QED
    BY <1>10, SameDevice
<1>12. KernelEnd(inv) \in Nat /\ end = KernelEnd(inv)
  BY <1>8, <1>10, PlantedIs DEF KernelEnd
<1> HIDE DEF k
<1>13. ~(KernelEnd(inv) <= boot.device[k].end)
  <2>1. KernelEnd(inv) > RegionOf(inv.ut).end
    BY <1>7, <1>12
  <2>2. KernelEnd(inv) > boot.device[k].end
    BY <1>10, <2>1
  <2> QED
    BY <1>10, <1>12, <2>2, NotAbove
<1>14. inv.type \in Pages /\ inv.count = 1 /\ inv.planned \in Nat
  BY <1>10, <1>13 DEF Planted, k
<1>15. Kernel(inv) = Fixed[inv.type] /\ Fixed[inv.type] \in Nat
  <2>1. inv.type \in FixedTypes /\ inv.type \notin {"SchedContext", "Untyped"}
    BY <1>14 DEF FixedTypes, Pages
  <2> QED
    BY <2>1, AllocatorAssumption DEF Kernel, KernelSize, ToolSize
<1>16. KernelEnd(inv) = inv.planned + Fixed[inv.type]
  <2> DEFINE bytes == Fixed[inv.type]
  <2>1. KernelEnd(inv) = inv.planned + 1 * bytes /\ bytes \in Nat
    BY <1>14, <1>15 DEF KernelEnd
  <2> HIDE DEF bytes
  <2>2. 1 * bytes = bytes
    BY <2>1, OneTimes
  <2>3. KernelEnd(inv) = inv.planned + bytes
    BY <2>1, <2>2
  <2> QED
    BY <2>3 DEF bytes
<1>17. inv.planned + Fixed[inv.type] > RegionOf(inv.ut).end
  BY <1>7, <1>12, <1>16
<1> QED
  BY <1>7, <1>11, <1>14, <1>17 DEF inv

LEMMA RegionNumbers ==
  ASSUME Inv, NEW ut \in Untypeds
  PROVE  /\ RegionOf(ut).base \in Nat /\ RegionOf(ut).end \in Nat
         /\ RegionOf(ut).base <= RegionOf(ut).end
<1>1. boot \in Boots
  BY DEF Inv, Typed
<1>2. /\ \A k \in DOMAIN boot.normal : /\ boot.normal[k].base \in Nat /\ boot.normal[k].end \in Nat
                                       /\ boot.normal[k].base <= boot.normal[k].end
      /\ \A k \in DOMAIN boot.device : /\ boot.device[k].base \in Nat /\ boot.device[k].end \in Nat
                                       /\ boot.device[k].base <= boot.device[k].end
  BY <1>1, InputsAre
<1>3. \/ \E k \in DOMAIN boot.normal : RegionOf(ut) = boot.normal[k]
      \/ \E k \in DOMAIN boot.device : RegionOf(ut) = boot.device[k]
  BY DEF Untypeds, RegionOf, Normal, Device
<1> QED
  BY <1>2, <1>3

\* Where the objects of the next invocation will end.
LEMMA KernelEndIs ==
  ASSUME Inv, DeviceInv, done < Len(invocations)
  PROVE  LET inv == invocations[done + 1]
             start == RoundUp(free[inv.ut], Kernel(inv))
         IN  /\ inv.ut \in Untypeds
             /\ start + inv.count * Kernel(inv) \in Nat
             /\ RegionOf(inv.ut).base <= start + inv.count * Kernel(inv)
<1> DEFINE inv == invocations[done + 1]
           start == RoundUp(free[inv.ut], Kernel(inv))
           bytes == inv.count * Kernel(inv)
<1>1. done + 1 \in DOMAIN invocations /\ done + 1 > done
  BY PerformedIs
<1>2. inv.ut \in Untypeds /\ Kernel(inv) \in Nat \ {0} /\ bytes \in Nat
  <2>1. CASE OfNormal(inv)
    <3>1. Bumped(inv, point) /\ bytes \in Nat
      BY <1>1, <2>1, KernelBelowPlan DEF Inv, NormalPlan
    <3>2. Kernel(inv) \in Nat \ {0} /\ inv.ut[2] \in DOMAIN boot.normal /\ inv.ut = Normal(inv.ut[2])
      BY <3>1 DEF Bumped, Sized, Kernel
    <3> HIDE DEF inv
    <3>3. Normal(inv.ut[2]) \in Untypeds
      BY <3>2 DEF Untypeds
    <3> QED
      BY <3>1, <3>2, <3>3
  <2>2. CASE ~OfNormal(inv)
    <3>1. inv.ut[2] \in DOMAIN boot.device /\ inv.ut = Device(inv.ut[2]) /\ Planted(boot, inv)
      BY <2>2, DeviceFits
    <3>2. Kernel(inv) \in Nat \ {0} /\ inv.count \in Nat
      BY <3>1 DEF Planted
    <3> HIDE DEF inv
    <3>3. Device(inv.ut[2]) \in Untypeds
      BY <3>1 DEF Untypeds
    <3> QED
      BY <3>1, <3>2, <3>3
  <2> QED
    BY <2>1, <2>2
<1> HIDE DEF inv, bytes
<1>3. RegionOf(inv.ut).base \in Nat /\ free[inv.ut] \in Nat /\ RegionOf(inv.ut).base <= free[inv.ut]
  BY <1>2, RegionNumbers DEF DeviceInv, KernelFollows
<1>4. start \in Nat /\ free[inv.ut] <= start
  BY <1>2, <1>3, RoundUpIs
<1> HIDE DEF start
<1>5. start + bytes \in Nat /\ RegionOf(inv.ut).base <= start + bytes
  BY <1>2, <1>3, <1>4
<1> QED
  BY <1>2, <1>5 DEF inv, start, bytes

\* The kernel performs an invocation.
Failing == pc' = "boot failed"

LEMMA KernelMoves ==
  ASSUME Inv, DeviceInv, PerformRetype, ~Failing
  PROVE  KernelFollows'
<1> DEFINE inv == invocations[done + 1]
           size == KernelSize(inv.type, inv.size)
           start == RoundUp(free[inv.ut], size)
           slots == inv.slot..inv.slot + inv.count - 1
           end == start + inv.count * size
<1>1. /\ done < Len(invocations) /\ UNCHANGED inputs /\ invocations' = invocations
      /\ done' = done + 1 /\ free' = [free EXCEPT ![inv.ut] = end]
      /\ cnode' = [s \in slots \cup DOMAIN cnode |->
           IF s \in slots THEN [type |-> inv.type, base |-> start + (s - inv.slot) * size]
           ELSE cnode[s]]
      /\ ~(end > RegionOf(inv.ut).end)
  <2>1. slots \cap DOMAIN cnode # {} \/ slots \cap DOMAIN cnode = {}
    OBVIOUS
  <2> QED
    BY <2>1 DEF PerformRetype, tool, Failing
<1>2. /\ done + 1 \in DOMAIN invocations /\ done \in Nat /\ DOMAIN invocations = 1..Len(invocations)
      /\ Len(invocations) \in Nat
  BY <1>1, PerformedIs
<1>3. size = Kernel(inv) /\ slots = SlotsOf(inv)
  BY DEF Kernel, SlotsOf
<1>4. inv.ut \in Untypeds /\ end \in Nat /\ RegionOf(inv.ut).base <= end
  <2>1. LET begin == RoundUp(free[inv.ut], Kernel(inv))
        IN  /\ inv.ut \in Untypeds /\ begin + inv.count * Kernel(inv) \in Nat
            /\ RegionOf(inv.ut).base <= begin + inv.count * Kernel(inv)
    BY <1>1, KernelEndIs
  <2> QED
    BY <2>1 DEF Kernel
<1>5. RegionOf(inv.ut).base \in Nat /\ RegionOf(inv.ut).end \in Nat
  BY <1>4, RegionNumbers
<1>6. end \in RegionOf(inv.ut).base..RegionOf(inv.ut).end
  <2> HIDE DEF end
  <2> QED
    BY <1>1, <1>4, <1>5
<1>7. /\ DOMAIN free = Untypeds
      /\ \A k \in DOMAIN boot.device : EndsAt(boot, invocations, free[Device(k)], k, done)
      /\ \A ut \in Untypeds : free[ut] \in RegionOf(ut).base..RegionOf(ut).end
      /\ \A n \in 1..done : ~OfNormal(invocations[n]) => InPlace(invocations[n])
      /\ \A s \in DOMAIN cnode : \E n \in 1..done : s \in SlotsOf(invocations[n])
  BY DEF DeviceInv, KernelFollows, Inv, Typed
<1>8. boot' = boot
  BY <1>1 DEF inputs
<1>9. \A ut \in Untypeds : free'[ut] = IF ut = inv.ut THEN end ELSE free[ut]
  <2> HIDE DEF end
  <2> QED
    BY <1>1, <1>7
<1>10. ~OfNormal(inv) =>
         LET k == inv.ut[2]
         IN  /\ k \in DOMAIN boot.device /\ inv.ut = Device(k) /\ Planted(boot, inv)
             /\ RoundUp(free[inv.ut], Kernel(inv)) = inv.planned
             /\ EndsAt(boot, invocations, inv.planned, k, done)
  BY <1>1, DeviceFits
<1> HIDE DEF inv, size, slots
<1>11. ~OfNormal(inv) => start = inv.planned /\ end = KernelEnd(inv)
  BY <1>3, <1>10 DEF KernelEnd
<1> HIDE DEF start, end
<1>12. ASSUME NEW k \in DOMAIN boot.device
       PROVE  EndsAt(boot, invocations, free'[Device(k)], k, done + 1)
  <2>1. Device(k) \in Untypeds /\ boot.device[k].base \in Nat
    BY DeviceNumbers DEF Untypeds
  <2>2. CASE Device(k) = inv.ut
    <3>1. ~OfNormal(inv) /\ inv.ut[2] = k
      BY <2>2 DEF OfNormal, Device
    <3>2. EndsAt(boot, invocations, inv.planned, k, done) /\ Planted(boot, inv)
      BY <1>10, <3>1
    <3>3. KernelEnd(inv) \in Nat /\ inv.planned <= KernelEnd(inv)
      BY <3>2, PlantedIs
    <3>4. OfDevice(invocations[done + 1], k)
      BY <2>2 DEF OfDevice, inv
    <3>5. \A m \in 1..done : KernelEnd(invocations[m]) \in Int \/ ~OfDevice(invocations[m], k)
      <4>1. TAKE m \in 1..done
      <4>2. m \in DOMAIN invocations
        BY <1>1, <1>2
      <4>3. ASSUME OfDevice(invocations[m], k) PROVE KernelEnd(invocations[m]) \in Int
        <5>1. ~OfNormal(invocations[m])
          BY <4>3 DEF OfDevice, OfNormal, Device
        <5>2. Planted(boot, invocations[m])
          BY <4>2, <5>1 DEF DeviceInv, DevicePlan
        <5>3. KernelEnd(invocations[m]) \in Nat
          BY <5>2, PlantedIs
        <5> QED
          BY <5>3
      <4> QED
        BY <4>3
    <3>6. EndsAt(boot, invocations, KernelEnd(invocations[done + 1]), k, done + 1)
      <4> DEFINE a == inv.planned
      <4>1. EndsAt(boot, invocations, a, k, done) /\ invocations[done + 1].planned = a
            /\ KernelEnd(invocations[done + 1]) \in Nat /\ a <= KernelEnd(invocations[done + 1])
        BY <3>2, <3>3 DEF inv
      <4> HIDE DEF a
      <4> QED
        BY <1>2, <2>1, <3>4, <3>5, <4>1, EndsAtNext
    <3>7. free'[Device(k)] = KernelEnd(invocations[done + 1])
      <4>1. free'[Device(k)] = end
        BY <1>9, <2>1, <2>2
      <4> QED
        BY <1>11, <3>1, <4>1 DEF inv
    <3> QED
      BY <3>6, <3>7
  <2>3. CASE Device(k) # inv.ut
    <3>1. free'[Device(k)] = free[Device(k)]
      BY <1>9, <2>1, <2>3
    <3>2. EndsAt(boot, invocations, free[Device(k)], k, done)
      BY <1>7
    <3>3. \A m \in done + 1..done + 1 : ~OfDevice(invocations[m], k)
      <4>1. \A m \in done + 1..done + 1 : m = done + 1
        BY <1>2
      <4>2. ~OfDevice(invocations[done + 1], k)
        BY <2>3 DEF OfDevice, inv
      <4> QED
        BY <4>1, <4>2
    <3>4. done + 1 \in Nat /\ done <= done + 1
      BY <1>2
    <3>5. EndsAt(boot, invocations, free[Device(k)], k, done + 1)
      BY <1>2, <3>2, <3>3, <3>4, EndsAtOthers
    <3> QED
      BY <3>1, <3>5
  <2> QED
    BY <2>2, <2>3
<1>13. ASSUME NEW ut \in Untypeds
       PROVE  free'[ut] \in RegionOf(ut).base..RegionOf(ut).end
  BY <1>6, <1>7, <1>9
<1>14. /\ \A s \in slots : s \in DOMAIN cnode' /\ cnode'[s].base = start + (s - inv.slot) * size
       /\ \A s \in DOMAIN cnode \ slots : s \in DOMAIN cnode' /\ cnode'[s] = cnode[s]
       /\ DOMAIN cnode' = slots \cup DOMAIN cnode
  BY <1>1
<1>15. slots \cap DOMAIN cnode = {}
  BY <1>1, <1>3, FreshSlots DEF inv
<1>16. ASSUME NEW n \in 1..done + 1, ~OfNormal(invocations[n]), NEW s \in SlotsOf(invocations[n])
       PROVE  cnode'[s].base = invocations[n].planned + (s - invocations[n].slot) * Kernel(invocations[n])
  <2>1. CASE n = done + 1
    <3>1. invocations[n] = inv /\ ~OfNormal(inv) /\ s \in slots
      BY <1>3, <1>16, <2>1 DEF inv
    <3>2. cnode'[s].base = start + (s - inv.slot) * size /\ start = inv.planned
      BY <1>11, <1>14, <3>1
    <3> QED
      BY <1>3, <3>1, <3>2
  <2>2. CASE n # done + 1
    <3>1. n \in 1..done
      BY <1>2, <2>2
    <3>2. s \in DOMAIN cnode
      BY <1>16, <3>1 DEF Inv, Made
    <3>3. cnode'[s] = cnode[s]
      BY <1>14, <1>15, <3>2
    <3>4. InPlace(invocations[n])
      BY <1>7, <1>16, <3>1
    <3> QED
      BY <3>3, <3>4 DEF InPlace
  <2> QED
    BY <2>1, <2>2
<1>17. ASSUME NEW s \in DOMAIN cnode'
       PROVE  \E n \in 1..done + 1 : s \in SlotsOf(invocations[n])
  <2>1. CASE s \in slots
    <3>1. done + 1 \in 1..done + 1 /\ s \in SlotsOf(invocations[done + 1])
      BY <1>2, <1>3, <2>1 DEF inv
    <3> QED
      BY <3>1
  <2>2. CASE s \notin slots
    <3>1. PICK n \in 1..done : s \in SlotsOf(invocations[n])
      BY <1>7, <1>14, <2>2
    <3>2. n \in 1..done + 1
      BY <1>2
    <3> QED
      BY <3>1, <3>2
  <2> QED
    BY <2>1, <2>2
<1>18. Untypeds' = Untypeds /\ \A ut \in Untypeds : RegionOf(ut)' = RegionOf(ut)
  BY <1>8 DEF Untypeds, RegionOf
<1>19. done' = done + 1 /\ invocations' = invocations
  BY <1>1
<1>20. \A n \in 1..done' : ~OfNormal(invocations[n]) => InPlace(invocations[n])'
  BY <1>16, <1>19 DEF InPlace, SlotsOf, Kernel
<1> QED
  BY <1>8, <1>12, <1>13, <1>17, <1>18, <1>19, <1>20 DEF KernelFollows

LEMMA PerformRetypeDevice ==
  ASSUME Inv, DeviceInv, PerformRetype
  PROVE  DeviceInv'
<1>1. /\ pc = "boot" /\ pc' \in {"boot", "boot failed"}
      /\ UNCHANGED <<inputs, stage, tool>>
      /\ Failing => UNCHANGED kernel
      /\ Failing => raised' # "ok"
      /\ ~Failing => pc' = "boot" /\ raised' = raised
  BY DEF PerformRetype, Failing
<1>2. /\ boot' = boot /\ invocations' = invocations /\ watermark' = watermark
      /\ objects' = objects /\ pages' = pages /\ lastFixed' = lastFixed
  BY <1>1 DEF inputs, tool
<1>3. DevicePlan'
  BY <1>2 DEF DeviceInv, DevicePlan
<1>4. WatermarkPlan'
  <2>1. /\ pc' \notin BeforeReserve /\ pc' \notin {"root cnode", "system cnode"} /\ pc' # "table"
        /\ pc' \notin AfterReserve
    BY <1>1 DEF BeforeReserve, AfterReserve
  <2> QED
    BY <1>2, <2>1 DEF DeviceInv, WatermarkPlan
<1>5. Fixing'
  <2>1. pc' \notin AfterReserve
    BY <1>1 DEF AfterReserve
  <2> QED
    BY <1>1, <1>2, <2>1, FixingStays DEF DeviceInv
<1>6. CASE Failing
  <2>1. done' = done /\ free' = free /\ cnode' = cnode /\ pc' = "boot failed" /\ raised' # "ok"
    BY <1>1, <1>6 DEF kernel, Failing
  <2>2. KernelFollows'
    BY <1>2, <2>1 DEF DeviceInv, KernelFollows, Untypeds, RegionOf, Normal, Device, InPlace, SlotsOf, Kernel
  <2>3. LET inv == invocations[done + 1]
        IN  /\ raised' = "not enough memory" /\ inv.ut[1] = "device" /\ inv.type \in Pages
            /\ inv.planned + Fixed[inv.type] > RegionOf(inv.ut).end
    BY <1>6, FailsAtEnd DEF Failing
  <2>4. BootSucceeds'
    BY <1>2, <2>1, <2>3 DEF BootSucceeds, RegionOf
  <2>5. RefusedForCause'
    BY <2>3, NoRefusal
  <2>6. Ending'
    BY <2>1, <2>4, <2>5 DEF Ending
  <2> QED
    BY <1>3, <1>4, <1>5, <2>2, <2>6 DEF DeviceInv
<1>7. CASE ~Failing
  <2>1. KernelFollows'
    BY <1>7, KernelMoves
  <2>2. pc' = "boot" /\ raised' = raised
    BY <1>1, <1>7
  <2>3. Ending'
    BY <1>1, <2>2, EndingQuiet DEF DeviceInv
  <2> QED
    BY <1>3, <1>4, <1>5, <2>1, <2>3 DEF DeviceInv
<1> QED
  BY <1>6, <1>7

LEMMA StutterDevice ==
  ASSUME DeviceInv, UNCHANGED vars
  PROVE  DeviceInv'
<1>1. /\ boot' = boot /\ invocations' = invocations /\ watermark' = watermark
      /\ objects' = objects /\ pages' = pages /\ lastFixed' = lastFixed
      /\ done' = done /\ free' = free /\ cnode' = cnode /\ raised' = raised
      /\ pc' = pc /\ stage' = stage /\ reserving' = reserving /\ remaining' = remaining
  BY DEF vars, inputs, tool, kernel
<1>2. DevicePlan'
  BY <1>1 DEF DeviceInv, DevicePlan
<1>3. KernelFollows'
  BY <1>1 DEF DeviceInv, KernelFollows, Untypeds, RegionOf, Normal, Device, InPlace, SlotsOf, Kernel
<1>4. WatermarkPlan'
  <2>1. \A i : Reserved(i)' <=> Reserved(i)
    BY <1>1 DEF Reserved, TableBase, TableEnd
  <2>2. TableNext' = TableNext
    BY <1>1 DEF TableNext, TableBase
  <2> QED
    BY <1>1, <2>1, <2>2 DEF DeviceInv, WatermarkPlan
<1>5. Fixing'
  <2>1. UNCHANGED inputs
    BY DEF vars
  <2> QED
    BY <1>1, <2>1, FixingStays DEF DeviceInv
<1>6. Ending'
  BY <1>1 DEF DeviceInv, Ending, RefusedForCause, BootSucceeds, RegionOf, TableBase, TableEnd
<1> QED
  BY <1>2, <1>3, <1>4, <1>5, <1>6 DEF DeviceInv

LEMMA InitDevice ==
  ASSUME PagesAligned, Init
  PROVE  DeviceInv
<1>1. /\ boot \in Boots /\ pages \in FixedPages /\ pc = "root cnode" /\ raised = "ok"
      /\ watermark = [k \in DOMAIN boot.device |-> boot.device[k].base]
      /\ free = [ut \in Untypeds |-> RegionOf(ut).base]
  BY DEF Init
<1>2. DOMAIN invocations = {} /\ IsList(reserving) /\ DOMAIN reserving = {} /\ DOMAIN cnode = {}
  BY EmptyIsList DEF Init
<1>3. 1..done = {} /\ done \in Nat
  <2>1. done = 0
    BY DEF Init
  <2> QED
    BY <2>1
<1>4. DevicePlan
  BY <1>2 DEF DevicePlan
<1>5. Inv
  BY InitInv
<1>6. KernelFollows
  <2>1. ASSUME NEW k \in DOMAIN boot.device
        PROVE  EndsAt(boot, invocations, free[Device(k)], k, done)
    <3>1. Device(k) \in Untypeds /\ RegionOf(Device(k)) = boot.device[k]
      BY DEF Untypeds, RegionOf, Device
    <3>2. free[Device(k)] = boot.device[k].base
      BY <1>1, <3>1
    <3>3. boot.device[k].base \in Nat
      BY <1>5, DeviceNumbers
    <3>4. EndsAt(boot, invocations, boot.device[k].base, k, done)
      BY <1>3, <3>3, EndsAtBase
    <3> QED
      BY <3>2, <3>4
  <2>2. ASSUME NEW ut \in Untypeds
        PROVE  free[ut] \in RegionOf(ut).base..RegionOf(ut).end
    <3>1. RegionOf(ut).base \in RegionOf(ut).base..RegionOf(ut).end
      BY <1>5, RegionNumbers
    <3>2. free[ut] = RegionOf(ut).base
      BY <1>1
    <3> QED
      BY <3>1, <3>2
  <2> QED
    BY <1>2, <1>3, <2>1, <2>2 DEF KernelFollows
<1>7. WatermarkPlan
  <2>1. \A k \in DOMAIN boot.device : boot.device[k].base \in Nat
    BY <1>5, DeviceNumbers
  <2>2. /\ DOMAIN watermark = DOMAIN boot.device
        /\ \A k \in DOMAIN boot.device : watermark[k] = boot.device[k].base
    BY <1>1
  <2>3. \A k \in DOMAIN boot.device : watermark[k] \in Nat /\ boot.device[k].base <= watermark[k]
    BY <2>1, <2>2
  <2>4. reserving = <<>> /\ remaining = boot.tablePages
    BY DEF Init
  <2>5. pc \notin AfterReserve /\ pc # "table"
    BY <1>1 DEF AfterReserve
  <2> QED
    BY <1>2, <2>2, <2>3, <2>4, <2>5 DEF WatermarkPlan
<1>8. Fixing
  <2>1. pages \in Seq([addr : Nat, type : Pages])
    BY <1>1, AllocatorAssumption
  <2>2. \A m, n \in DOMAIN pages : m < n => pages[m].addr < pages[n].addr
    BY <1>1, AllocatorAssumption
  <2>3. \A n \in DOMAIN pages : pages[n].addr % Fixed[pages[n].type] = 0
    BY <1>1 DEF PagesAligned
  <2>4. lastFixed = 0
    BY DEF Init
  <2>5. pc \notin AfterReserve
    BY <1>1 DEF AfterReserve
  <2> QED
    BY <2>1, <2>2, <2>3, <2>4, <2>5 DEF Fixing, FixedPage
<1>9. Ending
  BY <1>1 DEF Ending, RefusedForCause, BootSucceeds
<1> QED
  BY <1>4, <1>6, <1>7, <1>8, <1>9 DEF DeviceInv

LEMMA NextDevice ==
  ASSUME TableFollows, PowersOfTwo, Inv, DeviceInv, [Next]_vars
  PROVE  DeviceInv'
<1>1. CASE RootCnode \/ SystemCnode
  BY <1>1, CnodesDevice
<1>2. CASE RetypeTablePages
  BY <1>2, TableDevice
<1>3. CASE PageTables
  BY <1>3, PageTablesDevice
<1>4. CASE Reserve
  BY <1>4, ReserveDevice
<1>5. CASE AllocateObjects
  BY <1>5, AllocateObjectsDevice
<1>6. CASE RefuseFixed
  BY <1>6, RefuseFixedDevice
<1>7. CASE PadFixed
  BY <1>7, PadFixedDevice
<1>8. CASE AllocateFixed
  BY <1>8, AllocateFixedDevice
<1>9. CASE FixedDone \/ BootDone
  BY <1>9, DoneDevice
<1>10. CASE PerformRetype
  BY <1>10, PerformRetypeDevice
<1>11. CASE UNCHANGED vars
  BY <1>11, StutterDevice
<1> QED
  BY <1>1, <1>2, <1>3, <1>4, <1>5, <1>6, <1>7, <1>8, <1>9, <1>10, <1>11 DEF Next

LEMMA DeviceAlways ==
  ASSUME TableFollows, PagesAligned, PowersOfTwo
  PROVE  Spec => [](Inv /\ DeviceInv)
<1>1. Init => Inv /\ DeviceInv
  BY InitInv, InitDevice
<1>2. (Inv /\ DeviceInv) /\ [Next]_vars => (Inv /\ DeviceInv)'
  BY NextInv, NextDevice
<1> QED
  BY <1>1, <1>2, PTL DEF Spec

-----------------------------------------------------------------------------
(* The theorems about device memory *)

\* The kernel puts the pages of the invocation table and every fixed page where the tool
\* planned them, whatever was made before: the untypeds of the reserved region being first
\* and the pages aligned, padding makes the kernel's free address and the tool's watermark
\* the same number (__main__.py:553-603).
THEOREM FixedPagesInPlace ==
  ASSUME TableFollows, PagesAligned, PowersOfTwo
  PROVE  Spec => []PagesInPlace
<1>1. Inv /\ DeviceInv => PagesInPlace
  <2> SUFFICES ASSUME Inv, DeviceInv, NEW n \in DOMAIN invocations, n <= done,
                      invocations[n].ut[1] = "device", NEW s \in SlotsOf(invocations[n])
               PROVE  cnode[s].base = invocations[n].planned
                        + (s - invocations[n].slot) * Kernel(invocations[n])
    BY DEF PagesInPlace, SlotsOf, Kernel
  <2>1. n \in 1..done
    <3>1. IsList(invocations) /\ done \in 0..Len(invocations)
      BY DEF Inv, Typed
    <3>2. DOMAIN invocations = 1..Len(invocations) /\ Len(invocations) \in Nat
      BY <3>1, ListIs
    <3> QED
      BY <3>1, <3>2
  <2>2. ~OfNormal(invocations[n])
    BY DEF OfNormal
  <2>3. InPlace(invocations[n])
    BY <2>1, <2>2 DEF DeviceInv, KernelFollows
  <2> QED
    BY <2>3 DEF InPlace
<1>2. Spec => [](Inv /\ DeviceInv)
  BY DeviceAlways
<1> QED
  BY <1>1, <1>2, PTL

\* No invocation of the boot fails for want of a slot, of memory or of a legal count; only a
\* fixed page that the description lets reach beyond its untyped can fail.
THEOREM BootFailsOnlyAtEnd ==
  ASSUME TableFollows, PagesAligned, PowersOfTwo
  PROVE  Spec => []BootSucceeds
<1>1. DeviceInv => BootSucceeds
  BY DEF DeviceInv, Ending
<1>2. Spec => [](Inv /\ DeviceInv)
  BY DeviceAlways
<1> QED
  BY <1>1, <1>2, PTL

\* The tool refuses a fixed page as out of order or below the watermark only if it overlaps
\* the page before it or the invocation table (__main__.py:553-575).
THEOREM RefusalsHaveCause ==
  ASSUME TableFollows, PagesAligned, PowersOfTwo
  PROVE  Spec => []RefusedForCause
<1>1. DeviceInv => RefusedForCause
  BY DEF DeviceInv, Ending
<1>2. Spec => [](Inv /\ DeviceInv)
  BY DeviceAlways
<1> QED
  BY <1>1, <1>2, PTL

\* Every allocation point stays inside its untyped and every free address of the kernel too,
\* the slots are below the next one, and the tool and the boot end with a reason.
THEOREM TypesKept ==
  ASSUME TableFollows, PagesAligned, PowersOfTwo
  PROVE  Spec => []TypeOK
<1>1. Inv /\ DeviceInv => TypeOK
  <2> SUFFICES ASSUME Inv, DeviceInv PROVE TypeOK
    OBVIOUS
  <2>1. \A k \in DOMAIN boot.normal : point[k] \in 0..Size(boot.normal[k])
    <3>1. TAKE k \in DOMAIN boot.normal
    <3>2. /\ boot.normal[k].base + point[k] <= boot.normal[k].end /\ point[k] \in Nat
          /\ boot.normal[k].base \in Nat /\ boot.normal[k].end \in Nat
      BY InputsAre DEF Inv, NormalPlan, Typed
    <3> QED
      BY <3>2 DEF Size
  <2>2. ASSUME NEW n \in DOMAIN invocations
        PROVE  /\ invocations[n].ut \in Untypeds /\ invocations[n].type \in Types
               /\ invocations[n].slot < capSlot
    <3> DEFINE inv == invocations[n]
    <3>1. Counted(inv) /\ (~OfNormal(inv) => Planted(boot, inv))
      BY DEF DeviceInv, DevicePlan
    <3>2. OfNormal(inv) => Bumped(inv, point)
      BY DEF Inv, NormalPlan
    <3>3. inv.slot \in Int /\ inv.slot + inv.count <= NextSlot
      BY DEF Inv, SlotPlan
    <3>4. NextSlot \in Int /\ NextSlot <= capSlot /\ capSlot \in Nat /\ FanOut \in Nat
      BY NextSlotIs, AllocatorAssumption DEF Inv, Typed
    <3> HIDE DEF inv
    <3>5. inv.count \in 1..FanOut /\ inv.type \in Types
      BY <3>1 DEF Counted
    <3>6. inv.slot < capSlot
      BY <3>3, <3>4, <3>5
    <3>7. inv.ut \in Untypeds
      <4>1. CASE OfNormal(inv)
        BY <3>2, <4>1 DEF Bumped, Untypeds
      <4>2. CASE ~OfNormal(inv)
        BY <3>1, <4>2 DEF Planted, Untypeds
      <4> QED
        BY <4>1, <4>2
    <3> QED
      BY <3>5, <3>6, <3>7 DEF inv
  <2>3. \A k \in DOMAIN boot.device : watermark[k] >= boot.device[k].base
    <3>1. \A k \in DOMAIN boot.device : /\ boot.device[k].base <= watermark[k]
                                        /\ watermark[k] \in Nat /\ boot.device[k].base \in Nat
      BY DeviceNumbers DEF DeviceInv, WatermarkPlan
    <3> QED
      BY <3>1
  <2>4. \A ut \in Untypeds : free[ut] \in RegionOf(ut).base..RegionOf(ut).end
    BY DEF DeviceInv, KernelFollows
  <2>5. raised # "ok" <=> pc \in {"failed", "boot failed"}
    BY DEF DeviceInv, Ending
  <2>6. boot \in Boots /\ need \in Needs /\ remaining \in 0..boot.tablePages
        /\ done \in 0..Len(invocations)
    BY DEF Inv, Typed
  <2> QED
    BY <2>1, <2>2, <2>3, <2>4, <2>5, <2>6 DEF TypeOK
<1>2. Spec => [](Inv /\ DeviceInv)
  BY DeviceAlways
<1> QED
  BY <1>1, <1>2, PTL
=============================================================================
