------------------------- MODULE BootMemory_proofs -------------------------
(***************************************************************************)
(* For every board and all sizes: the plan of physical memory never uses   *)
(* an address twice; the regions that build_system places are in memory    *)
(* and in the order that the kernel needs; memory changes hands as         *)
(* MemoryOwners says; the second emulation of the boot finds everything    *)
(* that the first one placed; the untyped objects that the kernel is       *)
(* emulated to make are exactly the memory that is left and the reserved   *)
(* region; the pages made for the invocation table lie where it will be    *)
(* loaded; and every variable of the plan keeps its type.                  *)
(***************************************************************************)
EXTENDS BootMemory, Regions_proofs

\* The maximum of two numbers is a number.
LEMMA MaxOfTwo ==
  ASSUME NEW m \in Nat, NEW n \in Nat
  PROVE  Max({m, n}) \in Nat
<1> DEFINE S == {m, n}
<1>1. S \in SUBSET Nat /\ S # {} /\ m + n \in Nat /\ \A j \in S : j <= m + n
  OBVIOUS
<1> HIDE DEF S
<1>2. Max(S) \in S
  BY <1>1, MaxIsIn
<1> QED
  BY <1>1, <1>2 DEF S

\* What a list starts from: no regions.
LEMMA EmptyList ==
  /\ <<>> \in Seq(IntRegion) /\ PairwiseDisjoint(<<>>) /\ Covered(<<>>) = {}
BY DEF PairwiseDisjoint, Covered

-----------------------------------------------------------------------------
(* The inductive invariant *)

Types ==
  /\ board \in Boards /\ elfSize \in Nat /\ tableSize \in Nat
  /\ pass \in {"place", "emulate"}
  /\ device \in Seq(IntRegion) /\ normal \in Seq(IntRegion)
  /\ reserved \in IntRegion /\ reserved.base <= reserved.end
  /\ task \in IntRegion /\ task.base <= task.end
  /\ objects \in IntRegion

Loops ==
  /\ pc = "devices" => k \in DOMAIN board.devices
  /\ pc = "memory" => k \in DOMAIN board.memory
  /\ pc \in {"reserve", "task"} => pass = "place"
  /\ pc \in {"take task", "take reserved", "objects"} => pass = "emulate"

FreeDisjoint ==
  /\ PairwiseDisjoint(device) /\ PairwiseDisjoint(normal)
  /\ Covered(device) \cap Covered(normal) = {}

Apart(a, b) == Addresses(a) \cap Addresses(b) = {}

InUseDisjoint ==
  /\ Apart(board.kernel, reserved) /\ Apart(board.kernel, task) /\ Apart(board.kernel, objects)
  /\ Apart(reserved, task) /\ Apart(reserved, objects) /\ Apart(task, objects)

Listing == {"devices", "memory", "kernel"}
Emulating == {"take task", "take reserved", "objects"}

\* Not yet placed.
Unplaced ==
  /\ pc \in Listing \cup {"reserve"} /\ pass = "place" => reserved = Nowhere
  /\ pc \in Listing \cup {"reserve", "task"} /\ pass = "place" => task = Nowhere
  /\ pc \in Listing \cup {"reserve", "task"} \cup Emulating => objects = Nowhere

Taken(r) == Addresses(r) \cap Covered(normal) = {}

\* What the next allocation must not find in the free memory any more.
TakenOut ==
  /\ pc \in {"reserve", "task"} \cup Emulating => Taken(board.kernel)
  /\ pc \in {"take reserved", "objects"} => Taken(task)
  /\ pc \in {"task", "objects"} => Taken(reserved)

Inv == Types /\ Loops /\ FreeDisjoint /\ InUseDisjoint /\ Unplaced /\ TakenOut

LEMMA BoardTypes ==
  ASSUME NEW b \in Boards
  PROVE  /\ b.devices \in Seq(Address) /\ b.devices # <<>>
         /\ b.memory \in Seq(IntRegion) /\ b.memory # <<>>
         /\ \A n \in DOMAIN b.memory : b.memory[n].base < b.memory[n].end
         /\ b.kernel \in IntRegion /\ b.kernel.base <= b.kernel.end
         /\ b.task \in Nat /\ b.objects \in Nat
         /\ b.bootEnd \in Int
<1>1. DeviceTop \in Nat
  BY SizesAssumption
<1>2. Address \subseteq Int /\ RegionType \subseteq IntRegion
  BY <1>1 DEF Address, RegionType, IntRegion
<1>3. b \in [devices : Seq(Address), memory : Seq(RegionType), kernel : RegionType,
             bootEnd : Address, task : Nat, objects : Nat]
  BY BoardsAssumption
<1>4. b.memory \in Seq(RegionType) /\ b.kernel \in RegionType /\ b.bootEnd \in Address
      /\ b.devices \in Seq(Address) /\ b.task \in Nat /\ b.objects \in Nat
  BY <1>3
<1>5. b.memory \in Seq(IntRegion)
  BY <1>2, <1>4
<1>6. b.kernel \in IntRegion /\ b.bootEnd \in Int
  BY <1>2, <1>4
<1>7. b.kernel.base \in Int /\ b.kernel.end \in Int
  BY <1>6 DEF IntRegion
<1>8. b.kernel.base <= b.kernel.end
  BY <1>6, <1>7, BoardsAssumption
<1> QED
  BY <1>4, <1>5, <1>6, <1>8, BoardsAssumption

LEMMA NowhereIs ==
  /\ Nowhere \in IntRegion /\ Nowhere.base <= Nowhere.end
  /\ Addresses(Nowhere) = {}
BY DEF Nowhere, MemoryRegion, IntRegion, Addresses

LEMMA InitInv ==
  ASSUME Init
  PROVE  Inv
<1>1. Types
  <2>1. elfSize \in Nat /\ tableSize \in Nat
    BY SizesAssumption DEF Init
  <2> QED
    BY <2>1, EmptyList, NowhereIs DEF Init, Types
<1>2. FreeDisjoint
  BY EmptyList DEF Init, FreeDisjoint
<1>3. InUseDisjoint
  BY NowhereIs DEF Init, InUseDisjoint, Apart
<1>4. Loops /\ Unplaced /\ TakenOut
  BY DEF Init, Loops, Unplaced, TakenOut, Listing, Emulating
<1> QED
  BY <1>1, <1>2, <1>3, <1>4 DEF Inv

\* The free memory at the beginning of an emulated boot.
LEMMA BootBegins ==
  ASSUME NEW p, BeginBoot(p)
  PROVE  /\ device' \in Seq(IntRegion) /\ normal' \in Seq(IntRegion) /\ FreeDisjoint'
         /\ pass' = p /\ k' = 1
<1>1. 0 \in Int /\ DeviceTop \in Int
  BY SizesAssumption
<1>2. (0..DeviceTop - 1) \cap Covered(<<>>) = {}
  BY EmptyList
<1>3. /\ InsertRegion(<<>>, 0, DeviceTop).regions \in Seq(IntRegion)
      /\ PairwiseDisjoint(InsertRegion(<<>>, 0, DeviceTop).regions)
  BY <1>1, <1>2, EmptyList, InsertExact
<1> QED
  BY <1>3, EmptyList DEF BeginBoot, FreeDisjoint

LEMMA BuildSystemInv ==
  ASSUME Inv, BuildSystem
  PROVE  Inv'
<1>1. /\ device' \in Seq(IntRegion) /\ normal' \in Seq(IntRegion) /\ FreeDisjoint'
      /\ pass' = "place" /\ k' = 1
  BY BootBegins DEF BuildSystem
<1>2. /\ reserved' = Nowhere /\ task' = Nowhere /\ objects' = Nowhere
      /\ board' = board /\ elfSize' = elfSize /\ tableSize' = tableSize
  BY DEF BuildSystem, inputs, sizes
<1>3. pc' \in {"devices", "failed"}
  BY DEF BuildSystem, Continue
<1>4. Types'
  BY <1>1, <1>2, NowhereIs DEF Inv, Types
<1>5. Loops'
  <2>1. board.devices \in Seq(Address) /\ board.devices # <<>>
    BY BoardTypes DEF Inv, Types
  <2>2. 1 \in DOMAIN board.devices
    BY <2>1
  <2> QED
    BY <1>1, <1>2, <1>3, <2>2 DEF Loops
<1>6. InUseDisjoint'
  BY <1>2, NowhereIs DEF InUseDisjoint, Apart
<1>7. Unplaced' /\ TakenOut'
  BY <1>2, <1>3 DEF Unplaced, TakenOut, Listing, Emulating
<1> QED
  BY <1>1, <1>4, <1>5, <1>6, <1>7 DEF Inv

\* Removing a region frees nothing, and if it succeeds the region was free before only.
LEMMA RemoveShrinks ==
  ASSUME NEW s \in Seq(IntRegion), NEW b \in Int, NEW e \in Int, b <= e, PairwiseDisjoint(s)
  PROVE  /\ RemoveRegion(s, b, e).regions \in Seq(IntRegion)
         /\ PairwiseDisjoint(RemoveRegion(s, b, e).regions)
         /\ Covered(RemoveRegion(s, b, e).regions) \subseteq Covered(s)
         /\ RemoveRegion(s, b, e).raised = "ok" =>
              /\ b..e - 1 \subseteq Covered(s)
              /\ (b..e - 1) \cap Covered(RemoveRegion(s, b, e).regions) = {}
<1>1. /\ RemoveRegion(s, b, e).regions \in Seq(IntRegion)
      /\ PairwiseDisjoint(RemoveRegion(s, b, e).regions)
      /\ Holding(s, b, e) = {} => /\ RemoveRegion(s, b, e).regions = s
                                  /\ RemoveRegion(s, b, e).raised = "not covered"
      /\ Holding(s, b, e) # {} =>
           /\ b..e - 1 \subseteq Covered(s)
           /\ Covered(RemoveRegion(s, b, e).regions) = Covered(s) \ (b..e - 1)
  BY RemoveExact
<1>2. CASE Holding(s, b, e) = {}
  BY <1>1, <1>2
<1>3. CASE Holding(s, b, e) # {}
  BY <1>1, <1>3
<1> QED
  BY <1>2, <1>3

LEMMA RemoveKernelDeviceInv ==
  ASSUME Inv, RemoveKernelDevice
  PROVE  Inv'
<1> DEFINE b == board.devices[k]
           e == b + PageSize
           result == RemoveRegion(device, b, e)
<1>1. board.memory # <<>> /\ board.memory \in Seq(IntRegion) /\ board.devices \in Seq(Address)
  BY BoardTypes DEF Inv, Types
<1>2. k \in DOMAIN board.devices
  BY DEF Inv, Loops, RemoveKernelDevice
<1>3. b \in Int /\ e \in Int /\ b <= e
  <2>1. b \in Address
    BY <1>1, <1>2
  <2> QED
    BY <2>1, SizesAssumption DEF Address
<1>4. /\ device' = result.regions /\ Continue(result.raised, pc') /\ pc = "devices"
      /\ pc' \in {"devices", "memory", "failed"}
      /\ pc' = "devices" => k' = k + 1 /\ k # Len(board.devices)
      /\ pc' = "memory" => k' = 1
      /\ UNCHANGED <<inputs, sizes, pass, normal, placed, objects>>
  BY DEF RemoveKernelDevice, Continue
<1> HIDE DEF b, e
<1>5. device \in Seq(IntRegion) /\ PairwiseDisjoint(device)
  BY DEF Inv, Types, FreeDisjoint
<1>6. /\ result.regions \in Seq(IntRegion) /\ PairwiseDisjoint(result.regions)
      /\ Covered(result.regions) \subseteq Covered(device)
  BY <1>3, <1>5, RemoveShrinks
<1> HIDE DEF result
<1>7. /\ board' = board /\ elfSize' = elfSize /\ tableSize' = tableSize /\ pass' = pass
      /\ normal' = normal /\ reserved' = reserved /\ task' = task /\ objects' = objects
  BY <1>4 DEF inputs, sizes, placed
<1>8. Types'
  BY <1>4, <1>6, <1>7 DEF Inv, Types
<1>9. Loops'
  <2>1. pc' = "devices" => k + 1 \in DOMAIN board.devices
    BY <1>1, <1>2, <1>4
  <2>2. 1 \in DOMAIN board.memory
    BY <1>1
  <2> QED
    BY <1>4, <1>7, <2>1, <2>2 DEF Loops
<1>10. FreeDisjoint'
  BY <1>4, <1>6, <1>7 DEF Inv, FreeDisjoint
<1>11. InUseDisjoint'
  BY <1>7 DEF Inv, InUseDisjoint, Apart
<1>12. Unplaced' /\ TakenOut'
  BY <1>4, <1>7 DEF Inv, Unplaced, TakenOut, Listing, Emulating
<1> QED
  BY <1>8, <1>9, <1>10, <1>11, <1>12 DEF Inv

LEMMA AddMemoryInv ==
  ASSUME Inv, AddMemory
  PROVE  Inv'
<1> DEFINE b == board.memory[k].base
           e == board.memory[k].end
           taken == RemoveRegion(device, b, e)
           added == InsertRegion(normal, b, e)
<1>1. board.memory \in Seq(IntRegion) /\ \A n \in DOMAIN board.memory : board.memory[n].base < board.memory[n].end
  BY BoardTypes DEF Inv, Types
<1>2. k \in DOMAIN board.memory
  BY DEF Inv, Loops, AddMemory
<1>3. b \in Int /\ e \in Int /\ b <= e
  <2>1. board.memory[k] \in IntRegion /\ b < e
    BY <1>1, <1>2
  <2> QED
    BY <2>1 DEF IntRegion
<1>4. /\ device' = taken.regions
      /\ normal' = IF taken.raised = "ok" THEN added.regions ELSE normal
      /\ pc = "memory" /\ pc' \in {"memory", "kernel", "failed"}
      /\ pc' = "memory" => k' = k + 1 /\ k # Len(board.memory)
      /\ UNCHANGED <<inputs, sizes, pass, placed, objects>>
  BY DEF AddMemory, Continue
<1> HIDE DEF b, e
<1>5. /\ device \in Seq(IntRegion) /\ PairwiseDisjoint(device)
      /\ normal \in Seq(IntRegion) /\ PairwiseDisjoint(normal)
      /\ Covered(device) \cap Covered(normal) = {}
  BY DEF Inv, Types, FreeDisjoint
<1>6. /\ taken.regions \in Seq(IntRegion) /\ PairwiseDisjoint(taken.regions)
      /\ Covered(taken.regions) \subseteq Covered(device)
      /\ taken.raised = "ok" => /\ b..e - 1 \subseteq Covered(device)
                                /\ (b..e - 1) \cap Covered(taken.regions) = {}
  BY <1>3, <1>5, RemoveShrinks
<1>7. ASSUME taken.raised = "ok"
      PROVE  /\ added.regions \in Seq(IntRegion) /\ PairwiseDisjoint(added.regions)
             /\ Covered(added.regions) = Covered(normal) \cup (b..e - 1)
  <2>1. (b..e - 1) \cap Covered(normal) = {}
    BY <1>5, <1>6, <1>7
  <2> QED
    BY <1>3, <1>5, <2>1, InsertExact
<1> HIDE DEF taken, added
<1>8. /\ board' = board /\ elfSize' = elfSize /\ tableSize' = tableSize /\ pass' = pass
      /\ reserved' = reserved /\ task' = task /\ objects' = objects
  BY <1>4 DEF inputs, sizes, placed
<1>9. normal' \in Seq(IntRegion) /\ FreeDisjoint'
  <2>1. CASE taken.raised = "ok"
    <3>1. normal' = added.regions
      BY <1>4, <2>1
    <3>2. Covered(taken.regions) \cap Covered(added.regions) = {}
      BY <1>5, <1>6, <1>7, <2>1
    <3> QED
      BY <1>4, <1>6, <1>7, <2>1, <3>1, <3>2 DEF FreeDisjoint
  <2>2. CASE taken.raised # "ok"
    BY <1>4, <1>5, <1>6, <2>2 DEF FreeDisjoint
  <2> QED
    BY <2>1, <2>2
<1>10. Types'
  BY <1>4, <1>6, <1>8, <1>9 DEF Inv, Types
<1>11. Loops'
  <2>1. pc' = "memory" => k + 1 \in DOMAIN board.memory
    BY <1>1, <1>2, <1>4
  <2> QED
    BY <1>4, <1>8, <2>1 DEF Loops
<1>12. InUseDisjoint'
  BY <1>8 DEF Inv, InUseDisjoint, Apart
<1>13. Unplaced' /\ TakenOut'
  BY <1>4, <1>8 DEF Inv, Unplaced, TakenOut, Listing, Emulating
<1> QED
  BY <1>9, <1>10, <1>11, <1>12, <1>13 DEF Inv

\* What a removal from the normal memory alone preserves.
LEMMA RemovalKeeps ==
  ASSUME Inv, NEW b \in Int, NEW e \in Int, b <= e,
         normal' = RemoveRegion(normal, b, e).regions,
         device' = device, board' = board
  PROVE  /\ normal' \in Seq(IntRegion) /\ FreeDisjoint'
         /\ \A r : Taken(r) => Addresses(r) \cap Covered(normal') = {}
         /\ RemoveRegion(normal, b, e).raised = "ok" =>
              /\ b..e - 1 \subseteq Covered(normal)
              /\ (b..e - 1) \cap Covered(normal') = {}
<1>1. /\ normal \in Seq(IntRegion) /\ PairwiseDisjoint(normal) /\ PairwiseDisjoint(device)
      /\ Covered(device) \cap Covered(normal) = {}
  BY DEF Inv, Types, FreeDisjoint
<1>2. /\ normal' \in Seq(IntRegion) /\ PairwiseDisjoint(normal')
      /\ Covered(normal') \subseteq Covered(normal)
      /\ RemoveRegion(normal, b, e).raised = "ok" =>
           /\ b..e - 1 \subseteq Covered(normal)
           /\ (b..e - 1) \cap Covered(normal') = {}
  BY <1>1, RemoveShrinks
<1> QED
  BY <1>1, <1>2 DEF FreeDisjoint, Taken

LEMMA RemoveKernelImageInv ==
  ASSUME Inv, RemoveKernelImage
  PROVE  Inv'
<1> DEFINE b == board.kernel.base
           e == board.kernel.end
           result == RemoveRegion(normal, b, e)
<1>1. b \in Int /\ e \in Int /\ b <= e /\ Addresses(board.kernel) = b..e - 1
  BY BoardTypes DEF Inv, Types, IntRegion, Addresses
<1>2. /\ normal' = result.regions /\ pc = "kernel"
      /\ pc' = IF result.raised = "ok"
               THEN (IF pass = "place" THEN "reserve" ELSE "take task") ELSE "failed"
      /\ UNCHANGED <<inputs, sizes, pass, device, placed, objects>>
  BY DEF RemoveKernelImage, Continue
<1>3. /\ board' = board /\ elfSize' = elfSize /\ tableSize' = tableSize /\ pass' = pass
      /\ device' = device /\ reserved' = reserved /\ task' = task /\ objects' = objects
  BY <1>2 DEF inputs, sizes, placed
<1> HIDE DEF b, e
<1>4. /\ normal' \in Seq(IntRegion) /\ FreeDisjoint'
      /\ result.raised = "ok" => (b..e - 1) \cap Covered(normal') = {}
  BY <1>1, <1>2, <1>3, RemovalKeeps
<1> HIDE DEF result
<1>5. Types'
  BY <1>3, <1>4 DEF Inv, Types
<1>6. Loops'
  BY <1>2, <1>3 DEF Inv, Types, Loops
<1>7. InUseDisjoint'
  BY <1>3 DEF Inv, InUseDisjoint, Apart
<1>8. Unplaced'
  BY <1>2, <1>3 DEF Inv, Unplaced, Listing, Emulating
<1>9. TakenOut'
  BY <1>1, <1>2, <1>3, <1>4 DEF TakenOut, Taken, Emulating
<1> QED
  BY <1>4, <1>5, <1>6, <1>7, <1>8, <1>9 DEF Inv

\* What allocate_from leaves, and what it returns: a region that was free.
LEMMA AllocationKeeps ==
  ASSUME Inv, NEW size \in Nat, NEW lower \in Int, NEW b,
         b = AllocatedBase(normal, size, lower),
         AllocateFrom(normal, size, lower).raised = "ok"
  PROVE  /\ b \in Int /\ b + size \in Int /\ b <= b + size
         /\ AllocateFrom(normal, size, lower).regions \in Seq(IntRegion)
         /\ PairwiseDisjoint(AllocateFrom(normal, size, lower).regions)
         /\ b..b + size - 1 \subseteq Covered(normal)
         /\ Covered(AllocateFrom(normal, size, lower).regions) = Covered(normal) \ (b..b + size - 1)
<1>1. Fitting(normal, size, lower) # {}
  BY DEF AllocateFrom
<1>2. normal \in Seq(IntRegion) /\ PairwiseDisjoint(normal)
  BY DEF Inv, Types, FreeDisjoint
<1>3. /\ b \in Int
      /\ AllocateFrom(normal, size, lower).regions \in Seq(IntRegion)
      /\ PairwiseDisjoint(AllocateFrom(normal, size, lower).regions)
      /\ b..b + size - 1 \subseteq Covered(normal)
      /\ Covered(AllocateFrom(normal, size, lower).regions) = Covered(normal) \ (b..b + size - 1)
  BY <1>1, <1>2, AllocateExact
<1> QED
  BY <1>3

LEMMA RegionIs ==
  ASSUME NEW b \in Int, NEW e \in Int, b <= e
  PROVE  /\ MemoryRegion(b, e) \in IntRegion /\ MemoryRegion(b, e).base <= MemoryRegion(b, e).end
         /\ Addresses(MemoryRegion(b, e)) = b..e - 1
BY DEF MemoryRegion, IntRegion, Addresses

LEMMA PlaceReservedInv ==
  ASSUME Inv, PlaceReserved
  PROVE  Inv'
<1> DEFINE b == AllocatedBase(normal, ReservedSize, board.bootEnd)
           e == b + ReservedSize
           result == AllocateFrom(normal, ReservedSize, board.bootEnd)
<1>1. ReservedSize \in Nat /\ board.bootEnd \in Int
  BY BoardTypes DEF Inv, Types, ReservedSize
<1>2. /\ pc = "reserve" /\ pc' \in {"task", "failed"}
      /\ UNCHANGED <<inputs, sizes, pass, device, task, objects>>
      /\ result.raised # "ok" => UNCHANGED <<normal, reserved>> /\ pc' = "failed"
      /\ result.raised = "ok" => normal' = result.regions /\ reserved' = MemoryRegion(b, e)
  BY DEF PlaceReserved, Continue
<1>3. /\ board' = board /\ elfSize' = elfSize /\ tableSize' = tableSize /\ pass' = pass
      /\ device' = device /\ task' = task /\ objects' = objects
  BY <1>2 DEF inputs, sizes
<1>4. /\ pass = "place" /\ reserved = Nowhere /\ task = Nowhere /\ objects = Nowhere
      /\ Taken(board.kernel)
  BY <1>2 DEF Inv, Loops, Unplaced, TakenOut
<1>5. /\ normal \in Seq(IntRegion) /\ PairwiseDisjoint(normal) /\ PairwiseDisjoint(device)
      /\ Covered(device) \cap Covered(normal) = {}
  BY DEF Inv, Types, FreeDisjoint
<1>6. CASE result.raised # "ok"
  <2>1. normal' = normal /\ reserved' = reserved /\ pc' = "failed"
    BY <1>2, <1>6
  <2>2. Types' /\ Loops' /\ FreeDisjoint' /\ InUseDisjoint'
    BY <1>3, <2>1 DEF Inv, Types, Loops, FreeDisjoint, InUseDisjoint, Apart
  <2>3. Unplaced' /\ TakenOut'
    BY <2>1 DEF Unplaced, TakenOut, Listing, Emulating
  <2> QED
    BY <2>2, <2>3 DEF Inv
<1>7. CASE result.raised = "ok"
  <2>1. /\ b \in Int /\ e \in Int /\ b <= e
        /\ result.regions \in Seq(IntRegion) /\ PairwiseDisjoint(result.regions)
        /\ b..e - 1 \subseteq Covered(normal)
        /\ Covered(result.regions) = Covered(normal) \ (b..e - 1)
    BY <1>1, <1>7, AllocationKeeps
  <2>2. normal' = result.regions /\ reserved' = MemoryRegion(b, e)
    BY <1>2, <1>7
  <2> HIDE DEF b, e, result
  <2>3. /\ reserved' \in IntRegion /\ reserved.base' <= reserved.end'
        /\ Addresses(reserved') = b..e - 1
    BY <2>1, <2>2, RegionIs
  <2>4. Types'
    BY <1>3, <2>1, <2>2, <2>3 DEF Inv, Types
  <2>5. Loops'
    BY <1>2, <1>3, <1>4 DEF Loops
  <2>6. FreeDisjoint'
    BY <1>3, <1>5, <2>1, <2>2 DEF FreeDisjoint
  <2>7. InUseDisjoint'
    BY <1>3, <1>4, <2>1, <2>3, NowhereIs DEF InUseDisjoint, Apart, Taken
  <2>8. Unplaced'
    BY <1>2, <1>3, <1>4 DEF Unplaced, Listing, Emulating
  <2>9. Addresses(board.kernel) \cap Covered(normal') = {}
        /\ Addresses(reserved') \cap Covered(normal') = {}
    BY <1>4, <2>1, <2>2, <2>3 DEF Taken
  <2>10. TakenOut'
    BY <1>2, <1>3, <2>9 DEF TakenOut, Taken, Emulating
  <2> QED
    BY <2>4, <2>5, <2>6, <2>7, <2>8, <2>10 DEF Inv
<1> QED
  BY <1>6, <1>7

LEMMA PlaceTaskInv ==
  ASSUME Inv, PlaceTask
  PROVE  Inv'
<1> DEFINE b == AllocatedBase(normal, board.task, reserved.end)
           e == b + board.task
           result == AllocateFrom(normal, board.task, reserved.end)
<1>1. board.task \in Nat /\ reserved.end \in Int /\ board.devices \in Seq(Address) /\ board.devices # <<>>
  BY BoardTypes DEF Inv, Types, IntRegion
<1>2. /\ pc = "task" /\ pc' \in {"devices", "failed"}
      /\ UNCHANGED <<inputs, sizes, reserved, objects>>
      /\ result.raised # "ok" => UNCHANGED <<pass, k, device, normal, task>> /\ pc' = "failed"
      /\ result.raised = "ok" => task' = MemoryRegion(b, e) /\ BeginBoot("emulate")
  BY DEF PlaceTask, Continue
<1>3. /\ board' = board /\ elfSize' = elfSize /\ tableSize' = tableSize
      /\ reserved' = reserved /\ objects' = objects
  BY <1>2 DEF inputs, sizes
<1>4. /\ pass = "place" /\ task = Nowhere /\ objects = Nowhere
      /\ Taken(board.kernel) /\ Taken(reserved)
  BY <1>2 DEF Inv, Loops, Unplaced, TakenOut
<1>5. CASE result.raised # "ok"
  <2>1. /\ normal' = normal /\ device' = device /\ pass' = pass /\ k' = k /\ task' = task
        /\ pc' = "failed"
    BY <1>2, <1>5
  <2>2. Types' /\ Loops' /\ FreeDisjoint' /\ InUseDisjoint'
    BY <1>3, <2>1 DEF Inv, Types, Loops, FreeDisjoint, InUseDisjoint, Apart
  <2>3. Unplaced' /\ TakenOut'
    BY <2>1 DEF Unplaced, TakenOut, Listing, Emulating
  <2> QED
    BY <2>2, <2>3 DEF Inv
<1>6. CASE result.raised = "ok"
  <2>1. /\ b \in Int /\ e \in Int /\ b <= e /\ b..e - 1 \subseteq Covered(normal)
    BY <1>1, <1>6, AllocationKeeps
  <2>2. task' = MemoryRegion(b, e)
    BY <1>2, <1>6
  <2>3. BeginBoot("emulate")
    BY <1>2, <1>6
  <2> HIDE DEF b, e, result
  <2>4. /\ device' \in Seq(IntRegion) /\ normal' \in Seq(IntRegion) /\ FreeDisjoint'
        /\ pass' = "emulate" /\ k' = 1
    BY <2>3, BootBegins
  <2>5. /\ task' \in IntRegion /\ task.base' <= task.end'
        /\ Addresses(task') = b..e - 1
    BY <2>1, <2>2, RegionIs
  <2>6. Types'
    BY <1>3, <2>4, <2>5 DEF Inv, Types
  <2>7. Loops'
    <3>1. 1 \in DOMAIN board.devices
      BY <1>1
    <3> QED
      BY <1>2, <1>3, <2>4, <3>1 DEF Loops
  <2>8. InUseDisjoint'
    BY <1>3, <1>4, <2>1, <2>5, NowhereIs DEF Inv, InUseDisjoint, Apart, Taken
  <2>9. Unplaced' /\ TakenOut'
    BY <1>2, <1>3, <1>4, <2>4 DEF Unplaced, TakenOut, Listing, Emulating
  <2> QED
    BY <2>4, <2>6, <2>7, <2>8, <2>9 DEF Inv
<1> QED
  BY <1>5, <1>6

LEMMA RemoveTaskInv ==
  ASSUME Inv, RemoveTask
  PROVE  Inv'
<1> DEFINE b == task.base
           e == task.end
           result == RemoveRegion(normal, b, e)
<1>1. b \in Int /\ e \in Int /\ b <= e /\ Addresses(task) = b..e - 1
  BY DEF Inv, Types, IntRegion, Addresses
<1>2. /\ normal' = result.regions /\ pc = "take task"
      /\ pc' = IF result.raised = "ok" THEN "take reserved" ELSE "failed"
      /\ UNCHANGED <<inputs, sizes, pass, device, placed, objects>>
  BY DEF RemoveTask, Continue
<1>3. /\ board' = board /\ elfSize' = elfSize /\ tableSize' = tableSize /\ pass' = pass
      /\ device' = device /\ reserved' = reserved /\ task' = task /\ objects' = objects
  BY <1>2 DEF inputs, sizes, placed
<1>4. pass = "emulate" /\ objects = Nowhere /\ Taken(board.kernel)
  BY <1>2 DEF Inv, Loops, Unplaced, TakenOut, Emulating
<1> HIDE DEF b, e
<1>5. /\ normal' \in Seq(IntRegion) /\ FreeDisjoint'
      /\ Addresses(board.kernel) \cap Covered(normal') = {}
      /\ result.raised = "ok" => (b..e - 1) \cap Covered(normal') = {}
  BY <1>1, <1>2, <1>3, <1>4, RemovalKeeps
<1> HIDE DEF result
<1>6. Types' /\ Loops' /\ InUseDisjoint' /\ Unplaced'
  BY <1>2, <1>3, <1>4, <1>5
     DEF Inv, Types, Loops, InUseDisjoint, Apart, Unplaced, Listing, Emulating
<1>7. TakenOut'
  BY <1>1, <1>2, <1>3, <1>5 DEF TakenOut, Taken, Emulating
<1> QED
  BY <1>5, <1>6, <1>7 DEF Inv

LEMMA RemoveReservedInv ==
  ASSUME Inv, RemoveReserved
  PROVE  Inv'
<1> DEFINE b == reserved.base
           e == reserved.end
           result == RemoveRegion(normal, b, e)
<1>1. b \in Int /\ e \in Int /\ b <= e /\ Addresses(reserved) = b..e - 1
  BY DEF Inv, Types, IntRegion, Addresses
<1>2. /\ normal' = result.regions /\ pc = "take reserved"
      /\ pc' = IF result.raised = "ok" THEN "objects" ELSE "failed"
      /\ UNCHANGED <<inputs, sizes, pass, device, placed, objects>>
  BY DEF RemoveReserved, Continue
<1>3. /\ board' = board /\ elfSize' = elfSize /\ tableSize' = tableSize /\ pass' = pass
      /\ device' = device /\ reserved' = reserved /\ task' = task /\ objects' = objects
  BY <1>2 DEF inputs, sizes, placed
<1>4. pass = "emulate" /\ objects = Nowhere /\ Taken(board.kernel) /\ Taken(task)
  BY <1>2 DEF Inv, Loops, Unplaced, TakenOut, Emulating
<1> HIDE DEF b, e
<1>5. /\ normal' \in Seq(IntRegion) /\ FreeDisjoint'
      /\ Addresses(board.kernel) \cap Covered(normal') = {}
      /\ Addresses(task) \cap Covered(normal') = {}
      /\ result.raised = "ok" => (b..e - 1) \cap Covered(normal') = {}
  BY <1>1, <1>2, <1>3, <1>4, RemovalKeeps
<1> HIDE DEF result
<1>6. Types' /\ Loops' /\ InUseDisjoint' /\ Unplaced'
  BY <1>2, <1>3, <1>4, <1>5
     DEF Inv, Types, Loops, InUseDisjoint, Apart, Unplaced, Listing, Emulating
<1>7. TakenOut'
  BY <1>1, <1>2, <1>3, <1>5 DEF TakenOut, Taken, Emulating
<1> QED
  BY <1>5, <1>6, <1>7 DEF Inv

LEMMA TakeObjectsInv ==
  ASSUME Inv, TakeObjects
  PROVE  Inv'
<1> DEFINE possible == {n \in DOMAIN normal : ObjectsStart(normal[n]) >= normal[n].base}
           top == Max(possible)
           b == ObjectsStart(normal[top])
           e == b + board.objects
           result == RemoveRegion(normal, b, e)
<1>1. /\ pc = "objects" /\ pc' \in {"split", "failed"}
      /\ UNCHANGED <<inputs, sizes, pass, device, placed>>
      /\ possible = {} => UNCHANGED <<normal, objects>>
      /\ possible # {} => normal' = result.regions /\ objects' = MemoryRegion(b, e)
  BY DEF TakeObjects, Continue
<1>2. /\ board' = board /\ elfSize' = elfSize /\ tableSize' = tableSize /\ pass' = pass
      /\ device' = device /\ reserved' = reserved /\ task' = task
  BY <1>1 DEF inputs, sizes, placed
<1>3. objects = Nowhere /\ Taken(board.kernel) /\ Taken(task) /\ Taken(reserved)
  BY <1>1 DEF Inv, Unplaced, TakenOut, Emulating
<1>4. Loops' /\ Unplaced' /\ TakenOut'
  BY <1>1 DEF Loops, Unplaced, TakenOut, Listing, Emulating
<1>5. CASE possible = {}
  <2>1. normal' = normal /\ objects' = objects
    BY <1>1, <1>5
  <2>2. Types' /\ FreeDisjoint' /\ InUseDisjoint'
    BY <1>2, <2>1 DEF Inv, Types, FreeDisjoint, InUseDisjoint, Apart
  <2> QED
    BY <1>4, <2>2 DEF Inv
<1>6. CASE possible # {}
  <2>1. normal \in Seq(IntRegion) /\ Len(normal) \in Nat /\ DOMAIN normal = 1..Len(normal)
    BY DEF Inv, Types
  <2>2. top \in possible
    <3>1. possible \in SUBSET Nat /\ \A m \in possible : m <= Len(normal)
      BY <2>1
    <3> HIDE DEF possible
    <3> QED
      BY <1>6, <2>1, <3>1, MaxIsIn
  <2>3. top \in DOMAIN normal /\ normal[top].base <= b
    BY <2>1, <2>2
  <2> HIDE DEF top, possible
  <2>4. normal[top] \in IntRegion
    BY <2>1, <2>3
  <2>5. normal[top].base \in Int /\ normal[top].end \in Int /\ board.objects \in Nat
    BY <2>4, BoardTypes DEF Inv, Types, IntRegion
  <2>6. b \in Int /\ e \in Int /\ b <= e /\ e <= normal[top].end
    <3> DEFINE n == normal[top].end - board.objects
    <3>1. n \in Int /\ ObjectsAlign \in Nat \ {0}
      BY <2>5, SizesAssumption
    <3>2. b = n - (n % ObjectsAlign)
      BY DEF ObjectsStart, RoundDown
    <3> HIDE DEF n, b
    <3>3. n % ObjectsAlign \in Nat
      BY <3>1
    <3>4. b \in Int /\ b <= n
      BY <3>1, <3>2, <3>3
    <3> QED
      BY <2>5, <3>4 DEF n
  <2> HIDE DEF b, e
  <2>7. b..e - 1 \subseteq Covered(normal)
    <3>1. b..e - 1 \subseteq Addresses(normal[top])
      BY <2>3, <2>5, <2>6 DEF Addresses
    <3> QED
      BY <2>3, <3>1, CoveredIs
  <2>8. normal' = result.regions /\ objects' = MemoryRegion(b, e)
    BY <1>1, <1>6
  <2>9. normal' \in Seq(IntRegion) /\ FreeDisjoint'
    BY <1>2, <2>6, <2>8, RemovalKeeps
  <2>10. objects' \in IntRegion /\ Addresses(objects') = b..e - 1
    BY <2>6, <2>8, RegionIs
  <2>11. Types'
    BY <1>2, <2>9, <2>10 DEF Inv, Types
  <2>12. InUseDisjoint'
    BY <1>2, <1>3, <2>7, <2>10 DEF Inv, InUseDisjoint, Apart, Taken
  <2> QED
    BY <1>4, <2>9, <2>11, <2>12 DEF Inv
<1> QED
  BY <1>5, <1>6

\* The other steps leave the free regions and those in use as they are.
LEMMA OthersInv ==
  ASSUME Inv, UNCHANGED <<inputs, pass, device, normal, placed, objects>>, tableSize' \in Nat,
         pc' \in {"start", "table", "measure", "done", "failed"}
  PROVE  Inv'
<1>1. /\ board' = board /\ elfSize' = elfSize /\ pass' = pass /\ device' = device
      /\ normal' = normal /\ reserved' = reserved /\ task' = task /\ objects' = objects
  BY DEF inputs, placed
<1>2. Types' /\ FreeDisjoint' /\ InUseDisjoint'
  BY <1>1 DEF Inv, Types, FreeDisjoint, InUseDisjoint, Apart
<1>3. Loops' /\ Unplaced' /\ TakenOut'
  BY DEF Loops, Unplaced, TakenOut, Listing, Emulating
<1> QED
  BY <1>2, <1>3 DEF Inv

LEMMA MeasureInv ==
  ASSUME Inv, NEW data \in 1..MaxData, NEW caps \in 1..MaxCaps, Measure(data, caps)
  PROVE  Inv'
<1>1. /\ UNCHANGED <<inputs, pass, device, normal, placed, objects>>
      /\ pc' \in {"start", "done"}
      /\ tableSize' = tableSize \/ tableSize' = Max({tableSize, RoundUp(data, PageSize)})
  BY DEF Measure, sizes
<1>2. tableSize \in Nat /\ data \in Nat /\ PageSize \in Nat \ {0}
  BY SizesAssumption DEF Inv, Types
<1>3. RoundUp(data, PageSize) \in Nat
  <2>1. data % PageSize \in Nat /\ data % PageSize < PageSize
    BY <1>2
  <2> QED
    BY <1>2, <2>1 DEF RoundUp
<1>4. tableSize' \in Nat
  BY <1>1, <1>2, <1>3, MaxOfTwo
<1> QED
  BY <1>1, <1>4, OthersInv

LEMMA NextInv ==
  ASSUME Inv, [Next]_vars
  PROVE  Inv'
<1>1. tableSize \in Nat
  BY DEF Inv, Types
<1>2. CASE UNCHANGED vars
  <2>1. /\ board' = board /\ elfSize' = elfSize /\ tableSize' = tableSize /\ pass' = pass
        /\ device' = device /\ normal' = normal /\ reserved' = reserved /\ task' = task
        /\ objects' = objects /\ pc' = pc /\ k' = k
    BY <1>2 DEF vars, inputs, sizes, placed
  <2>2. Types' /\ Loops' /\ FreeDisjoint' /\ InUseDisjoint'
    BY <2>1 DEF Inv, Types, Loops, FreeDisjoint, InUseDisjoint, Apart
  <2>3. Unplaced' /\ TakenOut'
    BY <2>1 DEF Inv, Unplaced, TakenOut, Taken
  <2> QED
    BY <2>2, <2>3 DEF Inv
<1>3. CASE ListUntypeds
  BY <1>1, <1>3, OthersInv DEF ListUntypeds, sizes
<1>4. CASE RetypeTablePages
  <2>1. /\ UNCHANGED <<inputs, sizes, pass, device, normal, placed, objects>>
        /\ pc' \in {"table", "measure", "failed"}
    BY <1>4 DEF RetypeTablePages, Continue
  <2> QED
    BY <1>1, <2>1, OthersInv DEF sizes
<1>5. CASE \E data \in 1..MaxData, caps \in 1..MaxCaps : Measure(data, caps)
  BY <1>5, MeasureInv
<1> QED
  BY <1>2, <1>3, <1>4, <1>5, BuildSystemInv, RemoveKernelDeviceInv, AddMemoryInv,
     RemoveKernelImageInv, PlaceReservedInv, PlaceTaskInv, RemoveTaskInv, RemoveReservedInv,
     TakeObjectsInv DEF Next

LEMMA InvImplies ==
  ASSUME Inv
  PROVE  NoAddressTwice
<1> DEFINE four == <<board.kernel, reserved, task, objects>>
<1>1. PairwiseDisjoint(four)
  <2>1. DOMAIN four = 1..4
    OBVIOUS
  <2>2. four[1] = board.kernel /\ four[2] = reserved /\ four[3] = task /\ four[4] = objects
    OBVIOUS
  <2> HIDE DEF four
  <2> SUFFICES ASSUME NEW m \in 1..4, NEW n \in 1..4, m # n
               PROVE  Addresses(four[m]) \cap Addresses(four[n]) = {}
    BY <2>1 DEF PairwiseDisjoint
  <2>3. m \in {1, 2, 3, 4} /\ n \in {1, 2, 3, 4}
    OBVIOUS
  <2> QED
    BY <2>2, <2>3 DEF Inv, InUseDisjoint, Apart
<1> QED
  BY <1>1 DEF Inv, FreeDisjoint, NoAddressTwice

\* For every board, every size of the images and every need of a build: no physical
\* address is in two of the regions still free, or in two of those in use, at any step of
\* the builder's plan (__main__.py:722-780, sel4.py:835-955 over util.py:123-209).
THEOREM NeverAddressTwice == Spec => []NoAddressTwice
<1>1. Init => Inv
  BY InitInv
<1>2. Inv /\ [Next]_vars => Inv'
  BY NextInv
<1>3. Inv => NoAddressTwice
  BY InvImplies
<1> QED
  BY <1>1, <1>2, <1>3, PTL DEF Spec

-----------------------------------------------------------------------------
(* What the steps leave in order *)

LEMMA MaxIs ==
  ASSUME NEW m \in Nat, NEW n \in Nat
  PROVE  Max({m, n}) \in {m, n} /\ m <= Max({m, n}) /\ n <= Max({m, n})
<1>1. CASE m <= n
  BY <1>1 DEF Max
<1>2. CASE n <= m
  BY <1>2 DEF Max
<1> QED
  BY <1>1, <1>2

LEMMA RegionNumbers ==
  ASSUME NEW s \in Seq(IntRegion)
  PROVE  \A n \in DOMAIN s : s[n] \in IntRegion /\ s[n].base \in Int /\ s[n].end \in Int
<1> TAKE n \in DOMAIN s
<1>1. s[n] \in IntRegion
  OBVIOUS
<1> QED
  BY <1>1 DEF IntRegion

\* Two pieces of memory that share no address are one above the other.
LEMMA Beside ==
  ASSUME NEW b \in Int, NEW e \in Int, NEW c \in Int, NEW d \in Int, b < e, c < d,
         (b..e - 1) \cap (c..d - 1) = {}
  PROVE  e <= c \/ d <= b
<1>1. CASE b <= c
  <2>1. c \in c..d - 1
    OBVIOUS
  <2>2. c \notin b..e - 1
    BY <2>1
  <2> QED
    BY <1>1, <2>2
<1>2. CASE c <= b
  <2>1. b \in b..e - 1
    OBVIOUS
  <2>2. b \notin c..d - 1
    BY <2>1
  <2> QED
    BY <1>2, <2>2
<1> QED
  BY <1>1, <1>2

LEMMA InsideTransitive ==
  ASSUME NEW s \in Seq(IntRegion), NEW t \in Seq(IntRegion), NEW u \in Seq(IntRegion),
         Inside(s, t), Inside(t, u)
  PROVE  Inside(s, u)
<1> SUFFICES ASSUME NEW m \in DOMAIN s
             PROVE  \E n \in DOMAIN u : u[n].base <= s[m].base /\ s[m].end <= u[n].end
  BY DEF Inside
<1>1. PICK j \in DOMAIN t : t[j].base <= s[m].base /\ s[m].end <= t[j].end
  BY DEF Inside
<1>2. PICK n \in DOMAIN u : u[n].base <= t[j].base /\ t[j].end <= u[n].end
  BY DEF Inside
<1> QED
  BY <1>1, <1>2, RegionNumbers

LEMMA InsideHolds ==
  ASSUME NEW s \in Seq(IntRegion), NEW t \in Seq(IntRegion), Inside(s, t),
         NEW b \in Int, NEW e \in Int, Holding(s, b, e) # {}
  PROVE  Holding(t, b, e) # {}
<1>1. PICK m \in DOMAIN s : s[m].base <= b /\ e <= s[m].end
  BY HeldBy
<1>2. PICK n \in DOMAIN t : t[n].base <= s[m].base /\ s[m].end <= t[n].end
  BY DEF Inside
<1>3. t[n].base <= b /\ e <= t[n].end
  BY <1>1, <1>2, RegionNumbers
<1> QED
  BY <1>3, HeldBy

LEMMA HeldIsCovered ==
  ASSUME NEW s \in Seq(IntRegion), NEW b \in Int, NEW e \in Int, Holding(s, b, e) # {}
  PROVE  b..e - 1 \subseteq Covered(s)
<1>1. PICK n \in DOMAIN s : s[n].base <= b /\ e <= s[n].end
  BY HeldBy
<1>2. b..e - 1 \subseteq Addresses(s[n])
  BY <1>1, RegionNumbers DEF Addresses
<1> QED
  BY <1>2, CoveredIs

-----------------------------------------------------------------------------
(* The order of what is placed *)

\* What the proofs need of a board besides the types of BoardTypes.
LEMMA BoardOrder ==
  ASSUME NEW b \in Boards
  PROVE  /\ b.kernel.base < b.kernel.end
         /\ b.kernel.base <= b.bootEnd /\ b.bootEnd <= b.kernel.end
         /\ \E n \in DOMAIN b.memory : Addresses(b.kernel) \subseteq Addresses(b.memory[n])
         /\ \A n \in DOMAIN b.devices :
              (b.devices[n]..b.devices[n] + PageSize - 1) \cap Covered(b.memory) = {}
BY BoardsAssumption

Within(r) == Holding(board.memory, r.base, r.end) # {}

ReservedPlaced ==
  Within(reserved) /\ board.kernel.end <= reserved.base /\ reserved.base < reserved.end

TaskPlaced == Within(task) /\ reserved.end <= task.base

Order ==
  /\ PageSize <= tableSize
  /\ pc \in {"split", "table", "measure", "done"} => pass = "emulate"
  /\ Inside(normal, board.memory)
  /\ pc # "failed" => Check(device)
  /\ pc = "task" \/ pass = "emulate" => ReservedPlaced
  /\ pass = "emulate" => TaskPlaced

PlanInv == Inv /\ Order

LEMMA InitOrder ==
  ASSUME Init
  PROVE  Order
<1>1. Inside(<<>>, board.memory)
  BY DEF Inside
<1>2. Check(<<>>)
  BY DEF Check
<1> QED
  BY <1>1, <1>2, SizesAssumption DEF Init, Order

\* insert_region appends a region that is above all the others (util.py:140-150).
LEMMA Appends ==
  ASSUME NEW s \in Seq(IntRegion), NEW b \in Int, NEW e \in Int, NEW t,
         \A n \in DOMAIN s : s[n].base <= e,
         t = InsertRegion(s, b, e).regions
  PROVE  /\ t \in Seq(IntRegion) /\ Len(t) = Len(s) + 1
         /\ \A n \in 1..Len(s) : t[n] = s[n]
         /\ t[Len(s) + 1] = MemoryRegion(b, e)
<1> DEFINE x == MemoryRegion(b, e)
           above == {n \in DOMAIN s : e < s[n].base}
<1>1. above = {}
  BY RegionNumbers
<1>2. PICK i : i = Len(s) + 1
  OBVIOUS
<1>3. t = InsertAt(s, i, x)
  BY <1>1, <1>2 DEF InsertRegion, Result
<1>4. x \in IntRegion
  BY DEF MemoryRegion, IntRegion
<1>5. Len(s) \in Nat /\ i \in 1..Len(s) + 1
  BY <1>2
<1> HIDE DEF x
<1>6. s \in Seq(IntRegion) /\ i \in 1..Len(s) + 1 /\ x \in IntRegion
  BY <1>4, <1>5
<1> DEFINE v == InsertAt(s, i, x)
<1>7. /\ v \in Seq(IntRegion) /\ Len(v) = Len(s) + 1
      /\ \A n \in 1..Len(s) + 1 : v[n] = IF n < i THEN s[n] ELSE IF n = i THEN x ELSE s[n - 1]
  BY ZenonT(40), <1>6, InsertAtIs
<1>8. v = t
  BY <1>3
<1> HIDE DEF v
<1>9. \A n \in 1..Len(s) : v[n] = s[n]
  BY <1>2, <1>5, <1>7
<1>10. v[Len(s) + 1] = x
  BY <1>2, <1>5, <1>7
<1> QED
  BY <1>7, <1>8, <1>9, <1>10 DEF x

LEMMA FirstRegion ==
  ASSUME NEW none \in Seq(IntRegion), NEW b \in Int, NEW e \in Int
  PROVE  Len(none) = 0 => /\ Len(InsertRegion(none, b, e).regions) = 1
                          /\ InsertRegion(none, b, e).regions[1] = MemoryRegion(b, e)
<1>1. PICK t : t = InsertRegion(none, b, e).regions
  OBVIOUS
<1>2. (\A n \in DOMAIN none : none[n].base <= e) => Len(t) = Len(none) + 1
  BY <1>1, Appends
<1>3. (\A n \in DOMAIN none : none[n].base <= e) => t[Len(none) + 1] = MemoryRegion(b, e)
  BY <1>1, Appends
<1>4. Len(none) = 0 => \A n \in DOMAIN none : none[n].base <= e
  OBVIOUS
<1>5. Len(none) = 0 => Len(t) = 1 /\ t[1] = MemoryRegion(b, e)
  BY <1>2, <1>3, <1>4
<1> QED
  BY <1>1, <1>5

LEMMA OneRegionInOrder ==
  ASSUME NEW s, Len(s) = 1
  PROVE  Check(s)
BY DEF Check

\* The device memory that an emulated boot begins with.
LEMMA WholeSpace ==
  LET whole == InsertRegion(<<>>, 0, DeviceTop).regions
  IN  /\ whole \in Seq(IntRegion) /\ Covered(whole) = 0..DeviceTop - 1 /\ Check(whole)
      /\ Len(whole) = 1 /\ whole[1] = MemoryRegion(0, DeviceTop)
<1>1. 0 \in Int /\ DeviceTop \in Int
  BY SizesAssumption
<1> DEFINE whole == InsertRegion(<<>>, 0, DeviceTop).regions
<1>2. (0..DeviceTop - 1) \cap Covered(<<>>) = {}
  BY EmptyList
<1>3. whole \in Seq(IntRegion) /\ Covered(whole) = Covered(<<>>) \cup (0..DeviceTop - 1)
  BY <1>1, <1>2, EmptyList, InsertExact
<1>4. Len(<<>>) = 0
  OBVIOUS
<1>5. Len(whole) = 1 /\ whole[1] = MemoryRegion(0, DeviceTop)
  BY <1>1, <1>4, EmptyList, FirstRegion, Zenon
<1> HIDE DEF whole
<1>6. Check(whole)
  BY <1>5, OneRegionInOrder
<1>7. Covered(whole) = 0..DeviceTop - 1
  BY <1>3, EmptyList
<1> QED
  BY <1>3, <1>5, <1>6, <1>7 DEF whole

LEMMA BootBeginsInOrder ==
  ASSUME NEW p, BeginBoot(p)
  PROVE  /\ device' \in Seq(IntRegion) /\ Covered(device)' = 0..DeviceTop - 1 /\ Check(device)'
         /\ Len(device') = 1 /\ device'[1] = MemoryRegion(0, DeviceTop)
         /\ normal' = <<>> /\ pass' = p
<1>1. device' = InsertRegion(<<>>, 0, DeviceTop).regions /\ normal' = <<>> /\ pass' = p
  BY DEF BeginBoot
<1> QED
  BY <1>1, WholeSpace

LEMMA NothingInside ==
  ASSUME NEW s
  PROVE  Inside(<<>>, s)
BY DEF Inside
LEMMA Facts ==
  ASSUME Inv
  PROVE  /\ board \in Boards /\ board.memory \in Seq(IntRegion) /\ board.memory # <<>>
         /\ device \in Seq(IntRegion) /\ normal \in Seq(IntRegion)
         /\ elfSize \in Nat /\ tableSize \in Nat
         /\ reserved.base \in Int /\ reserved.end \in Int /\ reserved.base <= reserved.end
         /\ task.base \in Int /\ task.end \in Int /\ task.base <= task.end
         /\ board.kernel.base \in Int /\ board.kernel.end \in Int /\ board.bootEnd \in Int
         /\ board.task \in Nat /\ board.objects \in Nat
         /\ PageSize \in Nat \ {0}
<1>1. board \in Boards /\ reserved \in IntRegion /\ task \in IntRegion
  BY DEF Inv, Types
<1>2. board.kernel \in IntRegion
  BY <1>1, BoardTypes
<1>3. /\ board.kernel.base \in Int /\ board.kernel.end \in Int
      /\ reserved.base \in Int /\ reserved.end \in Int
      /\ task.base \in Int /\ task.end \in Int
  BY <1>1, <1>2 DEF IntRegion
<1> QED
  BY <1>1, <1>3, BoardTypes, SizesAssumption DEF Inv, Types

\* A step that leaves the placed regions and the free memory as they are.
LEMMA OrderKept ==
  ASSUME Order, PageSize <= tableSize',
         board' = board, pass' = pass, normal' = normal, device' = device,
         reserved' = reserved, task' = task,
         pc' # "failed" => pc # "failed",
         pc' = "task" => pc = "task",
         pc' \in {"split", "table", "measure", "done"} => pass = "emulate"
  PROVE  Order'
BY DEF Order, ReservedPlaced, TaskPlaced, Within

LEMMA BuildSystemOrder ==
  ASSUME PlanInv, BuildSystem
  PROVE  Order'
<1>1. /\ Check(device)' /\ normal' = <<>> /\ pass' = "place"
      /\ pc' \in {"devices", "failed"} /\ tableSize' = tableSize
  BY BootBeginsInOrder DEF BuildSystem, Continue, sizes
<1>2. Inside(normal, board.memory)'
  BY <1>1, NothingInside
<1> QED
  BY <1>1, <1>2 DEF PlanInv, Order

LEMMA RemoveKernelDeviceOrder ==
  ASSUME PlanInv, RemoveKernelDevice
  PROVE  Order'
<1> DEFINE b == board.devices[k]
           e == b + PageSize
           result == RemoveRegion(device, b, e)
<1>1. b \in Int /\ e \in Int /\ b <= e
  <2>1. board.devices \in Seq(Address) /\ k \in DOMAIN board.devices
    BY Facts, BoardTypes DEF PlanInv, Inv, Loops, RemoveKernelDevice
  <2>2. b \in Address
    BY <2>1
  <2> QED
    BY <2>2, SizesAssumption DEF Address
<1>2. /\ device' = result.regions /\ pc = "devices" /\ pc' \in {"devices", "memory", "failed"}
      /\ UNCHANGED <<inputs, sizes, pass, normal, placed>>
  BY DEF RemoveKernelDevice, Continue
<1>3. /\ board' = board /\ tableSize' = tableSize /\ pass' = pass /\ normal' = normal
      /\ reserved' = reserved /\ task' = task
  BY <1>2 DEF inputs, sizes, placed
<1> HIDE DEF b, e
<1>4. Check(device) => Check(result.regions)
  BY <1>1, Facts, RemoveInOrder DEF PlanInv
<1> HIDE DEF result
<1>5. Check(device)'
  BY <1>2, <1>4 DEF PlanInv, Order
<1> QED
  BY <1>2, <1>3, <1>5 DEF PlanInv, Order, ReservedPlaced, TaskPlaced, Within

\* What AddMemory does to the two lists.
LEMMA MemoryTaken ==
  ASSUME PlanInv, AddMemory
  PROVE  /\ board.memory[k] \in IntRegion /\ k \in DOMAIN board.memory
         /\ board.memory[k].base \in Int /\ board.memory[k].end \in Int
         /\ board.memory[k].base < board.memory[k].end
<1>1. k \in DOMAIN board.memory
  BY DEF PlanInv, Inv, Loops, AddMemory
<1> QED
  BY <1>1, Facts, BoardTypes, RegionNumbers DEF PlanInv

LEMMA InsertInside ==
  ASSUME NEW s \in Seq(IntRegion), NEW u \in Seq(IntRegion), Inside(s, u),
         NEW n \in DOMAIN u
  PROVE  Inside(InsertRegion(s, u[n].base, u[n].end).regions, u)
<1> DEFINE b == u[n].base
           e == u[n].end
           x == MemoryRegion(b, e)
           above == {m \in DOMAIN s : e < s[m].base}
<1>1. b \in Int /\ e \in Int
  BY RegionNumbers
<1>2. PICK i : i = IF above = {} THEN Len(s) + 1 ELSE Min(above)
  OBVIOUS
<1>3. Len(s) \in Nat /\ DOMAIN s = 1..Len(s)
  OBVIOUS
<1>4. i \in 1..Len(s) + 1
  <2>1. CASE above = {}
    BY <1>2, <1>3, <2>1
  <2>2. CASE above # {}
    <3>1. above \in SUBSET Nat
      BY <1>3
    <3>2. i \in above
      BY <1>2, <2>2, <3>1, MinIsIn
    <3> QED
      BY <1>3, <3>2
  <2> QED
    BY <2>1, <2>2
<1>5. InsertRegion(s, b, e).regions = InsertAt(s, i, x)
  BY <1>2 DEF InsertRegion, Result
<1>6. x \in IntRegion /\ x.base = b /\ x.end = e
  BY <1>1 DEF MemoryRegion, IntRegion
<1> HIDE DEF x, b, e, above
<1>7. s \in Seq(IntRegion) /\ i \in 1..Len(s) + 1 /\ x \in IntRegion
  BY <1>4, <1>6
<1> DEFINE t == InsertAt(s, i, x)
<1>8. /\ t \in Seq(IntRegion) /\ Len(t) = Len(s) + 1
      /\ \A m \in 1..Len(s) + 1 : t[m] = IF m < i THEN s[m] ELSE IF m = i THEN x ELSE s[m - 1]
  BY <1>7, InsertAtIs
<1> HIDE DEF t
<1>9. ASSUME NEW m \in DOMAIN t
      PROVE  \E j \in DOMAIN u : u[j].base <= t[m].base /\ t[m].end <= u[j].end
  <2>1. m \in 1..Len(s) + 1
    BY <1>3, <1>8
  <2>2. CASE m = i
    <3>1. t[m] = x /\ x.base = u[n].base /\ x.end = u[n].end
      BY <1>6, <1>8, <2>1, <2>2 DEF b, e
    <3>2. u[n].base \in Int /\ u[n].end \in Int
      BY RegionNumbers
    <3>3. u[n].base <= t[m].base /\ t[m].end <= u[n].end
      BY <3>1, <3>2
    <3> QED
      BY <3>3
  <2>3. CASE m # i
    <3>1. PICK j \in DOMAIN s : t[m] = s[j]
      <4> DEFINE j == IF m < i THEN m ELSE m - 1
      <4>1. j \in DOMAIN s /\ t[m] = s[j]
        BY <1>3, <1>4, <1>8, <2>1, <2>3
      <4> QED
        BY <4>1
    <3> QED
      BY <3>1 DEF Inside
  <2> QED
    BY <2>2, <2>3
<1>10. Inside(t, u)
  BY <1>9 DEF Inside
<1> QED
  BY <1>5, <1>10 DEF t, b, e

LEMMA AddMemoryOrder ==
  ASSUME PlanInv, AddMemory
  PROVE  Order'
<1> DEFINE b == board.memory[k].base
           e == board.memory[k].end
           taken == RemoveRegion(device, b, e)
           added == InsertRegion(normal, b, e)
<1>1. b \in Int /\ e \in Int /\ b <= e /\ k \in DOMAIN board.memory
  BY MemoryTaken
<1>2. /\ device' = taken.regions
      /\ normal' = IF taken.raised = "ok" THEN added.regions ELSE normal
      /\ pc = "memory" /\ pc' \in {"memory", "kernel", "failed"}
      /\ UNCHANGED <<inputs, sizes, pass, placed>>
  BY DEF AddMemory, Continue
<1>3. /\ board' = board /\ tableSize' = tableSize /\ pass' = pass
      /\ reserved' = reserved /\ task' = task
  BY <1>2 DEF inputs, sizes, placed
<1>4. Inside(added.regions, board.memory)
  BY <1>1, Facts, InsertInside DEF PlanInv, Order
<1> HIDE DEF b, e
<1>5. Check(device) => Check(taken.regions)
  BY <1>1, Facts, RemoveInOrder DEF PlanInv
<1> HIDE DEF taken, added
<1>6. Check(device)'
  BY <1>2, <1>5 DEF PlanInv, Order
<1>7. Inside(normal', board.memory')
  BY <1>2, <1>3, <1>4 DEF PlanInv, Order
<1> QED
  BY <1>2, <1>3, <1>6, <1>7 DEF PlanInv, Order, ReservedPlaced, TaskPlaced, Within

\* A removal from the normal memory alone.
LEMMA RemovalOrder ==
  ASSUME PlanInv, NEW b \in Int, NEW e \in Int, b <= e,
         normal' = RemoveRegion(normal, b, e).regions,
         board' = board, tableSize' = tableSize, pass' = pass, device' = device,
         reserved' = reserved, task' = task,
         pc' # "failed" => pc # "failed", pc' # "task",
         pc' \in {"split", "table", "measure", "done"} => pass = "emulate"
  PROVE  Order'
<1>1. normal' \in Seq(IntRegion) /\ Inside(normal', normal)
  BY Facts, RemoveInOrder DEF PlanInv
<1>2. Inside(normal', board.memory')
  BY <1>1, Facts, InsideTransitive DEF PlanInv, Order
<1> QED
  BY <1>2 DEF PlanInv, Order, ReservedPlaced, TaskPlaced, Within

\* The loops over the kernel's image, the initial task and the reserved region.
LEMMA RemovalsOrder ==
  ASSUME PlanInv, RemoveKernelImage \/ RemoveTask \/ RemoveReserved
  PROVE  Order'
<1>1. CASE RemoveKernelImage
  <2>1. /\ normal' = RemoveRegion(normal, board.kernel.base, board.kernel.end).regions
        /\ pc = "kernel" /\ pc' \in {"reserve", "take task", "failed"}
        /\ UNCHANGED <<inputs, sizes, pass, device, placed>>
    BY <1>1 DEF RemoveKernelImage, Continue
  <2>2. board.kernel.base <= board.kernel.end
    BY Facts, BoardTypes DEF PlanInv
  <2> QED
    BY <2>1, <2>2, Facts, RemovalOrder DEF PlanInv, inputs, sizes, placed
<1>2. CASE RemoveTask
  <2>1. /\ normal' = RemoveRegion(normal, task.base, task.end).regions
        /\ pc = "take task" /\ pc' \in {"take reserved", "failed"}
        /\ UNCHANGED <<inputs, sizes, pass, device, placed>>
    BY <1>2 DEF RemoveTask, Continue
  <2> QED
    BY <2>1, Facts, RemovalOrder DEF PlanInv, inputs, sizes, placed
<1>3. CASE RemoveReserved
  <2>1. /\ normal' = RemoveRegion(normal, reserved.base, reserved.end).regions
        /\ pc = "take reserved" /\ pc' \in {"objects", "failed"}
        /\ UNCHANGED <<inputs, sizes, pass, device, placed>>
    BY <1>3 DEF RemoveReserved, Continue
  <2> QED
    BY <2>1, Facts, RemovalOrder DEF PlanInv, inputs, sizes, placed
<1> QED
  BY <1>1, <1>2, <1>3

LEMMA TakeObjectsOrder ==
  ASSUME PlanInv, TakeObjects
  PROVE  Order'
<1> DEFINE possible == {n \in DOMAIN normal : ObjectsStart(normal[n]) >= normal[n].base}
           top == Max(possible)
           b == ObjectsStart(normal[top])
           e == b + board.objects
<1>1. /\ pc = "objects" /\ pc' \in {"split", "failed"}
      /\ UNCHANGED <<inputs, sizes, pass, device, placed>>
      /\ possible = {} => normal' = normal
      /\ possible # {} => normal' = RemoveRegion(normal, b, e).regions
  BY DEF TakeObjects, Continue
<1>2. /\ board' = board /\ tableSize' = tableSize /\ pass' = pass /\ device' = device
      /\ reserved' = reserved /\ task' = task /\ pass = "emulate"
  BY <1>1 DEF PlanInv, Inv, Loops, inputs, sizes, placed
<1>3. CASE possible = {}
  BY <1>1, <1>2, <1>3, OrderKept DEF PlanInv, Order
<1>4. CASE possible # {}
  <2>1. Len(normal) \in Nat /\ DOMAIN normal = 1..Len(normal)
    BY Facts DEF PlanInv
  <2>2. top \in possible
    <3>1. possible \in SUBSET Nat /\ \A m \in possible : m <= Len(normal)
      BY <2>1
    <3> HIDE DEF possible
    <3> QED
      BY <1>4, <2>1, <3>1, MaxIsIn
  <2>3. b \in Int /\ board.objects \in Nat
    <3> HIDE DEF b, top
    <3>1. top \in DOMAIN normal
      BY <2>2
    <3>2. normal[top].end \in Int
      BY <3>1, Facts, RegionNumbers DEF PlanInv
    <3>3. board.objects \in Nat /\ ObjectsAlign \in Nat \ {0}
      BY Facts, SizesAssumption DEF PlanInv
    <3> DEFINE n == normal[top].end - board.objects
    <3>4. n \in Int
      BY <3>2, <3>3
    <3>5. b = n - (n % ObjectsAlign)
      BY DEF b, ObjectsStart, RoundDown
    <3> HIDE DEF n
    <3>6. n % ObjectsAlign \in Int
      BY <3>3, <3>4
    <3> QED
      BY <3>3, <3>4, <3>5, <3>6
  <2> HIDE DEF b, possible
  <2>4. e \in Int /\ b <= e
    BY <2>3
  <2> QED
    BY <1>1, <1>2, <1>4, <2>3, <2>4, RemovalOrder
<1> QED
  BY <1>3, <1>4

LEMMA PlaceReservedOrder ==
  ASSUME PlanInv, PlaceReserved
  PROVE  Order'
<1> DEFINE b == AllocatedBase(normal, ReservedSize, board.bootEnd)
           e == b + ReservedSize
           result == AllocateFrom(normal, ReservedSize, board.bootEnd)
<1>1. ReservedSize \in Nat /\ 0 < ReservedSize /\ board.bootEnd \in Int
  BY SMTT(40), Facts DEF PlanInv, Order, ReservedSize
<1>2. /\ pc = "reserve" /\ pc' \in {"task", "failed"}
      /\ UNCHANGED <<inputs, sizes, pass, device, task>>
      /\ result.raised # "ok" => UNCHANGED <<normal, reserved>> /\ pc' = "failed"
      /\ result.raised = "ok" => normal' = result.regions /\ reserved' = MemoryRegion(b, e)
  BY DEF PlaceReserved, Continue
<1>3. /\ board' = board /\ tableSize' = tableSize /\ pass' = pass /\ device' = device
      /\ task' = task /\ pass = "place"
  BY <1>2 DEF PlanInv, Inv, Loops, inputs, sizes
<1>4. CASE result.raised # "ok"
  BY <1>2, <1>3, <1>4, Facts, OrderKept DEF PlanInv, Order
<1>5. CASE result.raised = "ok"
  <2>1. Fitting(normal, ReservedSize, board.bootEnd) # {}
    BY <1>5 DEF AllocateFrom
  <2>2. /\ b \in Int /\ board.bootEnd <= b /\ Holding(normal, b, e) # {}
        /\ result = RemoveRegion(normal, b, e)
    BY <1>1, <2>1, Facts, AllocateInOrder DEF PlanInv
  <2>3. normal' = result.regions /\ reserved' = MemoryRegion(b, e)
    BY <1>2, <1>5
  <2>4. b \in Int /\ e \in Int /\ b < e
    BY <1>1, <2>2
  <2> HIDE DEF b, e
  <2> HIDE DEF result
  <2>5. result.regions \in Seq(IntRegion) /\ Inside(result.regions, normal)
    <3>1. b <= e /\ normal \in Seq(IntRegion)
      BY <2>4, Facts DEF PlanInv
    <3> QED
      BY <2>2, <2>4, <3>1, RemoveInOrder
  <2>6. Inside(normal', board.memory')
    BY <1>3, <2>3, <2>5, Facts, InsideTransitive DEF PlanInv, Order
  <2>7. reserved'.base = b /\ reserved'.end = e
    BY <2>3 DEF MemoryRegion
  <2>8. Holding(board.memory, b, e) # {}
    BY <2>2, <2>4, Facts, InsideHolds DEF PlanInv, Order
  <2>9. board.kernel.end <= b
    <3>1. b..e - 1 \subseteq Covered(normal)
      BY <2>2, <2>4, Facts, HeldIsCovered DEF PlanInv
    <3>2. b \in b..e - 1
      BY <2>4
    <3>3. b \notin Addresses(board.kernel)
      BY <1>2, <3>1, <3>2 DEF PlanInv, Inv, TakenOut, Taken
    <3>4. board.kernel.base <= b
      BY <2>2, <2>4, Facts, BoardOrder DEF PlanInv
    <3> QED
      BY <2>4, <3>3, <3>4, Facts DEF PlanInv, Addresses
  <2>10. ReservedPlaced'
    BY <1>3, <2>4, <2>7, <2>8, <2>9 DEF ReservedPlaced, Within
  <2> QED
    BY <1>2, <1>3, <2>6, <2>10 DEF PlanInv, Order
<1> QED
  BY <1>4, <1>5

LEMMA PlaceTaskOrder ==
  ASSUME PlanInv, PlaceTask
  PROVE  Order'
<1> DEFINE b == AllocatedBase(normal, board.task, reserved.end)
           e == b + board.task
           result == AllocateFrom(normal, board.task, reserved.end)
<1>1. board.task \in Nat /\ reserved.end \in Int
  BY Facts DEF PlanInv
<1>2. /\ pc = "task" /\ pc' \in {"devices", "failed"}
      /\ UNCHANGED <<inputs, sizes, reserved>>
      /\ result.raised # "ok" => UNCHANGED <<pass, device, normal, task>> /\ pc' = "failed"
      /\ result.raised = "ok" => task' = MemoryRegion(b, e) /\ BeginBoot("emulate")
  BY DEF PlaceTask, Continue
<1>3. board' = board /\ tableSize' = tableSize /\ reserved' = reserved
  BY <1>2 DEF inputs, sizes
<1>4. CASE result.raised # "ok"
  BY <1>2, <1>3, <1>4, OrderKept, Facts DEF PlanInv, Order
<1>5. CASE result.raised = "ok"
  <2>1. Fitting(normal, board.task, reserved.end) # {}
    BY <1>5 DEF AllocateFrom
  <2>2. /\ b \in Int /\ reserved.end <= b /\ Holding(normal, b, e) # {}
    BY <1>1, <2>1, Facts, AllocateInOrder DEF PlanInv
  <2>3. task' = MemoryRegion(b, e) /\ BeginBoot("emulate")
    BY <1>2, <1>5
  <2>4. e \in Int
    BY <1>1, <2>2
  <2> HIDE DEF b, e, result
  <2>5. task'.base = b /\ task'.end = e
    BY <2>3 DEF MemoryRegion
  <2>6. Holding(board.memory, b, e) # {}
    BY <2>2, <2>4, Facts, InsideHolds DEF PlanInv, Order
  <2>7. Check(device)' /\ normal' = <<>> /\ pass' = "emulate"
    BY <2>3, BootBeginsInOrder
  <2>8. Inside(normal, board.memory)'
    BY <2>7, NothingInside
  <2>9. ReservedPlaced'
    BY <1>2, <1>3 DEF PlanInv, Order, ReservedPlaced, Within
  <2>10. TaskPlaced'
    BY <1>3, <2>2, <2>5, <2>6 DEF TaskPlaced, Within
  <2> QED
    BY <1>2, <1>3, <2>7, <2>8, <2>9, <2>10 DEF PlanInv, Order
<1> QED
  BY <1>4, <1>5

LEMMA MeasureOrder ==
  ASSUME PlanInv, NEW data \in 1..MaxData, NEW caps \in 1..MaxCaps, Measure(data, caps)
  PROVE  Order'
<1>1. /\ UNCHANGED <<inputs, pass, device, normal, placed>>
      /\ pc = "measure" /\ pc' \in {"start", "done"}
      /\ tableSize' = tableSize \/ tableSize' = Max({tableSize, RoundUp(data, PageSize)})
  BY DEF Measure, sizes
<1>2. tableSize \in Nat /\ data \in Nat /\ PageSize \in Nat \ {0}
  BY Facts DEF PlanInv
<1>3. RoundUp(data, PageSize) \in Nat
  <2>1. data % PageSize \in Nat /\ data % PageSize < PageSize
    BY <1>2
  <2> QED
    BY <1>2, <2>1 DEF RoundUp
<1>4. tableSize <= tableSize' /\ tableSize' \in Nat
  <2>1. CASE tableSize' = tableSize
    BY <1>2, <2>1
  <2>2. CASE tableSize' = Max({tableSize, RoundUp(data, PageSize)})
    BY <1>2, <1>3, <2>2, MaxIs
  <2> QED
    BY <1>1, <2>1, <2>2
<1>5. PageSize <= tableSize'
  BY <1>2, <1>4 DEF PlanInv, Order
<1> QED
  BY <1>1, <1>5, OrderKept DEF PlanInv, Order, inputs, placed

LEMMA NextOrder ==
  ASSUME PlanInv, [Next]_vars
  PROVE  Order'
<1>1. PageSize <= tableSize
  BY DEF PlanInv, Order
<1>2. CASE UNCHANGED vars
  BY <1>1, <1>2, OrderKept DEF PlanInv, Order, vars, inputs, sizes, placed
<1>3. CASE ListUntypeds
  <2>1. /\ pc = "split" /\ pc' = "table"
        /\ UNCHANGED <<inputs, sizes, pass, device, normal, placed>>
    BY <1>3 DEF ListUntypeds
  <2> QED
    BY <1>1, <2>1, OrderKept DEF PlanInv, Order, inputs, sizes, placed
<1>4. CASE RetypeTablePages
  <2>1. /\ UNCHANGED <<inputs, sizes, pass, device, normal, placed>>
        /\ pc = "table" /\ pc' \in {"table", "measure", "failed"}
    BY <1>4 DEF RetypeTablePages, Continue
  <2> QED
    BY <1>1, <2>1, OrderKept DEF PlanInv, Order, inputs, sizes, placed
<1>5. CASE \E data \in 1..MaxData, caps \in 1..MaxCaps : Measure(data, caps)
  BY <1>5, MeasureOrder
<1> QED
  BY <1>2, <1>3, <1>4, <1>5, BuildSystemOrder, RemoveKernelDeviceOrder, AddMemoryOrder,
     RemovalsOrder, PlaceReservedOrder, PlaceTaskOrder, TakeObjectsOrder DEF Next

LEMMA PlanInvariance == Spec => []PlanInv
<1>1. Init => PlanInv
  BY InitInv, InitOrder DEF PlanInv
<1>2. PlanInv /\ [Next]_vars => PlanInv'
  BY NextInv, NextOrder DEF PlanInv
<1> QED
  BY <1>1, <1>2, PTL DEF Spec

\* For every board: when a plan is complete, the reserved region is above the kernel's boot
\* region, the initial task is above the reserved region, and both are in memory
\* (__main__.py:752-770, with the kernel's requirements quoted there).
THEOREM PlacedAsRequired == Spec => []PlacedInOrder
<1>1. PlanInv => PlacedInOrder
  <2> SUFFICES ASSUME PlanInv, pc = "done"
               PROVE  /\ board.bootEnd <= reserved.base /\ reserved.end <= task.base
                      /\ Addresses(reserved) \cup Addresses(task) \subseteq Covered(board.memory)
    BY DEF PlacedInOrder
  <2>1. ReservedPlaced /\ TaskPlaced
    BY DEF PlanInv, Order
  <2>2. board.bootEnd <= reserved.base
    BY <2>1, Facts, BoardOrder DEF PlanInv, ReservedPlaced
  <2>3. Addresses(reserved) \subseteq Covered(board.memory)
    BY <2>1, Facts, HeldIsCovered DEF PlanInv, ReservedPlaced, Within, Addresses
  <2>4. Addresses(task) \subseteq Covered(board.memory)
    BY <2>1, Facts, HeldIsCovered DEF PlanInv, TaskPlaced, Within, Addresses
  <2> QED
    BY <2>1, <2>2, <2>3, <2>4 DEF TaskPlaced
<1> QED
  BY <1>1, PlanInvariance, PTL

-----------------------------------------------------------------------------
(* Memory changes hands as MemoryOwners says *)

\* The owner of an address in a state of the plan, where the cases of Owner exclude one
\* another.
OwnerRule(a) ==
  /\ pc = "start" => Owner(a) = "device"
  /\ a \in Covered(device) => Owner(a) = "device"
  /\ pc # "start" /\ a \in Covered(normal) => Owner(a) = "normal"
  /\ pc # "start" /\ a \notin Covered(device) /\ a \notin Covered(normal) =>
       /\ a \in Addresses(board.kernel) => Owner(a) = "kernel"
       /\ a \in Addresses(reserved) => Owner(a) = "reserved"
       /\ a \in Addresses(task) => Owner(a) = "task"
       /\ a \in Addresses(objects) => Owner(a) = "objects"
       /\ a \notin Addresses(board.kernel) \cup Addresses(reserved)
                     \cup Addresses(task) \cup Addresses(objects) =>
            Owner(a) = "kernel device"

\* A case expression whose cases exclude one another.
LEMMA TwoCases ==
  ASSUME NEW p \in BOOLEAN, NEW q \in BOOLEAN, ~(p /\ q), NEW x, NEW y, NEW z
  PROVE  (CASE p -> x [] q -> y [] OTHER -> z) = IF p THEN x ELSE IF q THEN y ELSE z
OBVIOUS

LEMMA FourCases ==
  ASSUME NEW p \in BOOLEAN, NEW q \in BOOLEAN, NEW r \in BOOLEAN, NEW t \in BOOLEAN,
         ~(p /\ q), ~(p /\ r), ~(p /\ t), ~(q /\ r), ~(q /\ t), ~(r /\ t),
         NEW v, NEW w, NEW x, NEW y, NEW z
  PROVE  (CASE p -> v [] q -> w [] r -> x [] t -> y [] OTHER -> z)
           = IF p THEN v ELSE IF q THEN w ELSE IF r THEN x ELSE IF t THEN y ELSE z
OBVIOUS

LEMMA OwnerIs == Inv => \A a : OwnerRule(a)
<1> SUFFICES ASSUME Inv, NEW a PROVE OwnerRule(a)
  OBVIOUS
<1> DEFINE inDevice == a \in Covered(device)
           inNormal == a \in Covered(normal)
           inKernel == a \in Addresses(board.kernel)
           inReserved == a \in Addresses(reserved)
           inTask == a \in Addresses(task)
           inObjects == a \in Addresses(objects)
           used == IF inKernel THEN "kernel" ELSE IF inReserved THEN "reserved"
                     ELSE IF inTask THEN "task" ELSE IF inObjects THEN "objects"
                     ELSE "kernel device"
<1>1. ~(inDevice /\ inNormal)
  BY DEF Inv, FreeDisjoint
<1>2. /\ ~(inKernel /\ inReserved) /\ ~(inKernel /\ inTask) /\ ~(inKernel /\ inObjects)
      /\ ~(inReserved /\ inTask) /\ ~(inReserved /\ inObjects) /\ ~(inTask /\ inObjects)
  BY DEF Inv, InUseDisjoint, Apart
<1>3. Owner(a) = CASE pc = "start" \/ inDevice -> "device"
                   [] pc # "start" /\ inNormal -> "normal"
                   [] OTHER -> CASE inKernel -> "kernel"
                                 [] inReserved -> "reserved"
                                 [] inTask -> "task"
                                 [] inObjects -> "objects"
                                 [] OTHER -> "kernel device"
  BY DEF Owner
<1>4. /\ inDevice \in BOOLEAN /\ inNormal \in BOOLEAN /\ inKernel \in BOOLEAN
      /\ inReserved \in BOOLEAN /\ inTask \in BOOLEAN /\ inObjects \in BOOLEAN
  OBVIOUS
<1> HIDE DEF inDevice, inNormal, inKernel, inReserved, inTask, inObjects
<1>5. (CASE inKernel -> "kernel" [] inReserved -> "reserved" [] inTask -> "task"
         [] inObjects -> "objects" [] OTHER -> "kernel device") = used
  BY <1>2, <1>4, FourCases
<1>6. Owner(a) = CASE pc = "start" \/ inDevice -> "device"
                   [] pc # "start" /\ inNormal -> "normal"
                   [] OTHER -> used
  BY <1>3, <1>5
<1> DEFINE one == pc = "start" \/ inDevice
           two == pc # "start" /\ inNormal
<1>7. one \in BOOLEAN /\ two \in BOOLEAN /\ ~(one /\ two)
  BY <1>1, <1>4
<1>8. Owner(a) = CASE one -> "device" [] two -> "normal" [] OTHER -> used
  BY <1>6
<1> HIDE DEF one, two, used
<1>9. Owner(a) = IF one THEN "device" ELSE IF two THEN "normal" ELSE used
  BY <1>7, <1>8, TwoCases
<1> QED
  BY <1>1, <1>2, <1>9
     DEF OwnerRule, one, two, used, inDevice, inNormal, inKernel, inReserved, inTask, inObjects

LEMMA OwnerIsNext == Inv' => \A a : OwnerRule(a)'
<1>1. (Inv => \A a : OwnerRule(a))'
  BY OwnerIs, PTL
<1> QED
  BY <1>1

OwnerOf == [a \in 0..DeviceTop - 1 |-> Owner(a)]

LEMMA OwnersAre ==
  ASSUME Inv
  PROVE  \A a : Owner(a) \in Owners!Owners
<1> SUFFICES ASSUME NEW a PROVE Owner(a) \in Owners!Owners
  OBVIOUS
<1>1. OwnerRule(a)
  BY OwnerIs
<1>2. Owner(a) \in {"device", "normal", "kernel", "reserved", "task", "objects", "kernel device"}
  BY <1>1 DEF OwnerRule
<1>3. <<"device", "kernel device">> \in Owners!HandsTo /\ <<"device", "normal">> \in Owners!HandsTo
      /\ <<"normal", "kernel">> \in Owners!HandsTo /\ <<"normal", "reserved">> \in Owners!HandsTo
      /\ <<"normal", "task">> \in Owners!HandsTo /\ <<"normal", "objects">> \in Owners!HandsTo
  BY DEF Owners!HandsTo
<1>4. \A x, y : <<x, y>> \in Owners!HandsTo => x \in Owners!Owners /\ y \in Owners!Owners
  <2> SUFFICES ASSUME NEW x, NEW y, <<x, y>> \in Owners!HandsTo
               PROVE  x \in Owners!Owners /\ y \in Owners!Owners
    OBVIOUS
  <2>1. <<x, y>>[1] = x /\ <<x, y>>[2] = y
    OBVIOUS
  <2> QED
    BY <2>1 DEF Owners!Owners
<1> QED
  BY <1>2, <1>3, <1>4

LEMMA OwnersAreNext == Inv' => \A a : Owner(a)' \in Owners!Owners
<1>1. (Inv => \A a : Owner(a) \in Owners!Owners)'
  BY OwnersAre, PTL
<1> QED
  BY <1>1

\* A step that hands one contiguous piece over.
LEMMA HandOver ==
  ASSUME Inv', NEW lo \in Int, NEW hi \in Int, NEW from, NEW to,
         <<from, to>> \in Owners!HandsTo, from # to,
         \A a \in lo..hi - 1 : Owner(a) = from /\ Owner(a)' = to,
         \A a : a \notin lo..hi - 1 => Owner(a)' = Owner(a)
  PROVE  Owners!Next
<1> DEFINE piece == {a \in 0..DeviceTop - 1 : OwnerOf'[a] # OwnerOf[a]}
<1>1. DeviceTop \in Int
  BY SizesAssumption
<1>2. \A a \in 0..DeviceTop - 1 : OwnerOf[a] = Owner(a) /\ OwnerOf'[a] = Owner(a)'
  BY DEF OwnerOf
<1>3. \A a : a \in piece <=> a \in 0..DeviceTop - 1 /\ a \in lo..hi - 1
  BY <1>2
<1>4. OwnerOf' \in [0..DeviceTop - 1 -> Owners!Owners]
  BY OwnersAreNext DEF OwnerOf
<1>5. \A a \in piece : OwnerOf[a] = from /\ OwnerOf'[a] = to
  BY <1>2, <1>3
<1>6. \A a, b \in piece : a..b \subseteq piece
  BY <1>1, <1>3
<1> HIDE DEF piece
<1>7. Owners!Hand(from, to)
  BY <1>4, <1>5, <1>6 DEF Owners!Hand, OwnerOf, piece
<1>8. <<from, to>>[1] = from /\ <<from, to>>[2] = to
  OBVIOUS
<1>9. \E pair \in Owners!HandsTo : Owners!Hand(pair[1], pair[2])
  BY <1>7, <1>8
<1> QED
  BY <1>9 DEF Owners!Next

LEMMA BeginAnew ==
  ASSUME \A a \in 0..DeviceTop - 1 : Owner(a)' = "device"
  PROVE  Owners!Next
BY DEF Owners!Next, Owners!Restart

\* The owner of an address that stays where it is.
LEMMA OwnerStays ==
  ASSUME Inv, Inv', NEW a, pc # "start", pc' # "start", board' = board,
         a \in Covered(device') <=> a \in Covered(device),
         a \in Covered(normal') <=> a \in Covered(normal),
         a \in Covered(device) \/ a \in Covered(normal)
           \/ (/\ a \in Addresses(reserved') <=> a \in Addresses(reserved)
               /\ a \in Addresses(task') <=> a \in Addresses(task)
               /\ a \in Addresses(objects') <=> a \in Addresses(objects))
  PROVE  Owner(a)' = Owner(a)
<1>1. OwnerRule(a) /\ OwnerRule(a)'
  BY OwnerIs, OwnerIsNext
<1>2. CASE a \in Covered(device)
  <2>1. Owner(a) = "device" /\ Owner(a)' = "device"
    BY <1>1, <1>2 DEF OwnerRule
  <2> QED
    BY <2>1
<1>3. CASE a \in Covered(normal)
  <2>1. Owner(a) = "normal" /\ Owner(a)' = "normal"
    BY <1>1, <1>3 DEF OwnerRule
  <2> QED
    BY <2>1
<1>4. CASE a \notin Covered(device) /\ a \notin Covered(normal)
  <2>1. /\ a \in Addresses(board.kernel) => Owner(a) = "kernel" /\ Owner(a)' = "kernel"
        /\ a \in Addresses(reserved) => Owner(a) = "reserved" /\ Owner(a)' = "reserved"
        /\ a \in Addresses(task) => Owner(a) = "task" /\ Owner(a)' = "task"
        /\ a \in Addresses(objects) => Owner(a) = "objects" /\ Owner(a)' = "objects"
    BY <1>1, <1>4 DEF OwnerRule
  <2>2. CASE \/ a \in Addresses(board.kernel) \/ a \in Addresses(reserved)
             \/ a \in Addresses(task) \/ a \in Addresses(objects)
    <3>1. \E who : Owner(a) = who /\ Owner(a)' = who
      BY <2>1, <2>2
    <3> QED
      BY <3>1
  <2>3. CASE /\ a \notin Addresses(board.kernel) /\ a \notin Addresses(reserved)
             /\ a \notin Addresses(task) /\ a \notin Addresses(objects)
    <3>1. Owner(a) = "kernel device" /\ Owner(a)' = "kernel device"
      BY <1>1, <1>4, <2>3 DEF OwnerRule
    <3> QED
      BY <3>1
  <2> QED
    BY <2>2, <2>3
<1> QED
  BY <1>2, <1>3, <1>4

Handed == Owners!Next \/ OwnerOf' = OwnerOf

LEMMA AllStay ==
  ASSUME \A a : Owner(a)' = Owner(a)
  PROVE  Handed
BY DEF Handed, OwnerOf

LEMMA HandsAre ==
  /\ <<"device", "kernel device">> \in Owners!HandsTo /\ <<"device", "normal">> \in Owners!HandsTo
  /\ <<"normal", "kernel">> \in Owners!HandsTo /\ <<"normal", "reserved">> \in Owners!HandsTo
  /\ <<"normal", "task">> \in Owners!HandsTo /\ <<"normal", "objects">> \in Owners!HandsTo
BY DEF Owners!HandsTo

LEMMA AllFree ==
  ASSUME Inv', NEW p, BeginBoot(p)
  PROVE  Handed
<1>1. Covered(device)' = 0..DeviceTop - 1
  BY BootBeginsInOrder
<1>2. ASSUME NEW a \in 0..DeviceTop - 1
      PROVE  Owner(a)' = "device"
  <2>1. OwnerRule(a)'
    BY OwnerIsNext
  <2>2. a \in Covered(device)'
    BY <1>1
  <2> QED
    BY <2>1, <2>2 DEF OwnerRule
<1> QED
  BY <1>2, BeginAnew DEF Handed

LEMMA RemoveKernelDeviceHands ==
  ASSUME PlanInv, PlanInv', RemoveKernelDevice
  PROVE  Handed
<1> DEFINE b == board.devices[k]
           e == b + PageSize
           result == RemoveRegion(device, b, e)
<1>1. k \in DOMAIN board.devices /\ board.devices \in Seq(Address)
  BY Facts, BoardTypes DEF PlanInv, Inv, Loops, RemoveKernelDevice
<1>2. b \in Int /\ e \in Int /\ b <= e
  <2>1. b \in Address
    BY <1>1
  <2> QED
    BY <2>1, SizesAssumption DEF Address
<1>3. /\ device' = result.regions /\ pc = "devices" /\ pc' \in {"devices", "memory", "failed"}
      /\ UNCHANGED <<inputs, sizes, pass, normal, placed, objects>>
  BY DEF RemoveKernelDevice, Continue
<1>4. /\ board' = board /\ normal' = normal
      /\ reserved' = reserved /\ task' = task /\ objects' = objects
  BY <1>3 DEF inputs, sizes, placed
<1>5. (b..e - 1) \cap Covered(board.memory) = {}
  <2>1. \A n \in DOMAIN board.devices :
          (board.devices[n]..board.devices[n] + PageSize - 1) \cap Covered(board.memory) = {}
    BY Facts, BoardOrder DEF PlanInv
  <2>2. (b..b + PageSize - 1) \cap Covered(board.memory) = {}
    BY <1>1, <2>1, Zenon
  <2>3. e - 1 = b + PageSize - 1 /\ e = b + PageSize
    BY <1>2, SizesAssumption
  <2> HIDE DEF b, e
  <2> QED
    BY <2>2, <2>3, Zenon
<1> HIDE DEF b, e
<1>6. device \in Seq(IntRegion) /\ PairwiseDisjoint(device) /\ Covered(device) \cap Covered(normal) = {}
  BY DEF PlanInv, Inv, Types, FreeDisjoint
<1>7. CASE Holding(device, b, e) = {}
  <2>1. device' = device
    BY <1>3, <1>7 DEF RemoveRegion
  <2>2. \A a : Owner(a)' = Owner(a)
    BY <1>3, <1>4, <2>1, OwnerStays DEF PlanInv
  <2> QED
    BY <2>2, AllStay
<1>8. CASE Holding(device, b, e) # {}
  <2>1. b..e - 1 \subseteq Covered(device) /\ Covered(device') = Covered(device) \ (b..e - 1)
    BY <1>2, <1>3, <1>6, <1>8, RemoveExact
  <2>2. \A a : a \notin b..e - 1 => Owner(a)' = Owner(a)
    BY <1>3, <1>4, <2>1, OwnerStays DEF PlanInv
  <2>3. ASSUME NEW a \in b..e - 1
        PROVE  Owner(a) = "device" /\ Owner(a)' = "kernel device"
    <3>1. OwnerRule(a) /\ OwnerRule(a)'
      BY OwnerIs, OwnerIsNext DEF PlanInv
    <3>2. a \in Covered(device) /\ a \notin Covered(device') /\ a \notin Covered(normal')
      BY <1>4, <1>6, <2>1
    <3>3. a \notin Covered(board.memory)
      BY <1>5
    <3>4. /\ a \notin Addresses(board.kernel) /\ a \notin Addresses(reserved)
          /\ a \notin Addresses(task) /\ a \notin Addresses(objects)
      <4>1. Addresses(board.kernel) \subseteq Covered(board.memory)
        BY Facts, BoardOrder, CoveredIs DEF PlanInv
      <4>2. Addresses(reserved) \subseteq Covered(board.memory)
        <5>1. CASE pass = "place"
          BY <1>3, <5>1, NowhereIs DEF PlanInv, Inv, Unplaced, Listing
        <5>2. CASE pass = "emulate"
          BY <5>2, Facts, HeldIsCovered DEF PlanInv, Order, ReservedPlaced, Within, Addresses
        <5> QED
          BY <5>1, <5>2 DEF PlanInv, Inv, Types
      <4>3. Addresses(task) \subseteq Covered(board.memory)
        <5>1. CASE pass = "place"
          BY <1>3, <5>1, NowhereIs DEF PlanInv, Inv, Unplaced, Listing
        <5>2. CASE pass = "emulate"
          BY <5>2, Facts, HeldIsCovered DEF PlanInv, Order, TaskPlaced, Within, Addresses
        <5> QED
          BY <5>1, <5>2 DEF PlanInv, Inv, Types
      <4>4. Addresses(objects) = {}
        BY <1>3, NowhereIs DEF PlanInv, Inv, Unplaced, Listing
      <4> QED
        BY <3>3, <4>1, <4>2, <4>3, <4>4
    <3>5. Owner(a) = "device"
      BY <3>1, <3>2 DEF OwnerRule
    <3>6. Owner(a)' = "kernel device"
      BY <1>3, <1>4, <3>1, <3>2, <3>4 DEF OwnerRule
    <3> QED
      BY <3>5, <3>6
  <2> QED
    BY <1>2, <2>2, <2>3, HandOver, HandsAre DEF Handed, PlanInv
<1> QED
  BY <1>7, <1>8

LEMMA AddMemoryHands ==
  ASSUME PlanInv, PlanInv', AddMemory
  PROVE  Handed
<1> DEFINE b == board.memory[k].base
           e == board.memory[k].end
           taken == RemoveRegion(device, b, e)
           added == InsertRegion(normal, b, e)
<1>1. b \in Int /\ e \in Int /\ b <= e
  BY MemoryTaken
<1>2. /\ device' = taken.regions
      /\ normal' = IF taken.raised = "ok" THEN added.regions ELSE normal
      /\ pc = "memory" /\ pc' \in {"memory", "kernel", "failed"}
      /\ UNCHANGED <<inputs, sizes, pass, placed, objects>>
  BY DEF AddMemory, Continue
<1>3. board' = board /\ reserved' = reserved /\ task' = task /\ objects' = objects
  BY <1>2 DEF inputs, sizes, placed
<1> HIDE DEF b, e
<1>4. /\ device \in Seq(IntRegion) /\ PairwiseDisjoint(device)
      /\ normal \in Seq(IntRegion) /\ PairwiseDisjoint(normal)
      /\ Covered(device) \cap Covered(normal) = {}
  BY DEF PlanInv, Inv, Types, FreeDisjoint
<1>5. CASE Holding(device, b, e) = {}
  <2>1. taken.regions = device /\ taken.raised = "not covered"
    BY <1>5 DEF RemoveRegion
  <2>2. device' = device /\ normal' = normal
    BY <1>2, <2>1
  <2>3. \A a : Owner(a)' = Owner(a)
    BY <1>2, <1>3, <2>2, OwnerStays DEF PlanInv
  <2> QED
    BY <2>3, AllStay
<1>6. CASE Holding(device, b, e) # {}
  <2>1. b..e - 1 \subseteq Covered(device) /\ Covered(taken.regions) = Covered(device) \ (b..e - 1)
    BY <1>1, <1>4, <1>6, RemoveExact
  <2>2. Check(device)
    BY <1>2 DEF PlanInv, Order
  <2>3. taken.raised = "ok"
    BY <1>1, <1>4, <1>6, <2>2, RemoveInOrder
  <2>4. Covered(added.regions) = Covered(normal) \cup (b..e - 1)
    <3>1. (b..e - 1) \cap Covered(normal) = {}
      BY <1>4, <2>1
    <3> QED
      BY <1>1, <1>4, <3>1, InsertExact
  <2> HIDE DEF taken, added
  <2>5. device' = taken.regions /\ normal' = added.regions
    BY <1>2, <2>3
  <2>6. \A a : a \notin b..e - 1 => Owner(a)' = Owner(a)
    BY <1>2, <1>3, <2>1, <2>4, <2>5, OwnerStays DEF PlanInv
  <2>7. ASSUME NEW a \in b..e - 1
        PROVE  Owner(a) = "device" /\ Owner(a)' = "normal"
    <3>1. OwnerRule(a) /\ OwnerRule(a)'
      BY OwnerIs, OwnerIsNext DEF PlanInv
    <3>2. a \in Covered(device) /\ a \in Covered(normal')
      BY <2>1, <2>4, <2>5
    <3>3. Owner(a) = "device"
      BY <3>1, <3>2 DEF OwnerRule
    <3>4. Owner(a)' = "normal"
      BY <1>2, <3>1, <3>2 DEF OwnerRule
    <3> QED
      BY <3>3, <3>4
  <2> QED
    BY <1>1, <2>6, <2>7, HandOver, HandsAre DEF Handed, PlanInv
<1> QED
  BY <1>5, <1>6

\* A removal from the normal memory, of a region whose owner is known.
LEMMA RemovalHands ==
  ASSUME Inv, Inv', NEW b \in Int, NEW e \in Int, b <= e, NEW to,
         <<"normal", to>> \in Owners!HandsTo, to # "normal",
         pc # "start", pc' # "start", board' = board, device' = device,
         normal' = RemoveRegion(normal, b, e).regions,
         Holding(normal, b, e) # {} =>
           \A a \in b..e - 1 : a \notin Covered(device') /\ a \notin Covered(normal')
                                 => Owner(a)' = to,
         \A a : a \notin b..e - 1 \/ Holding(normal, b, e) = {} =>
           a \in Covered(device) \/ a \in Covered(normal)
             \/ (/\ a \in Addresses(reserved') <=> a \in Addresses(reserved)
                 /\ a \in Addresses(task') <=> a \in Addresses(task)
                 /\ a \in Addresses(objects') <=> a \in Addresses(objects))
  PROVE  Handed
<1>1. normal \in Seq(IntRegion) /\ PairwiseDisjoint(normal) /\ Covered(device) \cap Covered(normal) = {}
  BY DEF Inv, Types, FreeDisjoint
<1>2. CASE Holding(normal, b, e) = {}
  <2>1. normal' = normal
    BY <1>1, <1>2, RemoveExact
  <2>2. \A a : Owner(a)' = Owner(a)
    BY <1>2, <2>1, OwnerStays
  <2> QED
    BY <2>2, AllStay
<1>3. CASE Holding(normal, b, e) # {}
  <2>1. b..e - 1 \subseteq Covered(normal) /\ Covered(normal') = Covered(normal) \ (b..e - 1)
    BY <1>1, <1>3, RemoveExact
  <2>2. \A a : a \notin b..e - 1 => Owner(a)' = Owner(a)
    BY <2>1, OwnerStays
  <2>3. ASSUME NEW a \in b..e - 1
        PROVE  Owner(a) = "normal" /\ Owner(a)' = to
    <3>1. OwnerRule(a)
      BY OwnerIs
    <3>2. a \in Covered(normal) /\ a \notin Covered(device') /\ a \notin Covered(normal')
      BY <1>1, <2>1
    <3>3. Owner(a) = "normal"
      BY <3>1, <3>2 DEF OwnerRule
    <3> QED
      BY <1>3, <3>2, <3>3
  <2> QED
    BY <2>2, <2>3, HandOver DEF Handed
<1> QED
  BY <1>2, <1>3

LEMMA RemovalsHand ==
  ASSUME PlanInv, PlanInv', RemoveKernelImage \/ RemoveTask \/ RemoveReserved
  PROVE  Handed
<1>1. CASE RemoveKernelImage
  <2>1. /\ normal' = RemoveRegion(normal, board.kernel.base, board.kernel.end).regions
        /\ pc = "kernel" /\ pc' \in {"reserve", "take task", "failed"}
        /\ UNCHANGED <<inputs, device, placed, objects>>
    BY <1>1 DEF RemoveKernelImage, Continue
  <2>2. board.kernel.base <= board.kernel.end
    BY Facts, BoardTypes DEF PlanInv
  <2>3. ASSUME NEW a \in board.kernel.base..board.kernel.end - 1,
               a \notin Covered(device'), a \notin Covered(normal')
        PROVE  Owner(a)' = "kernel"
    <3>1. OwnerRule(a)'
      BY OwnerIsNext DEF PlanInv
    <3>2. a \in Addresses(board.kernel')
      BY <2>1 DEF Addresses, inputs
    <3> QED
      BY <2>1, <2>3, <3>1, <3>2 DEF OwnerRule
  <2> QED
    BY <2>1, <2>2, <2>3, Facts, HandsAre, RemovalHands DEF PlanInv, inputs, placed
<1>2. CASE RemoveTask
  <2>1. /\ normal' = RemoveRegion(normal, task.base, task.end).regions
        /\ pc = "take task" /\ pc' \in {"take reserved", "failed"}
        /\ UNCHANGED <<inputs, device, placed, objects>>
    BY <1>2 DEF RemoveTask, Continue
  <2>2. ASSUME NEW a \in task.base..task.end - 1,
               a \notin Covered(device'), a \notin Covered(normal')
        PROVE  Owner(a)' = "task"
    <3>1. OwnerRule(a)'
      BY OwnerIsNext DEF PlanInv
    <3>2. a \in Addresses(task')
      BY <2>1 DEF Addresses, placed
    <3> QED
      BY <2>1, <2>2, <3>1, <3>2 DEF OwnerRule
  <2> QED
    BY <2>1, <2>2, Facts, HandsAre, RemovalHands DEF PlanInv, inputs, placed
<1>3. CASE RemoveReserved
  <2>1. /\ normal' = RemoveRegion(normal, reserved.base, reserved.end).regions
        /\ pc = "take reserved" /\ pc' \in {"objects", "failed"}
        /\ UNCHANGED <<inputs, device, placed, objects>>
    BY <1>3 DEF RemoveReserved, Continue
  <2>2. ASSUME NEW a \in reserved.base..reserved.end - 1,
               a \notin Covered(device'), a \notin Covered(normal')
        PROVE  Owner(a)' = "reserved"
    <3>1. OwnerRule(a)'
      BY OwnerIsNext DEF PlanInv
    <3>2. a \in Addresses(reserved')
      BY <2>1 DEF Addresses, placed
    <3> QED
      BY <2>1, <2>2, <3>1, <3>2 DEF OwnerRule
  <2> QED
    BY <2>1, <2>2, Facts, HandsAre, RemovalHands DEF PlanInv, inputs, placed
<1> QED
  BY <1>1, <1>2, <1>3

LEMMA PlaceReservedHands ==
  ASSUME PlanInv, PlanInv', PlaceReserved
  PROVE  Handed
<1> DEFINE b == AllocatedBase(normal, ReservedSize, board.bootEnd)
           e == b + ReservedSize
           result == AllocateFrom(normal, ReservedSize, board.bootEnd)
<1>1. ReservedSize \in Nat /\ board.bootEnd \in Int
  BY Facts DEF PlanInv, ReservedSize
<1>2. /\ pc = "reserve" /\ pc' \in {"task", "failed"}
      /\ UNCHANGED <<inputs, device, task, objects>>
      /\ result.raised # "ok" => UNCHANGED <<normal, reserved>>
      /\ result.raised = "ok" => normal' = result.regions /\ reserved' = MemoryRegion(b, e)
  BY DEF PlaceReserved, Continue
<1>3. /\ board' = board /\ device' = device /\ task' = task /\ objects' = objects
  BY <1>2 DEF inputs
<1>4. CASE result.raised # "ok"
  <2>1. \A a : Owner(a)' = Owner(a)
    BY <1>2, <1>3, <1>4, OwnerStays DEF PlanInv
  <2> QED
    BY <2>1, AllStay
<1>5. CASE result.raised = "ok"
  <2>1. Fitting(normal, ReservedSize, board.bootEnd) # {}
    BY <1>5 DEF AllocateFrom
  <2>2. /\ b \in Int /\ Holding(normal, b, e) # {}
        /\ result = RemoveRegion(normal, b, e)
    BY <1>1, <2>1, Facts, AllocateInOrder DEF PlanInv
  <2>3. e \in Int /\ b <= e
    BY <1>1, <2>2
  <2>4. normal' = RemoveRegion(normal, b, e).regions /\ reserved' = MemoryRegion(b, e)
    BY <1>2, <1>5, <2>2
  <2> HIDE DEF b, e, result
  <2>5. Addresses(reserved') = b..e - 1
    BY <2>2, <2>3, <2>4, RegionIs
  <2>6. Addresses(reserved) = {}
    BY <1>2, NowhereIs DEF PlanInv, Inv, Loops, Unplaced
  <2>7. ASSUME NEW a \in b..e - 1, a \notin Covered(device'), a \notin Covered(normal')
        PROVE  Owner(a)' = "reserved"
    <3>1. OwnerRule(a)'
      BY OwnerIsNext DEF PlanInv
    <3> QED
      BY <1>2, <2>5, <2>7, <3>1 DEF OwnerRule
  <2>8. \A a : a \notin b..e - 1 => (a \in Addresses(reserved') <=> a \in Addresses(reserved))
    BY <2>5, <2>6
  <2> QED
    BY <1>2, <1>3, <2>2, <2>3, <2>4, <2>7, <2>8, HandsAre, RemovalHands DEF PlanInv
<1> QED
  BY <1>4, <1>5

LEMMA PlaceTaskHands ==
  ASSUME PlanInv, PlanInv', PlaceTask
  PROVE  Handed
<1>1. \/ BeginBoot("emulate")
      \/ /\ UNCHANGED <<inputs, device, normal, reserved, task, objects>>
         /\ pc = "task" /\ pc' \in {"devices", "failed"}
  BY DEF PlaceTask, Continue
<1>2. CASE BeginBoot("emulate")
  BY <1>2, AllFree DEF PlanInv
<1>3. CASE /\ UNCHANGED <<inputs, device, normal, reserved, task, objects>>
           /\ pc = "task" /\ pc' \in {"devices", "failed"}
  <2>1. \A a : Owner(a)' = Owner(a)
    BY <1>3, OwnerStays DEF PlanInv, inputs
  <2> QED
    BY <2>1, AllStay
<1> QED
  BY <1>1, <1>2, <1>3

LEMMA TakeObjectsHands ==
  ASSUME PlanInv, PlanInv', TakeObjects
  PROVE  Handed
<1> DEFINE possible == {n \in DOMAIN normal : ObjectsStart(normal[n]) >= normal[n].base}
           top == Max(possible)
           b == ObjectsStart(normal[top])
           e == b + board.objects
<1>1. /\ pc = "objects" /\ pc' \in {"split", "failed"}
      /\ UNCHANGED <<inputs, sizes, pass, device, placed>>
      /\ possible = {} => UNCHANGED <<normal, objects>>
      /\ possible # {} => /\ normal' = RemoveRegion(normal, b, e).regions
                          /\ objects' = MemoryRegion(b, e)
  BY DEF TakeObjects, Continue
<1>2. /\ board' = board /\ device' = device /\ reserved' = reserved /\ task' = task
  BY <1>1 DEF inputs, sizes, placed
<1>3. CASE possible = {}
  <2>1. normal' = normal /\ objects' = objects
    BY <1>1, <1>3
  <2>2. \A a : Owner(a)' = Owner(a)
    BY <1>1, <1>2, <2>1, OwnerStays DEF PlanInv
  <2> QED
    BY <2>2, AllStay
<1>4. CASE possible # {}
  <2>1. Len(normal) \in Nat /\ DOMAIN normal = 1..Len(normal)
    BY Facts DEF PlanInv
  <2>2. top \in possible
    <3>1. possible \in SUBSET Nat /\ \A m \in possible : m <= Len(normal)
      BY <2>1
    <3> HIDE DEF possible
    <3> QED
      BY <1>4, <2>1, <3>1, MaxIsIn
  <2>3. top \in DOMAIN normal /\ normal[top].base <= b
    BY <2>2
  <2> HIDE DEF top
  <2>4. normal[top].base \in Int /\ normal[top].end \in Int /\ board.objects \in Nat
    BY <2>3, Facts, RegionNumbers DEF PlanInv
  <2>5. b \in Int /\ e \in Int /\ b <= e /\ e <= normal[top].end
    <3> DEFINE n == normal[top].end - board.objects
    <3>1. n \in Int /\ ObjectsAlign \in Nat \ {0}
      BY <2>4, SizesAssumption
    <3>2. b = n - (n % ObjectsAlign)
      BY DEF ObjectsStart, RoundDown
    <3> HIDE DEF n, b
    <3>3. n % ObjectsAlign \in Nat
      BY <3>1
    <3>4. b \in Int /\ b <= n
      BY <3>1, <3>2, <3>3
    <3> QED
      BY <2>4, <3>4 DEF n
  <2>6. normal' = RemoveRegion(normal, b, e).regions /\ objects' = MemoryRegion(b, e)
    BY <1>1, <1>4
  <2> HIDE DEF b, e, possible
  <2>7. Holding(normal, b, e) # {}
    BY <2>3, <2>5, Facts, HeldBy DEF PlanInv
  <2>8. Addresses(objects') = b..e - 1
    BY <2>5, <2>6, RegionIs
  <2>9. Addresses(objects) = {}
    BY <1>1, NowhereIs DEF PlanInv, Inv, Unplaced, Emulating
  <2>10. ASSUME NEW a \in b..e - 1, a \notin Covered(device'), a \notin Covered(normal')
         PROVE  Owner(a)' = "objects"
    <3>1. OwnerRule(a)'
      BY OwnerIsNext DEF PlanInv
    <3> QED
      BY <1>1, <2>8, <2>10, <3>1 DEF OwnerRule
  <2>11. \A a : a \notin b..e - 1 => (a \in Addresses(objects') <=> a \in Addresses(objects))
    BY <2>8, <2>9
  <2> QED
    BY <1>1, <1>2, <2>5, <2>6, <2>7, <2>10, <2>11, HandsAre, RemovalHands DEF PlanInv
<1> QED
  BY <1>3, <1>4

LEMMA BuildSystemHands ==
  ASSUME PlanInv, PlanInv', BuildSystem
  PROVE  Handed
BY AllFree DEF BuildSystem, PlanInv

LEMMA MeasureHands ==
  ASSUME PlanInv, PlanInv', NEW data \in 1..MaxData, NEW caps \in 1..MaxCaps,
         Measure(data, caps)
  PROVE  Handed
<1>1. /\ UNCHANGED <<inputs, device, normal, placed, objects>>
      /\ pc = "measure" /\ pc' \in {"start", "done"}
  BY DEF Measure
<1>2. CASE pc' = "start"
  <2>1. ASSUME NEW a PROVE Owner(a)' = "device"
    <3>1. OwnerRule(a)'
      BY OwnerIsNext DEF PlanInv
    <3> QED
      BY <1>2, <3>1 DEF OwnerRule
  <2> QED
    BY <2>1, BeginAnew DEF Handed
<1>3. CASE pc' = "done"
  <2>1. \A a : Owner(a)' = Owner(a)
    BY <1>1, <1>3, OwnerStays DEF PlanInv, inputs, placed
  <2> QED
    BY <2>1, AllStay
<1> QED
  BY <1>1, <1>2, <1>3

LEMMA NextHands ==
  ASSUME PlanInv, PlanInv', [Next]_vars
  PROVE  Handed
<1>1. CASE UNCHANGED vars
  <2>1. \A a : Owner(a)' = Owner(a)
    BY <1>1 DEF Owner, vars, inputs, placed
  <2> QED
    BY <2>1, AllStay
<1>2. CASE ListUntypeds \/ RetypeTablePages
  <2>1. /\ UNCHANGED <<inputs, device, normal, placed, objects>>
        /\ pc # "start" /\ pc' # "start"
    BY <1>2 DEF ListUntypeds, RetypeTablePages, Continue
  <2>2. \A a : Owner(a)' = Owner(a)
    BY <2>1, OwnerStays DEF PlanInv, inputs, placed
  <2> QED
    BY <2>2, AllStay
<1>3. CASE \E data \in 1..MaxData, caps \in 1..MaxCaps : Measure(data, caps)
  BY <1>3, MeasureHands
<1> QED
  BY <1>1, <1>2, <1>3, BuildSystemHands, RemoveKernelDeviceHands, AddMemoryHands,
     RemovalsHand, PlaceReservedHands, PlaceTaskHands, TakeObjectsHands DEF Next

\* For every board: each step of the plan hands one contiguous piece of memory from its
\* owner to the next one along a fixed order, or begins the plan anew; no step takes an
\* address from two owners or gives it to one that may not have it
\* (__main__.py:722-780, sel4.py:835-955).
THEOREM PlanImplementsOwners == Spec => ImplementsOwners
<1>1. Init => Owners!Init
  <2> SUFFICES ASSUME Init PROVE Owners!Init
    OBVIOUS
  <2>1. Inv /\ pc = "start"
    BY InitInv DEF Init
  <2>2. \A a : Owner(a) = "device"
    BY <2>1, OwnerIs DEF OwnerRule
  <2> QED
    BY <2>2 DEF Owners!Init
<1>2. PlanInv /\ PlanInv' /\ [Next]_vars => [Owners!Next]_OwnerOf
  BY NextHands DEF Handed
<1>3. Spec => []PlanInv
  BY PlanInvariance
<1>4. Init /\ [][Next]_vars /\ []PlanInv => Owners!Init /\ [][Owners!Next]_OwnerOf
  BY <1>1, <1>2, PTL
<1> QED
  BY <1>3, <1>4, PTL DEF Spec, ImplementsOwners, Owners!Spec, OwnerOf

-----------------------------------------------------------------------------
(* A plan fails only for want of memory or for a limit of the tool *)

LEMMA WholePages ==
  ASSUME NEW n \in Nat, NEW size \in Nat \ {0}
  PROVE  RoundUp(n, size) % size = 0
<1>1. (n + size - (n % size)) % size = 0
  OBVIOUS
<1> QED
  BY <1>1 DEF RoundUp

\* A power of two that is large enough is found, if the word can count so many.
LEMMA CnodeSizeIs ==
  ASSUME CapsFitWord, NEW n \in 1..MaxCaps
  PROVE  IsPowerOfTwo(CnodeSizeFor(n)) /\ CnodeSizeFor(n) \in Nat
<1> DEFINE S == {2^j : j \in {i \in 0..WordBits : 2^i >= n}}
<1>1. S \in SUBSET Nat
  BY DEF CapsFitWord
<1>2. WordBits \in 0..WordBits /\ MaxCaps \in Nat /\ 2^WordBits \in Nat
  BY WordAssumption, SizesAssumption DEF CapsFitWord
<1>3. 2^WordBits >= n
  BY <1>2 DEF CapsFitWord
<1>4. S # {}
  BY <1>2, <1>3
<1>5. CnodeSizeFor(n) = Min(S)
  BY DEF CnodeSizeFor
<1>6. \A m \in S : IsPowerOfTwo(m)
  BY DEF IsPowerOfTwo
<1> HIDE DEF S
<1> QED
  BY <1>1, <1>4, <1>5, <1>6, MinIsIn

\* The sizes that main builds for.
SizesFit ==
  /\ tableSize % PageSize = 0
  /\ cnodeSize \in Nat /\ IsPowerOfTwo(cnodeSize)

LEMMA InitSizes ==
  ASSUME Init
  PROVE  SizesFit
<1>1. PageSize % PageSize = 0
  BY SizesAssumption
<1>2. 1 \in 0..WordBits /\ 2^1 = 2
  BY WordAssumption
<1>3. IsPowerOfTwo(2)
  BY <1>2 DEF IsPowerOfTwo
<1> QED
  BY <1>1, <1>3 DEF Init, SizesFit

LEMMA MeasureSizes ==
  ASSUME CapsFitWord, PlanInv, SizesFit,
         NEW data \in 1..MaxData, NEW caps \in 1..MaxCaps, Measure(data, caps)
  PROVE  SizesFit'
<1>1. CASE UNCHANGED sizes
  BY <1>1 DEF sizes, SizesFit
<1>2. CASE /\ tableSize' = Max({tableSize, RoundUp(data, PageSize)})
           /\ cnodeSize' = Max({cnodeSize, CnodeSizeFor(caps)})
  <2>1. tableSize \in Nat /\ data \in Nat /\ PageSize \in Nat \ {0} /\ cnodeSize \in Nat
    BY Facts DEF PlanInv, SizesFit
  <2>2. RoundUp(data, PageSize) \in Nat
    <3>1. data % PageSize \in Nat /\ data % PageSize < PageSize
      BY <2>1
    <3> QED
      BY <2>1, <3>1 DEF RoundUp
  <2>3. RoundUp(data, PageSize) % PageSize = 0
    BY <2>1, WholePages
  <2>4. IsPowerOfTwo(CnodeSizeFor(caps)) /\ CnodeSizeFor(caps) \in Nat
    BY CnodeSizeIs
  <2>5. tableSize' \in {tableSize, RoundUp(data, PageSize)}
    BY <1>2, <2>1, <2>2, MaxIs
  <2>6. cnodeSize' \in {cnodeSize, CnodeSizeFor(caps)}
    BY <1>2, <2>1, <2>4, MaxIs
  <2>7. tableSize' % PageSize = 0
    BY <2>3, <2>5 DEF SizesFit
  <2>8. cnodeSize' \in Nat /\ IsPowerOfTwo(cnodeSize')
    BY <2>4, <2>6 DEF SizesFit
  <2> QED
    BY <2>7, <2>8 DEF SizesFit, IsPowerOfTwo
<1> QED
  BY <1>1, <1>2 DEF Measure

\* What the boot is about to remove is in one region of the list that has it.
StillDevice(b, e) == Holding(device, b, e) # {}
StillNormal(r) == Holding(normal, r.base, r.end) # {}

\* How far the lists of the emulated boot are.
Found ==
  /\ pc = "devices" =>
       /\ normal = <<>>
       /\ \A n \in DOMAIN board.devices :
            n >= k => StillDevice(board.devices[n], board.devices[n] + PageSize)
  /\ pc \in {"devices", "memory"} =>
       \A n \in DOMAIN board.memory :
         pc = "devices" \/ n >= k => StillDevice(board.memory[n].base, board.memory[n].end)
  /\ pc = "memory" => Len(normal) = k - 1 /\ \A n \in DOMAIN normal : normal[n] = board.memory[n]
  /\ pc = "kernel" =>
       Len(normal) = Len(board.memory) /\ \A n \in DOMAIN normal : normal[n] = board.memory[n]
  /\ pc = "take task" => StillNormal(task)
  /\ pc \in {"take task", "take reserved"} => StillNormal(reserved)
  /\ pc # "failed" => Check(normal)

NoSurprise == raised \notin {"not covered", "AssertionError"}

LimitInv == PlanInv /\ SizesFit /\ Found /\ NoSurprise

LEMMA InitLimit ==
  ASSUME Init
  PROVE  LimitInv
<1>1. Check(<<>>)
  BY DEF Check
<1>2. Found
  BY <1>1 DEF Init, Found
<1>3. NoSurprise
  BY DEF Init, NoSurprise
<1> QED
  BY <1>2, <1>3, InitInv, InitOrder, InitSizes DEF LimitInv, PlanInv

-----------------------------------------------------------------------------

LEMMA SizesKept == SizesFit /\ UNCHANGED sizes => SizesFit'
BY DEF SizesFit, sizes

\* A frame or a region of memory is in the device memory that an emulated boot begins with.
LEMMA AllHeldAtFirst ==
  ASSUME NEW s, Len(s) = 1, s[1] = MemoryRegion(0, DeviceTop), s \in Seq(IntRegion),
         NEW b \in Int, NEW e \in Int, 0 <= b, e <= DeviceTop
  PROVE  Holding(s, b, e) # {}
<1>1. s[1].base = 0 /\ s[1].end = DeviceTop /\ 1 \in DOMAIN s
  BY DEF MemoryRegion
<1> QED
  BY <1>1 DEF Holding

\* The beginning of an emulated boot, of either kind.
LEMMA BootBeginsFound ==
  ASSUME OrderlyBoards, PlanInv, NEW p, BeginBoot(p), board' = board, pc' \in {"devices", "failed"}
  PROVE  Found'
<1>1. /\ device' \in Seq(IntRegion) /\ Len(device') = 1 /\ device'[1] = MemoryRegion(0, DeviceTop)
      /\ normal' = <<>>
  BY BootBeginsInOrder
<1>2. Check(normal')
  BY <1>1 DEF Check
<1>3. board \in Boards /\ DeviceTop \in Nat /\ PageSize \in Nat
  BY SizesAssumption, Facts DEF PlanInv
<1>4. ASSUME NEW n \in DOMAIN board.devices
      PROVE  Holding(device', board.devices[n], board.devices[n] + PageSize) # {}
  <2>1. board.devices[n] \in Address
    BY <1>3, BoardTypes
  <2>2. board.devices[n] \in Nat /\ board.devices[n] + PageSize <= DeviceTop
    BY <1>3, <2>1 DEF OrderlyBoards, Address
  <2> QED
    BY <1>1, <1>3, <2>2, AllHeldAtFirst
<1>5. ASSUME NEW n \in DOMAIN board.memory
      PROVE  Holding(device', board.memory[n].base, board.memory[n].end) # {}
  <2>1. board.memory[n] \in RegionType
    BY <1>3, BoardsAssumption
  <2>2. board.memory[n].base \in Nat /\ board.memory[n].end \in Nat /\ board.memory[n].end <= DeviceTop
    BY <1>3, <2>1 DEF RegionType, Address
  <2> QED
    BY <1>1, <1>3, <2>2, AllHeldAtFirst
<1> QED
  BY <1>1, <1>2, <1>4, <1>5 DEF Found, StillDevice, StillNormal

LEMMA BuildSystemFound ==
  ASSUME OrderlyBoards, LimitInv, BuildSystem
  PROVE  Found' /\ NoSurprise'
<1>1. /\ BeginBoot("place") /\ pc' \in {"devices", "failed"} /\ UNCHANGED inputs
      /\ raised' = CASE ~IsPowerOfTwo(cnodeSize) \/ tableSize % PageSize # 0 -> "AssertionError"
                     [] tableSize > MaxTable -> "table too large"
                     [] OTHER -> "ok"
  BY DEF BuildSystem, Continue
<1>2. Found'
  BY <1>1, BootBeginsFound DEF LimitInv, inputs
<1> DEFINE bad == ~IsPowerOfTwo(cnodeSize) \/ tableSize % PageSize # 0
           large == tableSize > MaxTable
<1>3. ~bad
  BY DEF LimitInv, SizesFit
<1>4. raised' = CASE bad -> "AssertionError" [] large -> "table too large" [] OTHER -> "ok"
  BY <1>1
<1>5. bad \in BOOLEAN /\ large \in BOOLEAN
  OBVIOUS
<1> HIDE DEF bad, large
<1>6. raised' \in {"table too large", "ok"}
  BY <1>3, <1>4, <1>5
<1> QED
  BY <1>2, <1>6 DEF NoSurprise

LEMMA RemoveKernelDeviceFound ==
  ASSUME OrderlyBoards, LimitInv, RemoveKernelDevice
  PROVE  Found' /\ NoSurprise'
<1> DEFINE b == board.devices[k]
           e == b + PageSize
           result == RemoveRegion(device, b, e)
           last == k = Len(board.devices)
<1>1. /\ board \in Boards /\ k \in DOMAIN board.devices /\ board.devices \in Seq(Address)
      /\ PageSize \in Nat \ {0} /\ board.memory # <<>> /\ board.memory \in Seq(IntRegion)
      /\ device \in Seq(IntRegion) /\ DeviceTop \in Nat
  BY Facts, BoardTypes, SizesAssumption DEF LimitInv, PlanInv, Inv, Loops, RemoveKernelDevice
<1>2. \A n \in DOMAIN board.devices : board.devices[n] \in Int
  BY <1>1 DEF Address
<1>3. b \in Int /\ e \in Int /\ b < e /\ b <= e
  BY <1>1, <1>2
<1>4. /\ device' = result.regions /\ raised' = result.raised /\ pc = "devices"
      /\ pc' = IF result.raised = "ok" THEN IF last THEN "memory" ELSE "devices" ELSE "failed"
      /\ k' = IF last THEN 1 ELSE k + 1
      /\ UNCHANGED <<inputs, normal>>
  BY DEF RemoveKernelDevice, Continue
<1>5. board' = board /\ normal' = normal
  BY <1>4 DEF inputs
<1>6. Holding(device, b, e) # {}
  BY <1>1, <1>4 DEF LimitInv, Found, StillDevice
<1>7. Check(device) /\ normal = <<>> /\ Check(normal)
  BY <1>4 DEF LimitInv, Found, PlanInv, Order
<1> HIDE DEF b, e
<1>8. /\ result.raised = "ok"
      /\ \A c, d \in Int :
           /\ Holding(device, c, d) # {}
           /\ (d <= b /\ c < b) \/ (e <= c /\ e < d)
           => Holding(result.regions, c, d) # {}
  BY <1>1, <1>3, <1>6, <1>7, RemoveInOrder
<1> HIDE DEF result
<1>9. ASSUME NEW n \in DOMAIN board.devices, n >= k + 1
      PROVE  Holding(device', board.devices[n], board.devices[n] + PageSize) # {}
  <2>1. k \in Int /\ n \in Int /\ n # k /\ n >= k
    BY <1>1, <1>9
  <2>2. Holding(device, board.devices[n], board.devices[n] + PageSize) # {}
    BY <1>4, <2>1 DEF LimitInv, Found, StillDevice
  <2>3. \/ board.devices[n] + PageSize <= board.devices[k]
        \/ board.devices[k] + PageSize <= board.devices[n]
    BY <1>1, <2>1 DEF OrderlyBoards
  <2> DEFINE c == board.devices[n]
             d == c + PageSize
  <2>4. c \in Int /\ d \in Int /\ c < d
    BY <1>1, <1>2
  <2>5. (d <= b /\ c < b) \/ (e <= c /\ e < d)
    BY <1>3, <2>3, <2>4 DEF b, e
  <2> QED
    BY <1>4, <1>8, <2>2, <2>4, <2>5
<1>10. ASSUME NEW n \in DOMAIN board.memory
       PROVE  Holding(device', board.memory[n].base, board.memory[n].end) # {}
  <2> DEFINE c == board.memory[n].base
             d == board.memory[n].end
  <2>1. c \in Int /\ d \in Int /\ c < d
    BY <1>1, BoardTypes, RegionNumbers
  <2>2. Holding(device, c, d) # {}
    BY <1>4 DEF LimitInv, Found, StillDevice
  <2>3. (b..e - 1) \cap (c..d - 1) = {}
    <3>1. c..d - 1 \subseteq Covered(board.memory)
      BY CoveredIs DEF Addresses
    <3>2. (board.devices[k]..board.devices[k] + PageSize - 1) \cap Covered(board.memory) = {}
      BY <1>1, BoardOrder
    <3>3. (b..b + PageSize - 1) \cap Covered(board.memory) = {}
      BY <3>2 DEF b
    <3>4. e - 1 = b + PageSize - 1
      BY <1>1, <1>3 DEF e
    <3> HIDE DEF c, d
    <3>5. (b..e - 1) \cap Covered(board.memory) = {}
      BY <3>3, <3>4, Zenon
    <3> QED
      BY <3>1, <3>5
  <2> HIDE DEF c, d
  <2>4. e <= c \/ d <= b
    BY <1>3, <2>1, <2>3, Beside
  <2>5. (d <= b /\ c < b) \/ (e <= c /\ e < d)
    BY <1>3, <2>1, <2>4
  <2>6. Holding(device', c, d) # {}
    BY <1>4, <1>8, <2>1, <2>2, <2>5
  <2> QED
    BY <2>6 DEF c, d
<1>11. NoSurprise'
  BY <1>4, <1>8 DEF NoSurprise
<1>12. Len(normal') = 0 /\ DOMAIN normal' = {} /\ Check(normal')
  BY <1>5, <1>7
<1>13. CASE last
  <2>1. pc' = "memory" /\ k' = 1
    BY <1>4, <1>8, <1>13
  <2> QED
    BY <1>5, <1>10, <1>11, <1>12, <2>1 DEF Found, StillDevice, StillNormal
<1>14. CASE ~last
  <2>1. pc' = "devices" /\ k' = k + 1
    BY <1>4, <1>8, <1>14
  <2>2. normal' = <<>>
    BY <1>5, <1>7
  <2> QED
    BY <1>5, <1>9, <1>10, <1>11, <1>12, <2>1, <2>2 DEF Found, StillDevice, StillNormal
<1> QED
  BY <1>13, <1>14

\* A list that grows at its end by a region above the others stays in order.
LEMMA AppendedInOrder ==
  ASSUME NEW s \in Seq(IntRegion), NEW t \in Seq(IntRegion), Len(t) = Len(s) + 1,
         \A n \in 1..Len(s) : t[n] = s[n],
         \A n \in DOMAIN s : s[n].end <= t[Len(s) + 1].base,
         Check(s)
  PROVE  Check(t)
<1> SUFFICES ASSUME NEW i \in 1..Len(t) - 1 PROVE t[i + 1].base >= t[i].end
  BY DEF Check
<1>1. Len(s) \in Nat /\ DOMAIN s = 1..Len(s) /\ i \in 1..Len(s)
  OBVIOUS
<1>2. CASE i = Len(s)
  <2>1. t[i] = s[i] /\ t[i + 1] = t[Len(s) + 1] /\ i \in DOMAIN s
    BY <1>1, <1>2
  <2>2. s[i].end <= t[i + 1].base
    BY <2>1
  <2>3. s[i].end \in Int
    BY <2>1, RegionNumbers
  <2>4. i + 1 \in DOMAIN t
    BY <1>1
  <2>5. t[i + 1].base \in Int
    BY <2>4, RegionNumbers
  <2> QED
    BY <2>1, <2>2, <2>3, <2>5
<1>3. CASE i # Len(s)
  <2>1. i + 1 \in 1..Len(s) /\ i \in 1..Len(s) - 1
    <3>1. PICK len \in Nat : len = Len(s)
      BY <1>1
    <3>2. i \in 1..len /\ i # len
      BY <1>1, <1>3, <3>1
    <3>3. i + 1 \in 1..len /\ i \in 1..len - 1
      BY <3>2
    <3> QED
      BY <3>1, <3>3
  <2>2. t[i] = s[i] /\ t[i + 1] = s[i + 1]
    BY <1>1, <2>1
  <2> QED
    BY <2>1, <2>2 DEF Check
<1> QED
  BY <1>2, <1>3

LEMMA AddMemoryFound ==
  ASSUME OrderlyBoards, LimitInv, AddMemory
  PROVE  Found' /\ NoSurprise'
<1> DEFINE b == board.memory[k].base
           e == board.memory[k].end
           taken == RemoveRegion(device, b, e)
           added == InsertRegion(normal, b, e)
           last == k = Len(board.memory)
<1>1. /\ board \in Boards /\ k \in DOMAIN board.memory /\ board.memory \in Seq(IntRegion)
      /\ device \in Seq(IntRegion) /\ normal \in Seq(IntRegion)
      /\ Len(board.memory) \in Nat /\ DOMAIN board.memory = 1..Len(board.memory) /\ k \in Nat
  <2>1. k \in DOMAIN board.memory
    BY MemoryTaken DEF LimitInv
  <2> QED
    BY SMTT(40), <2>1, Facts DEF LimitInv, PlanInv
<1>2. b \in Int /\ e \in Int /\ b < e /\ b <= e
  BY MemoryTaken DEF LimitInv
<1>3. /\ device' = taken.regions /\ pc = "memory"
      /\ normal' = IF taken.raised = "ok" THEN added.regions ELSE normal
      /\ raised' = IF taken.raised = "ok" THEN added.raised ELSE taken.raised
      /\ pc' = IF (IF taken.raised = "ok" THEN added.raised ELSE taken.raised) = "ok"
               THEN IF last THEN "kernel" ELSE "memory" ELSE "failed"
      /\ k' = IF last THEN 1 ELSE k + 1
      /\ UNCHANGED inputs
  BY DEF AddMemory, Continue
<1>4. board' = board
  BY <1>3 DEF inputs
<1>5. Holding(device, b, e) # {}
  BY <1>1, <1>3 DEF LimitInv, Found, StillDevice
<1>6. /\ Check(device) /\ Check(normal) /\ Len(normal) = k - 1
      /\ \A n \in DOMAIN normal : normal[n] = board.memory[n]
  BY <1>3 DEF LimitInv, Found, PlanInv, Order
<1>7. \A m, n \in DOMAIN board.memory : m < n => board.memory[m].end <= board.memory[n].base
  BY <1>1 DEF OrderlyBoards
<1>8. ASSUME NEW n \in DOMAIN normal
      PROVE  n \in DOMAIN board.memory /\ n < k /\ normal[n].end <= b /\ normal[n].base <= e
  <2>1. n \in DOMAIN board.memory /\ n < k
    BY <1>1, <1>6
  <2>2. normal[n].end <= b
    BY <1>1, <1>6, <1>7, <2>1
  <2>3. normal[n].base < normal[n].end
    BY <1>1, <1>6, <2>1, BoardTypes
  <2>4. normal[n].base \in Int /\ normal[n].end \in Int
    BY <1>1, RegionNumbers
  <2> QED
    BY <1>2, <2>1, <2>2, <2>3, <2>4
<1>9. board.memory[k] = MemoryRegion(b, e)
  <2>1. board.memory[k] \in IntRegion
    BY <1>1
  <2> QED
    BY <2>1 DEF MemoryRegion, IntRegion
<1> HIDE DEF b, e
<1>10. /\ taken.raised = "ok"
       /\ \A c, d \in Int :
            /\ Holding(device, c, d) # {}
            /\ (d <= b /\ c < b) \/ (e <= c /\ e < d)
            => Holding(taken.regions, c, d) # {}
  <2>1. device \in Seq(IntRegion) /\ b \in Int /\ e \in Int /\ b <= e /\ Check(device)
    BY <1>1, <1>2, <1>6
  <2> QED
    BY <1>5, <2>1, RemoveInOrder
<1>11. PICK t : t = added.regions
  OBVIOUS
<1>12. \A n \in DOMAIN normal : normal[n].base <= e
  BY <1>8
<1>13. /\ t \in Seq(IntRegion) /\ Len(t) = Len(normal) + 1
       /\ \A n \in 1..Len(normal) : t[n] = normal[n]
       /\ t[Len(normal) + 1] = MemoryRegion(b, e)
  <2>1. normal \in Seq(IntRegion) /\ b \in Int /\ e \in Int
    BY <1>1, <1>2
  <2>2. t = InsertRegion(normal, b, e).regions
    BY <1>11
  <2> HIDE DEF taken, added, last
  <2>3. (\A n \in DOMAIN normal : normal[n].base <= e) => t \in Seq(IntRegion)
    BY <2>1, <2>2, Appends
  <2>4. (\A n \in DOMAIN normal : normal[n].base <= e) => Len(t) = Len(normal) + 1
    BY <2>1, <2>2, Appends
  <2>5. (\A n \in DOMAIN normal : normal[n].base <= e) => \A n \in 1..Len(normal) : t[n] = normal[n]
    BY <2>1, <2>2, Appends
  <2>6. (\A n \in DOMAIN normal : normal[n].base <= e) => t[Len(normal) + 1] = MemoryRegion(b, e)
    BY <2>1, <2>2, Appends
  <2> QED
    BY <1>12, <2>3, <2>4, <2>5, <2>6
<1>14. added.raised = IF Check(t) THEN "ok" ELSE "AssertionError"
  BY <1>11 DEF InsertRegion, Result
<1> HIDE DEF taken, added
<1>15. Check(t)
  <2>1. \A n \in DOMAIN normal : normal[n].end <= t[Len(normal) + 1].base
    BY <1>8, <1>13 DEF MemoryRegion
  <2> QED
    BY <1>1, <1>6, <1>13, <2>1, AppendedInOrder
<1>16. /\ normal' = t /\ raised' = "ok" /\ pc' = IF last THEN "kernel" ELSE "memory"
  BY <1>3, <1>10, <1>11, <1>14, <1>15
<1>17. ASSUME NEW n \in DOMAIN board.memory, n >= k + 1
       PROVE  Holding(device', board.memory[n].base, board.memory[n].end) # {}
  <2> DEFINE c == board.memory[n].base
             d == board.memory[n].end
  <2>1. c \in Int /\ d \in Int /\ c < d
    BY <1>1, BoardTypes, RegionNumbers
  <2>2. k < n /\ n >= k
    BY <1>1, <1>17
  <2>3. Holding(device, c, d) # {}
    BY <1>3, <2>2 DEF LimitInv, Found, StillDevice
  <2>4. e <= c
    BY <1>1, <1>7, <2>2 DEF e
  <2> HIDE DEF c, d
  <2>5. e <= c /\ e < d
    BY <1>2, <2>1, <2>4
  <2>6. Holding(device', c, d) # {}
    BY <1>3, <1>10, <2>1, <2>3, <2>5
  <2> QED
    BY <2>6 DEF c, d
<1>18. Len(t) = k /\ \A n \in DOMAIN t : t[n] = board.memory[n]
  <2>1. Len(t) = k /\ DOMAIN t = 1..k
    BY <1>1, <1>6, <1>13
  <2>2. ASSUME NEW n \in 1..k PROVE t[n] = board.memory[n]
    <3>1. CASE n = k
      BY <1>1, <1>6, <1>9, <1>13, <3>1
    <3>2. CASE n # k
      <4>1. n \in 1..Len(normal) /\ n \in DOMAIN normal
        BY <1>1, <1>6, <3>2
      <4> QED
        BY <1>6, <1>13, <4>1
    <3> QED
      BY <3>1, <3>2
  <2> QED
    BY <2>1, <2>2
<1>19. NoSurprise'
  BY <1>16 DEF NoSurprise
<1>20. CASE last
  <2>1. pc' = "kernel" /\ Len(t) = Len(board.memory)
    BY <1>16, <1>18, <1>20
  <2> QED
    BY <1>4, <1>15, <1>16, <1>18, <1>19, <2>1 DEF Found, StillDevice, StillNormal
<1>21. CASE ~last
  <2>1. pc' = "memory" /\ k' = k + 1 /\ k' - 1 = k
    BY <1>1, <1>3, <1>16, <1>21
  <2> HIDE DEF last
  <2> QED
    BY <1>4, <1>15, <1>16, <1>17, <1>18, <1>19, <2>1 DEF Found, StillDevice, StillNormal
<1> QED
  BY <1>20, <1>21

\* A removal from the normal memory alone, of what one of its regions holds.
LEMMA NormalRemoval ==
  ASSUME PlanInv, Check(normal), NEW b \in Int, NEW e \in Int, b <= e, Holding(normal, b, e) # {}
  PROVE  /\ RemoveRegion(normal, b, e).raised = "ok" /\ Check(RemoveRegion(normal, b, e).regions)
         /\ \A c, d \in Int :
              /\ Holding(normal, c, d) # {}
              /\ (d <= b /\ c < b) \/ (e <= c /\ e < d)
              => Holding(RemoveRegion(normal, b, e).regions, c, d) # {}
<1>1. normal \in Seq(IntRegion)
  BY Facts DEF PlanInv
<1> QED
  BY <1>1, RemoveInOrder

LEMMA RemoveKernelImageFound ==
  ASSUME LimitInv, RemoveKernelImage
  PROVE  Found' /\ NoSurprise'
<1> DEFINE b == board.kernel.base
           e == board.kernel.end
           result == RemoveRegion(normal, b, e)
<1>1. /\ normal' = result.regions /\ raised' = result.raised /\ pc = "kernel"
      /\ pc' = IF result.raised = "ok" THEN IF pass = "place" THEN "reserve" ELSE "take task"
               ELSE "failed"
      /\ UNCHANGED <<inputs, placed>>
  BY DEF RemoveKernelImage, Continue
<1>2. /\ board \in Boards /\ board.memory \in Seq(IntRegion) /\ normal \in Seq(IntRegion)
      /\ b \in Int /\ e \in Int
      /\ reserved.base \in Int /\ reserved.end \in Int
      /\ task.base \in Int /\ task.end \in Int /\ task.base <= task.end
  BY Facts DEF LimitInv, PlanInv
<1>3. b < e /\ b <= e
  BY <1>2, BoardOrder
<1>4. reserved' = reserved /\ task' = task
  BY <1>1 DEF placed
<1>5. Len(normal) = Len(board.memory) /\ \A n \in DOMAIN normal : normal[n] = board.memory[n]
  BY <1>1 DEF LimitInv, Found
<1>6. DOMAIN normal = DOMAIN board.memory
  BY <1>2, <1>5
<1>7. \A c, d \in Int : Holding(board.memory, c, d) # {} => Holding(normal, c, d) # {}
  BY <1>5, <1>6 DEF Holding
<1>8. Holding(board.memory, b, e) # {}
  <2>1. PICK n \in DOMAIN board.memory : Addresses(board.kernel) \subseteq Addresses(board.memory[n])
    BY <1>2, BoardOrder
  <2>2. board.memory[n].base \in Int /\ board.memory[n].end \in Int
    BY <1>2, RegionNumbers
  <2>3. b \in Addresses(board.kernel) /\ e - 1 \in Addresses(board.kernel)
    BY <1>2, <1>3 DEF Addresses
  <2>4. b \in Addresses(board.memory[n]) /\ e - 1 \in Addresses(board.memory[n])
    BY <2>1, <2>3
  <2>5. board.memory[n].base <= b /\ e <= board.memory[n].end
    BY <1>2, <2>2, <2>4 DEF Addresses
  <2> QED
    BY <2>5 DEF Holding
<1> HIDE DEF b, e
<1>9. Holding(normal, b, e) # {}
  BY <1>2, <1>7, <1>8
<1>10. Check(normal) /\ PlanInv
  BY <1>1 DEF LimitInv, Found
<1>11. /\ result.raised = "ok" /\ Check(result.regions)
       /\ \A c, d \in Int :
            /\ Holding(normal, c, d) # {}
            /\ (d <= b /\ c < b) \/ (e <= c /\ e < d)
            => Holding(result.regions, c, d) # {}
  BY <1>2, <1>3, <1>9, <1>10, NormalRemoval
<1> HIDE DEF result
<1>12. NoSurprise'
  BY <1>1, <1>11 DEF NoSurprise
<1>13. CASE pass = "place"
  BY <1>1, <1>11, <1>12, <1>13 DEF Found
<1>14. CASE pass = "emulate"
  <2>1. ReservedPlaced /\ TaskPlaced
    BY <1>10, <1>14 DEF PlanInv, Order
  <2>2. Holding(normal, reserved.base, reserved.end) # {} /\ Holding(normal, task.base, task.end) # {}
    BY <1>2, <1>7, <2>1 DEF ReservedPlaced, TaskPlaced, Within
  <2>3. e <= reserved.base /\ reserved.base < reserved.end /\ reserved.end <= task.base
    BY <2>1 DEF ReservedPlaced, TaskPlaced, e
  <2>4. e < reserved.end /\ e <= task.base /\ e < task.end
    BY <1>2, <2>3
  <2>5. /\ Holding(result.regions, reserved.base, reserved.end) # {}
        /\ Holding(result.regions, task.base, task.end) # {}
    BY <1>2, <1>11, <2>2, <2>3, <2>4
  <2>6. pc' = "take task"
    BY <1>1, <1>11, <1>14
  <2> QED
    BY <1>1, <1>4, <1>11, <1>12, <2>5, <2>6 DEF Found, StillNormal
<1> QED
  BY <1>13, <1>14, <1>10 DEF PlanInv, Inv, Types

LEMMA RemoveTaskFound ==
  ASSUME LimitInv, RemoveTask
  PROVE  Found' /\ NoSurprise'
<1> DEFINE b == task.base
           e == task.end
           result == RemoveRegion(normal, b, e)
<1>1. /\ normal' = result.regions /\ raised' = result.raised /\ pc = "take task"
      /\ pc' = IF result.raised = "ok" THEN "take reserved" ELSE "failed"
      /\ UNCHANGED <<inputs, placed>>
  BY DEF RemoveTask, Continue
<1>2. /\ b \in Int /\ e \in Int /\ b <= e
      /\ reserved.base \in Int /\ reserved.end \in Int
  BY Facts DEF LimitInv, PlanInv
<1>3. reserved' = reserved
  BY <1>1 DEF placed
<1>4. Check(normal) /\ PlanInv /\ Holding(normal, b, e) # {}
  BY <1>1 DEF LimitInv, Found, StillNormal
<1>5. ReservedPlaced /\ TaskPlaced
  BY <1>1 DEF LimitInv, PlanInv, Inv, Loops, Order
<1>6. reserved.end <= b /\ reserved.base < b
  BY <1>2, <1>5 DEF ReservedPlaced, TaskPlaced
<1> HIDE DEF b, e
<1>7. /\ result.raised = "ok" /\ Check(result.regions)
      /\ \A c, d \in Int :
           /\ Holding(normal, c, d) # {}
           /\ (d <= b /\ c < b) \/ (e <= c /\ e < d)
           => Holding(result.regions, c, d) # {}
  BY <1>2, <1>4, NormalRemoval
<1> HIDE DEF result
<1>8. Holding(normal, reserved.base, reserved.end) # {}
  BY <1>1 DEF LimitInv, Found, StillNormal
<1>9. Holding(result.regions, reserved.base, reserved.end) # {}
  BY <1>2, <1>6, <1>7, <1>8
<1> QED
  BY <1>1, <1>3, <1>7, <1>9 DEF Found, StillNormal, NoSurprise

LEMMA RemoveReservedFound ==
  ASSUME LimitInv, RemoveReserved
  PROVE  Found' /\ NoSurprise'
<1> DEFINE result == RemoveRegion(normal, reserved.base, reserved.end)
<1>1. /\ normal' = result.regions /\ raised' = result.raised /\ pc = "take reserved"
      /\ pc' = IF result.raised = "ok" THEN "objects" ELSE "failed"
  BY DEF RemoveReserved, Continue
<1>2. reserved.base \in Int /\ reserved.end \in Int /\ reserved.base <= reserved.end
  BY Facts DEF LimitInv, PlanInv
<1>3. Check(normal) /\ PlanInv /\ Holding(normal, reserved.base, reserved.end) # {}
  BY <1>1 DEF LimitInv, Found, StillNormal
<1>4. result.raised = "ok" /\ Check(result.regions)
  BY <1>2, <1>3, NormalRemoval
<1> QED
  BY <1>1, <1>4 DEF Found, NoSurprise

LEMMA PlaceReservedFound ==
  ASSUME LimitInv, PlaceReserved
  PROVE  Found' /\ NoSurprise'
<1> DEFINE b == AllocatedBase(normal, ReservedSize, board.bootEnd)
           e == b + ReservedSize
           result == AllocateFrom(normal, ReservedSize, board.bootEnd)
<1>1. /\ ReservedSize \in Nat /\ 0 < ReservedSize /\ board.bootEnd \in Int /\ board \in Boards
      /\ normal \in Seq(IntRegion) /\ board.kernel.base \in Int
  BY SMTT(40), Facts DEF LimitInv, PlanInv, Order, ReservedSize
<1>2. /\ pc = "reserve"
      /\ result.raised # "ok" =>
           UNCHANGED normal /\ pc' = "failed" /\ raised' = result.raised
      /\ result.raised = "ok" =>
           /\ normal' = result.regions
           /\ raised' = IF board.kernel.base < b THEN "ok" ELSE "AssertionError"
           /\ pc' = IF (IF board.kernel.base < b THEN "ok" ELSE "AssertionError") = "ok"
                    THEN "task" ELSE "failed"
  BY DEF PlaceReserved, Continue
<1>3. Check(normal) /\ PlanInv
  BY <1>2 DEF LimitInv, Found
<1>4. CASE Fitting(normal, ReservedSize, board.bootEnd) = {}
  <2>1. result.raised = "no space"
    BY <1>4 DEF AllocateFrom
  <2> QED
    BY <1>2, <2>1 DEF Found, NoSurprise
<1>5. CASE Fitting(normal, ReservedSize, board.bootEnd) # {}
  <2>1. /\ b \in Int /\ board.bootEnd <= b /\ Holding(normal, b, e) # {}
        /\ result = RemoveRegion(normal, b, e)
    BY <1>1, <1>5, AllocateInOrder
  <2>2. e \in Int /\ b < e /\ b <= e
    BY <1>1, <2>1
  <2> HIDE DEF b, e, result
  <2>3. result.raised = "ok" /\ Check(result.regions)
    BY <1>3, <2>1, <2>2, NormalRemoval
  <2>4. board.kernel.base < b
    <3>1. b..e - 1 \subseteq Covered(normal)
      BY <1>1, <2>1, <2>2, HeldIsCovered
    <3>2. b \in b..e - 1
      BY <2>1, <2>2
    <3>3. b \notin Addresses(board.kernel)
      BY <1>2, <1>3, <3>1, <3>2 DEF PlanInv, Inv, TakenOut, Taken
    <3>4. board.kernel.base <= b /\ board.kernel.base < board.kernel.end /\ board.kernel.end \in Int
      BY <1>1, <1>3, <2>1, Facts, BoardOrder DEF PlanInv
    <3> QED
      BY <1>1, <2>1, <3>3, <3>4 DEF Addresses
  <2>5. normal' = result.regions /\ raised' = "ok" /\ pc' = "task"
    BY <1>2, <2>3, <2>4
  <2> QED
    BY <2>3, <2>5 DEF Found, NoSurprise
<1> QED
  BY <1>4, <1>5

LEMMA PlaceTaskFound ==
  ASSUME OrderlyBoards, LimitInv, PlaceTask
  PROVE  Found' /\ NoSurprise'
<1> DEFINE b == AllocatedBase(normal, board.task, reserved.end)
           e == b + board.task
           result == AllocateFrom(normal, board.task, reserved.end)
<1>1. /\ board.task \in Nat /\ reserved.end \in Int /\ reserved.base \in Int
      /\ normal \in Seq(IntRegion)
  BY Facts DEF LimitInv, PlanInv
<1>2. /\ pc = "task" /\ pc' \in {"devices", "failed"} /\ UNCHANGED <<inputs, reserved>>
      /\ result.raised # "ok" => UNCHANGED normal /\ pc' = "failed" /\ raised' = result.raised
      /\ result.raised = "ok" =>
           /\ BeginBoot("emulate")
           /\ raised' = IF reserved.base < b THEN "ok" ELSE "AssertionError"
  BY DEF PlaceTask, Continue
<1>3. Check(normal) /\ PlanInv
  BY <1>2 DEF LimitInv, Found
<1>4. CASE Fitting(normal, board.task, reserved.end) = {}
  <2>1. result.raised = "no space"
    BY <1>4 DEF AllocateFrom
  <2> QED
    BY <1>2, <2>1 DEF Found, NoSurprise
<1>5. CASE Fitting(normal, board.task, reserved.end) # {}
  <2>1. /\ b \in Int /\ reserved.end <= b /\ Holding(normal, b, e) # {}
        /\ result = RemoveRegion(normal, b, e)
    BY <1>1, <1>5, AllocateInOrder
  <2>2. e \in Int /\ b <= e
    BY <1>1, <2>1
  <2> HIDE DEF b, e, result
  <2>3. result.raised = "ok"
    BY <1>3, <2>1, <2>2, NormalRemoval
  <2>4. reserved.base < reserved.end
    BY <1>2, <1>3 DEF PlanInv, Order, ReservedPlaced
  <2>5. reserved.base < b
    BY <1>1, <2>1, <2>4
  <2>6. raised' = "ok" /\ BeginBoot("emulate")
    BY <1>2, <2>3, <2>5
  <2>7. Found'
    BY <1>2, <1>3, <2>6, BootBeginsFound DEF inputs
  <2> QED
    BY <2>6, <2>7 DEF NoSurprise
<1> QED
  BY <1>4, <1>5

LEMMA TakeObjectsFound ==
  ASSUME LimitInv, TakeObjects
  PROVE  Found' /\ NoSurprise'
<1> DEFINE possible == {n \in DOMAIN normal : ObjectsStart(normal[n]) >= normal[n].base}
           top == Max(possible)
           b == ObjectsStart(normal[top])
           e == b + board.objects
           result == RemoveRegion(normal, b, e)
<1>1. /\ pc = "objects" /\ pc' \in {"split", "failed"}
      /\ possible = {} => normal' = normal /\ raised' = "no region for objects" /\ pc' = "failed"
      /\ possible # {} => normal' = result.regions /\ raised' = result.raised
  BY DEF TakeObjects, Continue
<1>2. Check(normal) /\ PlanInv
  BY <1>1 DEF LimitInv, Found
<1>3. CASE possible = {}
  BY <1>1, <1>3 DEF Found, NoSurprise
<1>4. CASE possible # {}
  <2>1. Len(normal) \in Nat /\ DOMAIN normal = 1..Len(normal)
    BY <1>2, Facts DEF PlanInv
  <2>2. top \in possible
    <3>1. possible \in SUBSET Nat /\ \A m \in possible : m <= Len(normal)
      BY <2>1
    <3> HIDE DEF possible
    <3> QED
      BY <1>4, <2>1, <3>1, MaxIsIn
  <2>3. top \in DOMAIN normal /\ normal[top].base <= b
    BY <2>2
  <2> HIDE DEF top
  <2>4. normal[top].base \in Int /\ normal[top].end \in Int /\ board.objects \in Nat
    BY <1>2, <2>3, Facts, RegionNumbers DEF PlanInv
  <2>5. b \in Int /\ e \in Int /\ b <= e /\ e <= normal[top].end
    <3> DEFINE n == normal[top].end - board.objects
    <3>1. n \in Int /\ ObjectsAlign \in Nat \ {0}
      BY <2>4, SizesAssumption
    <3>2. b = n - (n % ObjectsAlign)
      BY DEF ObjectsStart, RoundDown
    <3> HIDE DEF n, b
    <3>3. n % ObjectsAlign \in Nat
      BY <3>1
    <3>4. b \in Int /\ b <= n
      BY <3>1, <3>2, <3>3
    <3> QED
      BY <2>4, <3>4 DEF n
  <2>6. normal' = result.regions /\ raised' = result.raised
    BY <1>1, <1>4
  <2> HIDE DEF b, e, possible
  <2>7. Holding(normal, b, e) # {}
    BY <2>3, <2>5, <1>2, Facts, HeldBy DEF PlanInv
  <2>8. result.raised = "ok" /\ Check(result.regions)
    BY <1>2, <2>5, <2>7, NormalRemoval
  <2> QED
    BY <1>1, <2>6, <2>8 DEF Found, NoSurprise
<1> QED
  BY <1>3, <1>4

\* The steps that leave the lists alone.
LEMMA OthersFound ==
  ASSUME LimitInv,
         \/ UNCHANGED vars
         \/ ListUntypeds
         \/ RetypeTablePages
         \/ \E data \in 1..MaxData, caps \in 1..MaxCaps : Measure(data, caps)
  PROVE  Found' /\ NoSurprise'
<1>1. CASE UNCHANGED vars
  BY <1>1 DEF LimitInv, Found, NoSurprise, StillDevice, StillNormal, vars, inputs, placed
<1>2. CASE ListUntypeds
  <2>1. pc = "split" /\ pc' = "table" /\ UNCHANGED <<normal, raised>>
    BY <1>2 DEF ListUntypeds
  <2> QED
    BY <2>1 DEF LimitInv, Found, NoSurprise
<1>3. CASE RetypeTablePages
  <2>1. pc = "table" /\ pc' \in {"table", "measure", "failed"} /\ normal' = normal
        /\ raised' \in {"ok", "fan out"}
    BY <1>3 DEF RetypeTablePages, Continue
  <2> QED
    BY <2>1 DEF LimitInv, Found, NoSurprise
<1>4. CASE \E data \in 1..MaxData, caps \in 1..MaxCaps : Measure(data, caps)
  <2>1. pc = "measure" /\ pc' \in {"start", "done"} /\ UNCHANGED <<normal, raised>>
    BY <1>4 DEF Measure
  <2> QED
    BY <2>1 DEF LimitInv, Found, NoSurprise
<1> QED
  BY <1>1, <1>2, <1>3, <1>4

LEMMA NextLimit ==
  ASSUME OrderlyBoards, CapsFitWord, LimitInv, [Next]_vars
  PROVE  LimitInv'
<1>1. PlanInv'
  BY NextInv, NextOrder DEF LimitInv, PlanInv
<1>2. SizesFit'
  <2>1. CASE \E data \in 1..MaxData, caps \in 1..MaxCaps : Measure(data, caps)
    BY <2>1, MeasureSizes DEF LimitInv
  <2>2. CASE ~\E data \in 1..MaxData, caps \in 1..MaxCaps : Measure(data, caps)
    <3>1. UNCHANGED sizes
      BY <2>2 DEF Next, vars, BuildSystem, RemoveKernelDevice, AddMemory, RemoveKernelImage,
        PlaceReserved, PlaceTask, RemoveTask, RemoveReserved, TakeObjects, ListUntypeds,
        RetypeTablePages
    <3> QED
      BY <3>1, SizesKept DEF LimitInv
  <2> QED
    BY <2>1, <2>2
<1>3. Found' /\ NoSurprise'
  BY BuildSystemFound, RemoveKernelDeviceFound, AddMemoryFound, RemoveKernelImageFound,
     PlaceReservedFound, PlaceTaskFound, RemoveTaskFound, RemoveReservedFound, TakeObjectsFound,
     OthersFound DEF Next
<1> QED
  BY <1>1, <1>2, <1>3 DEF LimitInv

\* For every board whose tables are in order: whatever a build needs, the second emulation of
\* the boot finds all that the first one placed, no assertion of the tool fails, and no list
\* loses its order: a build fails only for want of memory or for a limit of the tool
\* (util.py:140-176, __main__.py:742-800, sel4.py:818-955).
THEOREM FailsOnlyForCause ==
  ASSUME OrderlyBoards, CapsFitWord
  PROVE  Spec => []OnlyLimitsFail
<1>1. Init => LimitInv
  BY InitLimit
<1>2. LimitInv /\ [Next]_vars => LimitInv'
  BY NextLimit
<1>3. LimitInv => OnlyLimitsFail
  BY DEF LimitInv, NoSurprise, OnlyLimitsFail
<1> QED
  BY <1>1, <1>2, <1>3, PTL DEF Spec


-----------------------------------------------------------------------------
(* Regions have addresses, and lie in the physical address space *)

\* What the types of the plan rest on: every list is one of regions that have addresses, in
\* the physical address space.
Sound ==
  /\ elfSize \in ElfSizes /\ tableSize \in 1..MaxData + PageSize
  /\ k \in Nat \ {0}
  /\ raised \in Outcomes /\ (raised # "ok" <=> pc = "failed")
  /\ Proper(device, DeviceTop) /\ Proper(normal, DeviceTop)
  /\ reserved \in RegionType /\ task \in RegionType /\ objects \in RegionType

LEMMA NowhereInSpace == Nowhere \in RegionType
BY SizesAssumption DEF Nowhere, MemoryRegion, RegionType, Address

LEMMA RegionInSpace ==
  ASSUME NEW b \in Int, NEW e \in Int, 0 <= b, b <= e, e <= DeviceTop
  PROVE  MemoryRegion(b, e) \in RegionType
BY SizesAssumption DEF MemoryRegion, RegionType, Address

\* What a region of a list holds is in the physical address space.
LEMMA HeldInSpace ==
  ASSUME NEW s \in Seq(IntRegion), Proper(s, DeviceTop),
         NEW b \in Int, NEW e \in Int, Holding(s, b, e) # {}
  PROVE  0 <= b /\ e <= DeviceTop
<1>1. PICK n \in DOMAIN s : s[n].base <= b /\ e <= s[n].end
  BY HeldBy
<1>2. s[n].base \in Int /\ s[n].end \in Int
  BY RegionNumbers
<1> QED
  BY <1>1, <1>2, SizesAssumption DEF Proper

LEMMA RaisedAre ==
  ASSUME NEW s, NEW b, NEW e
  PROVE  /\ RemoveRegion(s, b, e).raised \in {"ok", "not covered", "AssertionError"}
         /\ InsertRegion(s, b, e).raised \in {"ok", "AssertionError"}
BY DEF RemoveRegion, InsertRegion, Result

LEMMA ProperWhole ==
  Proper(InsertRegion(<<>>, 0, DeviceTop).regions, DeviceTop) /\ Proper(<<>>, DeviceTop)
<1> DEFINE whole == InsertRegion(<<>>, 0, DeviceTop).regions
<1>1. Len(whole) = 1 /\ whole[1] = MemoryRegion(0, DeviceTop) /\ whole \in Seq(IntRegion)
  BY WholeSpace
<1> HIDE DEF whole
<1>2. DOMAIN whole = {1}
  <2>1. DOMAIN whole = 1..Len(whole)
    BY <1>1
  <2> QED
    BY <1>1, <2>1
<1>3. 0 <= 0 /\ 0 < DeviceTop /\ DeviceTop <= DeviceTop
  BY SizesAssumption
<1>4. Proper(whole, DeviceTop)
  BY <1>1, <1>2, <1>3 DEF Proper, MemoryRegion
<1>5. Proper(<<>>, DeviceTop)
  BY DEF Proper
<1> QED
  BY <1>4, <1>5 DEF whole

LEMMA InitSound ==
  ASSUME Init
  PROVE  Sound
<1>1. elfSize \in ElfSizes /\ tableSize = PageSize /\ tableSize \in 1..MaxData + PageSize
  BY SizesAssumption DEF Init
<1> QED
  BY <1>1, NowhereInSpace, ProperWhole DEF Init, Sound, Outcomes

LEMMA BuildSystemSound ==
  ASSUME PlanInv, Sound, BuildSystem
  PROVE  Sound'
<1>1. /\ device' = InsertRegion(<<>>, 0, DeviceTop).regions /\ normal' = <<>> /\ k' = 1
      /\ reserved' = Nowhere /\ task' = Nowhere /\ objects' = Nowhere
      /\ elfSize' = elfSize /\ tableSize' = tableSize
  BY DEF BuildSystem, BeginBoot, inputs, sizes
<1>2. raised' \in Outcomes /\ (raised' # "ok" <=> pc' = "failed")
  <2> DEFINE bad == ~IsPowerOfTwo(cnodeSize) \/ tableSize % PageSize # 0
             large == tableSize > MaxTable
  <2>1. /\ raised' = CASE bad -> "AssertionError" [] large -> "table too large" [] OTHER -> "ok"
        /\ pc' = IF raised' = "ok" THEN "devices" ELSE "failed"
    BY DEF BuildSystem, Continue
  <2> HIDE DEF bad, large
  <2>2. raised' \in {"AssertionError", "table too large", "ok"}
    BY <2>1
  <2> QED
    BY <2>1, <2>2 DEF Outcomes
<1> QED
  BY <1>1, <1>2, NowhereInSpace, ProperWhole DEF Sound

LEMMA RemoveKernelDeviceSound ==
  ASSUME PlanInv, Sound, RemoveKernelDevice
  PROVE  Sound'
<1> DEFINE b == board.devices[k]
           e == b + PageSize
           result == RemoveRegion(device, b, e)
<1>1. b \in Int /\ e \in Int /\ b <= e /\ device \in Seq(IntRegion)
  <2>1. board.devices \in Seq(Address) /\ k \in DOMAIN board.devices /\ device \in Seq(IntRegion)
    BY Facts, BoardTypes DEF PlanInv, Inv, Loops, RemoveKernelDevice
  <2>2. b \in Address
    BY <2>1
  <2> QED
    BY <2>1, <2>2, SizesAssumption DEF Address
<1>2. /\ device' = result.regions /\ raised' = result.raised
      /\ pc' = IF raised' = "ok" THEN IF k = Len(board.devices) THEN "memory" ELSE "devices"
               ELSE "failed"
      /\ k' = IF k = Len(board.devices) THEN 1 ELSE k + 1
      /\ UNCHANGED <<inputs, sizes, normal, placed, objects>>
  BY DEF RemoveKernelDevice, Continue
<1>3. /\ elfSize' = elfSize /\ tableSize' = tableSize /\ normal' = normal
      /\ reserved' = reserved /\ task' = task /\ objects' = objects
  BY <1>2 DEF inputs, sizes, placed
<1> HIDE DEF b, e
<1>4. Proper(result.regions, DeviceTop)
  BY <1>1, RemovalProper, SizesAssumption DEF Sound
<1>5. result.raised \in {"ok", "not covered", "AssertionError"}
  BY RaisedAre
<1> HIDE DEF result
<1>6. raised' \in Outcomes /\ (raised' # "ok" <=> pc' = "failed")
  BY <1>2, <1>5 DEF Outcomes
<1>7. k' \in Nat \ {0}
  BY <1>2 DEF Sound
<1> QED
  BY <1>2, <1>3, <1>4, <1>6, <1>7 DEF Sound

\* An insertion leaves regions that have addresses.
LEMMA InsertProper ==
  ASSUME NEW s \in Seq(IntRegion), NEW b \in Int, NEW e \in Int, NEW top \in Int,
         0 <= b, b < e, e <= top, Proper(s, top)
  PROVE  Proper(InsertRegion(s, b, e).regions, top)
<1> DEFINE t == InsertRegion(s, b, e).regions
<1>2. \A m \in DOMAIN t : t[m] = MemoryRegion(b, e) \/ \E n \in DOMAIN s : t[m] = s[n]
  BY InsertedAre
<1>3. MemoryRegion(b, e).base = b /\ MemoryRegion(b, e).end = e
  BY DEF MemoryRegion
<1> HIDE DEF t
<1>4. Proper(t, top)
  BY <1>2, <1>3 DEF Proper
<1> QED
  BY <1>4 DEF t

LEMMA MemoryInSpace ==
  ASSUME NEW b \in Boards, NEW n \in DOMAIN b.memory
  PROVE  /\ b.memory[n].base \in Int /\ b.memory[n].end \in Int
         /\ 0 <= b.memory[n].base /\ b.memory[n].base < b.memory[n].end
         /\ b.memory[n].end <= DeviceTop
<1>1. b.memory \in Seq(RegionType) /\ b.memory[n].base < b.memory[n].end
  BY BoardsAssumption
<1>2. b.memory[n] \in RegionType
  BY <1>1
<1> QED
  BY <1>1, <1>2, SizesAssumption DEF RegionType, Address

LEMMA AddMemorySound ==
  ASSUME PlanInv, Sound, AddMemory
  PROVE  Sound'
<1> DEFINE b == board.memory[k].base
           e == board.memory[k].end
           taken == RemoveRegion(device, b, e)
           added == InsertRegion(normal, b, e)
<1>1. b \in Int /\ e \in Int /\ 0 <= b /\ b < e /\ e <= DeviceTop
      /\ device \in Seq(IntRegion) /\ normal \in Seq(IntRegion) /\ DeviceTop \in Int
  <2>1. board \in Boards /\ k \in DOMAIN board.memory
    BY Facts DEF PlanInv, Inv, Loops, AddMemory
  <2> QED
    BY SMTT(40), <2>1, MemoryInSpace, Facts, SizesAssumption DEF PlanInv
<1>2. /\ device' = taken.regions
      /\ normal' = (IF taken.raised = "ok" THEN added.regions ELSE normal)
      /\ raised' = (IF taken.raised = "ok" THEN added.raised ELSE taken.raised)
      /\ pc' = (IF raised' = "ok" THEN IF k = Len(board.memory) THEN "kernel" ELSE "memory"
                ELSE "failed")
      /\ k' = (IF k = Len(board.memory) THEN 1 ELSE k + 1)
      /\ UNCHANGED <<inputs, sizes, placed, objects>>
  BY DEF AddMemory, Continue
<1>3. /\ elfSize' = elfSize /\ tableSize' = tableSize
      /\ reserved' = reserved /\ task' = task /\ objects' = objects
  BY <1>2 DEF inputs, sizes, placed
<1> HIDE DEF b, e
<1>4. Proper(taken.regions, DeviceTop)
  <2>1. b <= e
    BY <1>1
  <2> QED
    BY <1>1, <2>1, RemovalProper DEF Sound
<1>5. Proper(added.regions, DeviceTop)
  BY <1>1, InsertProper DEF Sound
<1>6. /\ taken.raised \in {"ok", "not covered", "AssertionError"}
      /\ added.raised \in {"ok", "AssertionError"}
  BY RaisedAre
<1> HIDE DEF taken, added
<1>7. raised' \in Outcomes /\ (raised' # "ok" <=> pc' = "failed")
  BY <1>2, <1>6 DEF Outcomes
<1>8. k' \in Nat \ {0}
  BY <1>2 DEF Sound
<1>9. Proper(normal', DeviceTop)
  BY <1>2, <1>5 DEF Sound
<1> QED
  BY <1>2, <1>3, <1>4, <1>7, <1>8, <1>9 DEF Sound

\* A removal from the normal memory that leaves everything else alone.
LEMMA RemovalSound ==
  ASSUME PlanInv, Sound, NEW b \in Int, NEW e \in Int, b <= e, NEW next, next # "failed",
         normal' = RemoveRegion(normal, b, e).regions,
         Continue(RemoveRegion(normal, b, e).raised, next),
         UNCHANGED <<elfSize, tableSize, k, device, reserved, task>>,
         objects' \in RegionType
  PROVE  Sound'
<1> DEFINE result == RemoveRegion(normal, b, e)
<1>1. normal \in Seq(IntRegion) /\ DeviceTop \in Int
  BY Facts, SizesAssumption DEF PlanInv
<1>2. Proper(result.regions, DeviceTop)
  BY <1>1, RemovalProper DEF Sound
<1>3. result.raised \in {"ok", "not covered", "AssertionError"}
  BY RaisedAre
<1>4. normal' = result.regions /\ raised' = result.raised
      /\ pc' = IF raised' = "ok" THEN next ELSE "failed"
  BY DEF Continue
<1> HIDE DEF result
<1>5. raised' \in Outcomes /\ (raised' # "ok" <=> pc' = "failed")
  BY <1>3, <1>4 DEF Outcomes
<1> QED
  BY <1>2, <1>4, <1>5 DEF Sound

LEMMA RemovalsSound ==
  ASSUME PlanInv, Sound, RemoveKernelImage \/ RemoveTask \/ RemoveReserved
  PROVE  Sound'
<1>1. CASE RemoveKernelImage
  <2> DEFINE next == IF pass = "place" THEN "reserve" ELSE "take task"
  <2>1. /\ normal' = RemoveRegion(normal, board.kernel.base, board.kernel.end).regions
        /\ Continue(RemoveRegion(normal, board.kernel.base, board.kernel.end).raised, next)
        /\ UNCHANGED <<inputs, sizes, pass, k, device, placed, objects, untypeds, pages>>
    BY <1>1 DEF RemoveKernelImage
  <2>2. board.kernel.base \in Int /\ board.kernel.end \in Int
        /\ board.kernel.base <= board.kernel.end /\ next # "failed"
    BY SMTT(40), Facts, BoardOrder DEF PlanInv
  <2>3. UNCHANGED <<elfSize, tableSize, k, device, reserved, task>> /\ objects' \in RegionType
    BY <2>1 DEF inputs, sizes, placed, Sound
  <2> HIDE DEF next
  <2> QED
    BY <2>1, <2>2, <2>3, RemovalSound
<1>2. CASE RemoveTask
  <2>1. /\ normal' = RemoveRegion(normal, task.base, task.end).regions
        /\ Continue(RemoveRegion(normal, task.base, task.end).raised, "take reserved")
        /\ UNCHANGED <<inputs, sizes, pass, k, device, placed, objects, untypeds, pages>>
    BY <1>2 DEF RemoveTask
  <2>2. task.base \in Int /\ task.end \in Int /\ task.base <= task.end
    BY Facts DEF PlanInv
  <2>3. UNCHANGED <<elfSize, tableSize, k, device, reserved, task>> /\ objects' \in RegionType
    BY <2>1 DEF inputs, sizes, placed, Sound
  <2> QED
    BY <2>1, <2>2, <2>3, RemovalSound
<1>3. CASE RemoveReserved
  <2>1. /\ normal' = RemoveRegion(normal, reserved.base, reserved.end).regions
        /\ Continue(RemoveRegion(normal, reserved.base, reserved.end).raised, "objects")
        /\ UNCHANGED <<inputs, sizes, pass, k, device, placed, objects, untypeds, pages>>
    BY <1>3 DEF RemoveReserved
  <2>2. reserved.base \in Int /\ reserved.end \in Int /\ reserved.base <= reserved.end
    BY Facts DEF PlanInv
  <2>3. UNCHANGED <<elfSize, tableSize, k, device, reserved, task>> /\ objects' \in RegionType
    BY <2>1 DEF inputs, sizes, placed, Sound
  <2> QED
    BY <2>1, <2>2, <2>3, RemovalSound
<1> QED
  BY <1>1, <1>2, <1>3

LEMMA TakeObjectsSound ==
  ASSUME PlanInv, Sound, TakeObjects
  PROVE  Sound'
<1> DEFINE possible == {n \in DOMAIN normal : ObjectsStart(normal[n]) >= normal[n].base}
           top == Max(possible)
           b == ObjectsStart(normal[top])
           e == b + board.objects
           result == RemoveRegion(normal, b, e)
<1>1. /\ UNCHANGED <<elfSize, tableSize, k, device, reserved, task>>
      /\ possible = {} => /\ normal' = normal /\ objects' = objects
                          /\ raised' = "no region for objects" /\ pc' = "failed"
      /\ possible # {} => /\ normal' = result.regions /\ Continue(result.raised, "split")
                          /\ objects' = MemoryRegion(b, e)
  BY DEF TakeObjects, Continue, inputs, sizes, placed
<1>2. CASE possible = {}
  BY <1>1, <1>2 DEF Sound, Outcomes
<1>3. CASE possible # {}
  <2>1. Len(normal) \in Nat /\ DOMAIN normal = 1..Len(normal) /\ normal \in Seq(IntRegion)
    BY Facts DEF PlanInv
  <2>2. top \in possible
    <3>1. possible \in SUBSET Nat /\ \A m \in possible : m <= Len(normal)
      BY <2>1
    <3> HIDE DEF possible
    <3> QED
      BY <1>3, <2>1, <3>1, MaxIsIn
  <2>3. top \in DOMAIN normal /\ normal[top].base <= b
    BY <2>2
  <2> HIDE DEF top
  <2>4. /\ normal[top].base \in Int /\ normal[top].end \in Int /\ board.objects \in Nat
        /\ 0 <= normal[top].base /\ normal[top].end <= DeviceTop
    BY <2>1, <2>3, Facts, RegionNumbers DEF PlanInv, Sound, Proper
  <2>5. b \in Int /\ e \in Int /\ b <= e /\ e <= normal[top].end
    <3> DEFINE n == normal[top].end - board.objects
    <3>1. n \in Int /\ ObjectsAlign \in Nat \ {0}
      BY <2>4, SizesAssumption
    <3>2. b = n - (n % ObjectsAlign)
      BY DEF ObjectsStart, RoundDown
    <3> HIDE DEF n, b
    <3>3. n % ObjectsAlign \in Nat
      BY <3>1
    <3>4. b \in Int /\ b <= n
      BY <3>1, <3>2, <3>3
    <3> QED
      BY <2>4, <3>4 DEF n
  <2>6. normal' = result.regions /\ Continue(result.raised, "split") /\ objects' = MemoryRegion(b, e)
    BY <1>1, <1>3
  <2> HIDE DEF b, e, possible
  <2>7. objects' \in RegionType
    <3>1. 0 <= b /\ e <= DeviceTop
      BY <2>3, <2>4, <2>5, SizesAssumption
    <3> QED
      BY <2>5, <2>6, <3>1, RegionInSpace
  <2> QED
    BY <1>1, <2>5, <2>6, <2>7, RemovalSound
<1> QED
  BY <1>2, <1>3

\* What allocate_from takes is in the physical address space.
LEMMA AllocationSound ==
  ASSUME NEW s \in Seq(IntRegion), Proper(s, DeviceTop), NEW size \in Nat, NEW lower \in Int,
         NEW b, b = AllocatedBase(s, size, lower),
         NEW result, result = AllocateFrom(s, size, lower)
  PROVE  /\ Proper(result.regions, DeviceTop)
         /\ result.raised \in {"ok", "no space", "not covered", "AssertionError"}
         /\ result.raised = "ok" => /\ b \in Int /\ lower <= b
                                    /\ MemoryRegion(b, b + size) \in RegionType
                                    /\ Holding(s, b, b + size) # {}
                                    /\ result = RemoveRegion(s, b, b + size)
<1>1. CASE Fitting(s, size, lower) = {}
  <2>1. AllocateFrom(s, size, lower).regions = s /\ AllocateFrom(s, size, lower).raised = "no space"
    BY <1>1 DEF AllocateFrom
  <2> QED
    BY <2>1
<1>2. CASE Fitting(s, size, lower) # {}
  <2>1. /\ b \in Int /\ lower <= b /\ Holding(s, b, b + size) # {}
        /\ result = RemoveRegion(s, b, b + size)
    BY <1>2, AllocateInOrder
  <2> DEFINE e == b + size
  <2>2. e \in Int /\ b <= e /\ DeviceTop \in Int
    BY <2>1, SizesAssumption
  <2>3. Holding(s, b, e) # {} /\ result = RemoveRegion(s, b, e)
    BY <2>1
  <2> HIDE DEF e
  <2>4. 0 <= b /\ e <= DeviceTop
    BY <2>1, <2>2, <2>3, HeldInSpace
  <2>5. MemoryRegion(b, e) \in RegionType
    BY <2>1, <2>2, <2>4, RegionInSpace
  <2>6. Proper(result.regions, DeviceTop)
    BY <2>1, <2>2, <2>3, RemovalProper
  <2>7. result.raised \in {"ok", "not covered", "AssertionError"}
    BY <2>3, RaisedAre
  <2> QED
    BY <2>1, <2>5, <2>6, <2>7 DEF e
<1> QED
  BY <1>1, <1>2

LEMMA PlaceReservedSound ==
  ASSUME PlanInv, Sound, PlaceReserved
  PROVE  Sound'
<1> DEFINE result == AllocateFrom(normal, ReservedSize, board.bootEnd)
           b == AllocatedBase(normal, ReservedSize, board.bootEnd)
<1>1. /\ UNCHANGED <<elfSize, tableSize, k, device, task, objects>>
      /\ result.raised # "ok" => /\ normal' = normal /\ reserved' = reserved
                                 /\ raised' = result.raised /\ pc' = "failed"
      /\ result.raised = "ok" =>
           /\ normal' = result.regions /\ reserved' = MemoryRegion(b, b + ReservedSize)
           /\ raised' = (IF board.kernel.base < b THEN "ok" ELSE "AssertionError")
           /\ pc' = (IF raised' = "ok" THEN "task" ELSE "failed")
  BY DEF PlaceReserved, Continue, inputs, sizes
<1>2. normal \in Seq(IntRegion) /\ ReservedSize \in Nat /\ board.bootEnd \in Int
  BY Facts DEF PlanInv, ReservedSize
<1>3. /\ Proper(result.regions, DeviceTop)
      /\ result.raised \in {"ok", "no space", "not covered", "AssertionError"}
      /\ result.raised = "ok" => MemoryRegion(b, b + ReservedSize) \in RegionType
  <2> HIDE DEF ReservedSize
  <2>1. PICK r : r = result
    OBVIOUS
  <2>2. PICK c : c = b
    OBVIOUS
  <2>3. /\ Proper(r.regions, DeviceTop)
        /\ r.raised \in {"ok", "no space", "not covered", "AssertionError"}
        /\ r.raised = "ok" => MemoryRegion(c, c + ReservedSize) \in RegionType
    BY <1>2, <2>1, <2>2, AllocationSound DEF Sound
  <2> QED
    BY <2>1, <2>2, <2>3
<1> HIDE DEF result, b
<1>4. CASE result.raised = "ok"
  BY <1>1, <1>3, <1>4 DEF Sound, Outcomes
<1>5. CASE result.raised # "ok"
  BY <1>1, <1>3, <1>5 DEF Sound, Outcomes
<1> QED
  BY <1>4, <1>5

LEMMA PlaceTaskSound ==
  ASSUME PlanInv, Sound, PlaceTask
  PROVE  Sound'
<1> DEFINE result == AllocateFrom(normal, board.task, reserved.end)
           b == AllocatedBase(normal, board.task, reserved.end)
<1>1. /\ UNCHANGED <<elfSize, tableSize, reserved, objects>>
      /\ result.raised # "ok" => /\ UNCHANGED <<normal, device, k, task>>
                                 /\ raised' = result.raised /\ pc' = "failed"
      /\ result.raised = "ok" =>
           /\ task' = MemoryRegion(b, b + board.task)
           /\ BeginBoot("emulate")
           /\ raised' = (IF reserved.base < b THEN "ok" ELSE "AssertionError")
           /\ pc' = (IF raised' = "ok" THEN "devices" ELSE "failed")
  BY DEF PlaceTask, Continue, inputs, sizes
<1>2. normal \in Seq(IntRegion) /\ board.task \in Nat /\ reserved.end \in Int
  BY Facts DEF PlanInv
<1>3. /\ result.raised \in {"ok", "no space", "not covered", "AssertionError"}
      /\ result.raised = "ok" => MemoryRegion(b, b + board.task) \in RegionType
  <2>1. PICK r : r = result
    OBVIOUS
  <2>2. PICK c : c = b
    OBVIOUS
  <2>3. /\ r.raised \in {"ok", "no space", "not covered", "AssertionError"}
        /\ r.raised = "ok" => MemoryRegion(c, c + board.task) \in RegionType
    BY <1>2, <2>1, <2>2, AllocationSound DEF Sound
  <2> QED
    BY <2>1, <2>2, <2>3
<1> HIDE DEF result, b
<1>4. CASE result.raised = "ok"
  <2>1. /\ device' = InsertRegion(<<>>, 0, DeviceTop).regions /\ normal' = <<>> /\ k' = 1
    BY <1>1, <1>4 DEF BeginBoot
  <2>2. Proper(device', DeviceTop) /\ Proper(normal', DeviceTop)
    BY <2>1, ProperWhole
  <2>3. raised' \in Outcomes /\ (raised' # "ok" <=> pc' = "failed")
    BY <1>1, <1>4 DEF Outcomes
  <2>4. task' \in RegionType /\ k' \in Nat \ {0}
    BY <1>1, <1>3, <1>4, <2>1
  <2>5. /\ elfSize' = elfSize /\ tableSize' = tableSize
        /\ reserved' = reserved /\ objects' = objects
    BY <1>1
  <2> QED
    BY <2>2, <2>3, <2>4, <2>5 DEF Sound
<1>5. CASE result.raised # "ok"
  BY <1>1, <1>3, <1>5 DEF Sound, Outcomes
<1> QED
  BY <1>4, <1>5

LEMMA MeasureSound ==
  ASSUME PlanInv, Sound, NEW data \in 1..MaxData, NEW caps \in 1..MaxCaps, Measure(data, caps)
  PROVE  Sound'
<1>1. /\ UNCHANGED <<elfSize, k, device, normal, reserved, task, objects, raised>>
      /\ pc = "measure" /\ pc' \in {"start", "done"}
      /\ tableSize' = tableSize \/ tableSize' = Max({tableSize, RoundUp(data, PageSize)})
  BY DEF Measure, inputs, sizes, placed
<1>2. tableSize \in Nat /\ data \in Nat /\ PageSize \in Nat \ {0} /\ MaxData \in Nat
      /\ tableSize \in 1..MaxData + PageSize
  BY SizesAssumption, Facts DEF PlanInv, Sound
<1>3. RoundUp(data, PageSize) \in 1..MaxData + PageSize
  <2>1. data % PageSize \in Nat /\ data % PageSize < PageSize
    BY <1>2
  <2> QED
    BY <1>2, <2>1 DEF RoundUp
<1>4. tableSize' \in 1..MaxData + PageSize
  <2> DEFINE n == RoundUp(data, PageSize)
  <2>1. n \in Nat
    BY <1>2, <1>3
  <2> HIDE DEF n
  <2>2. Max({tableSize, n}) \in {tableSize, n}
    BY <1>2, <2>1, MaxIs
  <2> QED
    BY <1>1, <1>2, <1>3, <2>2 DEF n
<1> QED
  BY <1>1, <1>4 DEF Sound

LEMMA NextSound ==
  ASSUME PlanInv, Sound, [Next]_vars
  PROVE  Sound'
<1>1. CASE UNCHANGED vars
  BY <1>1 DEF Sound, vars, inputs, sizes, placed
<1>2. CASE ListUntypeds
  <2>1. /\ UNCHANGED <<elfSize, tableSize, k, device, normal, reserved, task, objects, raised>>
        /\ pc = "split" /\ pc' = "table"
    BY <1>2 DEF ListUntypeds, inputs, sizes, placed
  <2> QED
    BY <2>1 DEF Sound
<1>3. CASE RetypeTablePages
  <2>1. /\ UNCHANGED <<elfSize, tableSize, device, normal, reserved, task, objects>>
        /\ k' = 1 \/ k' = k \/ k' = k + 1
        /\ \/ raised' = "ok" /\ pc' \in {"measure", "table"}
           \/ raised' = "fan out" /\ pc' = "failed"
    BY <1>3 DEF RetypeTablePages, Continue, inputs, sizes, placed
  <2>2. k' \in Nat \ {0}
    <3>1. k \in Nat \ {0}
      BY DEF Sound
    <3>2. k' = 1 \/ k' = k \/ k' = k + 1
      BY <2>1
    <3> QED
      BY <3>1, <3>2
  <2> QED
    BY <2>1, <2>2 DEF Sound, Outcomes
<1>4. CASE \E data \in 1..MaxData, caps \in 1..MaxCaps : Measure(data, caps)
  BY <1>4, MeasureSound
<1> QED
  BY <1>1, <1>2, <1>3, <1>4, BuildSystemSound, RemoveKernelDeviceSound, AddMemorySound,
     RemovalsSound, PlaceReservedSound, PlaceTaskSound, TakeObjectsSound DEF Next

-----------------------------------------------------------------------------
(* Which addresses the lists cover *)

All == 0..DeviceTop - 1

\* The kernel's frames, and the memory, of the first n entries of a board's tables.
FramesTo(b, n) ==
  {a \in Int : \E m \in 1..n : a \in b.devices[m]..b.devices[m] + PageSize - 1}
MemoryTo(b, n) == {a \in Int : \E m \in 1..n : a \in Addresses(b.memory[m])}

Frames == FramesTo(board, Len(board.devices))
Memory == Covered(board.memory)

\* What a boot has taken from the lists at each of its steps.
Accounts ==
  /\ pc = "devices" => Covered(device) = All \ FramesTo(board, k - 1) /\ Covered(normal) = {}
  /\ pc = "memory" => /\ Covered(device) = (All \ Frames) \ MemoryTo(board, k - 1)
                      /\ Covered(normal) = MemoryTo(board, k - 1)
  /\ pc \notin {"start", "devices", "memory", "failed"} =>
       Covered(device) = (All \ Frames) \ Memory
  /\ pc = "kernel" => Covered(normal) = Memory
  /\ pc \in {"reserve", "take task"} => Covered(normal) = Memory \ Addresses(board.kernel)
  /\ pc = "take reserved" =>
       Covered(normal) = (Memory \ Addresses(board.kernel)) \ Addresses(task)
  /\ pc = "objects" =>
       Covered(normal) = ((Memory \ Addresses(board.kernel)) \ Addresses(task)) \ Addresses(reserved)
  /\ pc \in {"split", "table", "measure", "done"} =>
       /\ Covered(normal) = (((Memory \ Addresses(board.kernel)) \ Addresses(task))
                               \ Addresses(reserved)) \ Addresses(objects)
       /\ Addresses(objects) \subseteq Memory
  /\ pc \in {"kernel", "reserve", "task", "take task", "take reserved", "objects", "split"} => k = 1

\* One entry of a table more.
LEMMA FramesGrow ==
  ASSUME NEW b, NEW n \in Nat
  PROVE  /\ FramesTo(b, 0) = {} /\ MemoryTo(b, 0) = {}
         /\ b.devices[n + 1] \in Int =>
              FramesTo(b, n + 1) = FramesTo(b, n)
                                     \cup (b.devices[n + 1]..b.devices[n + 1] + PageSize - 1)
         /\ b.memory[n + 1].base \in Int /\ b.memory[n + 1].end \in Int =>
              MemoryTo(b, n + 1) = MemoryTo(b, n) \cup Addresses(b.memory[n + 1])
<1>1. FramesTo(b, 0) = {} /\ MemoryTo(b, 0) = {}
  BY DEF FramesTo, MemoryTo
<1>2. \A m : m \in 1..n + 1 <=> m \in 1..n \/ m = n + 1
  OBVIOUS
<1>3. ASSUME b.devices[n + 1] \in Int
      PROVE  FramesTo(b, n + 1) = FramesTo(b, n)
                                    \cup (b.devices[n + 1]..b.devices[n + 1] + PageSize - 1)
  <2> DEFINE X(m) == b.devices[m]..b.devices[m] + PageSize - 1
  <2>1. X(n + 1) \subseteq Int
    BY <1>3, SizesAssumption
  <2>2. \A j : FramesTo(b, j) = {a \in Int : \E m \in 1..j : a \in X(m)}
    BY DEF FramesTo
  <2> HIDE DEF X
  <2>3. FramesTo(b, n + 1) = FramesTo(b, n) \cup X(n + 1)
    BY <1>2, <2>1, <2>2
  <2> QED
    BY <2>3 DEF X
<1>4. ASSUME b.memory[n + 1].base \in Int /\ b.memory[n + 1].end \in Int
      PROVE  MemoryTo(b, n + 1) = MemoryTo(b, n) \cup Addresses(b.memory[n + 1])
  <2>1. Addresses(b.memory[n + 1]) \subseteq Int
    BY <1>4 DEF Addresses
  <2> QED
    BY <1>2, <2>1 DEF MemoryTo
<1> QED
  BY <1>1, <1>3, <1>4

LEMMA AllMemory ==
  ASSUME NEW b \in Boards
  PROVE  MemoryTo(b, Len(b.memory)) = Covered(b.memory)
<1>1. b.memory \in Seq(IntRegion) /\ DOMAIN b.memory = 1..Len(b.memory)
  BY BoardTypes
<1>2. \A m \in DOMAIN b.memory : Addresses(b.memory[m]) \subseteq Int
  BY <1>1, RegionNumbers DEF Addresses
<1> QED
  BY <1>1, <1>2 DEF MemoryTo, Covered

\* What a removal that succeeds does to the addresses.
LEMMA RemovedIs ==
  ASSUME NEW s \in Seq(IntRegion), NEW b \in Int, NEW e \in Int, b <= e, PairwiseDisjoint(s),
         RemoveRegion(s, b, e).raised = "ok"
  PROVE  /\ Covered(RemoveRegion(s, b, e).regions) = Covered(s) \ (b..e - 1)
         /\ b..e - 1 \subseteq Covered(s)
BY RemoveExact

LEMMA BootBeginsAccounts ==
  ASSUME NEW p, BeginBoot(p), pc' \in {"devices", "failed"}
  PROVE  Accounts'
<1>1. Covered(device') = All /\ Covered(normal') = {} /\ k' = 1
  BY WholeSpace, EmptyList DEF BeginBoot, All
<1>2. k' - 1 = 0
  BY <1>1
<1>3. FramesTo(board', 0) = {}
  BY DEF FramesTo
<1> QED
  BY <1>1, <1>2, <1>3 DEF Accounts

LEMMA RemoveKernelDeviceAccounts ==
  ASSUME PlanInv, Sound, Accounts, RemoveKernelDevice
  PROVE  Accounts'
<1> DEFINE b == board.devices[k]
           e == b + PageSize
           result == RemoveRegion(device, b, e)
           last == k = Len(board.devices)
<1>1. b \in Int /\ e \in Int /\ b <= e /\ device \in Seq(IntRegion) /\ PairwiseDisjoint(device)
  <2>1. board.devices \in Seq(Address) /\ k \in DOMAIN board.devices /\ device \in Seq(IntRegion)
    BY Facts, BoardTypes DEF PlanInv, Inv, Loops, RemoveKernelDevice
  <2>2. b \in Address
    BY <2>1
  <2> QED
    BY <2>1, <2>2, SizesAssumption DEF Address, PlanInv, Inv, FreeDisjoint
<1>2. /\ device' = result.regions /\ raised' = result.raised /\ pc = "devices"
      /\ pc' = IF raised' = "ok" THEN IF last THEN "memory" ELSE "devices"
               ELSE "failed"
      /\ k' = IF last THEN 1 ELSE k + 1
      /\ board' = board /\ normal' = normal
  BY DEF RemoveKernelDevice, Continue, inputs
<1>3. CASE result.raised = "ok"
  <2>1. Covered(device') = Covered(device) \ (b..e - 1)
    BY <1>1, <1>2, <1>3, RemovedIs
  <2>2. FramesTo(board, k) = FramesTo(board, k - 1) \cup (b..e - 1)
    <3>1. PICK n \in Nat : n = k - 1 /\ n + 1 = k
      BY DEF Sound
    <3>2. board.devices[n + 1] = b /\ b \in Int /\ b + PageSize - 1 = e - 1
      <4>1. PageSize \in Int /\ b \in Int
        BY <1>1, SizesAssumption
      <4>2. b + PageSize - 1 = e - 1
        BY <4>1
      <4> QED
        BY <3>1, <4>1, <4>2
    <3>3. FramesTo(board, n + 1) = FramesTo(board, n)
            \cup (board.devices[n + 1]..board.devices[n + 1] + PageSize - 1)
      BY <3>1, <3>2, FramesGrow
    <3>4. FramesTo(board, n + 1) = FramesTo(board, n) \cup (b..e - 1)
      BY <3>2, <3>3
    <3> HIDE DEF b, e
    <3> QED
      BY <3>1, <3>4
  <2>3. Covered(device') = All \ FramesTo(board, k) /\ Covered(normal') = {}
    BY <1>2, <2>1, <2>2 DEF Accounts
  <2>4. CASE last
    <3>1. pc' = "memory" /\ k' - 1 = 0 /\ board' = board
      BY <1>2, <1>3, <2>4
    <3>2. MemoryTo(board', k' - 1) = {} /\ Frames' = FramesTo(board, k)
      BY <3>1, <2>4, FramesGrow DEF Frames
    <3> QED
      BY <2>3, <3>1, <3>2 DEF Accounts
  <2>5. CASE ~last
    <3>1. pc' = "devices" /\ k' - 1 = k /\ board' = board
      BY <1>2, <1>3, <2>5 DEF Sound
    <3> QED
      BY <2>3, <3>1 DEF Accounts
  <2> QED
    BY <2>4, <2>5
<1>4. CASE result.raised # "ok"
  BY <1>2, <1>4 DEF Accounts
<1> QED
  BY <1>3, <1>4

LEMMA AddMemoryAccounts ==
  ASSUME PlanInv, Sound, Accounts, AddMemory
  PROVE  Accounts'
<1> DEFINE b == board.memory[k].base
           e == board.memory[k].end
           taken == RemoveRegion(device, b, e)
           added == InsertRegion(normal, b, e)
           last == k = Len(board.memory)
<1>1. /\ b \in Int /\ e \in Int /\ b < e /\ Addresses(board.memory[k]) = b..e - 1
      /\ device \in Seq(IntRegion) /\ PairwiseDisjoint(device)
      /\ normal \in Seq(IntRegion) /\ PairwiseDisjoint(normal)
      /\ Covered(device) \cap Covered(normal) = {}
  BY MemoryTaken, Facts DEF PlanInv, Inv, FreeDisjoint, Addresses
<1>2. /\ device' = taken.regions
      /\ normal' = (IF taken.raised = "ok" THEN added.regions ELSE normal)
      /\ raised' = (IF taken.raised = "ok" THEN added.raised ELSE taken.raised)
      /\ pc = "memory"
      /\ pc' = (IF raised' = "ok" THEN IF last THEN "kernel" ELSE "memory" ELSE "failed")
      /\ k' = (IF last THEN 1 ELSE k + 1)
      /\ board' = board
  BY DEF AddMemory, Continue, inputs
<1>3. CASE raised' = "ok"
  <2>1. taken.raised = "ok" /\ normal' = added.regions
    BY <1>2, <1>3
  <2>2. Covered(device') = Covered(device) \ (b..e - 1) /\ b..e - 1 \subseteq Covered(device)
    <3>1. b <= e
      BY <1>1
    <3> QED
      BY <1>1, <1>2, <2>1, <3>1, RemovedIs
  <2>3. Covered(normal') = Covered(normal) \cup (b..e - 1)
    BY <1>1, <2>1, <2>2, InsertExact
  <2>4. MemoryTo(board, k) = MemoryTo(board, k - 1) \cup (b..e - 1)
    <3>1. k - 1 \in Nat /\ (k - 1) + 1 = k
      BY DEF Sound
    <3> QED
      BY <1>1, <3>1, FramesGrow
  <2>5. /\ Covered(device') = (All \ Frames) \ MemoryTo(board, k)
        /\ Covered(normal') = MemoryTo(board, k)
    BY <1>2, <2>2, <2>3, <2>4 DEF Accounts
  <2>6. Frames' = Frames /\ Memory' = Memory
    BY <1>2 DEF Frames, Memory
  <2>7. CASE last
    <3>1. pc' = "kernel" /\ k' = 1 /\ MemoryTo(board, k) = Memory
      BY <1>2, <1>3, <2>7, AllMemory, Facts DEF Memory, PlanInv
    <3> QED
      BY <2>5, <2>6, <3>1 DEF Accounts
  <2>8. CASE ~last
    <3>1. pc' = "memory" /\ k' - 1 = k /\ board' = board
      BY <1>2, <1>3, <2>8 DEF Sound
    <3> QED
      BY <2>5, <2>6, <3>1 DEF Accounts
  <2> QED
    BY <2>7, <2>8
<1>4. CASE raised' # "ok"
  BY <1>2, <1>4 DEF Accounts
<1> QED
  BY <1>3, <1>4

\* A removal from the normal memory.
LEMMA NormalLoses ==
  ASSUME PlanInv, NEW b \in Int, NEW e \in Int, b <= e,
         normal' = RemoveRegion(normal, b, e).regions, raised' = RemoveRegion(normal, b, e).raised,
         raised' = "ok"
  PROVE  Covered(normal') = Covered(normal) \ (b..e - 1) /\ b..e - 1 \subseteq Covered(normal)
<1>1. normal \in Seq(IntRegion) /\ PairwiseDisjoint(normal)
  BY Facts DEF PlanInv, Inv, FreeDisjoint
<1> QED
  BY <1>1, RemovedIs

LEMMA RemovalsAccounts ==
  ASSUME PlanInv, Sound, Accounts, RemoveKernelImage \/ RemoveTask \/ RemoveReserved
  PROVE  Accounts'
<1>1. Addresses(board.kernel) = board.kernel.base..board.kernel.end - 1
      /\ Addresses(task) = task.base..task.end - 1
      /\ Addresses(reserved) = reserved.base..reserved.end - 1
  BY DEF Addresses
<1>2. CASE RemoveKernelImage
  <2>1. /\ normal' = RemoveRegion(normal, board.kernel.base, board.kernel.end).regions
        /\ raised' = RemoveRegion(normal, board.kernel.base, board.kernel.end).raised
        /\ pc = "kernel" /\ pc' \in {"reserve", "take task", "failed"}
        /\ (raised' # "ok" => pc' = "failed")
        /\ board' = board /\ k' = k /\ device' = device
    BY <1>2 DEF RemoveKernelImage, Continue, inputs
  <2>2. CASE raised' = "ok"
    <3>1. Covered(normal') = Memory \ Addresses(board.kernel)
      <4>1. board.kernel.base \in Int /\ board.kernel.end \in Int
            /\ board.kernel.base <= board.kernel.end
        BY SMTT(40), Facts, BoardOrder DEF PlanInv
      <4>2. Covered(normal) = Memory
        BY <2>1 DEF Accounts
      <4> QED
        BY <1>1, <2>1, <2>2, <4>1, <4>2, NormalLoses
    <3>2. Covered(device') = (All \ Frames) \ Memory /\ Frames' = Frames /\ Memory' = Memory /\ k = 1
      BY <2>1 DEF Accounts, Frames, Memory
    <3> QED
      BY <2>1, <3>1, <3>2 DEF Accounts
  <2>3. CASE raised' # "ok"
    BY <2>1, <2>3 DEF Accounts
  <2> QED
    BY <2>2, <2>3
<1>3. CASE RemoveTask
  <2>1. /\ normal' = RemoveRegion(normal, task.base, task.end).regions
        /\ raised' = RemoveRegion(normal, task.base, task.end).raised
        /\ pc = "take task" /\ pc' \in {"take reserved", "failed"}
        /\ (raised' # "ok" => pc' = "failed")
        /\ board' = board /\ k' = k /\ device' = device /\ task' = task
    BY <1>3 DEF RemoveTask, Continue, inputs, placed
  <2>2. CASE raised' = "ok"
    <3>1. Covered(normal') = (Memory \ Addresses(board.kernel)) \ Addresses(task)
      BY <1>1, <2>1, <2>2, Facts, NormalLoses DEF PlanInv, Accounts
    <3>2. Covered(device') = (All \ Frames) \ Memory /\ Frames' = Frames /\ Memory' = Memory /\ k = 1
      BY <2>1 DEF Accounts, Frames, Memory
    <3> QED
      BY <2>1, <3>1, <3>2 DEF Accounts
  <2>3. CASE raised' # "ok"
    BY <2>1, <2>3 DEF Accounts
  <2> QED
    BY <2>2, <2>3
<1>4. CASE RemoveReserved
  <2>1. /\ normal' = RemoveRegion(normal, reserved.base, reserved.end).regions
        /\ raised' = RemoveRegion(normal, reserved.base, reserved.end).raised
        /\ pc = "take reserved" /\ pc' \in {"objects", "failed"}
        /\ (raised' # "ok" => pc' = "failed")
        /\ board' = board /\ k' = k /\ device' = device /\ task' = task /\ reserved' = reserved
    BY <1>4 DEF RemoveReserved, Continue, inputs, placed
  <2>2. CASE raised' = "ok"
    <3>1. Covered(normal')
            = ((Memory \ Addresses(board.kernel)) \ Addresses(task)) \ Addresses(reserved)
      BY <1>1, <2>1, <2>2, Facts, NormalLoses DEF PlanInv, Accounts
    <3>2. Covered(device') = (All \ Frames) \ Memory /\ Frames' = Frames /\ Memory' = Memory /\ k = 1
      BY <2>1 DEF Accounts, Frames, Memory
    <3> QED
      BY <2>1, <3>1, <3>2 DEF Accounts
  <2>3. CASE raised' # "ok"
    BY <2>1, <2>3 DEF Accounts
  <2> QED
    BY <2>2, <2>3
<1> QED
  BY <1>2, <1>3, <1>4

LEMMA TakeObjectsAccounts ==
  ASSUME PlanInv, Sound, Accounts, TakeObjects
  PROVE  Accounts'
<1> DEFINE possible == {n \in DOMAIN normal : ObjectsStart(normal[n]) >= normal[n].base}
           b == ObjectsStart(normal[Max(possible)])
           e == b + board.objects
           result == RemoveRegion(normal, b, e)
<1>1. /\ pc = "objects" /\ pc' \in {"split", "failed"} /\ (raised' # "ok" => pc' = "failed")
      /\ raised' = "ok" => /\ possible # {} /\ normal' = result.regions /\ raised' = result.raised
                           /\ objects' = MemoryRegion(b, e)
      /\ board' = board /\ k' = k /\ device' = device /\ task' = task /\ reserved' = reserved
  BY DEF TakeObjects, Continue, inputs, placed
<1>2. CASE raised' = "ok"
  <2>1. Len(normal) \in Nat /\ DOMAIN normal = 1..Len(normal) /\ normal \in Seq(IntRegion)
    BY Facts DEF PlanInv
  <2>2. Max(possible) \in DOMAIN normal
    <3>1. possible \in SUBSET Nat /\ \A m \in possible : m <= Len(normal)
      BY <2>1
    <3>2. possible # {} /\ possible \subseteq DOMAIN normal
      BY <1>1, <1>2
    <3> HIDE DEF possible
    <3>3. Max(possible) \in possible
      BY <2>1, <3>1, <3>2, MaxIsIn
    <3> QED
      BY <3>2, <3>3
  <2>3. b \in Int /\ e \in Int /\ b <= e
    <3> DEFINE n == normal[Max(possible)].end - board.objects
    <3>1. board.objects \in Nat /\ normal[Max(possible)].end \in Int /\ ObjectsAlign \in Nat \ {0}
      BY <2>1, <2>2, Facts, RegionNumbers, SizesAssumption DEF PlanInv
    <3>2. n \in Int
      BY <3>1
    <3>3. b = n - (n % ObjectsAlign)
      BY DEF ObjectsStart, RoundDown
    <3> HIDE DEF n, b
    <3>4. n % ObjectsAlign \in Nat
      BY <3>1, <3>2
    <3> QED
      BY <3>1, <3>2, <3>3, <3>4
  <2>4. normal' = result.regions /\ raised' = result.raised /\ Addresses(objects') = b..e - 1
    BY <1>1, <1>2 DEF Addresses, MemoryRegion
  <2> HIDE DEF b, e
  <2>5. Covered(normal') = Covered(normal) \ (b..e - 1) /\ b..e - 1 \subseteq Covered(normal)
    BY <1>2, <2>3, <2>4, NormalLoses
  <2>6. Covered(normal)
          = ((Memory \ Addresses(board.kernel)) \ Addresses(task)) \ Addresses(reserved)
    BY <1>1 DEF Accounts
  <2>7. Covered(device') = (All \ Frames) \ Memory /\ Frames' = Frames /\ Memory' = Memory /\ k = 1
    BY <1>1 DEF Accounts, Frames, Memory
  <2> QED
    BY <1>1, <2>4, <2>5, <2>6, <2>7 DEF Accounts
<1>3. CASE raised' # "ok"
  BY <1>1, <1>3 DEF Accounts
<1> QED
  BY <1>2, <1>3

LEMMA NextAccounts ==
  ASSUME PlanInv, Sound, Accounts, [Next]_vars
  PROVE  Accounts'
<1>1. CASE UNCHANGED vars
  BY <1>1 DEF Accounts, vars, inputs, sizes, placed, Frames, Memory
<1>2. CASE BuildSystem
  BY <1>2, BootBeginsAccounts DEF BuildSystem, Continue
<1>3. CASE PlaceReserved
  <2>1. pc = "reserve" /\ pc' \in {"task", "failed"} /\ board' = board /\ device' = device /\ k' = k
    BY <1>3 DEF PlaceReserved, Continue, inputs
  <2> QED
    BY <2>1 DEF Accounts, Frames, Memory
<1>4. CASE PlaceTask
  <2>1. \/ pc' = "failed"
        \/ BeginBoot("emulate") /\ pc' \in {"devices", "failed"}
    BY <1>4 DEF PlaceTask, Continue
  <2>2. CASE pc' = "failed"
    BY <2>2 DEF Accounts
  <2> QED
    BY <2>1, <2>2, BootBeginsAccounts
<1>5. CASE \/ ListUntypeds \/ RetypeTablePages
           \/ \E data \in 1..MaxData, caps \in 1..MaxCaps : Measure(data, caps)
  <2>1. /\ UNCHANGED <<device, normal, reserved, task, objects, board>>
        /\ pc \in {"split", "table", "measure"}
        /\ pc' \in {"start", "table", "measure", "done", "failed"}
    BY <1>5 DEF ListUntypeds, RetypeTablePages, Measure, Continue, inputs, placed
  <2>2. Frames' = Frames /\ Memory' = Memory
    BY <2>1 DEF Frames, Memory
  <2> QED
    BY <2>1, <2>2 DEF Accounts
<1> QED
  BY <1>1, <1>2, <1>3, <1>4, <1>5, RemoveKernelDeviceAccounts, AddMemoryAccounts,
     RemovalsAccounts, TakeObjectsAccounts DEF Next

-----------------------------------------------------------------------------
(* The untyped objects *)

\* The lists that the kernel is emulated to make.
DeviceUntypeds == AlignedPowerOfTwoRegions(reserved) \o AllAlignedRegions(device)
NormalUntypeds == AlignedPowerOfTwoRegions(BootRegion) \o AllAlignedRegions(normal)

Listed ==
  pc \in {"table", "measure", "done"} =>
    untypeds.device = DeviceUntypeds /\ untypeds.normal = NormalUntypeds

LEMMA NextListed ==
  ASSUME Listed, [Next]_vars
  PROVE  Listed'
<1>1. CASE UNCHANGED vars
  BY <1>1 DEF Listed, vars, inputs, placed, BootRegion, DeviceUntypeds, NormalUntypeds
<1>2. CASE ListUntypeds
  <2>1. /\ untypeds' = [device |-> DeviceUntypeds, normal |-> NormalUntypeds]
        /\ UNCHANGED <<device, normal, reserved, board>>
    BY <1>2 DEF ListUntypeds, inputs, placed, DeviceUntypeds, NormalUntypeds
  <2>2. BootRegion' = BootRegion
    BY <2>1 DEF BootRegion
  <2> QED
    BY <2>1, <2>2 DEF Listed, DeviceUntypeds, NormalUntypeds
<1>3. CASE RetypeTablePages \/ \E data \in 1..MaxData, caps \in 1..MaxCaps : Measure(data, caps)
  <2>1. /\ UNCHANGED <<device, normal, reserved, board, untypeds>>
        /\ pc \in {"table", "measure"}
    BY <1>3 DEF RetypeTablePages, Measure, inputs, placed
  <2>2. BootRegion' = BootRegion
    BY <2>1 DEF BootRegion
  <2> QED
    BY <2>1, <2>2 DEF Listed, DeviceUntypeds, NormalUntypeds
<1>4. CASE \/ BuildSystem \/ RemoveKernelDevice \/ AddMemory \/ RemoveKernelImage
           \/ PlaceReserved \/ PlaceTask \/ RemoveTask \/ RemoveReserved \/ TakeObjects
  <2>1. pc' \notin {"table", "measure", "done"}
    <3>1. CASE BuildSystem \/ RemoveKernelDevice \/ AddMemory \/ RemoveKernelImage
      BY <3>1 DEF BuildSystem, RemoveKernelDevice, AddMemory, RemoveKernelImage, Continue
    <3>2. CASE PlaceReserved \/ PlaceTask \/ RemoveTask \/ RemoveReserved \/ TakeObjects
      BY <3>2 DEF PlaceReserved, PlaceTask, RemoveTask, RemoveReserved, TakeObjects, Continue
    <3> QED
      BY <1>4, <3>1, <3>2
  <2> QED
    BY <2>1 DEF Listed
<1> QED
  BY <1>1, <1>2, <1>3, <1>4 DEF Next

KernelFrames ==
  UNION {Addresses(MemoryRegion(board.devices[n], board.devices[n] + PageSize)) :
           n \in DOMAIN board.devices}

\* The kernel's frames, as UntypedsExact names them, are no memory.
LEMMA FramesAre ==
  ASSUME PlanInv
  PROVE  KernelFrames = Frames /\ Frames \cap Memory = {}
<1>1. board.devices \in Seq(Address) /\ Address \subseteq Int /\ PageSize \in Int
  BY Facts, BoardTypes, SizesAssumption DEF PlanInv, Address
<1>2. \A n \in DOMAIN board.devices : board.devices[n] \in Int
  <2>1. \A n \in DOMAIN board.devices : board.devices[n] \in Address
    BY <1>1
  <2> QED
    BY <1>1, <2>1
<1>3. \A n \in DOMAIN board.devices :
        /\ Addresses(MemoryRegion(board.devices[n], board.devices[n] + PageSize))
             = board.devices[n]..board.devices[n] + PageSize - 1
        /\ board.devices[n]..board.devices[n] + PageSize - 1 \subseteq Int
  <2> TAKE n \in DOMAIN board.devices
  <2>1. PICK d \in Int : d = board.devices[n]
    BY <1>2
  <2>2. (d + PageSize) - 1 = d + PageSize - 1
    BY <1>1, <2>1
  <2> QED
    BY <1>1, <2>1, <2>2 DEF Addresses, MemoryRegion
<1>4. DOMAIN board.devices = 1..Len(board.devices)
  BY <1>1
<1>5. KernelFrames = Frames
  <2> DEFINE X(n) == board.devices[n]..board.devices[n] + PageSize - 1
  <2>1. \A n \in DOMAIN board.devices :
          /\ Addresses(MemoryRegion(board.devices[n], board.devices[n] + PageSize)) = X(n)
          /\ X(n) \subseteq Int
    BY <1>3
  <2>2. Frames = {a \in Int : \E m \in DOMAIN board.devices : a \in X(m)}
    BY <1>4 DEF Frames, FramesTo
  <2> HIDE DEF X
  <2> QED
    BY <2>1, <2>2 DEF KernelFrames
<1>6. \A n \in DOMAIN board.devices :
        (board.devices[n]..board.devices[n] + PageSize - 1) \cap Memory = {}
  BY Facts, BoardOrder DEF PlanInv, Memory
<1> QED
  BY <1>4, <1>5, <1>6 DEF Frames, FramesTo

LEMMA MemoryIn ==
  ASSUME PlanInv
  PROVE  Memory \subseteq All /\ Addresses(board.kernel) \subseteq Memory
<1>1. board \in Boards
  BY Facts DEF PlanInv
<1>2. \A n \in DOMAIN board.memory : Addresses(board.memory[n]) \subseteq All
  BY <1>1, MemoryInSpace, SizesAssumption DEF Addresses, All
<1>3. \E n \in DOMAIN board.memory : Addresses(board.kernel) \subseteq Addresses(board.memory[n])
  BY <1>1, BoardOrder
<1> QED
  BY <1>2, <1>3, CoveredIs DEF Memory

\* What is placed is in memory.
LEMMA PlacedIn ==
  ASSUME PlanInv, pass = "emulate"
  PROVE  Addresses(reserved) \subseteq Memory /\ Addresses(task) \subseteq Memory
<1>1. Within(reserved) /\ Within(task)
  BY DEF PlanInv, Order, ReservedPlaced, TaskPlaced
<1> QED
  BY <1>1, Facts, HeldIsCovered DEF PlanInv, Within, Addresses, Memory

\* What the lists that ListUntypeds makes cover.
LEMMA UntypedsAre ==
  ASSUME PowersOfTwo, WindowAligned(DeviceTop), PlanInv, Sound, Accounts,
         pc \in {"split", "table", "measure", "done"}
  PROVE  /\ Exact(DeviceUntypeds, Addresses(reserved) \cup ((All \ Frames) \ Memory))
         /\ Exact(NormalUntypeds, Addresses(BootRegion)
                  \cup ((((Memory \ Addresses(board.kernel)) \ Addresses(task))
                           \ Addresses(reserved)) \ Addresses(objects)))
         /\ Exact(AlignedPowerOfTwoRegions(reserved), Addresses(reserved))
         /\ Addresses(BootRegion) \subseteq Addresses(board.kernel)
<1>1. DeviceTop \in Nat /\ device \in Seq(IntRegion) /\ normal \in Seq(IntRegion)
      /\ PairwiseDisjoint(device) /\ PairwiseDisjoint(normal)
  BY SizesAssumption, Facts DEF PlanInv, Inv, FreeDisjoint
<1>2. Exact(AlignedPowerOfTwoRegions(reserved), Addresses(reserved))
  <2>1. reserved.base \in Nat /\ reserved.end \in Nat /\ reserved.base <= reserved.end
        /\ reserved.end <= DeviceTop
    BY <1>1, Facts DEF PlanInv, Sound, RegionType, Address
  <2> QED
    BY <1>1, <2>1, RegionExact
<1>3. /\ BootRegion.base \in Nat /\ BootRegion.end \in Nat /\ BootRegion.base <= BootRegion.end
      /\ BootRegion.end <= DeviceTop /\ Addresses(BootRegion) \subseteq Addresses(board.kernel)
  <2>1. board.kernel \in RegionType /\ board.bootEnd \in Address
    BY Facts, BoardsAssumption DEF PlanInv
  <2>2. /\ BootRegion.base = board.kernel.base /\ BootRegion.end = board.bootEnd
        /\ board.kernel.base \in Nat /\ board.kernel.end \in Nat /\ board.kernel.end <= DeviceTop
        /\ board.bootEnd \in Nat
    BY <1>1, <2>1 DEF BootRegion, MemoryRegion, RegionType, Address
  <2>3. board.kernel.base <= board.bootEnd /\ board.bootEnd <= board.kernel.end
    BY Facts, BoardOrder DEF PlanInv
  <2> QED
    BY <1>1, <2>2, <2>3 DEF Addresses
<1>4. Exact(AlignedPowerOfTwoRegions(BootRegion), Addresses(BootRegion))
  BY <1>1, <1>3, RegionExact
<1>5. Exact(AllAlignedRegions(device), Covered(device))
      /\ Exact(AllAlignedRegions(normal), Covered(normal))
  <2>1. /\ \A n \in DOMAIN device :
             0 <= device[n].base /\ device[n].base <= device[n].end /\ device[n].end <= DeviceTop
        /\ \A n \in DOMAIN normal :
             0 <= normal[n].base /\ normal[n].base <= normal[n].end /\ normal[n].end <= DeviceTop
    BY <1>1, RegionNumbers DEF Sound, Proper
  <2> QED
    BY <1>1, <2>1, AllExact
<1>6. /\ Covered(device) = (All \ Frames) \ Memory
      /\ Covered(normal) = (((Memory \ Addresses(board.kernel)) \ Addresses(task))
                              \ Addresses(reserved)) \ Addresses(objects)
  BY DEF Accounts
<1>7. Addresses(reserved) \subseteq Memory
  BY PlacedIn DEF PlanInv, Order
<1>8. /\ Addresses(reserved) \cap Covered(device) = {}
      /\ Addresses(BootRegion) \cap Covered(normal) = {}
  BY <1>3, <1>6, <1>7
<1>9. /\ Exact(DeviceUntypeds, Addresses(reserved) \cup Covered(device))
      /\ Exact(NormalUntypeds, Addresses(BootRegion) \cup Covered(normal))
  <2> DEFINE a == AlignedPowerOfTwoRegions(reserved)
             b == AllAlignedRegions(device)
             c == AlignedPowerOfTwoRegions(BootRegion)
             d == AllAlignedRegions(normal)
  <2>1. /\ Exact(a, Addresses(reserved)) /\ Exact(b, Covered(device))
        /\ Exact(c, Addresses(BootRegion)) /\ Exact(d, Covered(normal))
        /\ DeviceUntypeds = a \o b /\ NormalUntypeds = c \o d
    BY <1>2, <1>4, <1>5 DEF DeviceUntypeds, NormalUntypeds
  <2> HIDE DEF a, b, c, d
  <2>2. Exact(a \o b, Addresses(reserved) \cup Covered(device))
    BY <1>8, <2>1, ConcatExact
  <2>3. Exact(c \o d, Addresses(BootRegion) \cup Covered(normal))
    BY <1>8, <2>1, ConcatExact
  <2> QED
    BY <2>1, <2>2, <2>3
<1> QED
  BY <1>2, <1>3, <1>6, <1>9

LEMMA UntypedsCorrect ==
  ASSUME PowersOfTwo, WindowAligned(DeviceTop), PlanInv, Sound, Accounts, Listed
  PROVE  UntypedsExact
<1> SUFFICES ASSUME pc \in {"table", "measure", "done"}
             PROVE  UntypedsExact
  BY DEF UntypedsExact
<1> DEFINE all == untypeds.device \o untypeds.normal
           inUse == (Addresses(board.kernel) \ Addresses(BootRegion))
                      \cup Addresses(task) \cup Addresses(objects) \cup KernelFrames
           K == Addresses(board.kernel)
           B == Addresses(BootRegion)
           R == Addresses(reserved)
           T == Addresses(task)
           O == Addresses(objects)
           D == R \cup ((All \ Frames) \ Memory)
           N == B \cup ((((Memory \ K) \ T) \ R) \ O)
<1>1. Exact(untypeds.device, D) /\ Exact(untypeds.normal, N) /\ B \subseteq K
  BY UntypedsAre DEF Listed
<1>2. /\ K \cap R = {} /\ K \cap T = {} /\ K \cap O = {} /\ R \cap T = {} /\ R \cap O = {}
      /\ T \cap O = {}
  BY DEF PlanInv, Inv, InUseDisjoint, Apart
<1>3. K \subseteq Memory /\ R \subseteq Memory /\ T \subseteq Memory /\ O \subseteq Memory
      /\ Memory \subseteq All /\ KernelFrames = Frames /\ Frames \cap Memory = {}
  BY MemoryIn, PlacedIn, FramesAre DEF PlanInv, Order, Accounts
<1> HIDE DEF K, B, R, T, O
<1>4. D \cap N = {} /\ D \cup N = All \ ((K \ B) \cup T \cup O \cup Frames) /\ D \cap Memory = R
  BY <1>1, <1>2, <1>3
<1>5. Exact(all, D \cup N)
  BY <1>1, <1>4, ConcatExact
<1>6. /\ \A n \in DOMAIN all : IsPowerOfTwo(Size(all[n])) /\ all[n].base % Size(all[n]) = 0
      /\ PairwiseDisjoint(all) /\ Covered(all) = D \cup N /\ Covered(untypeds.device) = D
  BY <1>1, <1>5 DEF Exact
<1>7. D \cup N = (0..DeviceTop - 1) \ inUse
  BY <1>3, <1>4 DEF K, B, T, O, All
<1>8. Covered(untypeds.device) \cap Covered(board.memory) = Addresses(reserved)
  BY <1>4, <1>6 DEF R, Memory
<1> HIDE DEF D, N
<1> QED
  BY <1>6, <1>7, <1>8 DEF UntypedsExact, KernelFrames

ListInv == PlanInv /\ Sound /\ Accounts /\ Listed

LEMMA InitList ==
  ASSUME Init
  PROVE  ListInv
<1>1. PlanInv
  BY InitInv, InitOrder DEF PlanInv
<1>2. Accounts /\ Listed
  BY DEF Init, Accounts, Listed
<1> QED
  BY <1>1, <1>2, InitSound DEF ListInv

LEMMA NextList ==
  ASSUME ListInv, [Next]_vars
  PROVE  ListInv'
<1>1. PlanInv'
  BY NextInv, NextOrder DEF ListInv, PlanInv
<1> QED
  BY <1>1, NextSound, NextAccounts, NextListed DEF ListInv

\* For every board and every size of the images: the untyped objects, which are cut in the
\* kernel's wrapping addresses, are disjoint, aligned and sized by powers of two; with what is
\* in use they are the whole physical address space, and the only memory that is a device's
\* is the reserved region (util.py:60-100, sel4.py:839-955).
THEOREM UntypedsCoverMemory ==
  ASSUME PowersOfTwo, WindowAligned(DeviceTop)
  PROVE  Spec => []UntypedsExact
<1>1. Init => ListInv
  BY InitList
<1>2. ListInv /\ [Next]_vars => ListInv'
  BY NextList
<1>3. ListInv => UntypedsExact
  BY UntypedsCorrect DEF ListInv
<1> QED
  BY <1>1, <1>2, <1>3, PTL DEF Spec

-----------------------------------------------------------------------------
(* The pages of the invocation table *)

Paged(n) == n % PageSize = 0

\* What the build places is made of pages.
MadeInPages ==
  /\ Paged(tableSize)
  /\ pc \in {"devices", "memory", "kernel", "reserve"} =>
       \A n \in DOMAIN normal : Paged(normal[n].base)
  /\ (pc = "task" \/ pass = "emulate") /\ pc \notin {"start", "failed"} =>
       Paged(reserved.base) /\ reserved.end = reserved.base + ReservedSize

\* A removal that ends at a page leaves regions that begin at one.
LEMMA RemovalInPages ==
  ASSUME NEW s \in Seq(IntRegion), NEW b \in Int, NEW e \in Int, Paged(e),
         \A n \in DOMAIN s : Paged(s[n].base)
  PROVE  \A m \in DOMAIN RemoveRegion(s, b, e).regions :
           Paged(RemoveRegion(s, b, e).regions[m].base)
<1> DEFINE t == RemoveRegion(s, b, e).regions
<1>1. \A m \in DOMAIN t : \E n \in DOMAIN s :
        \/ t[m] = s[n]
        \/ t[m] = MemoryRegion(s[n].base, b) /\ s[n].base < b /\ b <= s[n].end - (e - b)
        \/ t[m] = MemoryRegion(e, s[n].end) /\ e < s[n].end /\ s[n].base <= b
  BY RemovalLeaves
<1> HIDE DEF t
<1>2. \A c, d : MemoryRegion(c, d).base = c
  BY DEF MemoryRegion
<1>3. \A m \in DOMAIN t : Paged(t[m].base)
  BY <1>1, <1>2
<1> QED
  BY <1>3 DEF t

LEMMA ListOfPages ==
  ASSUME MadeOfPages, PlanInv, NEW s, s \in Seq(IntRegion), \A n \in DOMAIN s : Paged(s[n].base)
  PROVE  /\ \A t : t = RemoveRegion(s, board.kernel.base, board.kernel.end).regions =>
              \A m \in DOMAIN t : Paged(t[m].base)
         /\ \A n \in DOMAIN board.memory : \A t :
              t = InsertRegion(s, board.memory[n].base, board.memory[n].end).regions =>
                \A m \in DOMAIN t : Paged(t[m].base)
<1>1. board \in Boards /\ board.kernel.base \in Int /\ board.kernel.end \in Int
  BY Facts DEF PlanInv
<1>2. Paged(board.kernel.end) /\ \A n \in DOMAIN board.memory : Paged(board.memory[n].base)
  BY <1>1 DEF MadeOfPages, Paged
<1>3. \A b, e : MemoryRegion(b, e).base = b
  BY DEF MemoryRegion
<1>4. ASSUME NEW t, t = RemoveRegion(s, board.kernel.base, board.kernel.end).regions,
             NEW m \in DOMAIN t
      PROVE  Paged(t[m].base)
  <2> DEFINE b == board.kernel.base
             e == board.kernel.end
  <2>1. b \in Int /\ e \in Int /\ t = RemoveRegion(s, b, e).regions /\ Paged(e)
    BY <1>1, <1>2, <1>4
  <2> HIDE DEF b, e
  <2> QED
    BY <1>4, <2>1, RemovalInPages
<1>5. ASSUME NEW n \in DOMAIN board.memory,
             NEW t, t = InsertRegion(s, board.memory[n].base, board.memory[n].end).regions,
             NEW m \in DOMAIN t
      PROVE  Paged(t[m].base)
  <2> DEFINE b == board.memory[n].base
             e == board.memory[n].end
  <2>1. b \in Int /\ e \in Int /\ t = InsertRegion(s, b, e).regions /\ Paged(b)
    BY <1>1, <1>2, <1>5, BoardTypes, RegionNumbers
  <2> HIDE DEF b, e
  <2>2. t[m] = MemoryRegion(b, e) \/ \E j \in DOMAIN s : t[m] = s[j]
    BY <1>5, <2>1, InsertedAre
  <2> QED
    BY <1>3, <2>1, <2>2
<1> QED
  BY <1>4, <1>5

LEMMA PlaceReservedInPages ==
  ASSUME PlanInv, Sound, MadeInPages, PlaceReserved
  PROVE  MadeInPages'
<1> DEFINE result == AllocateFrom(normal, ReservedSize, board.bootEnd)
           b == AllocatedBase(normal, ReservedSize, board.bootEnd)
<1>1. /\ pc = "reserve" /\ pc' \in {"task", "failed"} /\ tableSize' = tableSize /\ elfSize' = elfSize
      /\ result.raised # "ok" => pc' = "failed"
      /\ result.raised = "ok" => reserved' = MemoryRegion(b, b + ReservedSize)
  BY DEF PlaceReserved, Continue, inputs, sizes
<1>2. result.raised = "ok" => Paged(b)
  <2> SUFFICES ASSUME result.raised = "ok" PROVE Paged(b)
    OBVIOUS
  <2> DEFINE fit == Fitting(normal, ReservedSize, board.bootEnd)
  <2>1. fit # {}
    BY DEF AllocateFrom
  <2>2. fit \subseteq DOMAIN normal /\ DOMAIN normal \in SUBSET Nat
    BY Facts DEF PlanInv, Fitting
  <2>3. b = normal[Min(fit)].base
    BY DEF AllocatedBase
  <2> HIDE DEF fit
  <2>4. Min(fit) \in fit
    BY <2>1, <2>2, MinIsIn
  <2> QED
    BY <1>1, <2>2, <2>3, <2>4 DEF MadeInPages
<1> HIDE DEF result, b
<1>3. ReservedSize' = ReservedSize
  BY <1>1 DEF ReservedSize
<1>4. CASE result.raised = "ok"
  <2>1. reserved'.base = b /\ reserved'.end = b + ReservedSize /\ Paged(tableSize) /\ Paged(b)
    BY <1>1, <1>2, <1>4 DEF MemoryRegion, MadeInPages
  <2> QED
    BY <1>1, <1>3, <2>1 DEF MadeInPages
<1>5. CASE result.raised # "ok"
  BY <1>1, <1>5 DEF MadeInPages
<1> QED
  BY <1>4, <1>5

LEMMA MeasureInPages ==
  ASSUME PlanInv, Sound, MadeInPages, NEW data \in 1..MaxData, NEW caps \in 1..MaxCaps,
         Measure(data, caps)
  PROVE  MadeInPages'
<1>1. /\ pc = "measure" /\ pc' \in {"start", "done"} /\ pass' = pass /\ reserved' = reserved
      /\ elfSize' = elfSize /\ (pc' = "done" => tableSize' = tableSize)
      /\ tableSize' = tableSize \/ tableSize' = Max({tableSize, RoundUp(data, PageSize)})
  BY DEF Measure, inputs, sizes, placed
<1>2. Paged(tableSize')
  <2> DEFINE n == RoundUp(data, PageSize)
  <2>1. data \in Nat /\ PageSize \in Nat \ {0} /\ tableSize \in Nat /\ MaxData \in Nat
    BY SizesAssumption, Facts DEF PlanInv
  <2>2. n \in Nat /\ Paged(n)
    BY <2>1, RoundUpIs, WholePages DEF Paged
  <2> HIDE DEF n
  <2>3. Max({tableSize, n}) \in {tableSize, n}
    BY <2>1, <2>2, MaxIs
  <2> QED
    BY <1>1, <2>2, <2>3 DEF n, MadeInPages
<1>3. pc' = "done" => ReservedSize' = ReservedSize
  BY <1>1 DEF ReservedSize
<1> QED
  BY <1>1, <1>2, <1>3 DEF MadeInPages

LEMMA NextInPages ==
  ASSUME MadeOfPages, PlanInv, Sound, MadeInPages, [Next]_vars
  PROVE  MadeInPages'
<1>1. CASE UNCHANGED vars
  BY <1>1 DEF MadeInPages, vars, inputs, sizes, placed, ReservedSize
<1>2. CASE BuildSystem
  <2>1. /\ normal' = <<>> /\ pass' = "place" /\ pc' \in {"devices", "failed"}
        /\ tableSize' = tableSize
    BY <1>2 DEF BuildSystem, BeginBoot, Continue, sizes
  <2> QED
    BY <2>1 DEF MadeInPages
<1>3. CASE RemoveKernelDevice
  <2>1. /\ pc = "devices" /\ pc' \in {"devices", "memory", "failed"}
        /\ UNCHANGED <<normal, tableSize, elfSize, reserved, pass>>
    BY <1>3 DEF RemoveKernelDevice, Continue, inputs, sizes, placed
  <2>2. ReservedSize' = ReservedSize
    BY <2>1 DEF ReservedSize
  <2> QED
    BY <2>1, <2>2 DEF MadeInPages
<1>4. CASE AddMemory
  <2> DEFINE added == InsertRegion(normal, board.memory[k].base, board.memory[k].end).regions
  <2>1. /\ pc = "memory" /\ pc' \in {"memory", "kernel", "failed"}
        /\ normal' = added \/ normal' = normal
        /\ UNCHANGED <<tableSize, elfSize, reserved, pass>>
    BY <1>4 DEF AddMemory, Continue, inputs, sizes, placed
  <2>2. ReservedSize' = ReservedSize
    BY <2>1 DEF ReservedSize
  <2>3. normal \in Seq(IntRegion) /\ \A n \in DOMAIN normal : Paged(normal[n].base)
    BY <2>1, Facts DEF PlanInv, MadeInPages
  <2>4. \A m \in DOMAIN added : Paged(added[m].base)
    BY <1>4, <2>3, MemoryTaken, ListOfPages
  <2> HIDE DEF added
  <2> QED
    BY <2>1, <2>2, <2>3, <2>4 DEF MadeInPages
<1>5. CASE RemoveKernelImage
  <2>1. /\ pc = "kernel" /\ pc' \in {"reserve", "take task", "failed"}
        /\ normal' = RemoveRegion(normal, board.kernel.base, board.kernel.end).regions
        /\ UNCHANGED <<tableSize, elfSize, reserved, pass>>
    BY <1>5 DEF RemoveKernelImage, Continue, inputs, sizes, placed
  <2>2. ReservedSize' = ReservedSize
    BY <2>1 DEF ReservedSize
  <2>3. \A n \in DOMAIN normal' : Paged(normal'[n].base)
    BY <2>1, Facts, ListOfPages DEF PlanInv, MadeInPages
  <2> QED
    BY <2>1, <2>2, <2>3 DEF MadeInPages
<1>6. CASE PlaceTask
  <2>1. /\ pc = "task" /\ pc' \in {"devices", "failed"}
        /\ pc' = "devices" => normal' = <<>>
        /\ UNCHANGED <<tableSize, elfSize, reserved>>
    BY <1>6 DEF PlaceTask, Continue, BeginBoot, inputs, sizes
  <2>2. ReservedSize' = ReservedSize
    BY <2>1 DEF ReservedSize
  <2> QED
    BY <2>1, <2>2 DEF MadeInPages
<1>7. CASE \/ RemoveTask \/ RemoveReserved \/ TakeObjects \/ ListUntypeds \/ RetypeTablePages
  <2>1. /\ pc \notin {"start", "failed", "task"}
        /\ pc' \notin {"devices", "memory", "kernel", "reserve", "task"}
        /\ UNCHANGED <<tableSize, elfSize, reserved, pass>>
    <3>1. CASE RemoveTask \/ RemoveReserved \/ TakeObjects
      BY <3>1 DEF RemoveTask, RemoveReserved, TakeObjects, Continue, inputs, sizes, placed
    <3>2. CASE ListUntypeds \/ RetypeTablePages
      BY <3>2 DEF ListUntypeds, RetypeTablePages, Continue, inputs, sizes, placed
    <3> QED
      BY <1>7, <3>1, <3>2
  <2>2. ReservedSize' = ReservedSize
    BY <2>1 DEF ReservedSize
  <2> QED
    BY <2>1, <2>2 DEF MadeInPages
<1> QED
  BY <1>1, <1>2, <1>3, <1>4, <1>5, <1>6, <1>7, PlaceReservedInPages, MeasureInPages DEF Next

ReservedUntypeds == AlignedPowerOfTwoRegions(reserved)

\* The untypeds of the reserved region are made of whole pages.
LEMMA ReservedTiles ==
  ASSUME PowersOfTwo, WindowAligned(DeviceTop), MadeOfPages, PlanInv, Sound, MadeInPages,
         pc \in {"split", "table"}
  PROVE  /\ Tiles(ReservedUntypeds, reserved.base, reserved.end, PageSize)
         /\ Len(ReservedUntypeds) \in Nat \ {0}
         /\ reserved.base \in Nat /\ reserved.end \in Nat /\ reserved.end <= DeviceTop
         /\ reserved.base + tableSize <= reserved.end
<1>1. /\ reserved.base \in Nat /\ reserved.end \in Nat /\ reserved.base < reserved.end
      /\ reserved.end <= DeviceTop /\ DeviceTop \in Nat
  BY Facts, SizesAssumption DEF PlanInv, Order, ReservedPlaced, Sound, RegionType, Address
<1>2. Paged(reserved.base) /\ reserved.end = reserved.base + (tableSize + elfSize) /\ Paged(tableSize)
  BY DEF MadeInPages, PlanInv, Order, ReservedSize
<1>3. PageSize \in Nat \ {0} /\ tableSize \in Nat /\ elfSize \in Nat /\ Paged(elfSize)
      /\ KernelVirtualBase \in Nat /\ Paged(KernelVirtualBase)
  BY Facts, SizesAssumption, WordIs DEF PlanInv, Sound, Paged, MadeOfPages
<1>4. PICK c \in 0..WordBits : c <= MaxBits /\ PageSize = 2^c
  BY DEF MadeOfPages
<1>5. Multiple(tableSize + elfSize, PageSize)
  BY <1>2, <1>3, MultipleIs, SumOfMultiples DEF Paged
<1>6. /\ Multiple(reserved.base, PageSize) /\ Multiple(reserved.end, PageSize)
      /\ Multiple(KernelVirtualBase, PageSize)
  <2>1. Multiple(reserved.base, PageSize) /\ Multiple(KernelVirtualBase, PageSize)
    BY <1>1, <1>2, <1>3, MultipleIs DEF Paged
  <2>2. tableSize + elfSize \in Nat
    BY <1>3
  <2>3. Multiple(reserved.base + (tableSize + elfSize), PageSize)
    BY <1>1, <1>3, <1>5, <2>1, <2>2, SumOfMultiples
  <2> QED
    BY <1>2, <2>1, <2>3
<1>7. Tiles(ReservedUntypeds, reserved.base, reserved.end, PageSize)
  <2>1. reserved.base <= reserved.end
    BY <1>1
  <2> QED
    BY <1>1, <1>4, <1>6, <2>1, RegionsTile DEF ReservedUntypeds
<1>8. Len(ReservedUntypeds) \in Nat \ {0}
  <2>1. ReservedUntypeds \in Seq(IntRegion)
    BY <1>7 DEF Tiles
  <2>2. Len(ReservedUntypeds) # 0
    BY <1>1, <1>7 DEF Tiles
  <2> QED
    BY <2>1, <2>2
<1> QED
  BY <1>1, <1>2, <1>3, <1>7, <1>8

\* The untypeds that the pages are made from are the first ones of the list.
LEMMA FirstUntypeds ==
  ASSUME PowersOfTwo, WindowAligned(DeviceTop), PlanInv, Sound, Accounts, Listed, pc = "table"
  PROVE  /\ \A n \in DOMAIN ReservedUntypeds :
              n \in 1..Len(untypeds.device) /\ untypeds.device[n] = ReservedUntypeds[n]
         /\ Len(untypeds.device) \in Nat
<1> DEFINE t == ReservedUntypeds
           u == AllAlignedRegions(device)
<1>1. t \in Seq(IntRegion)
  BY UntypedsAre DEF Exact, ReservedUntypeds
<1>2. u \in Seq(IntRegion)
  <2>1. /\ \A n \in DOMAIN device :
             0 <= device[n].base /\ device[n].base <= device[n].end /\ device[n].end <= DeviceTop
        /\ device \in Seq(IntRegion) /\ PairwiseDisjoint(device) /\ DeviceTop \in Nat
    <3>1. device \in Seq(IntRegion) /\ PairwiseDisjoint(device) /\ DeviceTop \in Nat
      BY Facts, SizesAssumption DEF PlanInv, Inv, FreeDisjoint
    <3>2. Proper(device, DeviceTop)
      BY DEF Sound
    <3> QED
      BY <3>1, <3>2, RegionNumbers DEF Proper
  <2>2. Exact(u, Covered(device))
    BY <2>1, AllExact
  <2> QED
    BY <2>2 DEF Exact
<1>3. untypeds.device = t \o u
  BY DEF Listed, DeviceUntypeds, ReservedUntypeds
<1> HIDE DEF t, u
<1>4. /\ t \o u \in Seq(IntRegion)
      /\ \A n \in DOMAIN t : n \in DOMAIN (t \o u) /\ (t \o u)[n] = t[n]
  BY <1>1, <1>2, ConcatIs
<1>5. DOMAIN (t \o u) = 1..Len(t \o u) /\ Len(t \o u) \in Nat
  BY <1>4
<1> QED
  BY <1>3, <1>4, <1>5 DEF t

Preparing ==
  {"devices", "memory", "kernel", "reserve", "task", "take task", "take reserved", "objects",
   "split"}

\* How far the pages of the table are.
Retyping ==
  /\ k \in 1..Len(ReservedUntypeds) /\ remaining \in Nat \ {0}
  /\ tablePages = reserved.base..ReservedUntypeds[k].base - 1
  /\ ReservedUntypeds[k].base + remaining * PageSize = reserved.base + tableSize

TablePages ==
  /\ remaining \in 0..tableSize /\ tablePages \subseteq Address
  /\ pc \in Preparing => tablePages = {}
  /\ pc = "table" => Retyping
  /\ TableInPlace

LEMMA WholeDivides ==
  ASSUME NEW n \in Nat, NEW s \in Nat \ {0}, Multiple(n, s)
  PROVE  n \div s \in Nat /\ n = (n \div s) * s
<1>1. n % s = 0
  BY MultipleIs
<1>2. n = (n \div s) * s + (n % s) /\ n \div s \in Nat
  BY Division
<1>3. (n \div s) * s \in Nat
  BY <1>2
<1> QED
  BY <1>1, <1>2, <1>3

LEMMA ListUntypedsPages ==
  ASSUME PowersOfTwo, WindowAligned(DeviceTop), MadeOfPages, PlanInv, Sound, Accounts,
         MadeInPages, TablePages, ListUntypeds
  PROVE  TablePages'
<1>1. /\ pc = "split" /\ pc' = "table" /\ remaining' = tableSize \div PageSize
      /\ UNCHANGED <<k, tableSize, reserved, tablePages>>
  BY DEF ListUntypeds, inputs, sizes, placed
<1>2. ReservedUntypeds' = ReservedUntypeds
  BY <1>1 DEF ReservedUntypeds
<1>3. tablePages = {} /\ k = 1
  BY <1>1 DEF TablePages, Accounts, Preparing
<1>4. PageSize \in Nat \ {0} /\ tableSize \in Nat /\ PageSize <= tableSize
      /\ Multiple(tableSize, PageSize)
  BY Facts, MultipleIs DEF PlanInv, Order, MadeInPages, Paged
<1>5. /\ remaining' \in Nat \ {0} /\ remaining' * PageSize = tableSize
      /\ remaining' <= tableSize
  <2>1. PICK q : q = tableSize \div PageSize
    OBVIOUS
  <2>2. q \in Nat /\ tableSize = q * PageSize
    BY <1>4, <2>1, WholeDivides
  <2>3. q # 0
    <3>1. 0 * PageSize = 0
      BY <1>4
    <3> QED
      BY <1>4, <2>2, <3>1
  <2>4. q <= tableSize
    BY <1>4, <2>1, <2>2
  <2> QED
    BY <1>1, <2>1, <2>2, <2>3, <2>4
<1>6. 1 \in 1..Len(ReservedUntypeds) /\ ReservedUntypeds[1].base = reserved.base
      /\ reserved.base \in Nat
  BY <1>1, ReservedTiles DEF Tiles
<1>7. Retyping'
  <2>1. reserved.base..reserved.base - 1 = {}
    BY <1>6
  <2> QED
    BY <1>1, <1>2, <1>3, <1>5, <1>6, <2>1 DEF Retyping
<1> QED
  BY <1>1, <1>3, <1>4, <1>5, <1>7 DEF TablePages, TableInPlace, Preparing

\* A range, and the range that follows it.
LEMMA RangesJoin ==
  ASSUME NEW low \in Nat, NEW b \in Nat, NEW m \in Nat, low <= b
  PROVE  (low..b - 1) \cup (b..b + m - 1) = low..b + m - 1
OBVIOUS

LEMMA SameEnd ==
  ASSUME NEW b \in Nat, NEW m \in Nat, NEW c \in Nat, NEW n \in Nat, b + m = c + n
  PROVE  b + m - 1 = c + n - 1
OBVIOUS

\* One untyped of the reserved region becomes pages: the next pages of the table.
LEMMA RetypePages ==
  ASSUME PowersOfTwo, WindowAligned(DeviceTop), MadeOfPages, PlanInv, Sound, Accounts, Listed,
         MadeInPages, TablePages, RetypeTablePages
  PROVE  TablePages'
<1> DEFINE t == ReservedUntypeds
           ut == untypeds.device[k]
           count == Min({Size(ut) \div PageSize, remaining})
           made == count * PageSize
           finished == remaining = count \/ k = Len(untypeds.device)
<1>1. /\ pc = "table" /\ UNCHANGED <<tableSize, reserved>>
      /\ \/ pc' = "failed" /\ UNCHANGED <<remaining, tablePages>>
         \/ /\ pc' = IF finished THEN "measure" ELSE "table"
            /\ tablePages' = tablePages \cup (ut.base..ut.base + made - 1)
            /\ remaining' = remaining - count
            /\ k' = IF finished THEN 1 ELSE k + 1
  BY DEF RetypeTablePages, Continue, inputs, sizes, placed, pages
<1>2. CASE pc' = "failed" /\ UNCHANGED <<remaining, tablePages>>
  BY <1>1, <1>2 DEF TablePages, TableInPlace, Preparing
<1>3. CASE /\ pc' = IF finished THEN "measure" ELSE "table"
           /\ tablePages' = tablePages \cup (ut.base..ut.base + made - 1)
           /\ remaining' = remaining - count
           /\ k' = IF finished THEN 1 ELSE k + 1
  <2>1. /\ k \in 1..Len(t) /\ remaining \in Nat \ {0} /\ remaining <= tableSize
        /\ tablePages = reserved.base..t[k].base - 1
        /\ t[k].base + remaining * PageSize = reserved.base + tableSize
        /\ tablePages \subseteq Address /\ tableSize \in Nat /\ PageSize \in Nat \ {0}
        /\ DeviceTop \in Nat
    <3>1. tableSize \in Nat /\ PageSize \in Nat \ {0} /\ DeviceTop \in Nat
      BY Facts, SizesAssumption DEF PlanInv
    <3>2. remaining \in 0..tableSize /\ tablePages \subseteq Address /\ Retyping
      BY <1>1 DEF TablePages
    <3> HIDE DEF t
    <3>3. /\ k \in 1..Len(t) /\ remaining \in Nat \ {0}
          /\ tablePages = reserved.base..t[k].base - 1
          /\ t[k].base + remaining * PageSize = reserved.base + tableSize
      BY <3>2 DEF Retyping, t
    <3>4. remaining <= tableSize
      BY <3>1, <3>2
    <3> QED
      BY <3>1, <3>2, <3>3, <3>4
  <2>2. /\ Tiles(t, reserved.base, reserved.end, PageSize) /\ Len(t) \in Nat \ {0}
        /\ reserved.base \in Nat /\ reserved.end \in Nat /\ reserved.end <= DeviceTop
        /\ reserved.base + tableSize <= reserved.end
    BY <1>1, ReservedTiles
  <2>3. /\ t \in Seq(IntRegion) /\ Multiple(Size(t[k]), PageSize)
        /\ reserved.base <= t[k].base /\ t[k].base < t[k].end /\ t[k].end <= reserved.end
        /\ k # Len(t) => t[k + 1].base = t[k].end
        /\ k = Len(t) => t[k].end = reserved.end
    <3>1. k # Len(t) => k + 1 \in 1..Len(t) /\ (k + 1) - 1 = k /\ k + 1 # 1
      BY <2>1, <2>2
    <3>2. k # Len(t) => t[k + 1].base = t[k].end
      BY <2>2, <3>1 DEF Tiles
    <3> QED
      BY <2>1, <2>2, <3>2 DEF Tiles
  <2>4. /\ ut = t[k] /\ (k # Len(t) => k # Len(untypeds.device))
    <3>1. k \in DOMAIN t /\ (k # Len(t) => k + 1 \in DOMAIN t)
      BY <2>1, <2>2, <2>3
    <3>2. k # Len(t) => k + 1 \in 1..Len(untypeds.device)
      BY <1>1, <3>1, FirstUntypeds
    <3>3. Len(untypeds.device) \in Nat
      BY <1>1, FirstUntypeds
    <3> QED
      BY <1>1, <2>1, <3>1, <3>2, <3>3, FirstUntypeds
  <2> DEFINE b == t[k].base
             e == t[k].end
             size == Size(ut)
             whole == size \div PageSize
  <2>5. b \in Nat /\ e \in Nat /\ size = e - b /\ size \in Nat
    <3>1. t[k] \in IntRegion
      BY <2>1, <2>3
    <3>2. b \in Int /\ e \in Int
      BY <3>1 DEF IntRegion
    <3> QED
      BY <2>2, <2>3, <2>4, <3>2 DEF Size
  <2>6. whole \in Nat /\ size = whole * PageSize
    BY <2>1, <2>3, <2>4, <2>5, WholeDivides
  <2>7. count \in Nat /\ count <= whole /\ count <= remaining /\ (count = whole \/ count = remaining)
    <3> DEFINE S == {whole, remaining}
    <3>1. S \in SUBSET Nat /\ S # {} /\ whole \in S /\ remaining \in S
      BY <2>1, <2>6
    <3>2. count = Min(S)
      OBVIOUS
    <3> HIDE DEF S, count, whole
    <3>3. count \in S /\ \A j \in S : count <= j
      BY <3>1, <3>2, MinIsIn
    <3> QED
      BY <3>1, <3>3 DEF S
  <2> HIDE DEF t, whole, size, count
  <2> DEFINE rest == remaining - count
             left == rest * PageSize
  <2>8. rest \in Nat /\ remaining = count + rest /\ remaining * PageSize = made + left
        /\ made \in Nat /\ left \in Nat
    <3>1. rest \in Nat /\ remaining = count + rest
      BY <2>1, <2>7
    <3> HIDE DEF rest
    <3>2. (count + rest) * PageSize = made + left
      BY <2>1, <2>7, <3>1, Distributes
    <3>3. made \in Nat /\ left \in Nat
      BY <2>1, <2>7, <3>1
    <3> QED
      BY <3>1, <3>2, <3>3
  <2>9. made <= size /\ (count = whole => made = size)
    BY <2>1, <2>6, <2>7, Grow
  <2>10. rest # 0 => left \in Nat \ {0}
    BY <2>1, <2>8
  <2>11. rest = 0 => left = 0
    BY <2>1
  <2> HIDE DEF rest, left, made
  <2>12. b + made + left = reserved.base + tableSize /\ b + made <= e
    <3> DEFINE total == remaining * PageSize
    <3>1. b + total = reserved.base + tableSize /\ total = made + left
      BY <2>1, <2>8
    <3> HIDE DEF total, b, e
    <3>2. b + made + left = reserved.base + tableSize
      BY <2>5, <2>8, <3>1
    <3>3. b + made <= e
      BY <2>5, <2>8, <2>9
    <3> QED
      BY <3>2, <3>3
  <2>13. tablePages' = reserved.base..b + made - 1
    <3>1. ut.base = b
      BY <2>4
    <3>2. tablePages' = (reserved.base..b - 1) \cup (b..b + made - 1)
      BY <1>3, <2>1, <3>1
    <3>3. reserved.base \in Nat /\ b \in Nat /\ made \in Nat /\ reserved.base <= b
      BY <2>2, <2>3, <2>5, <2>8
    <3> HIDE DEF b
    <3> QED
      BY <3>2, <3>3, RangesJoin
  <2>14. PICK low \in Nat, length \in Nat : low = reserved.base /\ length = tableSize
    BY <2>1, <2>2
  <2>15. /\ b \in Nat /\ e \in Nat /\ made \in Nat /\ left \in Nat
         /\ b + made + left = low + length /\ b + made <= e
         /\ tablePages' = low..b + made - 1
    BY <2>5, <2>8, <2>12, <2>13, <2>14
  <2>16. e <= DeviceTop /\ DeviceTop \in Nat /\ reserved.end \in Nat /\ low + length <= reserved.end
    BY <2>1, <2>2, <2>3, <2>5, <2>14
  <2>17. k = Len(t) => e = reserved.end
    BY <2>3
  <2>18. k # Len(t) => t[k + 1].base = e
    BY <2>3
  <2> HIDE DEF b, e
  <2>19. tablePages' \subseteq Address
    <3>1. b + made - 1 <= DeviceTop /\ b + made - 1 \in Int
      BY <2>15, <2>16
    <3> QED
      BY <2>15, <2>16, <3>1 DEF Address
  <2>20. remaining' = rest /\ rest \in 0..tableSize'
    BY <1>1, <1>3, <2>1, <2>7, <2>8 DEF rest
  <2>21. ReservedUntypeds' = ReservedUntypeds
    BY <1>1 DEF ReservedUntypeds
  <2>22. CASE rest = 0
    <3>1. remaining = count
      BY <2>7, <2>8, <2>22
    <3>2. pc' = "measure"
      BY <1>3, <3>1
    <3>3. b + made = low + length
      BY <2>11, <2>22, <2>15
    <3>4. tablePages' = reserved.base..reserved.base + tableSize - 1
      <4>1. b + made - 1 = low + length - 1
        BY <2>15, <3>3, SameEnd
      <4> QED
        BY <2>14, <2>15, <4>1
    <3>5. TableInPlace'
      BY <1>1, <2>20, <2>22, <3>4 DEF TableInPlace
    <3> QED
      BY <2>19, <2>20, <3>2, <3>5 DEF TablePages, Preparing
  <2>23. CASE rest # 0
    <3>1. remaining # count /\ count = whole /\ made = size
      BY <2>1, <2>7, <2>8, <2>9, <2>23
    <3>2. b + made = e
      BY <2>5, <2>15, <3>1 DEF b, e
    <3>3. e + left = low + length
      BY <2>15, <3>2
    <3>4. k # Len(t)
      BY <2>10, <2>23, <2>15, <2>16, <2>17, <3>3
    <3>5. pc' = "table" /\ k' = k + 1
      BY <1>3, <2>4, <3>1, <3>4
    <3>6. k + 1 \in 1..Len(t) /\ t[k + 1].base = e
      BY <2>1, <2>2, <2>18, <3>4
    <3>7. tablePages' = reserved.base..e - 1
      <4>1. b + made - 1 = e - 1
        BY <2>15, <3>2
      <4> QED
        BY <2>14, <2>15, <4>1
    <3>8. e + left = reserved.base + tableSize
      BY <2>14, <3>3
    <3>9. Retyping'
      BY <1>1, <2>8, <2>20, <2>21, <2>23, <3>5, <3>6, <3>7, <3>8 DEF Retyping, t, left
    <3> QED
      BY <2>19, <2>20, <3>5, <3>9 DEF TablePages, Preparing, TableInPlace
  <2> QED
    BY <2>22, <2>23
<1> QED
  BY <1>1, <1>2, <1>3

LEMMA MeasureTablePages ==
  ASSUME PlanInv, Sound, TablePages, NEW data \in 1..MaxData, NEW caps \in 1..MaxCaps,
         Measure(data, caps)
  PROVE  TablePages'
<1>1. /\ UNCHANGED <<reserved, remaining, tablePages>>
      /\ pc = "measure" /\ pc' \in {"start", "done"} /\ (pc' = "done" => tableSize' = tableSize)
      /\ tableSize' = tableSize \/ tableSize' = Max({tableSize, RoundUp(data, PageSize)})
  BY DEF Measure, sizes, placed, pages
<1>2. tableSize \in Nat /\ tableSize' \in Nat /\ tableSize <= tableSize'
  <2> DEFINE n == RoundUp(data, PageSize)
  <2>1. tableSize \in Nat /\ data \in Nat /\ PageSize \in Nat \ {0}
    BY SizesAssumption, Facts DEF PlanInv
  <2>2. n \in Nat
    BY <2>1, RoundUpIs
  <2> HIDE DEF n
  <2>3. Max({tableSize, n}) \in Nat /\ tableSize <= Max({tableSize, n})
    BY <2>1, <2>2, MaxIs
  <2> QED
    BY <1>1, <2>1, <2>3 DEF n
<1>3. remaining' \in 0..tableSize' /\ tablePages' \subseteq Address
  BY <1>1, <1>2 DEF TablePages
<1>4. TableInPlace'
  BY <1>1 DEF TablePages, TableInPlace
<1> QED
  BY <1>1, <1>3, <1>4 DEF TablePages, Preparing

LEMMA NextTablePages ==
  ASSUME PowersOfTwo, WindowAligned(DeviceTop), MadeOfPages, PlanInv, Sound, Accounts, Listed,
         MadeInPages, TablePages, [Next]_vars
  PROVE  TablePages'
<1>1. CASE UNCHANGED vars
  BY <1>1 DEF TablePages, TableInPlace, Retyping, ReservedUntypeds, vars, sizes, placed, pages
<1>2. CASE BuildSystem
  <2>1. /\ remaining' = 0 /\ tablePages' = {} /\ tableSize' = tableSize
        /\ pc' \in {"devices", "failed"}
    BY <1>2 DEF BuildSystem, Continue, sizes
  <2>2. tableSize \in Nat
    BY Facts DEF PlanInv
  <2> QED
    BY <2>1, <2>2 DEF TablePages, TableInPlace
<1>3. CASE \/ RemoveKernelDevice \/ AddMemory \/ RemoveKernelImage
           \/ PlaceReserved \/ PlaceTask \/ RemoveTask \/ RemoveReserved \/ TakeObjects
  <2>1. UNCHANGED <<remaining, tablePages, tableSize>> /\ pc \in Preparing
        /\ pc' \in Preparing \cup {"failed"}
    <3>1. CASE RemoveKernelDevice \/ AddMemory \/ RemoveKernelImage
      BY <3>1 DEF RemoveKernelDevice, AddMemory, RemoveKernelImage, Continue, sizes, pages, Preparing
    <3>2. CASE PlaceReserved \/ PlaceTask
      BY <3>2 DEF PlaceReserved, PlaceTask, Continue, sizes, pages, Preparing
    <3>3. CASE RemoveTask \/ RemoveReserved \/ TakeObjects
      BY <3>3 DEF RemoveTask, RemoveReserved, TakeObjects, Continue, sizes, pages, Preparing
    <3> QED
      BY <1>3, <3>1, <3>2, <3>3
  <2> QED
    BY <2>1 DEF TablePages, TableInPlace, Preparing
<1> QED
  BY <1>1, <1>2, <1>3, ListUntypedsPages, RetypePages, MeasureTablePages DEF Next

TableInv == ListInv /\ MadeInPages /\ TablePages

LEMMA InitTable ==
  ASSUME Init
  PROVE  TableInv
<1>1. MadeInPages
  <2>1. Paged(tableSize)
    BY SizesAssumption DEF Init, Paged
  <2> QED
    BY <2>1 DEF Init, MadeInPages
<1>2. TablePages
  BY SizesAssumption DEF Init, TablePages, TableInPlace, Preparing
<1> QED
  BY <1>1, <1>2, InitList DEF TableInv

LEMMA NextTable ==
  ASSUME PowersOfTwo, WindowAligned(DeviceTop), MadeOfPages, TableInv, [Next]_vars
  PROVE  TableInv'
BY NextList, NextInPages, NextTablePages DEF TableInv, ListInv

\* For every board whose memory is made of pages: the pages that are made for the invocation
\* table, from as many untypeds as that takes, are the beginning of the reserved region,
\* without a gap, and none is left to make (__main__.py:1010-1044).
THEOREM TableLiesInPlace ==
  ASSUME PowersOfTwo, WindowAligned(DeviceTop), MadeOfPages
  PROVE  Spec => []TableInPlace
<1>1. Init => TableInv
  BY InitTable
<1>2. TableInv /\ [Next]_vars => TableInv'
  BY NextTable
<1>3. TableInv => TableInPlace
  BY DEF TableInv, TablePages
<1> QED
  BY <1>1, <1>2, <1>3, PTL DEF Spec

-----------------------------------------------------------------------------
(* Types *)

UntypedTypes ==
  untypeds.device \in Seq(RegionType) /\ untypeds.normal \in Seq(RegionType)

LEMMA RegionsInSpace ==
  ASSUME NEW s \in Seq(IntRegion),
         \A n \in DOMAIN s : 0 <= s[n].base /\ s[n].base <= s[n].end /\ s[n].end <= DeviceTop
  PROVE  s \in Seq(RegionType)
<1>1. DeviceTop \in Int /\ Len(s) \in Nat
  BY SizesAssumption
<1>2. \A n \in DOMAIN s : s[n] \in RegionType
  <2> TAKE n \in DOMAIN s
  <2>1. s[n] \in IntRegion
    OBVIOUS
  <2>2. /\ 0 <= s[n].base /\ s[n].base <= s[n].end /\ s[n].end <= DeviceTop
        /\ s[n].base \in Int /\ s[n].end \in Int
    BY RegionNumbers
  <2>3. s[n].base \in Address /\ s[n].end \in Address
    BY <1>1, <2>2 DEF Address
  <2> QED
    BY <2>1, <2>3 DEF IntRegion, RegionType
<1> QED
  BY <1>2

\* Untyped objects of physical addresses are regions of the physical address space.
LEMMA ExactInSpace ==
  ASSUME NEW t, NEW A, Exact(t, A), A \subseteq All
  PROVE  t \in Seq(RegionType)
<1>1. t \in Seq(IntRegion) /\ DeviceTop \in Int
  BY SizesAssumption DEF Exact
<1>2. ASSUME NEW n \in DOMAIN t
      PROVE  0 <= t[n].base /\ t[n].base <= t[n].end /\ t[n].end <= DeviceTop
  <2>1. t[n].base \in Int /\ t[n].end \in Int /\ t[n].base < t[n].end
    BY <1>1, RegionNumbers DEF Exact
  <2>2. Addresses(t[n]) \subseteq All
    BY CoveredIs DEF Exact
  <2>3. t[n].base \in Addresses(t[n]) /\ t[n].end - 1 \in Addresses(t[n])
    BY <2>1 DEF Addresses
  <2>4. 0 <= t[n].base /\ t[n].end - 1 <= DeviceTop - 1
    BY <2>2, <2>3 DEF All
  <2> QED
    BY <1>1, <2>1, <2>4
<1> QED
  BY <1>1, <1>2, RegionsInSpace

LEMMA NextUntypedTypes ==
  ASSUME PowersOfTwo, WindowAligned(DeviceTop), PlanInv, Sound, Accounts, UntypedTypes, [Next]_vars
  PROVE  UntypedTypes'
<1>1. CASE ListUntypeds
  <2>1. pc = "split" /\ untypeds' = [device |-> DeviceUntypeds, normal |-> NormalUntypeds]
    BY <1>1 DEF ListUntypeds, DeviceUntypeds, NormalUntypeds
  <2>2. /\ Exact(DeviceUntypeds, Addresses(reserved) \cup ((All \ Frames) \ Memory))
        /\ Exact(NormalUntypeds, Addresses(BootRegion)
                  \cup ((((Memory \ Addresses(board.kernel)) \ Addresses(task))
                           \ Addresses(reserved)) \ Addresses(objects)))
        /\ Addresses(BootRegion) \subseteq Addresses(board.kernel)
    BY <2>1, UntypedsAre
  <2>3. Memory \subseteq All /\ Addresses(board.kernel) \subseteq Memory
        /\ Addresses(reserved) \subseteq Memory
    BY <2>1, MemoryIn, PlacedIn DEF PlanInv, Order
  <2>4. DeviceUntypeds \in Seq(RegionType)
    <3>1. Addresses(reserved) \cup ((All \ Frames) \ Memory) \subseteq All
      BY <2>3
    <3> QED
      BY <2>2, <3>1, ExactInSpace
  <2>5. NormalUntypeds \in Seq(RegionType)
    <3>1. Addresses(BootRegion)
            \cup ((((Memory \ Addresses(board.kernel)) \ Addresses(task))
                     \ Addresses(reserved)) \ Addresses(objects)) \subseteq All
      BY <2>2, <2>3
    <3> QED
      BY <2>2, <3>1, ExactInSpace
  <2> QED
    BY <2>1, <2>4, <2>5 DEF UntypedTypes
<1>2. CASE BuildSystem
  <2>1. untypeds' = [device |-> <<>>, normal |-> <<>>]
    BY <1>2 DEF BuildSystem, NoUntypeds
  <2> QED
    BY <2>1 DEF UntypedTypes
<1>3. CASE untypeds' = untypeds
  BY <1>3 DEF UntypedTypes
<1>4. ASSUME Next, ~ListUntypeds, ~BuildSystem
      PROVE  untypeds' = untypeds
  <2>1. CASE \/ RemoveKernelDevice \/ AddMemory \/ RemoveKernelImage
             \/ PlaceReserved \/ PlaceTask
    BY <2>1 DEF RemoveKernelDevice, AddMemory, RemoveKernelImage, PlaceReserved, PlaceTask
  <2>2. CASE \/ RemoveTask \/ RemoveReserved \/ TakeObjects \/ RetypeTablePages
             \/ \E data \in 1..MaxData, caps \in 1..MaxCaps : Measure(data, caps)
    BY <2>2 DEF RemoveTask, RemoveReserved, TakeObjects, RetypeTablePages, Measure
  <2> QED
    BY <1>4, <2>1, <2>2 DEF Next
<1>5. CASE UNCHANGED vars
  BY <1>3, <1>5 DEF vars
<1> QED
  BY <1>1, <1>2, <1>3, <1>4, <1>5

TypeInv == TableInv /\ SizesFit /\ UntypedTypes

LEMMA NextTypes ==
  ASSUME PowersOfTwo, WindowAligned(DeviceTop), MadeOfPages, CapsFitWord, TypeInv, [Next]_vars
  PROVE  TypeInv'
<1>1. TableInv' /\ UntypedTypes'
  BY NextTable, NextUntypedTypes DEF TypeInv, TableInv, ListInv
<1>2. SizesFit'
  <2>1. CASE \E data \in 1..MaxData, caps \in 1..MaxCaps : Measure(data, caps)
    BY <2>1, MeasureSizes DEF TypeInv, TableInv, ListInv
  <2>2. CASE ~(\E data \in 1..MaxData, caps \in 1..MaxCaps : Measure(data, caps))
    <3>1. UNCHANGED sizes
      BY <2>2 DEF Next, vars, BuildSystem, RemoveKernelDevice, AddMemory, RemoveKernelImage,
        PlaceReserved, PlaceTask, RemoveTask, RemoveReserved, TakeObjects, ListUntypeds,
        RetypeTablePages
    <3> QED
      BY <3>1, SizesKept DEF TypeInv
  <2> QED
    BY <2>1, <2>2
<1> QED
  BY <1>1, <1>2 DEF TypeInv

LEMMA ProperTypes ==
  ASSUME NEW s \in Seq(IntRegion), Proper(s, DeviceTop)
  PROVE  s \in Seq(RegionType)
<1>1. \A n \in DOMAIN s : 0 <= s[n].base /\ s[n].base <= s[n].end /\ s[n].end <= DeviceTop
  BY RegionNumbers DEF Proper
<1> QED
  BY <1>1, RegionsInSpace

LEMMA TypesAre ==
  ASSUME TypeInv
  PROVE  TypeOK
<1>1. PlanInv /\ Sound /\ TablePages /\ SizesFit /\ UntypedTypes
  BY DEF TypeInv, TableInv, ListInv
<1>2. board \in Boards /\ pass \in {"place", "emulate"}
      /\ device \in Seq(IntRegion) /\ normal \in Seq(IntRegion)
  BY <1>1 DEF PlanInv, Inv, Types
<1>3. device \in Seq(RegionType) /\ normal \in Seq(RegionType)
  BY <1>1, <1>2, ProperTypes DEF Sound
<1>4. untypeds.device \in Seq(RegionType) /\ untypeds.normal \in Seq(RegionType)
  BY <1>1 DEF UntypedTypes
<1>5. /\ elfSize \in ElfSizes /\ tableSize \in 1..MaxData + PageSize /\ k \in Nat \ {0}
      /\ {reserved, task, objects} \subseteq RegionType
      /\ raised \in Outcomes /\ (raised # "ok" <=> pc = "failed")
  BY <1>1 DEF Sound
<1>6. remaining \in 0..tableSize /\ tablePages \subseteq 0..DeviceTop /\ IsPowerOfTwo(cnodeSize)
  BY <1>1 DEF TablePages, SizesFit, Address
<1> QED
  BY <1>2, <1>3, <1>4, <1>5, <1>6 DEF TypeOK

\* For every board whose memory is made of pages: every list is one of regions of the
\* physical address space, the system CNode's size stays a power of two, and the tool has an
\* outcome when, and only when, an exception ended it.
THEOREM TypesHold ==
  ASSUME PowersOfTwo, WindowAligned(DeviceTop), MadeOfPages, CapsFitWord
  PROVE  Spec => []TypeOK
<1>1. Init => TypeInv
  <2> SUFFICES ASSUME Init PROVE TypeInv
    OBVIOUS
  <2>1. UntypedTypes
    BY DEF Init, NoUntypeds, UntypedTypes
  <2> QED
    BY <2>1, InitTable, InitSizes DEF TypeInv
<1>2. TypeInv /\ [Next]_vars => TypeInv'
  BY NextTypes
<1>3. TypeInv => TypeOK
  BY TypesAre
<1> QED
  BY <1>1, <1>2, <1>3, PTL DEF Spec
=============================================================================
