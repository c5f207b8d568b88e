----------------------------- MODULE BootMemory -----------------------------
(***************************************************************************)
(* The builder's plan of physical memory (tool/sel4coreplat/__main__.py    *)
(* and sel4.py).  For sizes of the invocation table and of the system      *)
(* CNode, build_system emulates the kernel's boot once to place the        *)
(* reserved region and the initial task, and a second time to learn which  *)
(* untyped objects the kernel will make; it then covers the invocation     *)
(* table with pages.  main repeats this until what was built fits in the   *)
(* sizes it was built for.                                                 *)
(***************************************************************************)
EXTENDS Regions, FiniteSets

CONSTANTS
  Boards,      \* what the kernel's and the init task's images say: records with
               \*   devices: the frames of the kernel's devices, memory: avail_p_regs,
               \*   kernel: the kernel's image, bootEnd: the end of its boot part,
               \*   task: the size of the init task, objects: that of its kernel objects
  ElfSizes,    \* the possible sizes of all PD images together
  DeviceTop,   \* paddr_user_device_top
  PageSize,    \* minimum_page_size and kernel_frame_size
  ObjectsAlign,\* 2 ** _rootserver_max_size_bits()
  FanOut,      \* fan_out_limit
  MaxTable,    \* MAX_SYSTEM_INVOCATION_SIZE
  MaxData,     \* bound: the invocation data a build may need
  MaxCaps      \* bound: the capabilities a build may need

ASSUME SizesAssumption ==
  /\ {DeviceTop, PageSize, ObjectsAlign, FanOut, MaxData, MaxCaps} \subseteq Nat \ {0}
  /\ MaxTable % PageSize = 0
  /\ ElfSizes \subseteq Nat /\ \A n \in ElfSizes : n % PageSize = 0

Address == 0..DeviceTop
RegionType == [base : Address, end : Address]

ASSUME BoardsAssumption ==
  \A board \in Boards :
    /\ board \in [devices : Seq(Address), memory : Seq(RegionType), kernel : RegionType,
                  bootEnd : Address, task : Nat, objects : Nat]
    /\ board.devices # <<>> /\ board.memory # <<>>
    /\ \A n \in DOMAIN board.memory : board.memory[n].base < board.memory[n].end
    /\ board.kernel.base < board.kernel.end
    /\ board.kernel.base <= board.bootEnd /\ board.bootEnd <= board.kernel.end
    /\ \E n \in DOMAIN board.memory :
         Addresses(board.kernel) \subseteq Addresses(board.memory[n])
    /\ \A n \in DOMAIN board.devices :
         (board.devices[n]..board.devices[n] + PageSize - 1) \cap Covered(board.memory) = {}

\* What the tool relies on in the kernel's tables (sel4.py:774-802), without which its lists
\* of regions cannot follow the boot: memory is listed from low to high, and the frames of
\* the kernel's devices are different ones, below the limit.
OrderlyBoards ==
  \A board \in Boards :
    /\ \A m, n \in DOMAIN board.memory : m < n => board.memory[m].end <= board.memory[n].base
    /\ \A n \in DOMAIN board.devices : board.devices[n] + PageSize <= DeviceTop
    /\ \A m, n \in DOMAIN board.devices :
         m # n => \/ board.devices[m] + PageSize <= board.devices[n]
                  \/ board.devices[n] + PageSize <= board.devices[m]

\* The powers of two up to a word are numbers, and a word can count a build's capabilities.
CapsFitWord == (\A j \in 0..WordBits : 2^j \in Nat) /\ MaxCaps <= 2^WordBits

\* Pages, untyped objects and the kernel's window are powers of two, and memory and the
\* kernel's image are made of pages.
MadeOfPages ==
  /\ \E c \in 0..WordBits : c <= MaxBits /\ PageSize = 2^c
  /\ KernelVirtualBase % PageSize = 0
  /\ \A board \in Boards :
       /\ board.kernel.end % PageSize = 0
       /\ \A n \in DOMAIN board.memory : board.memory[n].base % PageSize = 0

VARIABLES
  board, elfSize,          \* the inputs
  tableSize, cnodeSize,    \* the sizes main builds for
  pc, pass, k,             \* where the build is: in "place" or "emulate", and in a loop
  device, normal,          \* device_memory and normal_memory
  reserved, task, objects, \* reserved_region, initial_task_phys_region, root-server objects
  untypeds,                \* untyped_objects, device and normal
  remaining, tablePages,   \* remaining_pages, and the addresses retyped for the table
  raised                   \* "ok", or the exception that ended the tool

inputs == <<board, elfSize>>
sizes == <<tableSize, cnodeSize>>
placed == <<reserved, task>>
pages == <<remaining, tablePages>>
vars == <<inputs, sizes, pc, pass, k, device, normal, placed, objects, untypeds, pages, raised>>

Nowhere == MemoryRegion(0, 0)
NoUntypeds == [device |-> <<>>, normal |-> <<>>]
BootRegion == MemoryRegion(board.kernel.base, board.bootEnd)
ReservedSize == tableSize + elfSize

Init ==
  /\ board \in Boards
  /\ elfSize \in ElfSizes
  /\ tableSize = PageSize
  /\ cnodeSize = 2
  /\ pc = "start"
  /\ pass = "place"
  /\ k = 1
  /\ device = <<>> /\ normal = <<>>
  /\ reserved = Nowhere /\ task = Nowhere /\ objects = Nowhere
  /\ untypeds = NoUntypeds
  /\ remaining = 0 /\ tablePages = {}
  /\ raised = "ok"

\* The program goes on at next, unless an exception ends it.
Continue(outcome, next) ==
  /\ raised' = outcome
  /\ pc' = IF outcome = "ok" THEN next ELSE "failed"

-----------------------------------------------------------------------------
(* The emulated boot, up to the choice of the reserved region, and its start *)

BeginBoot(p) ==
  /\ device' = InsertRegion(<<>>, 0, DeviceTop).regions
  /\ normal' = <<>>
  /\ pass' = p
  /\ k' = 1

BuildSystem ==
  /\ pc = "start"
  /\ Continue(CASE ~IsPowerOfTwo(cnodeSize) \/ tableSize % PageSize # 0 -> "AssertionError"
                [] tableSize > MaxTable -> "table too large"
                [] OTHER -> "ok",
              "devices")
  /\ BeginBoot("place")
  /\ reserved' = Nowhere /\ task' = Nowhere /\ objects' = Nowhere
  /\ untypeds' = NoUntypeds
  /\ remaining' = 0 /\ tablePages' = {}
  /\ UNCHANGED <<inputs, sizes>>

\* One frame of a device that the kernel keeps.
RemoveKernelDevice ==
  /\ pc = "devices"
  /\ LET result == RemoveRegion(device, board.devices[k], board.devices[k] + PageSize)
         last == k = Len(board.devices)
     IN  /\ device' = result.regions
         /\ Continue(result.raised, IF last THEN "memory" ELSE "devices")
         /\ k' = IF last THEN 1 ELSE k + 1
  /\ UNCHANGED <<inputs, sizes, pass, normal, placed, objects, untypeds, pages>>

\* One region of memory leaves the device regions and becomes normal.
AddMemory ==
  /\ pc = "memory"
  /\ LET r == board.memory[k]
         taken == RemoveRegion(device, r.base, r.end)
         added == InsertRegion(normal, r.base, r.end)
         last == k = Len(board.memory)
     IN  /\ device' = taken.regions
         /\ normal' = IF taken.raised = "ok" THEN added.regions ELSE normal
         /\ Continue(IF taken.raised = "ok" THEN added.raised ELSE taken.raised,
                     IF last THEN "kernel" ELSE "memory")
         /\ k' = IF last THEN 1 ELSE k + 1
  /\ UNCHANGED <<inputs, sizes, pass, placed, objects, untypeds, pages>>

RemoveKernelImage ==
  /\ pc = "kernel"
  /\ LET result == RemoveRegion(normal, board.kernel.base, board.kernel.end)
     IN  /\ normal' = result.regions
         /\ Continue(result.raised, IF pass = "place" THEN "reserve" ELSE "take task")
  /\ UNCHANGED <<inputs, sizes, pass, k, device, placed, objects, untypeds, pages>>

-----------------------------------------------------------------------------
(* build_system places the reserved region, then the initial task above it *)

PlaceReservedAnywhere ==
  /\ pc = "reserve"
  /\ LET n == Min(FittingAnywhere(normal, ReservedSize, 0))
         b == normal[n].base
     IN  /\ FittingAnywhere(normal, ReservedSize, 0) # {}
         /\ Continue("ok", "task")
         /\ normal' = Cut(normal, n, b, b + ReservedSize)
         /\ reserved' = MemoryRegion(b, b + ReservedSize)
  /\ UNCHANGED <<inputs, sizes, pass, k, device, task, objects, untypeds, pages>>

PlaceReserved ==
  /\ pc = "reserve"
  /\ LET result == AllocateFrom(normal, ReservedSize, board.bootEnd)
         b == AllocatedBase(normal, ReservedSize, board.bootEnd)
     IN  IF result.raised # "ok"
         THEN /\ Continue(result.raised, "task")
              /\ UNCHANGED <<normal, reserved>>
         ELSE /\ Continue(IF board.kernel.base < b THEN "ok" ELSE "AssertionError", "task")
              /\ normal' = result.regions
              /\ reserved' = MemoryRegion(b, b + ReservedSize)
  /\ UNCHANGED <<inputs, sizes, pass, k, device, task, objects, untypeds, pages>>

PlaceTask ==
  /\ pc = "task"
  /\ LET result == AllocateFrom(normal, board.task, reserved.end)
         b == AllocatedBase(normal, board.task, reserved.end)
     IN  IF result.raised # "ok"
         THEN /\ Continue(result.raised, "devices")
              /\ UNCHANGED <<pass, k, device, normal, task>>
         ELSE /\ Continue(IF reserved.base < b THEN "ok" ELSE "AssertionError", "devices")
              /\ task' = MemoryRegion(b, b + board.task)
              /\ BeginBoot("emulate")
  /\ UNCHANGED <<inputs, sizes, reserved, objects, untypeds, pages>>

-----------------------------------------------------------------------------
(* emulate_kernel_boot, after the partial boot *)

RemoveTask ==
  /\ pc = "take task"
  /\ LET result == RemoveRegion(normal, task.base, task.end)
     IN  /\ normal' = result.regions
         /\ Continue(result.raised, "take reserved")
  /\ UNCHANGED <<inputs, sizes, pass, k, device, placed, objects, untypeds, pages>>

RemoveReserved ==
  /\ pc = "take reserved"
  /\ LET result == RemoveRegion(normal, reserved.base, reserved.end)
     IN  /\ normal' = result.regions
         /\ Continue(result.raised, "objects")
  /\ UNCHANGED <<inputs, sizes, pass, k, device, placed, objects, untypeds, pages>>

\* The root server's objects are at the top of the highest region that can hold them.
ObjectsStart(r) == RoundDown(r.end - board.objects, ObjectsAlign)

TakeObjects ==
  /\ pc = "objects"
  /\ LET possible == {n \in DOMAIN normal : ObjectsStart(normal[n]) >= normal[n].base}
         b == ObjectsStart(normal[Max(possible)])
         result == RemoveRegion(normal, b, b + board.objects)
     IN  IF possible = {}
         THEN /\ Continue("no region for objects", "split")
              /\ UNCHANGED <<normal, objects>>
         ELSE /\ Continue(result.raised, "split")
              /\ normal' = result.regions
              /\ objects' = MemoryRegion(b, b + board.objects)
  /\ UNCHANGED <<inputs, sizes, pass, k, device, placed, untypeds, pages>>

ListUntypedsDeviceFirst ==
  /\ pc = "split"
  /\ untypeds' = [device |-> AllAlignedRegions(device) \o AlignedPowerOfTwoRegions(reserved),
                  normal |-> AlignedPowerOfTwoRegions(BootRegion) \o AllAlignedRegions(normal)]
  /\ remaining' = tableSize \div PageSize
  /\ pc' = "table"
  /\ UNCHANGED <<inputs, sizes, pass, k, device, normal, placed, objects, tablePages, raised>>

\* The kernel's boot code and data are given back, and the reserved region is device memory.
ListUntypeds ==
  /\ pc = "split"
  /\ untypeds' = [device |-> AlignedPowerOfTwoRegions(reserved) \o AllAlignedRegions(device),
                  normal |-> AlignedPowerOfTwoRegions(BootRegion) \o AllAlignedRegions(normal)]
  /\ remaining' = tableSize \div PageSize
  /\ pc' = "table"
  /\ UNCHANGED <<inputs, sizes, pass, k, device, normal, placed, objects, tablePages, raised>>

-----------------------------------------------------------------------------
(* The pages of the invocation table, and the sizes of the next build *)

\* Pages are made from the beginning of the next device untyped.
RetypeTablePages ==
  /\ pc = "table"
  /\ LET ut == untypeds.device[k]
         count == Min({Size(ut) \div PageSize, remaining})
         finished == remaining = count \/ k = Len(untypeds.device)
     IN  IF count > FanOut
         THEN /\ Continue("fan out", "table")
              /\ UNCHANGED <<k, pages>>
         ELSE /\ Continue("ok", IF finished THEN "measure" ELSE "table")
              /\ tablePages' = tablePages \cup (ut.base..ut.base + count * PageSize - 1)
              /\ remaining' = remaining - count
              /\ k' = IF finished THEN 1 ELSE k + 1
  /\ UNCHANGED <<inputs, sizes, pass, device, normal, placed, objects, untypeds>>

\* 2 ** int(ceil(log2(n)))
CnodeSizeForDown(n) == 2^Msb(n)

CnodeSizeFor(n) == Min({2^j : j \in {i \in 0..WordBits : 2^i >= n}})

\* The rest of the build, measured: the data and the capabilities that it needed.
Measure(data, caps) ==
  /\ pc = "measure"
  /\ IF caps <= cnodeSize /\ data <= tableSize
     THEN /\ pc' = "done"
          /\ UNCHANGED sizes
     ELSE /\ pc' = "start"
          /\ tableSize' = Max({tableSize, RoundUp(data, PageSize)})
          /\ cnodeSize' = Max({cnodeSize, CnodeSizeFor(caps)})
  /\ UNCHANGED <<inputs, pass, k, device, normal, placed, objects, untypeds, pages, raised>>

Next ==
  \/ BuildSystem \/ RemoveKernelDevice \/ AddMemory \/ RemoveKernelImage
  \/ PlaceReserved \/ PlaceTask
  \/ RemoveTask \/ RemoveReserved \/ TakeObjects \/ ListUntypeds
  \/ RetypeTablePages
  \/ \E data \in 1..MaxData, caps \in 1..MaxCaps : Measure(data, caps)

Spec == Init /\ [][Next]_vars
FairSpec == Spec /\ WF_vars(Next)

-----------------------------------------------------------------------------
(* Properties *)

Outcomes == {"ok", "no space", "no region for objects", "table too large", "fan out",
             "not covered", "AssertionError"}

TypeOK ==
  /\ board \in Boards /\ elfSize \in ElfSizes
  /\ tableSize \in 1..MaxData + PageSize /\ IsPowerOfTwo(cnodeSize)
  /\ pass \in {"place", "emulate"} /\ k \in Nat \ {0}
  /\ {device, normal, untypeds.device, untypeds.normal} \subseteq Seq(RegionType)
  /\ {reserved, task, objects} \subseteq RegionType
  /\ remaining \in 0..tableSize /\ tablePages \subseteq 0..DeviceTop
  /\ raised \in Outcomes /\ (raised # "ok" <=> pc = "failed")

\* No address is in two of the regions that are still free, and the kernel, the reserved
\* region, the initial task and the root server's objects never share one: what a removal
\* leaves of a region (util.py:152-173) is never handed out again.
NoAddressTwice ==
  /\ PairwiseDisjoint(device) /\ PairwiseDisjoint(normal)
  /\ Covered(device) \cap Covered(normal) = {}
  /\ PairwiseDisjoint(<<board.kernel, reserved, task, objects>>)

\* The kernel needs the reserved region above its boot region and the initial task above
\* the reserved region (the comments of __main__.py:752-759), all in memory.
PlacedInOrder ==
  pc = "done" =>
    /\ board.bootEnd <= reserved.base /\ reserved.end <= task.base
    /\ Addresses(reserved) \cup Addresses(task) \subseteq Covered(board.memory)

\* The untyped objects, computed in wrapping virtual addresses, are disjoint, sized by
\* powers of two and aligned to their sizes, and with what is in use they are all of the
\* physical address space; the only memory among the device untypeds is the reserved
\* region.
UntypedsExact ==
  pc \in {"table", "measure", "done"} =>
    LET all == untypeds.device \o untypeds.normal
        frames == UNION {Addresses(MemoryRegion(board.devices[n], board.devices[n] + PageSize)) :
                           n \in DOMAIN board.devices}
        inUse == (Addresses(board.kernel) \ Addresses(BootRegion))
                   \cup Addresses(task) \cup Addresses(objects) \cup frames
    IN  /\ \A n \in DOMAIN all : /\ IsPowerOfTwo(Size(all[n]))
                                 /\ all[n].base % Size(all[n]) = 0
        /\ PairwiseDisjoint(all)
        /\ Covered(all) = (0..DeviceTop - 1) \ inUse
        /\ Covered(untypeds.device) \cap Covered(board.memory) = Addresses(reserved)

\* The pages made for the invocation table, from whichever untypeds come first, are the
\* beginning of the reserved region, where the table will be loaded.
TableInPlace ==
  pc \in {"measure", "done"} =>
    /\ remaining = 0
    /\ tablePages = reserved.base..reserved.base + tableSize - 1

\* The second emulation of the boot finds everything the first one placed, so a build
\* ends only for want of memory or for one of the tool's limits.
OnlyLimitsFail == raised \notin {"not covered", "AssertionError"}

\* However the needs of a build change with the sizes it was built for, the loop of main
\* ends (__main__.py:2140-2163).
Terminates == <>(pc \in {"done", "failed"})

\* The owner of an address: who took it, if it is in no list of free regions.
Owner(a) ==
  CASE pc = "start" \/ a \in Covered(device) -> "device"
    [] pc # "start" /\ a \in Covered(normal) -> "normal"
    [] OTHER -> CASE a \in Addresses(board.kernel) -> "kernel"
                  [] a \in Addresses(reserved) -> "reserved"
                  [] a \in Addresses(task) -> "task"
                  [] a \in Addresses(objects) -> "objects"
                  [] OTHER -> "kernel device"

Owners == INSTANCE MemoryOwners WITH
  Top <- DeviceTop,
  owner <- [a \in 0..DeviceTop - 1 |-> Owner(a)]

\* Every step of the plan hands one contiguous piece of memory from its owner to the next
\* one, or begins anew.
ImplementsOwners == Owners!Spec
=============================================================================
