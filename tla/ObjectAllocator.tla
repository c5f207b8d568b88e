-------------------------- MODULE ObjectAllocator --------------------------
(***************************************************************************)
(* The builder's plan of kernel objects (KernelObjectAllocator, InitSystem *)
(* and their calls in build_system, tool/sel4coreplat/__main__.py): which  *)
(* untyped object each kernel object is made from, its capability slot and *)
(* its physical address.  The plan is a list of retype invocations; after  *)
(* it is complete, the init task performs them at boot, and the kernel     *)
(* decides by its own rule what each one makes.                            *)
(***************************************************************************)
EXTENDS Regions

CONSTANTS
  Boots,      \* what the emulated boot and the sizing loop leave: records with
              \*   normal, device: the untyped objects, tablePages: the table's pages
  Needs,      \* what the description asks for: records with the number of
              \*   large, small: pages anywhere, endpoints, and of pds and threads
  FixedPages, \* the fixed pages that descriptions ask for: sequences of [addr, type]
  Fixed,      \* FIXED_OBJECT_SIZES, by type
  SlotSize,   \* SLOT_SIZE
  SystemSlots,\* system_cnode_size
  PdSlots,    \* PD_CAP_SIZE
  ThreadSlots,\* EMPTY_THREAD_CAP_SIZE
  ScSize,     \* PD_SCHEDCONTEXT_SIZE
  FanOut      \* fan_out_limit, of the tool and of the kernel

Variable == {"CNode", "SchedContext"}
Pages == {"SmallPage", "LargePage"}
FixedTypes == {"TCB", "Endpoint", "Notification", "Reply", "VSpace", "PageUpperDirectory",
               "PageDirectory", "PageTable"} \cup Pages

UntypedRegion == {r \in [base : Nat, end : Nat] : r.base <= r.end}

ASSUME AllocatorAssumption ==
  /\ {SlotSize, SystemSlots, PdSlots, ThreadSlots, ScSize, FanOut} \subseteq Nat \ {0}
  /\ Fixed \in [FixedTypes -> Nat \ {0}]
  /\ Boots \subseteq [normal : Seq(UntypedRegion), device : Seq(UntypedRegion) \ {<<>>},
                      tablePages : Nat \ {0}]
  /\ Needs \subseteq [large : Nat, small : Nat, pds : Nat, endpoints : Nat, threads : Nat]
  /\ FixedPages \subseteq Seq([addr : Nat, type : Pages])
  /\ \A list \in FixedPages : \A m, n \in DOMAIN list : m < n => list[m].addr < list[n].addr

\* The untypeds 1..m of the reserved region follow each other and have room for the table.
Follows(b, m) ==
  /\ \A k \in 1..m : /\ b.device[k].base < b.device[k].end
                   /\ b.device[k].base % Fixed["SmallPage"] = 0
                   /\ b.device[k].end % Fixed["SmallPage"] = 0
  /\ \A k \in 1..m - 1 : b.device[k].end = b.device[k + 1].base
  /\ b.device[1].base + b.tablePages * Fixed["SmallPage"] <= b.device[m].end

\* What the steps before this one leave, which the theorems about device memory rest on: the
\* untypeds of the reserved region come first (BootMemory, TableInPlace).
TableFollows == \A b \in Boots : \E m \in DOMAIN b.device : Follows(b, m)

\* Pages are aligned: a region has a physical address that its page size divides
\* (sysxml.py:291-292), and the images are placed page by page (__main__.py:773-792).
PagesAligned ==
  \A list \in FixedPages : \A n \in DOMAIN list : list[n].addr % Fixed[list[n].type] = 0

VARIABLES
  boot, need,           \* the inputs
  pc, stage,            \* the place in the program
  pages,                \* fixed_pages that are still to be made, sorted
  point,                \* allocation_point of each normal untyped
  watermark,            \* watermark of each device untyped
  lastFixed,            \* _last_fixed_address
  remaining, reserving, \* remaining_pages, invocation_table_allocations
  capSlot,              \* the next slot of the system CNode
  invocations,          \* the retype invocations, bootstrap and system
  objects,              \* _objects, and the objects of the bootstrap
  done, free, cnode,    \* the kernel: invocations performed, the free address of each
                        \*   untyped, and what is in the slots
  raised                \* "ok", or why the tool or the boot ended

inputs == <<boot, need>>
tool == <<point, watermark, lastFixed, remaining, reserving, capSlot, invocations, objects, pages>>
kernel == <<done, free, cnode>>
vars == <<inputs, pc, stage, tool, kernel, raised>>

Normal(k) == <<"normal", k>>
Device(k) == <<"device", k>>
Untypeds == {Normal(k) : k \in DOMAIN boot.normal} \cup {Device(k) : k \in DOMAIN boot.device}
RegionOf(ut) == IF ut[1] = "normal" THEN boot.normal[ut[2]] ELSE boot.device[ut[2]]

TableBase == boot.device[1].base
TableEnd == TableBase + boot.tablePages * Fixed["SmallPage"]

\* The two CNodes are put into slots of the initial CNode.
RootSlot == -2
SystemSlot == -1

Init ==
  /\ boot \in Boots /\ need \in Needs /\ pages \in FixedPages
  /\ pc = "root cnode" /\ stage = 1
  /\ point = [k \in DOMAIN boot.normal |-> 0]
  /\ watermark = [k \in DOMAIN boot.device |-> boot.device[k].base]
  /\ lastFixed = 0
  /\ remaining = boot.tablePages /\ reserving = <<>>
  /\ capSlot = 0
  /\ invocations = <<>> /\ objects = <<>>
  /\ done = 0 /\ free = [ut \in Untypeds |-> RegionOf(ut).base] /\ cnode = << >>
  /\ raised = "ok"

Raise(reason) ==
  /\ raised' = reason
  /\ pc' = "failed"

-----------------------------------------------------------------------------
(* KernelObjectAllocator *)

\* How many bytes the tool counts for an object: size is that of a variable one.
ToolSize(type, size) == IF type \in FixedTypes THEN Fixed[type] ELSE size * SlotSize

Start(k, size) == RoundUp(boot.normal[k].base + point[k], size)

FittingIgnoresCount(size, count) ==
  {k \in DOMAIN boot.normal : Start(k, size) + size <= boot.normal[k].end}

FittingUntypeds(size, count) ==
  {k \in DOMAIN boot.normal : Start(k, size) + count * size <= boot.normal[k].end}

PointAfterUnaligned(k, size, count) == point[k] + count * size

PointAfter(k, size, count) == Start(k, size) - boot.normal[k].base + count * size

\* The first untyped that has the space.
First(size, count) == Min(FittingUntypeds(size, count))

-----------------------------------------------------------------------------
(* Invocations and objects *)

Retype(ut, type, size, slot, count, planned) ==
  [ut |-> ut, type |-> type, size |-> size, slot |-> slot, count |-> count, planned |-> planned]

\* At most FanOut objects are made by one invocation, in consecutive slots.
ChunksWhole(ut, type, size, slot, count, start) ==
  IF count = 0 THEN <<>> ELSE <<Retype(ut, type, size, slot, count, start)>>

ChunksFull(ut, type, size, slot, count, start) ==
  [j \in 1..count \div FanOut |->
     Retype(ut, type, size, slot + (j - 1) * FanOut, FanOut,
            start + (j - 1) * FanOut * ToolSize(type, size))]

Chunks(ut, type, size, slot, count, start) ==
  [j \in 1..(count + FanOut - 1) \div FanOut |->
     LET before == (j - 1) * FanOut
     IN  Retype(ut, type, size, slot + before, Min({count - before, FanOut}),
                start + before * ToolSize(type, size))]

NewObjects(type, size, slot, count, start) ==
  [j \in 1..count |-> [type |-> type, slot |-> slot + j - 1,
                       phys |-> start + (j - 1) * ToolSize(type, size)]]

-----------------------------------------------------------------------------
(* The bootstrap: the CSpace of the init task and its invocation table *)

AllocateCnode(at, slots, slot, next) ==
  /\ pc = at
  /\ LET size == slots * SlotSize
         k == First(size, 1)
     IN  IF FittingUntypeds(size, 1) = {}
         THEN /\ Raise("no space")
              /\ UNCHANGED tool
         ELSE /\ pc' = next
              /\ point' = [point EXCEPT ![k] = PointAfter(k, size, 1)]
              /\ invocations' =
                   Append(invocations, Retype(Normal(k), "CNode", slots, slot, 1, Start(k, size)))
              /\ UNCHANGED <<watermark, lastFixed, remaining, reserving, capSlot, objects,
                             pages, raised>>
  /\ UNCHANGED <<inputs, stage, kernel>>

RootCnode == AllocateCnode("root cnode", 2, RootSlot, "system cnode")
SystemCnode == AllocateCnode("system cnode", SystemSlots, SystemSlot, "table")

\* The pages of the invocation table, from one untyped after the other; the table is at the
\* beginning of the first one (BootMemory, TableInPlace).
RetypeTablePages ==
  /\ pc = "table"
  /\ LET ut == boot.device[stage]
         count == Min({Size(ut) \div Fixed["SmallPage"], remaining})
         addr == TableBase + (boot.tablePages - remaining) * Fixed["SmallPage"]
         last == remaining = count \/ stage = Len(boot.device)
     IN  IF count > FanOut
         THEN /\ Raise("fan out")
              /\ UNCHANGED <<stage, tool>>
         ELSE /\ pc' = IF last THEN "page tables" ELSE "table"
              /\ stage' = IF last THEN 1 ELSE stage + 1
              /\ invocations' =
                   Append(invocations, Retype(Device(stage), "SmallPage", 0, capSlot, count, addr))
              /\ capSlot' = capSlot + count
              /\ remaining' = remaining - count
              /\ reserving' = Append(reserving, <<stage, addr + count * Fixed["SmallPage"]>>)
              /\ UNCHANGED <<point, watermark, lastFixed, objects, pages, raised>>
  /\ UNCHANGED <<inputs, kernel>>

PageTables ==
  /\ pc = "page tables"
  /\ LET bytes == boot.tablePages * Fixed["SmallPage"]
         count == RoundUp(bytes, Fixed["LargePage"]) \div Fixed["LargePage"]
         size == Fixed["PageTable"]
         k == First(size, count)
     IN  IF FittingUntypeds(size, count) = {} \/ count > FanOut
         THEN /\ Raise(IF FittingUntypeds(size, count) = {} THEN "no space" ELSE "fan out")
              /\ UNCHANGED tool
         ELSE /\ pc' = "reserve"
              /\ point' = [point EXCEPT ![k] = PointAfter(k, size, count)]
              /\ invocations' = Append(invocations,
                   Retype(Normal(k), "PageTable", 0, capSlot, count, Start(k, size)))
              /\ capSlot' = capSlot + count
              /\ UNCHANGED <<watermark, lastFixed, remaining, reserving, objects, pages, raised>>
  /\ UNCHANGED <<inputs, stage, kernel>>

ReserveUntypeds ==
  /\ pc = "reserve"
  /\ watermark' = [k \in DOMAIN watermark |->
       IF \E n \in DOMAIN reserving : reserving[n][1] = k THEN boot.device[k].end ELSE watermark[k]]
  /\ pc' = "pages"
  /\ UNCHANGED <<inputs, stage, point, lastFixed, remaining, reserving, capSlot, invocations,
                 objects, pages, kernel, raised>>

\* The untypeds that the table used continue after it.
Reserve ==
  /\ pc = "reserve"
  /\ watermark' = [k \in DOMAIN watermark |->
       LET mine == {n \in DOMAIN reserving : reserving[n][1] = k}
       IN  IF mine = {} THEN watermark[k] ELSE reserving[Max(mine)][2]]
  /\ IF \A n \in DOMAIN reserving :
          LET ut == boot.device[reserving[n][1]]
          IN  ut.base <= reserving[n][2] /\ reserving[n][2] <= ut.end
     THEN pc' = "pages" /\ UNCHANGED raised
     ELSE Raise("not in untyped region")
  /\ UNCHANGED <<inputs, stage, point, lastFixed, remaining, reserving, capSlot, invocations,
                 objects, pages, kernel>>

-----------------------------------------------------------------------------
(* InitSystem *)

Ask(type, size, count) == [type |-> type, size |-> size, count |-> count]

\* What build_system asks for, in order: pages, and after the fixed pages all the rest.
PageRequests == <<Ask("LargePage", 0, need.large), Ask("SmallPage", 0, need.small)>>

ObjectRequests ==
  << Ask("TCB", 0, need.pds), Ask("SchedContext", ScSize, need.pds), Ask("Reply", 0, need.pds),
     Ask("Endpoint", 0, need.endpoints), Ask("Notification", 0, need.pds),
     Ask("VSpace", 0, need.pds), Ask("PageUpperDirectory", 0, need.pds),
     Ask("PageDirectory", 0, need.pds), Ask("PageTable", 0, need.pds),
     Ask("CNode", PdSlots, need.pds), Ask("TCB", 0, need.threads),
     Ask("SchedContext", ScSize, need.threads), Ask("CNode", ThreadSlots, need.threads),
     Ask("Reply", 0, need.threads) >>

Requests == IF pc = "pages" THEN PageRequests ELSE ObjectRequests

AllocateObjects ==
  /\ pc \in {"pages", "objects"}
  /\ LET ask == Requests[stage]
         size == ToolSize(ask.type, ask.size)
         k == First(size, ask.count)
         last == stage = Len(Requests)
     IN  IF FittingUntypeds(size, ask.count) = {}
         THEN /\ Raise("no space")
              /\ UNCHANGED <<stage, tool>>
         ELSE /\ pc' = CASE ~last -> pc [] last /\ pc = "pages" -> "fixed" [] OTHER -> "boot"
              /\ stage' = IF last THEN 1 ELSE stage + 1
              /\ point' = [point EXCEPT ![k] = PointAfter(k, size, ask.count)]
              /\ invocations' = invocations \o
                   Chunks(Normal(k), ask.type, ask.size, capSlot, ask.count, Start(k, size))
              /\ objects' = objects \o
                   NewObjects(ask.type, ask.size, capSlot, ask.count, Start(k, size))
              /\ capSlot' = capSlot + ask.count
              /\ UNCHANGED <<watermark, lastFixed, remaining, reserving, pages, raised>>
  /\ UNCHANGED <<inputs, kernel>>

\* The size of the next padding object at wm: it is aligned to its size, so that the kernel
\* will not move it.
PadSizeUnaligned(wm, addr) == 2^Msb(addr - wm)

PadSize(wm, addr) == 2^Min({Lsb(wm), Msb(addr - wm)})

\* The untyped that a fixed address is in.
Containing(addr) == {k \in DOMAIN boot.device : addr \in Addresses(boot.device[k])}

\* Why a fixed page cannot be planned.
Refusal(addr) ==
  CASE addr < lastFixed -> "not in order"
    [] addr >= lastFixed /\ Containing(addr) = {} -> "not in any device untyped"
    [] OTHER -> LET wm == watermark[Min(Containing(addr))]
                IN  CASE addr < wm -> "below watermark"
                      [] wm = 0 /\ addr # 0 -> "negative shift count"
                      [] OTHER -> "ok"

\* One object in a device untyped, and its watermark after it.
MakeFixed(k, type, size, addr) ==
  /\ invocations' = Append(invocations, Retype(Device(k), type, size, capSlot, 1, addr))
  /\ capSlot' = capSlot + 1
  /\ watermark' = [watermark EXCEPT ![k] = addr + (IF type = "Untyped" THEN size ELSE Fixed[type])]

RefuseFixed ==
  /\ pc = "fixed" /\ pages # <<>>
  /\ Refusal(Head(pages).addr) # "ok"
  /\ Raise(Refusal(Head(pages).addr))
  /\ UNCHANGED <<inputs, stage, tool, kernel>>

\* One round of the loop that pads up to the page.
PadFixed ==
  /\ pc = "fixed" /\ pages # <<>>
  /\ LET addr == Head(pages).addr
         k == Min(Containing(addr))
         wm == watermark[k]
     IN  /\ Refusal(addr) = "ok" /\ wm # addr
         /\ MakeFixed(k, "Untyped", PadSize(wm, addr), wm)
  /\ UNCHANGED <<inputs, pc, stage, point, lastFixed, remaining, reserving, objects, pages,
                 kernel, raised>>

AllocateFixed ==
  /\ pc = "fixed" /\ pages # <<>>
  /\ LET page == Head(pages)
         k == Min(Containing(page.addr))
     IN  /\ Refusal(page.addr) = "ok" /\ watermark[k] = page.addr
         /\ MakeFixed(k, page.type, 0, page.addr)
         /\ objects' = objects \o NewObjects(page.type, 0, capSlot, 1, page.addr)
         /\ lastFixed' = page.addr + Fixed[page.type]
         /\ pages' = Tail(pages)
  /\ UNCHANGED <<inputs, pc, stage, point, remaining, reserving, kernel, raised>>

FixedDone ==
  /\ pc = "fixed" /\ pages = <<>>
  /\ pc' = "objects"
  /\ UNCHANGED <<inputs, stage, tool, kernel, raised>>

-----------------------------------------------------------------------------
(* The boot: the init task performs the invocations, one after the other *)

KernelSize(type, size) == IF type \in {"SchedContext", "Untyped"} THEN size ELSE ToolSize(type, size)

\* The kernel makes the objects at the next address that is aligned to their size.
PerformRetype ==
  /\ pc = "boot" /\ done < Len(invocations)
  /\ LET inv == invocations[done + 1]
         size == KernelSize(inv.type, inv.size)
         start == RoundUp(free[inv.ut], size)
         slots == inv.slot..inv.slot + inv.count - 1
         outcome == CASE inv.count \notin 1..FanOut -> "range error"
                      [] slots \cap DOMAIN cnode # {} -> "slot in use"
                      [] start + inv.count * size > RegionOf(inv.ut).end -> "not enough memory"
                      [] OTHER -> "ok"
     IN  IF outcome # "ok"
         THEN /\ raised' = outcome
              /\ pc' = "boot failed"
              /\ UNCHANGED kernel
         ELSE /\ done' = done + 1
              /\ free' = [free EXCEPT ![inv.ut] = start + inv.count * size]
              /\ cnode' = [s \in slots \cup DOMAIN cnode |->
                   IF s \in slots THEN [type |-> inv.type, base |-> start + (s - inv.slot) * size]
                   ELSE cnode[s]]
              /\ UNCHANGED <<pc, raised>>
  /\ UNCHANGED <<inputs, stage, tool>>

BootDone ==
  /\ pc = "boot" /\ done = Len(invocations)
  /\ pc' = "running"
  /\ UNCHANGED <<inputs, stage, tool, kernel, raised>>

Next ==
  \/ RootCnode \/ SystemCnode \/ RetypeTablePages \/ PageTables \/ Reserve
  \/ AllocateObjects \/ RefuseFixed \/ PadFixed \/ AllocateFixed \/ FixedDone
  \/ PerformRetype \/ BootDone

Spec == Init /\ [][Next]_vars

-----------------------------------------------------------------------------
(* Properties *)

Types == FixedTypes \cup Variable \cup {"Untyped"}

TypeOK ==
  /\ boot \in Boots /\ need \in Needs
  /\ \A k \in DOMAIN boot.normal : point[k] \in 0..Size(boot.normal[k])
  /\ \A k \in DOMAIN boot.device : watermark[k] >= boot.device[k].base
  /\ \A ut \in Untypeds : free[ut] \in RegionOf(ut).base..RegionOf(ut).end
  /\ remaining \in 0..boot.tablePages
  /\ \A n \in DOMAIN invocations :
       /\ invocations[n].ut \in Untypeds /\ invocations[n].type \in Types
       /\ invocations[n].slot < capSlot
  /\ done \in 0..Len(invocations)
  /\ raised # "ok" <=> pc \in {"failed", "boot failed"}

Overlap(a, b) == a.addr < b.addr + Fixed[b.type] /\ b.addr < a.addr + Fixed[a.type]

\* The tool learns where the kernel will put a page that must be at a given physical
\* address only from its own watermark and padding (__main__.py:553-603): the kernel puts
\* every fixed page where the description wants it, whatever was made before it.
PagesInPlace ==
  \A n \in DOMAIN invocations :
    LET inv == invocations[n]
    IN  n <= done /\ inv.ut[1] = "device" =>
          \A s \in inv.slot..inv.slot + inv.count - 1 :
            cnode[s].base = inv.planned + (s - inv.slot) * KernelSize(inv.type, inv.size)

\* When the invocations are done, every object of the tool's list is in its slot, although
\* they were made in chunks and padding took slots between them (__main__.py:577-651).
AllObjectsMade ==
  pc = "running" =>
    \A n \in DOMAIN objects :
      /\ objects[n].slot \in DOMAIN cnode
      /\ cnode[objects[n].slot].type = objects[n].type

\* The kernel, at any moment of the boot, will make the objects still planned in normal
\* memory no higher than the tool's bump allocator, which "mimics the kernel's allocation
\* policy" (__main__.py:266-267), planned them, and the plan stays inside the untypeds: so
\* what fits in the plan fits at boot.
NothingAbovePlan ==
  \A n \in done + 1..Len(invocations) :
    LET inv == invocations[n]
    IN  inv.ut[1] = "normal" =>
          /\ RoundUp(free[inv.ut], KernelSize(inv.type, inv.size)) <= inv.planned
          /\ inv.planned + inv.count * ToolSize(inv.type, inv.size) <= RegionOf(inv.ut).end

\* At boot an invocation fails only if a fixed page reaches beyond its untyped object: no
\* slot is used twice, no untyped is exhausted, no invocation makes too many objects.
BootSucceeds ==
  pc = "boot failed" =>
    LET inv == invocations[done + 1]
    IN  /\ raised = "not enough memory" /\ inv.ut[1] = "device" /\ inv.type \in Pages
        /\ inv.planned + Fixed[inv.type] > RegionOf(inv.ut).end

\* The tool refuses a fixed page inside the device untypeds only if it overlaps another one
\* or the invocation table.
RefusedForCause ==
  raised \in {"not in order", "below watermark", "not in untyped region"} =>
    LET page == Head(pages)
    IN  \/ page.addr < TableEnd /\ page.addr + Fixed[page.type] > TableBase
        \/ \E n \in DOMAIN objects :
             /\ objects[n].phys = lastFixed - Fixed[objects[n].type]
             /\ Overlap(page, [addr |-> objects[n].phys, type |-> objects[n].type])

\* The comment at __main__.py:554-555: padding objects are created until the watermark is
\* at the right spot.
PaddingPossible == raised # "negative shift count"

\* docs/manual.md:478: region_paddr gives a program the physical address of its memory
\* region, which the tool takes from the object of the region's first page
\* (__main__.py:2030).  A program may hand it to a device, so it has to be where the page is.
RegionPaddr ==
  pc = "running" =>
    \A n \in DOMAIN objects :
      objects[n].type \in Pages => cnode[objects[n].slot].base = objects[n].phys
=============================================================================
