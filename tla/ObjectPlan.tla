------------------------------ MODULE ObjectPlan ------------------------------
(***************************************************************************)
(* The middle of build_system (tool/sel4coreplat/__main__.py): from the    *)
(* checked description, the regions and the address spaces of all PDs      *)
(* (system.py), and the kernel objects in the order of their slots in the  *)
(* system CNode.  Where the memory of the objects comes from is the        *)
(* subject of ObjectAllocator; here a slot is all there is to an object.   *)
(***************************************************************************)
EXTENDS SystemDescription

CONSTANTS
  Images,       \* by PD name: the loadable segments [vaddr, size, perms], the size of the
                \*   TLS template (tls), the entry point
  ReservedBase, \* where the reserved region starts: the invocation table, then the images
  Page, LargePage,
  TableSpan, DirectorySpan, UpperSpan,  \* what a page table and the levels above it cover
  TlsStart, TlsEnd, TlsAlign, StackHigh \* VSPACE_TLS_START ... of system.py

\* Every PD has a program image.
ASSUME ImagesAssumption ==
  /\ Images \in [DOMAIN Images -> [segments : Seq([vaddr : Nat, size : Nat, perms : SUBSET {"r", "w", "x"}]),
                                  tls : Nat, entry : Nat]]
  /\ \A doc \in Documents : \A n \in DOMAIN doc :
       doc[n].tag = "protection_domain" => doc[n].name \in DOMAIN Images

ASSUME LayoutAssumption ==
  /\ {Page, LargePage, TableSpan, DirectorySpan, UpperSpan, TlsAlign} \subseteq Nat \ {0}
  /\ {ReservedBase, TlsStart, TlsEnd, StackHigh} \subseteq Nat

VARIABLES
  tablePages,  \* invocation_table_size, in pages
  cnodeSize,   \* system_cnode_size
  regions,     \* all_mrs: the regions of the description, of the images and of the areas
  maps,        \* pd.maps + pd_extra_maps[pd], of all PDs: each with its PD and region
  objects,     \* the objects, in lists of one type
  slotOf       \* the slot of each object in the system CNode: its capability address

objectVars == <<tablePages, cnodeSize, regions, maps, objects, slotOf>>

ObjectInit ==
  /\ tablePages = 1 /\ cnodeSize = 2
  /\ regions = <<>> /\ maps = <<>> /\ objects = <<>> /\ slotOf = <<>>

RoundUp(n, x) == ((n + x - 1) \div x) * x
RoundDown(n, x) == (n \div x) * x
Each(list, Op(_)) == [n \in DOMAIN list |-> Op(list[n])]
Total(list) == LET upto[n \in 0..Len(list)] == IF n = 0 THEN 0 ELSE upto[n - 1] + list[n]
               IN  upto[Len(list)]
Sum(list, value(_)) == Total(Each(list, value))
Flat(list, Op(_)) == FlattenSeq(Each(list, Op))

Where(list, Test(_)) == Flat(list, LAMBDA e : IF Test(e) THEN <<e>> ELSE <<>>)

\* The members of a finite set by their keys, of which no two are equal.  This and Where are
\* what SortSeq and SelectSeq are, in a form that can be reasoned about.
Sorted(S, Key(_)) ==
  [n \in 1..Cardinality(S) |-> CHOOSE x \in S : Cardinality({y \in S : Key(y) < Key(x)}) = n - 1]
InOrder(S) == Sorted(S, LAMBDA x : x)

All == [p \in DOMAIN pds |-> p]
Pds(Test(_)) == Where(All, Test)

\* A step of the build: if the checks hold it goes on with the next, else the tool stops.
Build(from, checks, effect, next, unchanged) ==
  /\ pc = from
  /\ raised' = FirstFailure(checks)
  /\ IF raised' = "ok" THEN effect /\ pc' = next ELSE pc' = "refused" /\ UNCHANGED unchanged

-----------------------------------------------------------------------------
(* Regions and address spaces *)

\* The threads that can be in the address space of a PD, if its parent controls threads.
ThreadsIn(p) == IF pds[p].parent = NoParent THEN 0 ELSE pds[pds[p].parent].threads
Stacks(p) == IF ThreadsIn(p) > 0 THEN ThreadsIn(p) ELSE 1

Mr(name, size, phys) == [name |-> name, page |-> Page, count |-> size \div Page, phys |-> phys]

Segments(p) == Images[pds[p].name].segments
SegmentBase(seg) == RoundDown(seg.vaddr, Page)
\* aligned_size in the form of an earlier step of the tool: the end of the data is forgotten.
SegmentSizeOfData(seg) == RoundUp(seg.size, Page)
SegmentSize(seg) == RoundUp(seg.vaddr + seg.size, Page) - SegmentBase(seg)

\* The segments of all PDs, one after the other behind the invocation table.
TableEnd == ReservedBase + tablePages * Page
PhysNext(p, n) ==
  TableEnd + Sum(SubSeq(All, 1, p - 1), LAMBDA q : Sum(Segments(q), SegmentSize))
           + Sum(SubSeq(Segments(p), 1, n - 1), SegmentSize)

ElfMrs == Flat(All, LAMBDA p : [n \in DOMAIN Segments(p) |->
            Mr(<<"elf", p, n>>, SegmentSize(Segments(p)[n]), PhysNext(p, n))])
ElfMaps(p) == [n \in DOMAIN Segments(p) |->
                 [mr |-> <<"elf", p, n>>, vaddr |-> SegmentBase(Segments(p)[n]),
                  perms |-> Segments(p)[n].perms]]

AllocTls(p) ==
  LET one == RoundUp(Images[pds[p].name].tls, TlsAlign)
  IN  RoundUp(IF ThreadsIn(p) > 0 THEN one * ThreadsIn(p) ELSE one, Page)

\* One buffer of a page for each thread; a stack is a page, with a page to guard it.
IpcBuffers(p) == Stacks(p) * Page
ThreadStack(t) == StackHigh - Page - t * Page * 2

Areas(p) ==
  << [mr |-> Mr(<<"tls", p>>, AllocTls(p), None), vaddr |-> TlsStart],
     [mr |-> Mr(<<"ipc", p>>, IpcBuffers(p), None), vaddr |-> TlsEnd] >>
  \o [n \in 1..Stacks(p) |-> [mr |-> Mr(<<"stack", p, n>>, Page, None), vaddr |-> ThreadStack(n - 1)]]

AllMrs == mrs \o ElfMrs \o Flat(All, LAMBDA p : Each(Areas(p), LAMBDA a : a.mr))
MapsOf(p) == pds[p].maps \o ElfMaps(p)
               \o Each(Areas(p), LAMBDA a : [mr |-> a.mr.name, vaddr |-> a.vaddr, perms |-> {"r", "w"}])

\* The TLS areas must end below the IPC buffers.
LayOut ==
  /\ Build("build", << <<\A p \in DOMAIN pds : TlsStart + AllocTls(p) <= TlsEnd, "TLS too large">> >>,
           regions' = AllMrs, "map", regions)
  /\ UNCHANGED <<tablePages, cnodeSize, maps, objects, slotOf, description>>

Region(name) == CHOOSE mr \in ToSet(regions) : mr.name = name

MapRegions ==
  /\ pc = "map" /\ pc' = "collect"
  /\ maps' = Flat(All, LAMBDA p : Each(MapsOf(p), LAMBDA m :
               [pd |-> p, mr |-> Region(m.mr), vaddr |-> m.vaddr, perms |-> m.perms]))
  /\ UNCHANGED <<tablePages, cnodeSize, regions, objects, slotOf, description, raised>>

-----------------------------------------------------------------------------
(* Kernel objects *)

\* The pages that a PD sees: address and size.
VaddrsOf(map) == {[vaddr |-> map.vaddr + k * map.mr.page, page |-> map.mr.page] : k \in 0..map.mr.count - 1}
Vaddrs(p) == UNION {VaddrsOf(map) : map \in {m \in ToSet(maps) : m.pd = p}}

\* The tables that a PD's pages of some sizes need, sorted; a large page needs no page table.
Tables(span, sizes) ==
  Flat(All, LAMBDA p : Each(InOrder({RoundDown(v.vaddr, span) : v \in {w \in Vaddrs(p) : w.page \in sizes}}),
                            LAMBDA vaddr : <<p, vaddr>>))
Uds == Tables(UpperSpan, PageSizes)
Ds == Tables(DirectorySpan, PageSizes)
PtsEverywhere == Tables(TableSpan, PageSizes)
Pts == Tables(TableSpan, {Page})

Parented(p) == pds[p].parent # NoParent
NeedsEp(p) == pds[p].pp \/ ~Parented(p)
WithEp == Pds(NeedsEp)
WithThreads == Pds(LAMBDA p : pds[p].threads > 0)

PagesOf(mr) == [k \in 1..mr.count |-> <<"page", mr.name, k>>]
Regular(size) == Flat(Where(regions, LAMBDA mr : mr.phys = None /\ mr.page = size), PagesOf)
FixedPages ==
  UNION {{[phys |-> mr.phys + (k - 1) * mr.page, page |-> <<"page", mr.name, k>>] : k \in 1..mr.count} :
          mr \in {m \in ToSet(regions) : m.phys # None}}
Fixed == Each(Sorted(FixedPages, LAMBDA f : f.phys), LAMBDA f : f.page)
Made(type, list) == Each(list, LAMBDA owner : <<type, owner>>)
ThreadObjects(p) ==
  [n \in 1..4 |-> [t \in 1..pds[p].threads |->
     <<<<"thread tcb", "thread sc", "thread cnode", "thread reply">>[n], p, t - 1>>]]

\* One retype for each of these lists: objects of one type, in adjacent slots.
ObjectLists ==
  <<Regular(LargePage), Regular(Page)>> \o Each(Fixed, LAMBDA page : <<page>>)
  \o << Made("tcb", All), Made("sc", All), Made("reply", All), Made("ep", WithEp),
        Made("ntfn", All), Made("vspace", All), Made("ud", Uds), Made("d", Ds), Made("pt", Pts),
        Made("cnode", All) >>
  \o Flat(WithThreads, ThreadObjects)

\* The slots before are those of the invocation table's pages and of their page tables.
FirstSlot == tablePages + RoundUp(tablePages * Page, LargePage) \div LargePage

\* Two pages at one address cannot be sorted: their regions have no order.
CollectObjects ==
  /\ Build("collect", << <<\A f, g \in FixedPages : f.phys = g.phys => f = g, "TypeError">> >>,
           \E lists \in {ObjectLists} : objects' = Where(lists, LAMBDA list : list # <<>>), "allocate", objects)
  /\ UNCHANGED <<tablePages, cnodeSize, regions, maps, slotOf, description>>

AllocateObjects ==
  /\ pc = "allocate" /\ pc' = "plan"
  /\ slotOf' =
       [object \in UNION {ToSet(list) : list \in ToSet(objects)} |->
          LET k == CHOOSE k \in DOMAIN objects : object \in ToSet(objects[k])
              n == CHOOSE n \in DOMAIN objects[k] : objects[k][n] = object
          IN  FirstSlot + Sum(SubSeq(objects, 1, k - 1), Len) + n - 1]
  /\ UNCHANGED <<tablePages, cnodeSize, regions, maps, objects, description, raised>>
=============================================================================
