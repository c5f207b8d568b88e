------------------------------ MODULE LoaderImage ------------------------------
(***************************************************************************)
(* What the loader is to copy into memory (tool/sel4coreplat/loader.py):   *)
(* the kernel, the init task, the invocation table and the images of the   *)
(* PDs, the last two into the memory that build_system reserves for them   *)
(* before it lays out anything.                                            *)
(***************************************************************************)
EXTENDS BuildPlan

CONSTANTS
  KernelRegion, \* [base, size]: in physical memory, below the reserved region
  InitTaskSize

\* What PlacedInOrder of BootMemory says of the kernel.
ASSUME KernelAssumption ==
  /\ KernelRegion \in [base : Nat, size : Nat] /\ InitTaskSize \in Nat
  /\ KernelRegion.base + KernelRegion.size <= ReservedBase

\* phys_mem_regions_from_elf; images are linked with equal virtual and physical addresses.
PdElfSize(p) == Sum(Segments(p), LAMBDA seg : RoundUp(seg.vaddr + seg.size, Page) - RoundDown(seg.vaddr, Page))
ReservedSize == tablePages * Page + Sum(All, PdElfSize)
ReservedEnd == ReservedBase + ReservedSize

TableBytes == RoundUp(TableWords * Page, WordsPerPage) \div WordsPerPage

\* A segment is loaded where its region is.
ElfRegions == Where(regions, LAMBDA mr : mr.name[1] = "elf")
LoaderRegions ==
  << KernelRegion, [base |-> ReservedEnd, size |-> InitTaskSize],
     [base |-> ReservedBase, size |-> TableBytes] >>
  \o Each(ElfRegions, LAMBDA mr : [base |-> mr.phys, size |-> Segments(mr.name[2])[mr.name[3]].size])

Overlapping(a, b) == ~(a.base + a.size <= b.base \/ a.base >= b.base + b.size)

CheckNonOverlapping ==
  \A m, n \in DOMAIN LoaderRegions : m < n => ~Overlapping(LoaderRegions[m], LoaderRegions[n])

Link ==
  /\ Build("link", << <<CheckNonOverlapping, "Overlapping">> >>, TRUE, "boot", <<>>)
  /\ UNCHANGED <<objectVars, plan, description>>

-----------------------------------------------------------------------------
\* The regions of the images lie in the reserved region behind the invocation table, what the
\* loader copies does not overlap, and the region of a segment covers its addresses, however
\* the segment is aligned: the tool sizes the reservation (__main__.py:739-743) and places
\* the images (1060-1091) by two computations.
ImageFits ==
  pc = "link" =>
    /\ CheckNonOverlapping
    /\ \A mr \in ToSet(ElfRegions) :
         LET seg == Segments(mr.name[2])[mr.name[3]]
         IN  /\ mr.phys >= TableEnd /\ mr.phys + mr.count * mr.page <= ReservedEnd
             /\ SegmentBase(seg) <= seg.vaddr
             /\ seg.vaddr + seg.size <= SegmentBase(seg) + mr.count * mr.page
=============================================================================
