------------------------- MODULE MCObjectAllocator -------------------------
(***************************************************************************)
(* Instances for TLC.  The smallest object has size 1, a page 8 and a      *)
(* large page 16; the other sizes keep the order of the kernel's.          *)
(***************************************************************************)
EXTENDS ObjectAllocator

MCFixed ==
  [TCB |-> 4, Endpoint |-> 1, Notification |-> 2, Reply |-> 1, VSpace |-> 8,
   PageUpperDirectory |-> 8, PageDirectory |-> 8, PageTable |-> 8,
   SmallPage |-> 8, LargePage |-> 16]

R(b, e) == MemoryRegion(b, e)

\* The reserved region is two untypeds, the table ends in the second; devices around it,
\* one of them smaller than a large page.
SplitTable == [normal |-> <<R(136, 144), R(256, 512)>>,
               device |-> <<R(144, 152), R(152, 160), R(160, 192), R(32, 64), R(64, 72)>>,
               tablePages |-> 2]

\* Many small untypeds before the large one.
Fragments == [normal |-> <<R(132, 136), R(136, 144), R(224, 256), R(256, 320), R(320, 512)>>,
              device |-> <<R(144, 160), R(160, 192), R(32, 64), R(64, 72)>>,
              tablePages |-> 1]

\* Too little normal memory for most descriptions.
Scarce == [normal |-> <<R(256, 448)>>, device |-> <<R(160, 192), R(32, 64), R(64, 72)>>,
           tablePages |-> 1]

MCBoots == {SplitTable, Fragments, Scarce}

MCNeeds ==
  { n \in [large : 0..1, small : {1, 3}, pds : 1..3, endpoints : {0, 2}, threads : {0, 2}] :
      n.endpoints <= n.pds }

P(a) == [addr |-> a, type |-> "SmallPage"]
L(a) == [addr |-> a, type |-> "LargePage"]

\* The pages of an image after the table, and pages of devices: far from the start of an
\* untyped, two that touch, two that overlap, one over the table, one beyond its untyped,
\* one in normal memory.
MCFixedPages ==
  { <<>>, <<P(32), P(56), P(160), P(176)>>, <<P(48), P(56), P(168)>>,
    <<P(40), L(48), P(64), P(184)>>, <<L(32), P(40)>>, <<P(144), P(160)>>,
    <<P(40), L(64)>>, <<P(256)>> }

\* A board with a device at physical address 0.
AtZero == [normal |-> <<R(256, 512)>>, device |-> <<R(128, 160), R(0, 64)>>, tablePages |-> 1]
ZeroBoots == {AtZero}
ZeroPages == {<<P(16)>>}
OnePD == {[large |-> 0, small |-> 1, pds |-> 1, endpoints |-> 0, threads |-> 0]}

\* The first normal untyped that reaches a multiple of the large page begins at one.
BoundaryBoots == {Scarce}
NoFixedPages == {<<>>}

\* The hypotheses of the theorems about device memory hold of these instances.
ASSUME TheoremApplies == TableFollows /\ PagesAligned /\ PowersOfTwo
=============================================================================
