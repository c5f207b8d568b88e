------------------------------- MODULE Regions -------------------------------
(***************************************************************************)
(* Memory regions and the sorted lists of them that class                  *)
(* DisjointMemoryRegion keeps (tool/sel4coreplat/util.py): what each       *)
(* method does to the list, and whether it raises.  Addresses are words    *)
(* of WordBits bits, whose overflow the tool emulates.                     *)
(***************************************************************************)
EXTENDS Integers, Sequences, SequencesExt

CONSTANTS
  WordBits,            \* the width of a machine word
  KernelVirtualBase,   \* the kernel's address of physical address 0
  MaxBits              \* the kernel's seL4_MaxUntypedBits

ASSUME WordAssumption ==
  /\ WordBits \in Nat \ {0}
  /\ KernelVirtualBase \in 0..2^WordBits - 1
  /\ MaxBits \in Nat

-----------------------------------------------------------------------------
(* Numbers *)

WordSize == 2^WordBits

\* The number of the highest and of the lowest one bit; -1 for zero.
Msb(n) == Max({-1} \cup {k \in 0..WordBits : 2^k <= n})
Lsb(n) == IF n = 0 THEN -1 ELSE Max({k \in 0..WordBits : n % (2^k) = 0})

\* What the theorems about aligned sizes use of powers of two, a fact of arithmetic that the
\* provers do not know.
PowersOfTwo ==
  /\ 2^0 = 1
  /\ \A i \in 0..WordBits : 2^i \in Nat \ {0} /\ \A j \in 0..i : (2^i) % (2^j) = 0

RoundDown(n, size) == n - (n % size)
RoundUp(n, size) == IF n % size = 0 THEN n ELSE n + size - (n % size)

IsPowerOfTwo(n) == \E k \in 0..WordBits : n = 2^k

PaddrToKernelVaddr(paddr) == (paddr + KernelVirtualBase) % WordSize

KernelVaddrToPaddrUnwrapped(vaddr) == vaddr - KernelVirtualBase

KernelVaddrToPaddr(vaddr) == (vaddr - KernelVirtualBase) % WordSize

\* Memory up to top is at most twice as large as some power of two that divides the base of
\* the kernel's window: then what is aligned in the kernel's addresses, although they wrap,
\* is aligned in physical ones (1 << 40 and 2 ** 64 - 2 ** 39 in the tool).
WindowAligned(top) ==
  /\ top < WordSize
  /\ \E i \in 0..WordBits :
       /\ KernelVirtualBase % (2^i) = 0
       /\ \A j \in i + 1..WordBits : top <= 2^j

-----------------------------------------------------------------------------
(* Regions.  The base is inclusive, the end exclusive. *)

MemoryRegion(b, e) == [base |-> b, end |-> e]
Size(r) == r.end - r.base
Addresses(r) == r.base..r.end - 1
Covered(s) == UNION {Addresses(s[n]) : n \in DOMAIN s}

PairwiseDisjoint(s) ==
  \A m, n \in DOMAIN s : m # n => Addresses(s[m]) \cap Addresses(s[n]) = {}

\* The size of the next piece of a region of which vbase..vend-1, in the kernel's
\* addresses, is left: it must be a power of two that divides its address.
PieceBitsUnaligned(vbase, vend) ==
  Min({Msb((vend - vbase) % WordSize), MaxBits})

PieceBits(vbase, vend) ==
  LET sizeBits == Msb((vend - vbase) % WordSize)
  IN  Min({sizeBits, MaxBits} \cup (IF vbase = 0 THEN {} ELSE {Lsb(vbase)}))

\* MemoryRegion.aligned_power_of_two_regions
AlignedPowerOfTwoRegions(r) ==
  LET vend == PaddrToKernelVaddr(r.end)
      pieces[vbase \in 0..WordSize - 1] ==
        IF vbase = vend THEN <<>>
        ELSE LET size == 2^PieceBits(vbase, vend)
             IN  <<MemoryRegion(KernelVaddrToPaddr(vbase), KernelVaddrToPaddr(vbase + size))>>
                   \o pieces[(vbase + size) % WordSize]
  IN  pieces[PaddrToKernelVaddr(r.base)]

\* DisjointMemoryRegion.aligned_power_of_two_regions
AllAlignedRegions(s) == FlattenSeq([n \in DOMAIN s |-> AlignedPowerOfTwoRegions(s[n])])

-----------------------------------------------------------------------------
(* The methods of DisjointMemoryRegion: the new list, and "ok" or the exception. *)

\* _check: the regions are sorted and do not overlap.
Check(s) == \A n \in 1..Len(s) - 1 : s[n + 1].base >= s[n].end

Result(s) == [regions |-> s, raised |-> IF Check(s) THEN "ok" ELSE "AssertionError"]

InsertRegion(s, b, e) ==
  LET above == {n \in DOMAIN s : e < s[n].base}
      idx == IF above = {} THEN Len(s) + 1 ELSE Min(above)
  IN  Result(InsertAt(s, idx, MemoryRegion(b, e)))

\* The region k, in which b..e-1 lies, is deleted, trimmed or split.
CutTrimsTail(s, k, b, e) ==
  CASE s[k].base = b /\ s[k].end = e -> RemoveAt(s, k)
    [] s[k].base = b /\ s[k].end # e -> ReplaceAt(s, k, MemoryRegion(e, s[k].end))
    [] OTHER                         -> ReplaceAt(s, k, MemoryRegion(s[k].base, b))

CutKeepsTail(s, k, b, e) ==
  CASE s[k].base = b /\ s[k].end = e -> RemoveAt(s, k)
    [] s[k].base = b /\ s[k].end # e -> ReplaceAt(s, k, MemoryRegion(e, s[k].end))
    [] OTHER -> InsertAt(ReplaceAt(s, k, MemoryRegion(s[k].base, b)),
                         k + 1, MemoryRegion(b, s[k].end))

Cut(s, k, b, e) ==
  CASE s[k].base = b /\ s[k].end = e -> RemoveAt(s, k)
    [] s[k].base = b /\ s[k].end # e -> ReplaceAt(s, k, MemoryRegion(e, s[k].end))
    [] s[k].base # b /\ s[k].end = e -> ReplaceAt(s, k, MemoryRegion(s[k].base, b))
    [] OTHER -> InsertAt(ReplaceAt(s, k, MemoryRegion(s[k].base, b)),
                         k + 1, MemoryRegion(e, s[k].end))

Holding(s, b, e) == {n \in DOMAIN s : s[n].base <= b /\ e <= s[n].end}

RemoveRegion(s, b, e) ==
  IF Holding(s, b, e) = {} THEN [regions |-> s, raised |-> "not covered"]
  ELSE Result(Cut(s, Min(Holding(s, b, e)), b, e))

\* The regions that allocate_from may take, of which it takes the first.
FittingAnywhere(s, size, lower) == {n \in DOMAIN s : size <= Size(s[n])}

Fitting(s, size, lower) == {n \in DOMAIN s : size <= Size(s[n]) /\ s[n].base >= lower}

\* allocate_from removes the beginning of that region and returns its base.
AllocatedBase(s, size, lower) == s[Min(Fitting(s, size, lower))].base

AllocateFrom(s, size, lower) ==
  IF Fitting(s, size, lower) = {} THEN [regions |-> s, raised |-> "no space"]
  ELSE LET b == AllocatedBase(s, size, lower) IN RemoveRegion(s, b, b + size)
=============================================================================
