---------------------------- MODULE MCBootMemory ----------------------------
(***************************************************************************)
(* Boards for TLC.  A page is 2, physical addresses are 0..63, words have  *)
(* 8 bits, and physical address 32 is the kernel's address 0.              *)
(***************************************************************************)
EXTENDS BootMemory

KernelBase == 224

\* Memory below and above the kernel, around the kernel's address 0.
MiddleBoard == [devices |-> <<4>>, memory |-> <<MemoryRegion(16, 48)>>,
                kernel |-> MemoryRegion(18, 26), bootEnd |-> 22, task |-> 4, objects |-> 5]

\* Two banks; a large reserved region only fits in the second.
TwoBanks == [devices |-> <<40, 60>>, memory |-> <<MemoryRegion(4, 20), MemoryRegion(42, 58)>>,
             kernel |-> MemoryRegion(4, 8), bootEnd |-> 6, task |-> 2, objects |-> 3]

\* A bank below the kernel's, and two banks that touch.
LowBank == [devices |-> <<62>>,
            memory |-> <<MemoryRegion(0, 12), MemoryRegion(20, 36), MemoryRegion(36, 44)>>,
            kernel |-> MemoryRegion(20, 24), bootEnd |-> 22, task |-> 4, objects |-> 3]

MCBoards == {MiddleBoard, TwoBanks, LowBank}

\* The hypotheses of the theorems hold of these boards.
ASSUME TheoremsApply ==
  OrderlyBoards /\ CapsFitWord /\ PowersOfTwo /\ WindowAligned(DeviceTop) /\ MadeOfPages
=============================================================================
