---------------------------- MODULE MemoryOwners ----------------------------
(***************************************************************************)
(* What the builder's memory plan promises: every physical address has one *)
(* owner at a time, and changes hands in contiguous pieces, along a fixed  *)
(* order.  BootMemory implements it.                                       *)
(***************************************************************************)
EXTENDS Integers

CONSTANT Top   \* physical addresses are 0..Top-1

VARIABLE owner

\* Who may hand memory to whom: device memory is for the devices the kernel keeps or is
\* normal memory; normal memory holds the kernel's image, the reserved region, the
\* initial task and its kernel objects.
HandsTo ==
  { <<"device", "kernel device">>, <<"device", "normal">>, <<"normal", "kernel">>,
    <<"normal", "reserved">>, <<"normal", "task">>, <<"normal", "objects">> }

Owners == {pair[1] : pair \in HandsTo} \cup {pair[2] : pair \in HandsTo}

Init == owner = [a \in 0..Top - 1 |-> "device"]

\* One contiguous piece changes hands, all of it from one owner to one other.
Hand(from, to) ==
  LET piece == {a \in 0..Top - 1 : owner'[a] # owner[a]}
  IN  /\ owner' \in [0..Top - 1 -> Owners]
      /\ \A a \in piece : owner[a] = from /\ owner'[a] = to
      /\ \A a, b \in piece : a..b \subseteq piece

\* The plan is made anew.
Restart == owner' = [a \in 0..Top - 1 |-> "device"]

Next ==
  \/ \E pair \in HandsTo : Hand(pair[1], pair[2])
  \/ Restart

Spec == Init /\ [][Next]_owner
=============================================================================
