------------------------------ MODULE PDRuntime ------------------------------
(***************************************************************************)
(* The run-time of the platform: the event loop of libsel4cp that every    *)
(* protection domain (PD) runs (libsel4cp/src/main.c), the calls its user  *)
(* code makes (libsel4cp/include/sel4cp/sel4cp.h), the badges the build    *)
(* tool minted for it (tool/sel4coreplat/__main__.py), and the part of the *)
(* seL4 MCS kernel these calls reach (external: notification words, the    *)
(* priority-ordered endpoint queues, one reply object per PD).             *)
(*                                                                         *)
(* A system call is one step, and the steps of PDs interleave freely: the  *)
(* kernel is entered by one PD at a time, and a PD may be preempted        *)
(* anywhere else.                                                          *)
(***************************************************************************)
EXTENDS Integers, Sequences, FiniteSets, FiniteSetsExt

CONSTANTS
  PD,              \* the protection domains of the system description
  NoPD,            \* "no PD"
  Channel,         \* the channels, tuples <<pd_a, id_a, pd_b, id_b>>
  Irq,             \* the interrupts, pairs <<pd, id>>
  Priority,        \* Priority[p], also the order of the endpoint queues
  Provides,        \* the PDs with pp="true"
  Parent,          \* Parent[p]: the root PD p is a child of, or NoPD
  PdId,            \* PdId[p]: the number of p among its parent's children
  AcceptsRootPpc,  \* the root PDs with root_ppc="true"
  Notifies,        \* user code: the <<p, i>> with a sel4cp_notify(i) in p
  Calls,           \* user code: the <<p, i>> with a sel4cp_ppcall(i) in p
  RootCalls,       \* user code: the p with a sel4cp_root_ppcall()
  Withholds,       \* user code: the p whose protected or fault may return false
  Faulty,          \* user code: the p that may fault
  MaxOps           \* bound: what an entry point does before it must return

ASSUME SystemAssumption ==
  /\ NoPD \notin PD
  /\ Channel \subseteq PD \X (0..62) \X PD \X (0..62)
  /\ Irq \subseteq PD \X (0..62)
  /\ Priority \in [PD -> 0..254]
  /\ Provides \subseteq PD
  /\ Parent \in [PD -> PD \cup {NoPD}]
  /\ PdId \in [PD -> 0..62]
  /\ AcceptsRootPpc \subseteq PD
  /\ MaxOps \in Nat

VARIABLES
  state,      \* kernel state of the PD's thread
  entry,      \* where the thread is in main and handler_loop
  badge,      \* the local `badge`: the set of its one bits not shifted out yet
  haveReply,  \* the local `have_reply`
  pending,    \* the notification word of the PD: the bits signalled, not taken
  queue,      \* the senders blocked on the PD's endpoint
  reply,      \* the caller held by the PD's reply object, or NoPD
  call,       \* the call, or fault, a blocked thread is in
  ops,        \* operations done by the present entry point
  masked      \* interrupts fired and not acknowledged

vars == <<state, entry, badge, haveReply, pending, queue, reply, call, ops, masked>>

-----------------------------------------------------------------------------
(* The system description *)

ChannelId == 0..62

\* The identifiers the description uses: its channels', its interrupts', its children's.
UsedId ==
  (UNION {{c[2], c[4]} : c \in Channel}) \cup {s[2] : s \in Irq} \cup {PdId[p] : p \in PD}

Linked(p, i, q, j) == <<p, i, q, j>> \in Channel \/ <<q, j, p, i>> \in Channel

\* The endpoint a fault of p is sent to: a child's parent's, a root PD's own.
FaultEpOwn(p) == p
FaultEp(p) == IF Parent[p] = NoPD THEN p ELSE Parent[p]

-----------------------------------------------------------------------------
(* Badges: words of 64 bits, as the sets of their one bits *)

BadgeBit == 0..63

BADGE_TYPE_NTFN == 0
BADGE_TYPE_FAULT == 1
BADGE_TYPE_PPC == 2
BADGE_TYPE_ROOT_PPC == 3
BADGE_FAULT_ROOT_BIT == 61

GetBadgeType(b) == (IF 62 \in b THEN 1 ELSE 0) + (IF 63 \in b THEN 2 ELSE 0)

Bits(n) == {k \in 0..7 : (n \div 2^k) % 2 = 1}
Number(b) == MapThenSumSet(LAMBDA k : 2^k, b)

NtfnBadgeTyped(i) == {i, 63}
NtfnBadge(i) == {i}
PpcBadge(i) == {63} \cup Bits(i)
RootPpcBadgeAsPpc(n) == {63} \cup Bits(n)
RootPpcBadge(n) == {63, 62} \cup Bits(n)
FaultBadge(p) ==
  IF Parent[p] = NoPD THEN {62, BADGE_FAULT_ROOT_BIT} ELSE {62} \cup Bits(PdId[p])

\* The identifier protected or fault is called with, the channel notified is called with.
PpcIdentifierMask1F(b) == Number(b \cap 0..4)
PpcIdentifier(b) == Number(b \cap 0..5)
ThreadIdentifier(b) == Number(b \cap 0..7)
NotifiedChannelLate(b) == Min(b) + 1
NotifiedChannel(b) == Min(b)

-----------------------------------------------------------------------------
(* The kernel *)

NoCall == [to |-> NoPD, badge |-> {}]

\* An endpoint's queue is in descending priority, first come first served within one.
Enqueue(s, p) ==
  LET k == Cardinality({n \in 1..Len(s) : Priority[s[n]] >= Priority[p]})
  IN  [n \in 1..Len(s) + 1 |-> IF n <= k THEN s[n]
                               ELSE IF n = k + 1 THEN p ELSE s[n - 1]]

\* seL4_Signal, and an interrupt: hand the bits to a waiting PD, or keep them.
Signal(q, bits) ==
  \/ /\ state[q] = "receive"
     /\ state' = [state EXCEPT ![q] = "running"]
     /\ badge' = [badge EXCEPT ![q] = bits]
     /\ UNCHANGED pending
  \/ /\ state[q] # "receive"
     /\ pending' = [pending EXCEPT ![q] = @ \cup bits]
     /\ UNCHANGED <<state, badge>>

\* seL4_Call, and a fault: block p until q's reply object answers it.
Send(p, q, b) ==
  /\ call' = [call EXCEPT ![p] = [to |-> q, badge |-> b]]
  /\ \/ /\ state[q] = "receive"
        /\ state' = [state EXCEPT ![p] = "reply", ![q] = "running"]
        /\ badge' = [badge EXCEPT ![q] = b]
        /\ reply' = [reply EXCEPT ![q] = p]
        /\ UNCHANGED queue
     \/ /\ state[q] # "receive"
        /\ state' = [state EXCEPT ![p] = "send"]
        /\ queue' = [queue EXCEPT ![q] = Enqueue(@, p)]
        /\ UNCHANGED <<badge, reply>>

\* The thread states once p's reply object is free again: answered by seL4_ReplyRecv,
\* or cancelled by a receive that finds it still in use.
Released(p) ==
  IF reply[p] = NoPD THEN state
  ELSE [state EXCEPT ![reply[p]] = IF haveReply[p] THEN "running" ELSE "inactive"]

-----------------------------------------------------------------------------
(* handler_loop *)

\* The bound notification comes before any sender.
TakeNotification(p) ==
  /\ pending[p] # {}
  /\ state' = Released(p)
  /\ badge' = [badge EXCEPT ![p] = pending[p]]
  /\ pending' = [pending EXCEPT ![p] = {}]
  /\ reply' = [reply EXCEPT ![p] = NoPD]
  /\ UNCHANGED queue

TakeSenderNoReply(p) ==
  /\ pending[p] = {}
  /\ queue[p] # <<>>
  /\ state' = [Released(p) EXCEPT ![Head(queue[p])] = "reply"]
  /\ badge' = [badge EXCEPT ![p] = call[Head(queue[p])].badge]
  /\ reply' = [reply EXCEPT ![p] = NoPD]
  /\ queue' = [queue EXCEPT ![p] = Tail(@)]
  /\ UNCHANGED pending

TakeSender(p) ==
  /\ pending[p] = {}
  /\ queue[p] # <<>>
  /\ LET s == Head(queue[p])
     IN  /\ state' = [Released(p) EXCEPT ![s] = "reply"]
         /\ badge' = [badge EXCEPT ![p] = call[s].badge]
         /\ reply' = [reply EXCEPT ![p] = s]
  /\ queue' = [queue EXCEPT ![p] = Tail(@)]
  /\ UNCHANGED pending

Block(p) ==
  /\ pending[p] = {}
  /\ queue[p] = <<>>
  /\ state' = [Released(p) EXCEPT ![p] = "receive"]
  /\ reply' = [reply EXCEPT ![p] = NoPD]
  /\ UNCHANGED <<badge, pending, queue>>

\* The system call at the head of the loop: seL4_ReplyRecv with have_reply, else a
\* receive.  The seL4_NBSendRecv of a passive PD is that receive too: the slot
\* SYSINIT_CPTR it sends to is empty, and a non-blocking send to an empty slot does
\* nothing.
Receive(p) ==
  /\ state[p] = "running"
  /\ entry[p] = "loop"
  /\ TakeNotification(p) \/ TakeSender(p) \/ Block(p)
  /\ haveReply' = [haveReply EXCEPT ![p] = FALSE]
  /\ call' = IF reply[p] = NoPD THEN call ELSE [call EXCEPT ![reply[p]] = NoCall]
  /\ entry' = [entry EXCEPT ![p] = "dispatch"]
  /\ UNCHANGED <<ops, masked>>

EntryPoint(b) ==
  CASE GetBadgeType(b) = BADGE_TYPE_FAULT -> "fault"
    [] GetBadgeType(b) \in {BADGE_TYPE_PPC, BADGE_TYPE_ROOT_PPC} -> "protected"
    [] OTHER -> "notified"

\* The badge says which entry point to call.  On a fault of the root PD itself
\* seL4_Fail stops the PD.
Dispatch(p) ==
  /\ state[p] = "running"
  /\ entry[p] = "dispatch"
  /\ entry' = [entry EXCEPT ![p] = EntryPoint(badge[p])]
  /\ state' = IF EntryPoint(badge[p]) = "fault" /\ BADGE_FAULT_ROOT_BIT \in badge[p]
              THEN [state EXCEPT ![p] = "inactive"] ELSE state
  /\ ops' = [ops EXCEPT ![p] = 0]
  /\ UNCHANGED <<badge, haveReply, pending, queue, reply, call, masked>>

\* main: init is over.
InitReturns(p) ==
  /\ state[p] = "running"
  /\ entry[p] = "init"
  /\ entry' = [entry EXCEPT ![p] = "loop"]
  /\ UNCHANGED <<state, badge, haveReply, pending, queue, reply, call, ops, masked>>

NotifiedReturnsOnce(p) ==
  /\ state[p] = "running"
  /\ entry[p] = "notified"
  /\ badge' = [badge EXCEPT ![p] = {}]
  /\ entry' = [entry EXCEPT ![p] = "loop"]
  /\ ops' = [ops EXCEPT ![p] = 0]
  /\ UNCHANGED <<state, haveReply, pending, queue, reply, call, masked>>

\* The bit of the channel is shifted out; the next one bit is the next notified.
NotifiedReturns(p) ==
  LET rest == badge[p] \ {NotifiedChannel(badge[p])}
  IN  /\ state[p] = "running"
      /\ entry[p] = "notified"
      /\ badge' = [badge EXCEPT ![p] = rest]
      /\ entry' = [entry EXCEPT ![p] = IF rest = {} THEN "loop" ELSE "notified"]
      /\ ops' = [ops EXCEPT ![p] = 0]
      /\ UNCHANGED <<state, haveReply, pending, queue, reply, call, masked>>

HandlerReturnsPpcOnly(p, answer) ==
  /\ state[p] = "running"
  /\ entry[p] \in {"protected", "fault"}
  /\ answer \/ p \in Withholds
  /\ haveReply' = [haveReply EXCEPT ![p] = answer /\ entry[p] = "protected"]
  /\ entry' = [entry EXCEPT ![p] = "loop"]
  /\ UNCHANGED <<state, badge, pending, queue, reply, call, ops, masked>>

\* protected or fault returns whether to reply.  The message it left in `tag` is sent
\* by the next seL4_ReplyRecv.
HandlerReturns(p, answer) ==
  /\ state[p] = "running"
  /\ entry[p] \in {"protected", "fault"}
  /\ answer \/ p \in Withholds
  /\ haveReply' = [haveReply EXCEPT ![p] = answer]
  /\ entry' = [entry EXCEPT ![p] = "loop"]
  /\ UNCHANGED <<state, badge, pending, queue, reply, call, ops, masked>>

-----------------------------------------------------------------------------
(* User code *)

InUserCode(p) ==
  /\ state[p] = "running"
  /\ entry[p] \in {"init", "notified", "protected", "fault"}

UserOp(p) ==
  /\ InUserCode(p)
  /\ ops[p] < MaxOps
  /\ ops' = [ops EXCEPT ![p] = @ + 1]

\* sel4cp_notify
Notify(p, i) ==
  /\ UserOp(p)
  /\ <<p, i>> \in Notifies
  /\ \E q \in PD, j \in UsedId : Linked(p, i, q, j) /\ Signal(q, NtfnBadge(j))
  /\ UNCHANGED <<entry, haveReply, queue, reply, call, masked>>

\* sel4cp_ppcall: the slot holds an endpoint only if the other end has a pp.
PPCall(p, i) ==
  /\ UserOp(p)
  /\ <<p, i>> \in Calls
  /\ \E q \in Provides, j \in UsedId : Linked(p, i, q, j) /\ Send(p, q, PpcBadge(j))
  /\ UNCHANGED <<entry, haveReply, pending, masked>>

\* sel4cp_root_ppcall
RootPPCall(p) ==
  /\ UserOp(p)
  /\ p \in RootCalls
  /\ Parent[p] \in AcceptsRootPpc
  /\ Send(p, Parent[p], RootPpcBadge(PdId[p]))
  /\ UNCHANGED <<entry, haveReply, pending, masked>>

Fault(p) ==
  /\ UserOp(p)
  /\ p \in Faulty
  /\ Send(p, FaultEp(p), FaultBadge(p))
  /\ UNCHANGED <<entry, haveReply, pending, masked>>

\* sel4cp_irq_ack
IrqAck(p, i) ==
  /\ UserOp(p)
  /\ <<p, i>> \in masked
  /\ masked' = masked \ {<<p, i>>}
  /\ UNCHANGED <<state, entry, badge, haveReply, pending, queue, reply, call>>

\* The device raises its interrupt; the kernel masks it until it is acknowledged.
IrqFire(p, i) ==
  /\ <<p, i>> \in Irq \ masked
  /\ masked' = masked \cup {<<p, i>>}
  /\ Signal(p, NtfnBadge(i))
  /\ UNCHANGED <<entry, haveReply, queue, reply, call, ops>>

-----------------------------------------------------------------------------
Init ==
  /\ state = [p \in PD |-> "running"]
  /\ entry = [p \in PD |-> "init"]
  /\ badge = [p \in PD |-> {}]
  /\ haveReply = [p \in PD |-> FALSE]
  /\ pending = [p \in PD |-> {}]
  /\ queue = [p \in PD |-> <<>>]
  /\ reply = [p \in PD |-> NoPD]
  /\ call = [p \in PD |-> NoCall]
  /\ ops = [p \in PD |-> 0]
  /\ masked = {}

\* What a PD does by itself once it has the processor.
Library(p) ==
  \/ Receive(p)
  \/ Dispatch(p)
  \/ InitReturns(p)
  \/ NotifiedReturns(p)
  \/ \E answer \in BOOLEAN : HandlerReturns(p, answer)

User(p) ==
  \/ \E i \in UsedId : Notify(p, i) \/ PPCall(p, i) \/ IrqAck(p, i)
  \/ RootPPCall(p)
  \/ Fault(p)

Next ==
  \/ \E p \in PD : Library(p) \/ User(p)
  \/ \E p \in PD, i \in UsedId : IrqFire(p, i)

Spec == Init /\ [][Next]_vars

\* Every PD that can run is given the processor, and its entry points return.
FairSpec == Spec /\ \A p \in PD : WF_vars(Library(p))

-----------------------------------------------------------------------------
(* Properties *)

TypeOK ==
  /\ state \in [PD -> {"running", "receive", "send", "reply", "inactive"}]
  /\ entry \in [PD -> {"init", "loop", "dispatch", "protected", "fault", "notified"}]
  /\ badge \in [PD -> SUBSET BadgeBit]
  /\ haveReply \in [PD -> BOOLEAN]
  /\ pending \in [PD -> SUBSET ChannelId]
  /\ queue \in [PD -> Seq(PD)]
  /\ reply \in [PD -> PD \cup {NoPD}]
  /\ call \in [PD -> [to : PD \cup {NoPD}, badge : SUBSET BadgeBit]]
  /\ ops \in [PD -> 0..MaxOps]
  /\ masked \subseteq Irq

Blocked(p) == state[p] \in {"send", "reply"}

\* A caller that waits for an answer is in the reply object of the PD it called, and a
\* caller that still waits to be received is in that PD's endpoint queue, once: nobody
\* is blocked where no ReplyRecv and no receive of handler_loop will find it.
CallersAreHeld ==
  \A q \in PD :
    /\ \A p \in PD : reply[q] = p <=> state[p] = "reply" /\ call[p].to = q
    /\ \A p \in PD : (\E n \in DOMAIN queue[q] : queue[q][n] = p)
                      <=> state[p] = "send" /\ call[p].to = q
    /\ \A m, n \in DOMAIN queue[q] : queue[q][m] = queue[q][n] => m = n

\* While protected or fault runs, the PD it runs for is still blocked on the PD that
\* runs it, and the identifier handler_loop decoded from the badge is the one the
\* system description gives that caller: the badge belongs to the held caller.
CallerOf(q) ==
  IF GetBadgeType(badge[q]) = BADGE_TYPE_FAULT
  THEN <<"fault", q, ThreadIdentifier(badge[q]), reply[q]>>
  ELSE IF GetBadgeType(badge[q]) = BADGE_TYPE_PPC
       THEN <<"protected", q, PpcIdentifier(badge[q]), reply[q]>>
       ELSE <<"root", q, ThreadIdentifier(badge[q]), reply[q]>>

Names ==
  {n \in {"protected", "root", "fault"} \X PD \X UsedId \X PD :
     IF n[1] = "protected" THEN \E k \in UsedId : Linked(n[4], k, n[2], n[3])
     ELSE Parent[n[4]] = n[2] /\ PdId[n[4]] = n[3]}

IdentifierNamesCaller ==
  \A q \in PD : entry[q] \in {"protected", "fault"} => CallerOf(q) \in Names

\* No set of PDs is blocked on calls into that same set: some call always leads out of
\* it, to a PD that can answer.  The manual: protected calls only go to a PD of strictly
\* higher priority, so a PD cannot call itself, even indirectly.
NoWaitCycle ==
  \A S \in SUBSET {p \in PD : Blocked(p)} :
    S # {} => \E p \in S : call[p].to \notin S

\* The notified calls p still owes: bits in the notification word, and bits of the
\* badge in hand whose turn in the do-while loop has not come.
InHand(p) ==
  IF state[p] = "running" /\ entry[p] = "dispatch" /\ EntryPoint(badge[p]) = "notified"
  THEN badge[p]
  ELSE IF entry[p] = "notified" THEN badge[p] \ {NotifiedChannel(badge[p])} ELSE {}

Owed(p) == pending[p] \cup InHand(p)

InNotified(p, i) == entry[p] = "notified" /\ NotifiedChannel(badge[p]) = i

\* A signalled identifier stays owed until notified is called with it, and a step that
\* raises one leaves it owed: no interleaving of signals, receives, calls and the bit
\* loop loses a notification.
NotificationsKept ==
  [][\A p \in PD, i \in UsedId :
       /\ i \in Owed(p) => i \in Owed(p)' \/ InNotified(p, i)'
       /\ <<p, i>> \in masked' \ masked => i \in Owed(p)']_vars

\* Every caller eventually runs again.
CallReturns == \A p \in PD : Blocked(p) ~> state[p] = "running"

\* Every notification eventually reaches notified, with its own channel.
SignalHandled ==
  \A p \in PD, i \in UsedId : i \in pending[p] ~> InNotified(p, i)

-----------------------------------------------------------------------------
(* The rule the manual gives for protected calls, which the tool does not check *)

\* The calls the user code of p may make into q; a fault is a call too.
CallEdge(p, q) ==
  \/ \E i, j \in UsedId : <<p, i>> \in Calls /\ q \in Provides /\ Linked(p, i, q, j)
  \/ p \in RootCalls /\ q = Parent[p]
  \/ p \in Faulty /\ q = FaultEp(p)

PriorityRule == \A p, q \in PD : CallEdge(p, q) => Priority[p] < Priority[q]

\* Notifications are capped at 62 identifiers, says a comment of the tool (sysxml.py:203),
\* whose bits 0..61 cannot overlap the mark of a fault; the check lets 62 through.
LastIdUnused ==
  /\ \A c \in Channel : 62 \notin {c[2], c[4]}
  /\ \A s \in Irq : s[2] # 62

-----------------------------------------------------------------------------
(* PDRuntime implements ChannelService *)

\* The caller is being served from the dispatch of its call to the ReplyRecv.
Serving(q) ==
  \/ state[q] # "inactive" /\ entry[q] \in {"protected", "fault"}
  \/ entry[q] = "loop" /\ haveReply[q]

\* The signals that notified owes twice: taken into the badge, and raised again since.
Again(p) == pending[p] \cap InHand(p)

Doing(p) ==
  IF entry[p] = "notified"
  THEN [kind |-> "notified", id |-> NotifiedChannel(badge[p]), caller |-> NoPD]
  ELSE IF Serving(p)
       THEN [kind |-> CallerOf(p)[1], id |-> CallerOf(p)[3], caller |-> reply[p]]
       ELSE [kind |-> "idle", id |-> 0, caller |-> NoPD]

WaitsFor(p) == IF Blocked(p) THEN call[p].to ELSE NoPD

Service == INSTANCE ChannelService WITH
  Id <- UsedId,
  owed <- [p \in PD |-> Owed(p)],
  again <- [p \in PD |-> Again(p)],
  doing <- [p \in PD |-> Doing(p)],
  waits <- [p \in PD |-> WaitsFor(p)]

\* Seen from the channels, the run-time is the service the manual describes.
ImplementsService == Service!Spec
=============================================================================
