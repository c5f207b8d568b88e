------------------------------- MODULE BuildPlan -------------------------------
(***************************************************************************)
(* The last third of build_system (tool/sel4coreplat/__main__.py): the     *)
(* invocations that the init task is to perform once the objects have      *)
(* their slots, and the loop of main() that builds again until the         *)
(* invocations and the capabilities fit the space set aside for them.      *)
(***************************************************************************)
EXTENDS ObjectPlan

CONSTANTS
  PdSlots, ThreadSlots,               \* PD_CAP_SIZE, EMPTY_THREAD_CAP_SIZE
  NtfnSlot, EpSlot, IrqSlot, TcbSlot, \* BASE_OUTPUT_NTFN_CAP_IDX ... of the CSpace layout
  WordsPerPage                        \* of invocation data

ASSUME WordsAssumption == WordsPerPage \in Nat \ {0}

VARIABLES
  plan  \* system_invocations

RootEpSlot == 1
VSpaceSlot == 2
ReplySlot == 4
InputSlot == 5
SelfCNodeSlot == 6
SelfTcbSlot == 7
SchedControlSlot == 8

\* Of the slots of a PD's CSpace, those for channels and interrupts have room for 64 each.
ASSUME SlotsAssumption ==
  /\ {NtfnSlot, EpSlot, IrqSlot, TcbSlot} \subseteq Nat /\ SchedControlSlot < NtfnSlot
  /\ NtfnSlot + 64 <= EpSlot /\ EpSlot + 64 <= IrqSlot /\ IrqSlot + 64 <= TcbSlot

\* PD_CAP_SIZE is 512: what has a slot has a number below those that end a type of badge.
ASSUME PdSlotsAssumption == PdSlots \in 0..999

\* get_thread_sc_offset ... get_pd_vspace_offset
ThreadSc(threads, t) == TcbSlot + threads + t
ThreadCSpace(threads, t) == TcbSlot + threads * 2 + t
ThreadReplyAfterVSpaces(threads, t) == TcbSlot + threads * 5 + t
ThreadReply(threads, t) == TcbSlot + threads * 3 + t
PdVSpace(threads, c) == TcbSlot + threads * 4 + c

\* Badges as numbers: the type, and the identifier in it.  A notification badge is
\* 1 << id; only which bit it is matters here.
NtfnBadge(id) == 1 + id
FaultBadge(id) == 1000 + id
FaultRootBadge == 1999
PpcBadge(id) == 2000 + id
RootPpcBadge(id) == 3000 + id

\* The capabilities of the init task that are not in the system CNode.
SystemCNode == -1
InitTcb == -2
SchedControl == -3

-----------------------------------------------------------------------------
(* Slots and invocations *)

\* The slots after the objects: interrupt handlers, copies of the pages that are mapped,
\* badged notifications of interrupts, fault endpoints of PDs and then of threads.
IrqList == Flat(All, LAMBDA p : Each(pds[p].irqs, LAMBDA i : [pd |-> p, irq |-> i.irq, id |-> i.id]))
Spawnable(p) == pds[p].threads - Cardinality(Children(p))

IrqCap(n) == FirstSlot + Cardinality(DOMAIN slotOf) + n - 1
FrameCap(n) == IrqCap(Len(IrqList)) + 1 + Sum(SubSeq(maps, 1, n - 1), LAMBDA m : m.mr.count)
IrqNtfnCap(n) == FrameCap(Len(maps) + 1) + n - 1
FaultCap(p) == IrqNtfnCap(Len(IrqList)) + p
ThreadFaultCap(p) ==
  FaultCap(Len(pds)) + 1 + Sum(Where(WithThreads, LAMBDA q : q < p), Spawnable)
NumberOfCaps == ThreadFaultCap(Len(pds) + 1)

Do(op, args) == [op |-> op, args |-> args, count |-> 1, incr |-> <<>>]

\* Sel4Invocation.repeat does nothing for one.
Repeat(inv, count, incr) ==
  IF count > 1 THEN [inv EXCEPT !.count = count, !.incr = incr] ELSE inv

\* The words of an invocation: the tag, the fields of its dataclass and, if it is
\* repeated, what to add to each of them.
Fields(op) ==
  CASE op \in {"Resume", "Suspend"} -> 1
    [] op \in {"SetTimeoutEndpoint", "SetFaultHandler", "BindNotification", "AsidPoolAssign",
               "IrqSetNotification", "SchedContextBind"} -> 2
    [] op \in {"SetCSpace", "SetIPCBuffer", "DomainSet"} -> 3
    [] op = "TableMap" -> 4
    [] op \in {"IrqControlGet", "PageMap"} -> 5
    [] op \in {"SetSchedParams", "SetSpace"} -> 6
    [] op \in {"Copy", "ConfigureFlags"} -> 7
    [] op \in {"Retype", "Mint"} -> 8
    [] op = "WriteRegisters" -> 39
Words(inv) == 1 + Fields(inv.op) * (IF inv.count > 1 THEN 2 ELSE 1)

Mint(cnode, dest, src, badge) ==
  Do("Mint", [cnode |-> cnode, dest |-> dest, src |-> src, badge |-> badge])
Copy(cnode, dest, src) == Do("Copy", [cnode |-> cnode, dest |-> dest, src |-> src, badge |-> 0])
Map(level, table, vspace, vaddr) ==
  Do("TableMap", [level |-> level, table |-> table, vspace |-> vspace, vaddr |-> vaddr])

\* allocate_objects: the slots are adjacent, in the order of the names.
Retypes == Each(objects, LAMBDA list : Do("Retype", [dest |-> slotOf[list[1]], objects |-> list]))

CNode(p) == slotOf[<<"cnode", p>>]
Tcb(p) == slotOf[<<"tcb", p>>]
Ep(p) == slotOf[<<"ep", p>>]
Ntfn(p) == slotOf[<<"ntfn", p>>]
VSpace(p) == slotOf[<<"vspace", p>>]
Sc(p) == slotOf[<<"sc", p>>]
Reply(p) == slotOf[<<"reply", p>>]
Thread(type, p, t) == slotOf[<<type, p, t>>]

AllRepeated(inv, incr) == <<Repeat(inv, Len(pds), incr)>>

CreateIrqHandlers ==
  [n \in DOMAIN IrqList |-> Do("IrqControlGet", [irq |-> IrqList[n].irq, dest |-> IrqCap(n)])]

AssignAsids == AllRepeated(Do("AsidPoolAssign", [vspace |-> VSpace(1)]), [vspace |-> 1])

MintPages ==
  [n \in DOMAIN maps |->
     Repeat(Mint(SystemCNode, FrameCap(n), slotOf[<<"page", maps[n].mr.name, 1>>], 0),
            maps[n].mr.count, [dest |-> 1, src |-> 1])]

MintIrqNotifications ==
  [n \in DOMAIN IrqList |->
     Mint(SystemCNode, IrqNtfnCap(n), Ntfn(IrqList[n].pd), NtfnBadge(IrqList[n].id))]

\* A root PD's fault goes to its own endpoint, a child's to the endpoint of its parent.
MintFaultEndpoints ==
  Each(All, LAMBDA p :
    IF Parented(p) THEN Mint(SystemCNode, FaultCap(p), Ep(pds[p].parent), FaultBadge(pds[p].pd_id))
                   ELSE Mint(SystemCNode, FaultCap(p), Ep(p), FaultRootBadge))

MintInputByPp ==
  Each(All, LAMBDA p : Mint(CNode(p), InputSlot, IF pds[p].pp THEN Ep(p) ELSE Ntfn(p), 0))
MintInput ==
  Each(All, LAMBDA p : Mint(CNode(p), InputSlot, IF NeedsEp(p) THEN Ep(p) ELSE Ntfn(p), 0))

MintReply ==
  AllRepeated(Mint(CNode(1), ReplySlot, Reply(1), 1), [cnode |-> 1, src |-> 1])
MintVSpace ==
  AllRepeated(Mint(CNode(1), VSpaceSlot, VSpace(1), 0), [cnode |-> 1, src |-> 1])

MintIrqHandlers ==
  [n \in DOMAIN IrqList |-> Mint(CNode(IrqList[n].pd), IrqSlot + IrqList[n].id, IrqCap(n), 0)]

\* accepts_root_ppc
AcceptsRootPpcAlways(p) == ~Parented(p)
AcceptsRootPpc(p) == pds[p].root_ppc

\* What a root PD p holds of its child c, and c of p.
MintChild(p, c) ==
  LET id == pds[c].pd_id
      n == pds[p].threads
  IN  (IF AcceptsRootPpc(p) THEN <<Mint(CNode(c), RootEpSlot, Ep(p), RootPpcBadge(id))>> ELSE <<>>)
      \o <<Mint(CNode(p), TcbSlot + id, Tcb(c), 0)>>
      \o IF n > 0 THEN << Mint(CNode(p), ThreadSc(n, id), Sc(c), 0),
                          Mint(CNode(p), ThreadCSpace(n, id), CNode(c), 0),
                          Copy(CNode(p), ThreadReply(n, id), Reply(c)) >>
                  ELSE <<>>

\* The threads that are not child PDs, numbered from the number of child PDs.
Spawned(p, inv, incr) == Repeat(inv, Spawnable(p), incr)

MintThreadEndpoints(p) ==
  LET k == Cardinality(Children(p))
  IN  << Spawned(p, Mint(Thread("thread cnode", p, k), RootEpSlot, Ep(p), RootPpcBadge(k)),
                 [cnode |-> 1, badge |-> 1]),
         Spawned(p, Do("SetCSpace", [tcb |-> Thread("thread tcb", p, k), cspace |-> Thread("thread cnode", p, k)]),
                 [tcb |-> 1, cspace |-> 1]) >>

MintThreadFaultsOneBadge(p) ==
  LET k == Cardinality(Children(p))
  IN  << Spawned(p, Mint(SystemCNode, ThreadFaultCap(p), Ep(p), FaultBadge(k)), [dest |-> 1]),
         Spawned(p, Do("SetFaultHandler", [tcb |-> Thread("thread tcb", p, k), fault |-> ThreadFaultCap(p)]),
                 [tcb |-> 1, fault |-> 1]) >>
MintThreadFaults(p) ==
  LET k == Cardinality(Children(p))
  IN  << Spawned(p, Mint(SystemCNode, ThreadFaultCap(p), Ep(p), FaultBadge(k)),
                 [dest |-> 1, badge |-> 1]),
         Spawned(p, Do("SetFaultHandler", [tcb |-> Thread("thread tcb", p, k), fault |-> ThreadFaultCap(p)]),
                 [tcb |-> 1, fault |-> 1]) >>

MintThreads(p) ==
  LET n == pds[p].threads
      k == Cardinality(Children(p))
      Given(slot, type) == Spawned(p, Mint(CNode(p), slot, Thread(type, p, k), 0), [dest |-> 1, src |-> 1])
  IN  (IF AcceptsRootPpc(p) THEN MintThreadEndpoints(p) ELSE <<>>) \o MintThreadFaults(p)
      \o << Given(TcbSlot + k, "thread tcb"), Given(ThreadSc(n, k), "thread sc"),
            Spawned(p, Do("SchedContextBind", [sc |-> Thread("thread sc", p, k), tcb |-> Thread("thread tcb", p, k)]),
                    [sc |-> 1, tcb |-> 1]),
            Given(ThreadCSpace(n, k), "thread cnode"),
            Copy(CNode(p), SelfCNodeSlot, CNode(p)), Copy(CNode(p), SelfTcbSlot, Tcb(p)),
            Spawned(p, Copy(CNode(p), ThreadReply(n, k), Thread("thread reply", p, k)), [dest |-> 1, src |-> 1]),
            Copy(CNode(p), SchedControlSlot, SchedControl) >>
      \o Each(InOrder(Children(p)), LAMBDA c : Mint(CNode(p), PdVSpace(n, pds[c].pd_id), VSpace(c), 0))

SetUpRootCSpaces ==
  Flat(All, LAMBDA p : Flat(InOrder(Children(p)), LAMBDA c : MintChild(p, c))
                         \o IF pds[p].threads > 0 THEN MintThreads(p) ELSE <<>>)

-----------------------------------------------------------------------------
(* Channels, mappings and TCBs *)

\* One end gets the other's notification, and its endpoint if the other has a protected
\* procedure; the badge is the number that the other end has for the channel.
MintEndOwn(a, id, b, idb) ==
  Mint(CNode(a), NtfnSlot + id, Ntfn(b), NtfnBadge(id))
MintEnd(a, id, b, idb) ==
  Mint(CNode(a), NtfnSlot + id, Ntfn(b), NtfnBadge(idb))
MintProcedure(a, id, b, idb) ==
  IF pds[b].pp THEN <<Mint(CNode(a), EpSlot + id, Ep(b), PpcBadge(idb))>> ELSE <<>>

MintChannels ==
  Flat(channels, LAMBDA cc :
    LET a == Named(cc.a)
        b == Named(cc.b)
    IN  <<MintEnd(a, cc.ida, b, cc.idb), MintEnd(b, cc.idb, a, cc.ida)>>
        \o MintProcedure(a, cc.ida, b, cc.idb) \o MintProcedure(b, cc.idb, a, cc.ida))

AssociateIrqs ==
  [n \in DOMAIN IrqList |->
     Do("IrqSetNotification", [handler |-> IrqCap(n), notification |-> IrqNtfnCap(n)])]

MapTables ==
  LET Level(level, list) == Each(list, LAMBDA t : Map(level, slotOf[<<level, t>>], VSpace(t[1]), t[2]))
  IN  Level("ud", Uds) \o Level("d", Ds) \o Level("pt", Pts)

MapPagesInPlace ==
  [n \in DOMAIN maps |->
     Repeat(Do("PageMap", [page |-> FrameCap(n), vspace |-> VSpace(maps[n].pd),
                           vaddr |-> maps[n].vaddr, perms |-> maps[n].perms]),
            maps[n].mr.count, [page |-> 1])]
MapPages ==
  [n \in DOMAIN maps |->
     Repeat(Do("PageMap", [page |-> FrameCap(n), vspace |-> VSpace(maps[n].pd),
                           vaddr |-> maps[n].vaddr, perms |-> maps[n].perms]),
            maps[n].mr.count, [page |-> 1, vaddr |-> maps[n].mr.page])]

\* handle_timeouts of the parent
TimeoutsHandledOwn(p) == Parented(p) /\ pds[p].timeouts
TimeoutsHandled(p) == Parented(p) /\ pds[pds[p].parent].timeouts

SetSchedParams ==
  Flat(All, LAMBDA p :
    << Do("ConfigureFlags", [sc |-> Sc(p)]) >>
    \o IF TimeoutsHandled(p)
       THEN << Do("SetTimeoutEndpoint", [tcb |-> Tcb(p), fault |-> FaultCap(p)]) >>
       ELSE <<>>)
  \o Each(All, LAMBDA p : Do("SetSchedParams", [tcb |-> Tcb(p), priority |-> pds[p].priority,
                                                sc |-> Sc(p)]))

SetSpaces ==
  AllRepeated(Do("SetSpace", [tcb |-> Tcb(1), fault |-> FaultCap(1), cspace |-> CNode(1),
                              vspace |-> VSpace(1)]),
              [tcb |-> 1, fault |-> 1, cspace |-> 1, vspace |-> 1])

IpcFrameCap(p) ==
  FrameCap(CHOOSE n \in DOMAIN maps : maps[n].pd = p /\ maps[n].mr.name = <<"ipc", p>>)

\* The TCB is not incremented.
SetIpcBuffers ==
  Each(All, LAMBDA p :
    Repeat(Do("SetIPCBuffer", [tcb |-> Tcb(p), buffer |-> TlsEnd, frame |-> IpcFrameCap(p)]),
           Stacks(p), [buffer |-> Page, frame |-> 1]))

WriteRegisters ==
  Each(All, LAMBDA p : Do("WriteRegisters", [tcb |-> Tcb(p), entry |-> Images[pds[p].name].entry,
                                             x0 |-> pds[p].pd_id, x1 |-> 1]))

BindNotifications ==
  AllRepeated(Do("BindNotification", [tcb |-> Tcb(1), notification |-> Ntfn(1)]),
              [tcb |-> 1, notification |-> 1])

SetThreadDomainsFromFirst ==
  Each(WithThreads, LAMBDA p :
    Repeat(Do("DomainSet", [domain |-> pds[p].partition, tcb |-> Thread("thread tcb", p, 0)]),
           Spawnable(p), [tcb |-> 1]))
SetThreadDomains ==
  Each(WithThreads, LAMBDA p :
    Repeat(Do("DomainSet", [domain |-> pds[p].partition,
                            tcb |-> Thread("thread tcb", p, Cardinality(Children(p)))]),
           Spawnable(p), [tcb |-> 1]))

\* The PDs of a partition are taken to be adjacent, in the order of the partitions.
SetDomains ==
  [n \in DOMAIN partitions |->
     Repeat(Do("DomainSet", [domain |-> partitions[n].id,
                             tcb |-> Tcb(1) + Sum(SubSeq(partitions, 1, n - 1), LAMBDA pt : NumPds(pt.id))]),
            NumPds(partitions[n].id), [tcb |-> 1])]

ResumeAll == AllRepeated(Do("Resume", [tcb |-> Tcb(1)]), [tcb |-> 1])
SuspendSelf == <<Do("Suspend", [tcb |-> InitTcb])>>

CapInvocations ==
  Retypes \o CreateIrqHandlers \o AssignAsids \o MintPages \o MintIrqNotifications
  \o MintFaultEndpoints \o MintInput \o MintReply \o MintVSpace \o MintIrqHandlers
  \o SetUpRootCSpaces \o MintChannels \o AssociateIrqs \o MapTables \o MapPages
TcbInvocations ==
  SetSchedParams \o SetSpaces \o SetIpcBuffers \o WriteRegisters \o BindNotifications
  \o SetDomains \o SetThreadDomains
InvocationsResumedFirst == CapInvocations \o ResumeAll \o TcbInvocations \o SuspendSelf
SystemInvocations == CapInvocations \o TcbInvocations \o ResumeAll \o SuspendSelf

-----------------------------------------------------------------------------
(* Building until everything fits *)

\* Only the first slot of a repeated invocation is checked.
SlotsChecked(p) ==
  LET n == pds[p].threads
      ids == {pds[c].pd_id : c \in Children(p)}
  IN  n > 0 => /\ \A t \in ids \cup {Cardinality(ids)} : ThreadReply(n, t) < PdSlots
               /\ \A id \in ids : PdVSpace(n, id) < PdSlots

RegionFound(name) == \E n \in DOMAIN mrs : mrs[n].name = <<"mr", name>>

MakePlan ==
  /\ Build("plan",
       << <<\A n \in DOMAIN maps : maps[n].mr.count > 0, "no pages">>,
          <<\A p \in DOMAIN pds : Parented(p) => NeedsEp(pds[p].parent), "KeyError">>,
          <<\A p \in DOMAIN pds : SlotsChecked(p), "CSpace full">>,
          <<\A p \in DOMAIN pds : \A name \in ToSet(pds[p].setvars) : RegionFound(name), "no region">>,
          <<\A p \in DOMAIN pds : \A name \in ToSet(pds[p].setvars) :
              \A n \in DOMAIN mrs : mrs[n].name = <<"mr", name>> => mrs[n].count > 0, "IndexError">> >>,
       plan' = SystemInvocations, "size", plan)
  /\ UNCHANGED <<objectVars, description>>

TableWords == Sum(plan, Words)
NextPowerDown(n) == Max({m \in {2^k : k \in 0..10} : m <= n})
NextPower(n) == Min({m \in {2^k : k \in 0..10} : m >= n})

\* The loop of main(): a size is never reduced.
Size ==
  /\ pc = "size"
  /\ IF NumberOfCaps <= cnodeSize /\ TableWords <= tablePages * WordsPerPage
     THEN pc' = "link" /\ UNCHANGED <<tablePages, cnodeSize>>
     ELSE /\ pc' = "build"
          /\ tablePages' = Max({tablePages, RoundUp(TableWords, WordsPerPage) \div WordsPerPage})
          /\ cnodeSize' = Max({cnodeSize, NextPower(NumberOfCaps)})
  /\ UNCHANGED <<regions, maps, objects, slotOf, plan, description, raised>>
=============================================================================
