-------------------------------- MODULE SysInit --------------------------------
(***************************************************************************)
(* A system from its description to the first step of its PDs: the tool    *)
(* reads and builds (SystemDescription, ObjectPlan, BuildPlan,             *)
(* LoaderImage), then the init task (sysinit/src/main.c) performs the      *)
(* invocations one iteration at a time and suspends itself.  The kernel is *)
(* not in the repository: an invocation does here what its name and its    *)
(* use say, and fails on what the kernel rejects.                          *)
(***************************************************************************)
EXTENDS LoaderImage

CONSTANTS
  NumDomains  \* KernelNumDomains of build_sdk.py

VARIABLES
  step, iter,  \* the next invocation and iteration of it
  kernel       \* capabilities, TCBs, configured SCs, address spaces and interrupts

vars == <<description, pc, raised, objectVars, plan, step, iter, kernel>>

NoObject == <<>>
NoCap == [obj |-> NoObject, badge |-> 0]
System == <<"system">>

Blank == [sc |-> NoObject, cspace |-> NoObject, vspace |-> NoObject, ntfn |-> NoObject,
          fault |-> NoCap, timeout |-> NoCap, buffer |-> None, frame |-> NoObject, domain |-> 0,
          priority |-> 0, entry |-> None, x0 |-> None, running |-> FALSE]

Init ==
  /\ DescriptionInit /\ ObjectInit /\ plan = <<>>
  /\ step = 1 /\ iter = 0
  /\ kernel = [cspace |-> [cnode \in {System} |-> <<>>], tcb |-> <<>>, configured |-> {},
               mapped |-> <<>>, tables |-> {}, asids |-> {}, irqs |-> <<>>]

-----------------------------------------------------------------------------
(* perform_invocation: one iteration *)

Arg(f) == plan[step].args[f] + IF f \in DOMAIN plan[step].incr THEN iter * plan[step].incr[f] ELSE 0
Value(f) == plan[step].args[f]

Known(addr) == addr \in {SystemCNode, InitTcb, SchedControl} \cup DOMAIN kernel.cspace[System]
CapOf(addr) ==
  CASE addr = SystemCNode -> [obj |-> System, badge |-> 0]
    [] addr = InitTcb -> [obj |-> <<"init">>, badge |-> 0]
    [] addr = SchedControl -> [obj |-> <<"schedcontrol">>, badge |-> 0]
    [] OTHER -> kernel.cspace[System][addr]
Obj(f) == CapOf(Arg(f)).obj
Is(f, types) == Known(Arg(f)) /\ Obj(f)[1] \in types

SlotsOf(cnode) ==
  CASE cnode = System -> FirstSlot..cnodeSize - 1
    [] cnode[1] = "cnode" -> 0..PdSlots - 1
    [] OTHER -> 0..ThreadSlots - 1
Free(cnode, slot) == slot \in SlotsOf(cnode) \ DOMAIN kernel.cspace[cnode]

\* An error stops sysinit, with what it has done so far in effect.
Perform(op, accepted, result) ==
  /\ pc = "boot" /\ plan[step].op = op
  /\ IF accepted
     THEN /\ kernel' = result
          /\ IF iter + 1 < plan[step].count THEN iter' = iter + 1 /\ UNCHANGED step
                                            ELSE iter' = 0 /\ step' = step + 1
          /\ pc' = IF op = "Suspend" THEN "running" ELSE pc
     ELSE pc' = "boot failed" /\ UNCHANGED <<step, iter, kernel>>
  /\ UNCHANGED <<description, raised, objectVars, plan>>

-----------------------------------------------------------------------------
(* Capabilities *)

\* What is there and what is added to it, at other places.
Joined(old, new) == [x \in DOMAIN old \cup DOMAIN new |-> IF x \in DOMAIN old THEN old[x] ELSE new[x]]
Put(cnode, slot, cap) == Joined(kernel.cspace[cnode], [s \in {slot} |-> cap])

Retype ==
  LET list == Value("objects")
      Of(types) == {o \in ToSet(list) : o[1] \in types}
      slots == Arg("dest")..Arg("dest") + Len(list) - 1
      caps == [slot \in slots |-> [obj |-> list[slot - Arg("dest") + 1], badge |-> 0]]
      cspace == [kernel.cspace EXCEPT ![System] = Joined(kernel.cspace[System], caps)]
      old == DOMAIN kernel.tcb
      new == Of({"tcb", "thread tcb"})
  IN  Perform("Retype", \A slot \in slots : Free(System, slot),
        [kernel EXCEPT !.cspace = Joined(cspace, [o \in Of({"cnode", "thread cnode"}) |-> <<>>]),
                       !.tcb = [t \in old \cup new |-> IF t \in old THEN kernel.tcb[t] ELSE Blank],
                       !.mapped = Joined(kernel.mapped, [o \in Of({"vspace"}) |-> {}])])

IrqControlGet ==
  Perform("IrqControlGet", Arg("irq") \notin DOMAIN kernel.irqs /\ Free(System, Arg("dest")),
    [kernel EXCEPT !.cspace[System] = Put(System, Arg("dest"), [obj |-> <<"irq", Arg("irq")>>, badge |-> 0]),
                   !.irqs = Joined(kernel.irqs, [irq \in {Arg("irq")} |-> NoCap])])

\* Only endpoints and notifications have badges.
MintOrCopy(op) ==
  Perform(op, /\ Is("cnode", {"system", "cnode", "thread cnode"}) /\ Known(Arg("src"))
              /\ Free(Obj("cnode"), Arg("dest")),
    [kernel EXCEPT !.cspace[Obj("cnode")] =
       Put(Obj("cnode"), Arg("dest"),
           [obj |-> Obj("src"), badge |-> IF Is("src", {"ep", "ntfn"}) THEN Arg("badge") ELSE 0])])

-----------------------------------------------------------------------------
(* TCBs *)

OnTcb(op, accepted, new(_)) ==
  Perform(op, Is("tcb", {"tcb", "thread tcb"}) /\ accepted,
          [kernel EXCEPT !.tcb[Obj("tcb")] = new(@)])

Unbound(sc) == \A t \in DOMAIN kernel.tcb : kernel.tcb[t].sc # sc

SetCSpace ==
  OnTcb("SetCSpace", Is("cspace", {"cnode", "thread cnode"}),
        LAMBDA t : [t EXCEPT !.cspace = Obj("cspace")])
SetFaultHandler ==
  OnTcb("SetFaultHandler", Is("fault", {"ep"}), LAMBDA t : [t EXCEPT !.fault = CapOf(Arg("fault"))])
SetTimeoutEndpoint ==
  OnTcb("SetTimeoutEndpoint", Is("fault", {"ep"}), LAMBDA t : [t EXCEPT !.timeout = CapOf(Arg("fault"))])
SchedContextBind ==
  OnTcb("SchedContextBind", /\ Is("sc", {"sc", "thread sc"}) /\ Unbound(Obj("sc"))
                            /\ kernel.tcb[Obj("tcb")].sc = NoObject,
        LAMBDA t : [t EXCEPT !.sc = Obj("sc")])
\* A fault endpoint of 0 is none.
SetSchedParamsOf ==
  OnTcb("SetSchedParams", /\ Is("sc", {"sc", "thread sc"}) /\ Unbound(Obj("sc"))
                          /\ kernel.tcb[Obj("tcb")].sc = NoObject,
        LAMBDA t : [t EXCEPT !.sc = Obj("sc"), !.priority = Arg("priority"), !.fault = NoCap])
SetSpace ==
  OnTcb("SetSpace", /\ Is("fault", {"ep"}) /\ Is("cspace", {"cnode"}) /\ Is("vspace", {"vspace"})
                    /\ Obj("vspace") \in kernel.asids,
        LAMBDA t : [t EXCEPT !.fault = CapOf(Arg("fault")), !.cspace = Obj("cspace"),
                             !.vspace = Obj("vspace")])
SetIPCBuffer ==
  OnTcb("SetIPCBuffer", Is("frame", {"page"}),
        LAMBDA t : [t EXCEPT !.buffer = Arg("buffer"), !.frame = Obj("frame")])
WriteRegistersOf ==
  OnTcb("WriteRegisters", TRUE, LAMBDA t : [t EXCEPT !.entry = Arg("entry"), !.x0 = Arg("x0")])
BindNotification ==
  OnTcb("BindNotification", /\ Is("notification", {"ntfn"}) /\ kernel.tcb[Obj("tcb")].ntfn = NoObject
                            /\ \A t \in DOMAIN kernel.tcb : kernel.tcb[t].ntfn # Obj("notification"),
        LAMBDA t : [t EXCEPT !.ntfn = Obj("notification")])
DomainSet ==
  OnTcb("DomainSet", Arg("domain") \in 0..NumDomains - 1, LAMBDA t : [t EXCEPT !.domain = Arg("domain")])
Resume == OnTcb("Resume", TRUE, LAMBDA t : [t EXCEPT !.running = TRUE])

\* The init task's own TCB.
Suspend == Perform("Suspend", TRUE, kernel)

-----------------------------------------------------------------------------
(* Scheduling contexts, interrupts and address spaces *)

ConfigureFlags ==
  Perform("ConfigureFlags", Is("sc", {"sc"}), [kernel EXCEPT !.configured = @ \cup {Obj("sc")}])

IrqSetNotification ==
  Perform("IrqSetNotification", Is("handler", {"irq"}) /\ Is("notification", {"ntfn"}),
          [kernel EXCEPT !.irqs[Obj("handler")[2]] = CapOf(Arg("notification"))])

AsidPoolAssign ==
  Perform("AsidPoolAssign", Is("vspace", {"vspace"}) /\ Obj("vspace") \notin kernel.asids,
          [kernel EXCEPT !.asids = @ \cup {Obj("vspace")}])

\* The tables above one at the address; a table covers the span of an entry above it.
Above(level, vspace, vaddr) ==
  CASE level = "ud" -> {}
    [] level = "d" -> {<<"ud", vspace, RoundDown(vaddr, UpperSpan)>>}
    [] level = "pt" -> {<<"d", vspace, RoundDown(vaddr, DirectorySpan)>>}
    [] level = "page" -> {<<"pt", vspace, RoundDown(vaddr, TableSpan)>>}

TableMap ==
  LET table == <<Value("level"), Obj("vspace"), Arg("vaddr")>>
  IN  Perform("TableMap", /\ Is("table", {Value("level")}) /\ Is("vspace", {"vspace"})
                          /\ Obj("vspace") \in kernel.asids /\ table \notin kernel.tables
                          /\ Above(Value("level"), Obj("vspace"), Arg("vaddr")) \subseteq kernel.tables,
              [kernel EXCEPT !.tables = @ \cup {table}])

Meet(a, b) == a.vaddr < b.vaddr + b.size /\ b.vaddr < a.vaddr + a.size

\* What is mapped already at the addresses of the page is replaced, or the kernel
\* refuses the page: the tool relies on neither.
PageMap(replace) ==
  LET page == [page |-> Obj("page"), vaddr |-> Arg("vaddr"), perms |-> Value("perms"),
               size |-> Region(Obj("page")[2]).page]
      vspace == Obj("vspace")
      large == page.size = LargePage
      pages == {e \in kernel.mapped[vspace] : Meet(e, page)}
      table == {t \in kernel.tables : large /\ t = <<"pt", vspace, page.vaddr>>}
  IN  Perform("PageMap", /\ Is("page", {"page"}) /\ Is("vspace", {"vspace"}) /\ vspace \in kernel.asids
                         /\ pages \cup table # {} => replace
                         /\ Above(IF large THEN "pt" ELSE "page", vspace, page.vaddr) \subseteq kernel.tables,
              [kernel EXCEPT !.mapped[vspace] = (@ \ pages) \cup {page}, !.tables = @ \ table])

-----------------------------------------------------------------------------
SysInitStep ==
  \/ Retype \/ IrqControlGet \/ MintOrCopy("Mint") \/ MintOrCopy("Copy")
  \/ SetCSpace \/ SetFaultHandler \/ SetTimeoutEndpoint \/ SchedContextBind \/ SetSchedParamsOf
  \/ SetSpace \/ SetIPCBuffer \/ WriteRegistersOf \/ BindNotification \/ DomainSet
  \/ Resume \/ Suspend \/ ConfigureFlags \/ IrqSetNotification \/ AsidPoolAssign
  \/ TableMap \/ PageMap(TRUE) \/ PageMap(FALSE)

Ended == pc \in {"refused", "boot failed", "running"}

Next ==
  \/ ReadDescription /\ UNCHANGED <<objectVars, plan, step, iter, kernel>>
  \/ (LayOut \/ MapRegions \/ CollectObjects \/ AllocateObjects) /\ UNCHANGED <<plan, step, iter, kernel>>
  \/ (MakePlan \/ Size \/ Link) /\ UNCHANGED <<step, iter, kernel>>
  \/ SysInitStep
  \/ Ended /\ UNCHANGED vars

Spec == Init /\ [][Next]_vars /\ WF_vars(Next)

-----------------------------------------------------------------------------
(* What the description promises of the system *)

Started == \E t \in DOMAIN kernel.tcb : kernel.tcb[t].running

Tcbs(p) == kernel.tcb[<<"tcb", p>>]
Held(p) == kernel.cspace[<<"cnode", p>>]
Holds(p, slot, obj, badge) == slot \in DOMAIN Held(p) /\ Held(p)[slot] = [obj |-> obj, badge |-> badge]

Everywhere ==
  {"parse", "check", "build", "map", "collect", "allocate", "plan", "size", "link", "boot"}
  \cup {"refused", "boot failed", "running"}

TypeOK ==
  /\ pc \in Everywhere
  /\ pc = "refused" <=> raised # "ok"
  /\ \A p \in DOMAIN pds : /\ pds[p].parent \in 0..p - 1 /\ pds[p].pd_id \in 0..255
                            /\ pds[p].priority \in 0..254 /\ pds[p].threads \in Nat
  /\ step \in 1..Len(plan) + 1 /\ iter \in Nat
  /\ \A cnode \in DOMAIN kernel.cspace :
       \A slot \in DOMAIN kernel.cspace[cnode] :
         /\ slot \in SlotsOf(cnode)
         /\ kernel.cspace[cnode][slot].obj # NoObject /\ kernel.cspace[cnode][slot].badge \in Nat
  /\ \A t \in DOMAIN kernel.tcb : DOMAIN kernel.tcb[t] = DOMAIN Blank

\* Before the first PD runs, every PD has what it needs to run: its own scheduling context,
\* with a budget, CSpace, address space and notification, an entry point, the number its
\* parent knows it by, and an input capability that its notification also arrives at
\* (the TCB part of build_system, lines 1903 to 1970, over the repeated invocations).
Configured ==
  Started => \A p \in DOMAIN pds :
    LET t == Tcbs(p)
    IN  /\ t.sc = <<"sc", p>> /\ t.sc \in kernel.configured /\ t.priority = pds[p].priority
        /\ t.cspace = <<"cnode", p>> /\ t.vspace = <<"vspace", p>> /\ t.ntfn = <<"ntfn", p>>
        /\ t.entry = Images[pds[p].name].entry /\ t.x0 = pds[p].pd_id
        /\ Holds(p, InputSlot, IF NeedsEp(p) THEN <<"ep", p>> ELSE <<"ntfn", p>>, 0)
        /\ Holds(p, ReplySlot, <<"reply", p>>, 0) /\ Holds(p, VSpaceSlot, <<"vspace", p>>, 0)

\* The fault of a child arrives at its parent, under the number that the parent's thread
\* control has for it, and its timeouts do too exactly if the parent handles timeouts;
\* a root PD faults to itself (lines 1449 to 1482 and 1903 to 1938: the copies that
\* are minted one by one and handed out by repeated invocations).
FaultsReachHandler ==
  Started => \A p \in DOMAIN pds :
    LET parent == pds[p].parent
        handler == IF Parented(p) THEN [obj |-> <<"ep", parent>>, badge |-> FaultBadge(pds[p].pd_id)]
                                  ELSE [obj |-> <<"ep", p>>, badge |-> FaultRootBadge]
    IN  /\ Tcbs(p).fault = handler
        /\ Tcbs(p).timeout = IF Parented(p) /\ pds[parent].timeouts THEN handler ELSE NoCap

\* The slots that sel4cp.h computes from libsel4cp_max_threads, which the tool writes into
\* the image.
THREAD_TCB(max, t) == TcbSlot + t
THREAD_SC(max, t) == TcbSlot + max + t
THREAD_CSPACE(max, t) == TcbSlot + max * 2 + t
THREAD_REPLY(max, t) == TcbSlot + max * 3 + t
PD_VSPACE(max, pd) == TcbSlot + max * 4 + pd

\* Thread t of a root PD is one thread, whichever macro of sel4cp.h asks for it: THREAD_TCB(t)
\* is the TCB whose faults have the badge t, THREAD_SC(t) is bound to it, THREAD_CSPACE(t)
\* is its CSpace and calls the root PD as t, no other slot has the reply object of
\* THREAD_REPLY(t), and a thread that is a child PD runs in PD_VSPACE(t).
ThreadCapsAgree ==
  Started => \A p \in DOMAIN pds : \A t \in 0..pds[p].threads - 1 :
    LET max == pds[p].threads
        At(slot) == Held(p)[slot].obj
        tcb == kernel.tcb[At(THREAD_TCB(max, t))]
        root == kernel.cspace[At(THREAD_CSPACE(max, t))]
    IN  /\ {THREAD_TCB(max, t), THREAD_SC(max, t), THREAD_CSPACE(max, t), THREAD_REPLY(max, t)}
             \subseteq DOMAIN Held(p)
        /\ tcb.fault = [obj |-> <<"ep", p>>, badge |-> FaultBadge(t)]
        /\ tcb.sc = At(THREAD_SC(max, t))
        /\ pds[p].root_ppc => /\ root[RootEpSlot] = [obj |-> <<"ep", p>>, badge |-> RootPpcBadge(t)]
                              /\ tcb.cspace = At(THREAD_CSPACE(max, t))
        /\ At(THREAD_REPLY(max, t))[1] \in {"reply", "thread reply"}
        /\ \A slot \in DOMAIN Held(p) \ {THREAD_REPLY(max, t)} : At(slot) # At(THREAD_REPLY(max, t))
        /\ At(THREAD_TCB(max, t))[1] = "tcb" => At(PD_VSPACE(max, t)) = tcb.vspace

\* A channel works in both directions: what a PD signals or calls with its own number arrives
\* at the other end under the other's number, at the notification that is bound to it or at
\* the endpoint it receives on; and an interrupt arrives under its channel number, at the PD
\* that holds its handler (lines 1777 to 1876).
End(a, id, b, idb) ==
  /\ Holds(a, NtfnSlot + id, <<"ntfn", b>>, NtfnBadge(idb)) /\ Tcbs(b).ntfn = <<"ntfn", b>>
  /\ IF pds[b].pp THEN /\ Holds(a, EpSlot + id, <<"ep", b>>, PpcBadge(idb))
                       /\ Held(b)[InputSlot].obj = <<"ep", b>>
                  ELSE EpSlot + id \notin DOMAIN Held(a)
ChannelsConnect ==
  Started =>
    /\ \A cc \in ToSet(channels) : /\ End(Named(cc.a), cc.ida, Named(cc.b), cc.idb)
                                   /\ End(Named(cc.b), cc.idb, Named(cc.a), cc.ida)
    /\ \A p \in DOMAIN pds : \A irq \in ToSet(pds[p].irqs) :
         /\ kernel.irqs[irq.irq] = [obj |-> <<"ntfn", p>>, badge |-> NtfnBadge(irq.id)]
         /\ Holds(p, IrqSlot + irq.id, <<"irq", irq.irq>>, 0)

\* No PD holds what the description does not give it: it holds its own objects, of another PD
\* only what a channel joins it to, the endpoint of a parent that takes calls, and of a child
\* what the control of it needs (all that build_system mints into a PD's CSpace).
Linked(p, q) == \E cc \in ToSet(channels) : {cc.a, cc.b} = {pds[p].name, pds[q].name}
ThreadTypes == <<"thread tcb", "thread sc", "thread cnode", "thread reply">>
Granted(p) ==
  {<<type, p>> : type \in {"reply", "vspace", "ep", "ntfn"}}
  \cup {<<"irq", irq.irq>> : irq \in ToSet(pds[p].irqs)}
  \cup (UNION {{<<"ntfn", q>>} \cup IF pds[q].pp THEN {<<"ep", q>>} ELSE {} :
                q \in {r \in DOMAIN pds : Linked(p, r)}})
  \cup {<<"ep", q>> : q \in {r \in DOMAIN pds : r = pds[p].parent /\ pds[r].root_ppc}}
  \cup {<<"tcb", c>> : c \in Children(p)}
  \cup IF pds[p].threads = 0 THEN {}
       ELSE {<<"cnode", p>>, <<"tcb", p>>, <<"schedcontrol">>}
            \cup {<<type, c>> : type \in {"sc", "cnode", "reply", "vspace"}, c \in Children(p)}
            \cup {<<type, p, t>> : type \in ToSet(ThreadTypes),
                                   t \in Cardinality(Children(p))..pds[p].threads - 1}
OnlyGranted ==
  Started => \A p \in DOMAIN pds : \A slot \in DOMAIN Held(p) : Held(p)[slot].obj \in Granted(p)

\* A badge names one sender: no two capabilities that PDs, threads, fault handlers and
\* interrupts hold of one endpoint or notification have the same badge, and only the owner
\* holds one without a badge.  The identifier that entry points get is read off the badge.
Senders ==
  (UNION {{[by |-> cnode, slot |-> slot, cap |-> kernel.cspace[cnode][slot]] :
             slot \in DOMAIN kernel.cspace[cnode]} : cnode \in DOMAIN kernel.cspace \ {System}})
  \cup {[by |-> t, slot |-> 0, cap |-> kernel.tcb[t].fault] : t \in DOMAIN kernel.tcb}
  \cup {[by |-> <<"irq", irq>>, slot |-> 0, cap |-> kernel.irqs[irq]] : irq \in DOMAIN kernel.irqs}
CallersDistinct ==
  Started => LET senders == {s \in Senders : s.cap.obj # NoObject /\ s.cap.obj[1] \in {"ep", "ntfn"}}
             IN  \A a, b \in senders :
                   /\ a.cap = b.cap => a = b
                   /\ a.cap.badge = 0 => a.by = <<"cnode", a.cap.obj[2]>>

\* Every PD runs in the domain of the partition it is described in, and so do the threads that
\* a root PD controls, if the PDs of a partition are adjacent and in the order of the
\* partitions: the comment at __main__.py:1975-1977 takes that for granted, but top-level PDs,
\* which are in partition 0, can be described before another partition and partition 0 after it.
InPartitionOrder ==
  LET place(p) == CHOOSE n \in DOMAIN partitions : partitions[n].id = pds[p].partition
  IN  \A p, q \in DOMAIN pds : p < q => place(p) <= place(q)
PartitionsKept ==
  Started /\ InPartitionOrder => \A t \in DOMAIN kernel.tcb :
    t[1] = "tcb" \/ t[3] >= Cardinality(Children(t[2])) => kernel.tcb[t].domain = pds[t[2]].partition

\* Maps of one PD that share an address.
Extent(map) == [vaddr |-> map.vaddr, size |-> map.mr.count * map.mr.page]
Apart(p) ==
  \A m, n \in DOMAIN maps :
    m < n /\ maps[m].pd = p /\ maps[n].pd = p => ~Meet(Extent(maps[m]), Extent(maps[n]))

\* sysxml.py:265 "Overlapping memory is checked in the build": what is built does not map
\* two pages of a PD at one address.
MapsApart == pc = "boot" => \A p \in DOMAIN pds : Apart(p)

\* The address space of a PD is the one described: the pages of every region in order at the
\* addresses of its map, with the map's rights, and nothing else; a region that two PDs map is
\* the same memory; and the IPC buffer that the kernel uses is mapped where the PD is told it
\* is (the page objects, their copies and the repeated mappings, lines 1370 to 1421, 1897 to
\* 1901 and 1943 to 1952).
PagesInPlace ==
  Started => \A p \in DOMAIN pds : Apart(p) =>
    /\ kernel.mapped[<<"vspace", p>>] =
         UNION {{[page |-> <<"page", map.mr.name, k>>, vaddr |-> map.vaddr + (k - 1) * map.mr.page,
                  perms |-> map.perms, size |-> map.mr.page] : k \in 1..map.mr.count} :
                map \in {m \in ToSet(maps) : m.pd = p}}
    /\ \E e \in kernel.mapped[<<"vspace", p>>] : e.page = Tcbs(p).frame /\ e.vaddr = Tcbs(p).buffer

\* The C run time of a PD takes the buffer of the thread it is started as, x0, for its IPC
\* buffer (libdummycrt/src/thread.c:44): the kernel must use the same one.  The tool's comment
\* at __main__.py:1942 says that it sets "IPC buffers for each PD".
BufferAgrees == Started => \A p \in DOMAIN pds : Tcbs(p).buffer = TlsEnd + Tcbs(p).x0 * Page

\* What the tool accepts boots, but for the four descriptions that it accepts and the kernel
\* does not: a channel from a PD to itself with one number, maps that share an address, threads
\* for which the root PD's CSpace has no room, and partitions that are not domains.
BootFailsForCause ==
  pc = "boot failed" =>
    \/ \E cc \in ToSet(channels) : cc.a = cc.b /\ cc.ida = cc.idb
    \/ \E p \in DOMAIN pds : ~Apart(p)
    \/ \E p \in DOMAIN pds : pds[p].threads > 0 /\ ThreadReply(pds[p].threads, pds[p].threads - 1) >= PdSlots
    \/ \E n \in DOMAIN partitions : partitions[n].id \notin 0..NumDomains - 1

\* PDs run while the init task is still resuming others: nothing they rely on changes then.
ConfiguredBeforeRunning ==
  [][Started => /\ [kernel' EXCEPT !.tcb = <<>>] = [kernel EXCEPT !.tcb = <<>>]
                /\ \A t \in DOMAIN kernel.tcb :
                     [kernel'.tcb[t] EXCEPT !.running = TRUE] = [kernel.tcb[t] EXCEPT !.running = TRUE]]_vars

\* The loop of the tool ends, and sysinit suspends itself or stops at an error; the fairness
\* is that of two sequential programs that are scheduled.
BootEnds == <>Ended
=============================================================================
