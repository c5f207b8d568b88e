----------------------- MODULE SysInitEffects_proofs -----------------------
(***************************************************************************)
(* Proofs about what the init task leaves behind: an invocation that was   *)
(* performed has taken effect, whatever came after it, every capability    *)
(* and every field of a TCB comes from an invocation, and all of it has    *)
(* its type.                                                               *)
(***************************************************************************)
EXTENDS SysInit_proofs

-----------------------------------------------------------------------------
(* The iterations that were performed *)

ArgAt(m, i, f) == plan[m].args[f] + IF f \in DOMAIN plan[m].incr THEN i * plan[m].incr[f] ELSE 0
CapAt(m, i, f) == CapOf(ArgAt(m, i, f))

Done(m, i) == /\ m \in 1..Len(plan) /\ i \in 0..plan[m].count - 1
              /\ (m < step \/ (m = step /\ i < iter))

\* The arguments that are capabilities.
CapArgs(op) ==
  CASE op \in {"Mint", "Copy"} -> {"cnode", "src"}
    [] op = "SetCSpace" -> {"tcb", "cspace"}
    [] op \in {"SetFaultHandler", "SetTimeoutEndpoint"} -> {"tcb", "fault"}
    [] op \in {"SchedContextBind", "SetSchedParams"} -> {"tcb", "sc"}
    [] op = "SetSpace" -> {"tcb", "fault", "cspace", "vspace"}
    [] op = "SetIPCBuffer" -> {"tcb", "frame"}
    [] op \in {"WriteRegisters", "DomainSet", "Resume"} -> {"tcb"}
    [] op = "BindNotification" -> {"tcb", "notification"}
    [] op = "ConfigureFlags" -> {"sc"}
    [] op = "IrqSetNotification" -> {"handler", "notification"}
    [] OTHER -> {}

\* What an iteration writes into its TCB: these fields, these values.
TcbOps == {"SetCSpace", "SetFaultHandler", "SetTimeoutEndpoint", "SchedContextBind", "SetSchedParams",
           "SetSpace", "SetIPCBuffer", "WriteRegisters", "BindNotification", "DomainSet", "Resume"}
Fresh(m, i) ==
  LET op == plan[m].op
      cap(f) == CapAt(m, i, f)
  IN  CASE op = "SetCSpace" -> [cspace |-> cap("cspace").obj]
        [] op = "SetFaultHandler" -> [fault |-> cap("fault")]
        [] op = "SetTimeoutEndpoint" -> [timeout |-> cap("fault")]
        [] op = "SchedContextBind" -> [sc |-> cap("sc").obj]
        [] op = "SetSchedParams" -> [sc |-> cap("sc").obj, priority |-> ArgAt(m, i, "priority"), fault |-> NoCap]
        [] op = "SetSpace" -> [fault |-> cap("fault"), cspace |-> cap("cspace").obj, vspace |-> cap("vspace").obj]
        [] op = "SetIPCBuffer" -> [buffer |-> ArgAt(m, i, "buffer"), frame |-> cap("frame").obj]
        [] op = "WriteRegisters" -> [entry |-> ArgAt(m, i, "entry"), x0 |-> ArgAt(m, i, "x0")]
        [] op = "BindNotification" -> [ntfn |-> cap("notification").obj]
        [] op = "DomainSet" -> [domain |-> ArgAt(m, i, "domain")]
        [] op = "Resume" -> [running |-> TRUE]

\* What an iteration of Mint or Copy puts into a slot.
MintedCap(m, i) ==
  LET src == CapAt(m, i, "src")
  IN  [obj |-> src.obj, badge |-> IF src.obj[1] \in {"ep", "ntfn"} THEN ArgAt(m, i, "badge") ELSE 0]
Mints(m, i) == Done(m, i) /\ plan[m].op \in {"Mint", "Copy"}

Has(cnode, slot, cap) ==
  /\ cnode \in DOMAIN kernel.cspace /\ slot \in DOMAIN kernel.cspace[cnode]
  /\ kernel.cspace[cnode][slot] = cap

ArgsKnown == \A m, i : Done(m, i) => \A f \in CapArgs(plan[m].op) : Known(ArgAt(m, i, f))

\* The TCB that was written and the interrupt that was set are there.
TargetsThere ==
  \A m, i : Done(m, i) =>
    /\ plan[m].op \in TcbOps => CapAt(m, i, "tcb").obj \in DOMAIN kernel.tcb
    /\ plan[m].op = "IrqSetNotification" => CapAt(m, i, "handler").obj[2] \in DOMAIN kernel.irqs

\* There is an object behind a capability.
Backed ==
  /\ System \in DOMAIN kernel.cspace
  /\ \A slot \in DOMAIN kernel.cspace[System] :
       LET obj == kernel.cspace[System][slot].obj
       IN  /\ slot \in Nat /\ (obj[1] = "system" => obj = System)
           /\ obj[1] \in {"cnode", "thread cnode"} => obj \in DOMAIN kernel.cspace
           /\ obj[1] \in {"tcb", "thread tcb"} => obj \in DOMAIN kernel.tcb
           /\ obj[1] = "irq" => obj[2] \in DOMAIN kernel.irqs

\* What the tool has for Retype: objects that only Retype makes.
Retypable(inv) ==
  inv.op = "Retype" => /\ inv.incr = <<>> /\ inv.args.dest \in Nat /\ IsList(inv.args.objects)
                       /\ \A o \in ToSet(inv.args.objects) : o[1] \notin {"system", "irq"}

Retyped ==
  \A m, i : Done(m, i) /\ plan[m].op = "Retype" =>
    LET list == plan[m].args.objects
    IN  \A j \in 1..Len(list) : Has(System, ArgAt(m, i, "dest") + j - 1, [obj |-> list[j], badge |-> 0])
IrqsTaken ==
  \A m, i : Done(m, i) /\ plan[m].op = "IrqControlGet" =>
    Has(System, ArgAt(m, i, "dest"), [obj |-> <<"irq", ArgAt(m, i, "irq")>>, badge |-> 0])
Minted ==
  \A m, i : Mints(m, i) =>
    Has(CapAt(m, i, "cnode").obj, ArgAt(m, i, "dest"), MintedCap(m, i))

\* Nothing else is in the CSpaces of PDs and threads.
MintedOnly ==
  \A cnode \in DOMAIN kernel.cspace \ {System} : \A slot \in DOMAIN kernel.cspace[cnode] :
    \E m, i : /\ Mints(m, i) /\ CapAt(m, i, "cnode").obj = cnode /\ ArgAt(m, i, "dest") = slot
              /\ kernel.cspace[cnode][slot] = MintedCap(m, i)

\* A field of a TCB is what was written last.
Writes(m, i, t, f) ==
  /\ Done(m, i) /\ plan[m].op \in TcbOps /\ CapAt(m, i, "tcb").obj = t /\ f \in DOMAIN Fresh(m, i)
LastWritten ==
  \A t \in DOMAIN kernel.tcb : \A f \in TcbFields :
    \/ kernel.tcb[t][f] = Blank[f] /\ \A m, i : ~Writes(m, i, t, f)
    \/ \E m, i : /\ Writes(m, i, t, f) /\ kernel.tcb[t][f] = Fresh(m, i)[f]
                 /\ \A n, j : Writes(n, j, t, f) => n <= m

Budgeted == \A m, i : Done(m, i) /\ plan[m].op = "ConfigureFlags" => CapAt(m, i, "sc").obj \in kernel.configured

Sets(m, i, irq) == Done(m, i) /\ plan[m].op = "IrqSetNotification" /\ CapAt(m, i, "handler").obj[2] = irq
IrqsSet ==
  \A irq \in DOMAIN kernel.irqs :
    \/ kernel.irqs[irq] = NoCap /\ \A m, i : ~Sets(m, i, irq)
    \/ \E m, i : Sets(m, i, irq) /\ kernel.irqs[irq] = CapAt(m, i, "notification")

Booting == {"boot", "boot failed", "running"}
Bare == [cspace |-> [cnode \in {System} |-> <<>>], tcb |-> <<>>, configured |-> {},
         mapped |-> <<>>, tables |-> {}, asids |-> {}, irqs |-> <<>>]
Counted ==
  /\ pc \notin Booting => step = 1 /\ iter = 0 /\ kernel = Bare
  /\ pc \in Booting => /\ InOrderToStart(plan) /\ step \in 1..Len(plan) + 1 /\ iter \in Nat
                       /\ \A m \in 1..Len(plan) : Started /\ plan[m].op \notin Starts => m < step
  /\ pc = "boot" => step <= Len(plan) /\ iter < plan[step].count

Effects ==
  /\ ArgsKnown /\ TargetsThere /\ Backed /\ Retyped /\ IrqsTaken /\ Minted /\ MintedOnly /\ LastWritten /\ Budgeted /\ IrqsSet

-----------------------------------------------------------------------------
(* One iteration more *)

\* The next iteration is that of the invocation, or the first of the next one.
Advance ==
  /\ IF iter + 1 < plan[step].count THEN iter' = iter + 1 /\ step' = step ELSE iter' = 0 /\ step' = step + 1
  /\ pc' = IF plan[step].op = "Suspend" THEN "running" ELSE "boot"
Halt == UNCHANGED <<kernel, step, iter>> /\ pc' = "boot failed"

\* An iteration is refused, or it has its result.
Outcome(op, accepted, result) ==
  /\ pc = "boot" /\ plan[step].op = op /\ UNCHANGED <<description, raised, objectVars, plan>>
  /\ Halt \/ (accepted /\ Advance /\ kernel' = result)

LEMMA PerformOutcome ==
  ASSUME NEW STATE op, NEW STATE accepted, NEW STATE result, Perform(op, accepted, result)
  PROVE  Outcome(op, accepted, result)
<1>1. CASE accepted
  BY <1>1 DEF Perform, Outcome, Advance
<1>2. CASE ~accepted
  BY <1>2 DEF Perform, Outcome, Halt
<1> QED
  BY <1>1, <1>2

\* The invocation at hand.
LEMMA ArgHere == \A f : Arg(f) = ArgAt(step, iter, f) /\ Obj(f) = CapAt(step, iter, f).obj
BY DEF Arg, Obj, ArgAt, CapAt

-----------------------------------------------------------------------------
(* What an iteration does to the kernel *)

CapsKnown == \A f \in CapArgs(plan[step].op) : Known(ArgAt(step, iter, f))

\* It writes the fields of a TCB, ...
TcbDeed ==
  LET tcb == CapAt(step, iter, "tcb").obj
      fresh == Fresh(step, iter)
  IN  /\ plan[step].op \in TcbOps /\ tcb \in DOMAIN kernel.tcb
      /\ kernel'.cspace = kernel.cspace /\ kernel'.configured = kernel.configured /\ kernel'.irqs = kernel.irqs
      /\ DOMAIN kernel'.tcb = DOMAIN kernel.tcb
      /\ \A t \in DOMAIN kernel.tcb \ {tcb} : kernel'.tcb[t] = kernel.tcb[t]
      /\ DOMAIN kernel'.tcb[tcb] = TcbFields
      /\ \A f \in TcbFields \ DOMAIN fresh : kernel'.tcb[tcb][f] = kernel.tcb[tcb][f]
      /\ \A f \in TcbFields \cap DOMAIN fresh : kernel'.tcb[tcb][f] = fresh[f]
\* ... puts a capability into a slot that was free, ...
MintDeed ==
  LET cnode == CapAt(step, iter, "cnode").obj
      dest == ArgAt(step, iter, "dest")
      cap == MintedCap(step, iter)
  IN  /\ plan[step].op \in {"Mint", "Copy"} /\ cnode \in DOMAIN kernel.cspace
      /\ dest \in SlotsOf(cnode) \ DOMAIN kernel.cspace[cnode] /\ (cnode = System => dest \in Nat)
      /\ DOMAIN kernel'.cspace = DOMAIN kernel.cspace
      /\ \A c \in DOMAIN kernel.cspace \ {cnode} : kernel'.cspace[c] = kernel.cspace[c]
      /\ DOMAIN kernel'.cspace[cnode] = DOMAIN kernel.cspace[cnode] \cup {dest}
      /\ \A slot \in DOMAIN kernel.cspace[cnode] : kernel'.cspace[cnode][slot] = kernel.cspace[cnode][slot]
      /\ kernel'.cspace[cnode][dest] = cap
      /\ kernel'.tcb = kernel.tcb /\ kernel'.configured = kernel.configured /\ kernel'.irqs = kernel.irqs
\* ... makes objects, ...
RetypeDeed ==
  LET list == plan[step].args.objects
      first == ArgAt(step, iter, "dest")
      slots == first..first + Len(list) - 1
      Of(types) == {o \in ToSet(list) : o[1] \in types}
      cnodes == Of({"cnode", "thread cnode"})
      old == DOMAIN kernel.cspace[System]
  IN  /\ plan[step].op = "Retype" /\ slots \cap old = {} /\ slots \subseteq Nat /\ slots \subseteq SlotsOf(System)
      /\ DOMAIN kernel'.cspace = DOMAIN kernel.cspace \cup cnodes
      /\ \A c \in DOMAIN kernel.cspace \ {System} : kernel'.cspace[c] = kernel.cspace[c]
      /\ \A c \in cnodes \ DOMAIN kernel.cspace : kernel'.cspace[c] = <<>>
      /\ DOMAIN kernel'.cspace[System] = old \cup slots
      /\ \A slot \in old : kernel'.cspace[System][slot] = kernel.cspace[System][slot]
      /\ \A slot \in slots : kernel'.cspace[System][slot] = [obj |-> list[slot - first + 1], badge |-> 0]
      /\ DOMAIN kernel'.tcb = DOMAIN kernel.tcb \cup Of({"tcb", "thread tcb"})
      /\ \A t \in DOMAIN kernel'.tcb : kernel'.tcb[t] = IF t \in DOMAIN kernel.tcb THEN kernel.tcb[t] ELSE Blank
      /\ kernel'.configured = kernel.configured /\ kernel'.irqs = kernel.irqs
\* ... makes the handler of an interrupt, ...
IrqDeed ==
  LET irq == ArgAt(step, iter, "irq")
      dest == ArgAt(step, iter, "dest")
      old == DOMAIN kernel.cspace[System]
  IN  /\ plan[step].op = "IrqControlGet" /\ irq \notin DOMAIN kernel.irqs /\ dest \in Nat \ old /\ dest \in SlotsOf(System)
      /\ DOMAIN kernel'.cspace = DOMAIN kernel.cspace
      /\ \A c \in DOMAIN kernel.cspace \ {System} : kernel'.cspace[c] = kernel.cspace[c]
      /\ DOMAIN kernel'.cspace[System] = old \cup {dest}
      /\ \A slot \in old : kernel'.cspace[System][slot] = kernel.cspace[System][slot]
      /\ kernel'.cspace[System][dest] = [obj |-> <<"irq", irq>>, badge |-> 0]
      /\ DOMAIN kernel'.irqs = DOMAIN kernel.irqs \cup {irq} /\ kernel'.irqs[irq] = NoCap
      /\ \A i \in DOMAIN kernel.irqs : kernel'.irqs[i] = kernel.irqs[i]
      /\ kernel'.tcb = kernel.tcb /\ kernel'.configured = kernel.configured
\* ... gives a scheduling context its budget, ...
FlagsDeed ==
  /\ plan[step].op = "ConfigureFlags"
  /\ kernel'.configured = kernel.configured \cup {CapAt(step, iter, "sc").obj}
  /\ kernel'.cspace = kernel.cspace /\ kernel'.tcb = kernel.tcb /\ kernel'.irqs = kernel.irqs
\* ... gives an interrupt its notification, or does something else.
NotifyDeed ==
  LET irq == CapAt(step, iter, "handler").obj[2]
  IN  /\ plan[step].op = "IrqSetNotification" /\ irq \in DOMAIN kernel.irqs
      /\ kernel'.irqs = [kernel.irqs EXCEPT ![irq] = CapAt(step, iter, "notification")]
      /\ kernel'.cspace = kernel.cspace /\ kernel'.tcb = kernel.tcb /\ kernel'.configured = kernel.configured
OtherDeed ==
  /\ plan[step].op \in {"Suspend", "AsidPoolAssign", "TableMap", "PageMap"}
  /\ kernel'.cspace = kernel.cspace /\ kernel'.tcb = kernel.tcb /\ kernel'.configured = kernel.configured
  /\ kernel'.irqs = kernel.irqs

Deed == TcbDeed \/ MintDeed \/ RetypeDeed \/ IrqDeed \/ FlagsDeed \/ NotifyDeed \/ OtherDeed
Taken ==
  /\ pc = "boot" /\ UNCHANGED <<description, raised, objectVars, plan>>
  /\ Halt \/ (Advance /\ CapsKnown /\ Deed)

\* A capability that is known in the place of an argument is in the system CNode, or is one of
\* the init task's own; the TCB and the CNodes that are used exist.
LEMMA KnownObject ==
  ASSUME Backed, NEW f, NEW types, Is(f, types)
  PROVE  /\ Known(ArgAt(step, iter, f)) /\ CapAt(step, iter, f).obj[1] \in types
         /\ types = {"tcb", "thread tcb"} => CapAt(step, iter, f).obj \in DOMAIN kernel.tcb
         /\ types = {"irq"} => CapAt(step, iter, f).obj[2] \in DOMAIN kernel.irqs
         /\ types = {"system", "cnode", "thread cnode"} => CapAt(step, iter, f).obj \in DOMAIN kernel.cspace
<1> DEFINE a == ArgAt(step, iter, f)
           cap == CapOf(a)
<1>1. Known(a) /\ cap.obj[1] \in types /\ CapAt(step, iter, f) = cap /\ a = ArgAt(step, iter, f)
  BY ArgHere DEF Is, CapAt
<1>2. CASE a = SystemCNode
  <2>1. cap = [obj |-> System, badge |-> 0]
    BY <1>2 DEF CapOf, SystemCNode, InitTcb, SchedControl
  <2>2. cap.obj = System /\ cap.obj[1] = "system"
    BY <2>1 DEF System
  <2> HIDE DEF cap, a
  <2> QED
    BY <1>1, <2>2 DEF Backed
<1>3. CASE a \in {InitTcb, SchedControl}
  <2>1. a # SystemCNode /\ InitTcb # SchedControl
    BY <1>3 DEF InitTcb, SystemCNode, SchedControl
  <2>2. cap = [obj |-> IF a = InitTcb THEN <<"init">> ELSE <<"schedcontrol">>, badge |-> 0]
    BY <1>3, <2>1 DEF CapOf, SystemCNode, InitTcb, SchedControl
  <2>3. cap.obj[1] \in {"init", "schedcontrol"}
    BY <2>2
  <2> HIDE DEF cap, a
  <2> QED
    BY <1>1, <2>3
<1>4. CASE a \notin {SystemCNode, InitTcb, SchedControl}
  <2>1. cap = kernel.cspace[System][a] /\ a \in DOMAIN kernel.cspace[System]
    BY <1>1, <1>4 DEF CapOf, Known
  <2>2. /\ cap.obj[1] \in {"cnode", "thread cnode"} => cap.obj \in DOMAIN kernel.cspace
        /\ cap.obj[1] \in {"tcb", "thread tcb"} => cap.obj \in DOMAIN kernel.tcb
        /\ cap.obj[1] = "irq" => cap.obj[2] \in DOMAIN kernel.irqs
        /\ cap.obj[1] = "system" => cap.obj = System
        /\ System \in DOMAIN kernel.cspace
    BY <2>1 DEF Backed
  <2> HIDE DEF cap, a
  <2> QED
    BY <1>1, <2>2
<1> QED
  BY <1>2, <1>3, <1>4

\* A TCB with what the iteration writes.
WrittenFrom(x, tcb) ==
  DOMAIN kernel.tcb[x] = TcbFields => DOMAIN tcb = TcbFields /\ \A f \in TcbFields :
    tcb[f] = IF f \in DOMAIN Fresh(step, iter) THEN Fresh(step, iter)[f] ELSE kernel.tcb[x][f]

\* An iteration that is accepted writes what it should into a TCB that is there.
LEMMA TcbWrittenTo ==
  ASSUME KernelOk, Backed, NEW STATE x, NEW STATE tcb, x = Obj("tcb"), plan[step].op \in TcbOps,
         Is("tcb", {"tcb", "thread tcb"}), kernel' = [kernel EXCEPT !.tcb[x] = tcb],
         WrittenFrom(x, tcb)
  PROVE  TcbDeed
<1> DEFINE fresh == Fresh(step, iter)
<1>1. x = CapAt(step, iter, "tcb").obj
  BY ArgHere
<1>2. x \in DOMAIN kernel.tcb
  BY <1>1, KnownObject
<1>3. DOMAIN tcb = TcbFields /\ \A f \in TcbFields : tcb[f] = IF f \in DOMAIN fresh THEN fresh[f] ELSE kernel.tcb[x][f]
  BY <1>2 DEF KernelOk, WrittenFrom
<1> HIDE DEF fresh
<1>4. /\ kernel'.cspace = kernel.cspace /\ kernel'.configured = kernel.configured
      /\ kernel'.irqs = kernel.irqs /\ kernel'.tcb = [kernel.tcb EXCEPT ![x] = tcb]
  BY DEF KernelOk, KernelFields
<1>5. /\ DOMAIN kernel'.tcb = DOMAIN kernel.tcb /\ kernel'.tcb[x] = tcb
      /\ \A t \in DOMAIN kernel.tcb \ {x} : kernel'.tcb[t] = kernel.tcb[t]
  BY <1>2, <1>4
<1>6. /\ \A f \in TcbFields \ DOMAIN fresh : kernel'.tcb[x][f] = kernel.tcb[x][f]
      /\ \A f \in TcbFields \cap DOMAIN fresh : kernel'.tcb[x][f] = fresh[f]
  BY <1>3, <1>5
<1> QED
  BY <1>1, <1>2, <1>3, <1>4, <1>5, <1>6 DEF TcbDeed, fresh

LEMMA SetCSpaceTaken ==
  ASSUME KernelOk, Backed, SetCSpace
  PROVE  Taken
<1> DEFINE x == Obj("tcb")
           tcb == [kernel.tcb[x] EXCEPT !.cspace = Obj("cspace")]
           fresh == [cspace |-> CapAt(step, iter, "cspace").obj]
           accepted == /\ Is("tcb", {"tcb", "thread tcb"})
                       /\ Is("cspace", {"cnode", "thread cnode"})
           result == [kernel EXCEPT !.tcb[x] = tcb]
<1>1. Perform("SetCSpace", accepted, result)
  BY DEF SetCSpace, OnTcb
<1>2. accepted => Is("tcb", {"tcb", "thread tcb"})
  OBVIOUS
<1>3. plan[step].op = "SetCSpace"
  BY <1>1 DEF Perform
<1>4. accepted => CapsKnown
  BY <1>3, ArgHere DEF CapsKnown, CapArgs, Is
<1>5. Fresh(step, iter) = fresh
  BY <1>3 DEF Fresh
<1>6. DOMAIN kernel.tcb[x] = TcbFields => \A f \in TcbFields :
        tcb[f] = IF f \in DOMAIN fresh THEN fresh[f] ELSE kernel.tcb[x][f]
  <2> SUFFICES ASSUME DOMAIN kernel.tcb[x] = TcbFields
               PROVE  \A f \in TcbFields :
                        tcb[f] = IF f \in DOMAIN fresh THEN fresh[f] ELSE kernel.tcb[x][f]
    OBVIOUS
  <2>1. Obj("cspace") = CapAt(step, iter, "cspace").obj
    BY ArgHere
  <2> HIDE DEF x
  <2>2. ASSUME NEW f \in TcbFields
        PROVE  tcb[f] = IF f \in DOMAIN fresh THEN fresh[f] ELSE kernel.tcb[x][f]
    <3>1. DOMAIN fresh = {"cspace"}
      OBVIOUS
    <3>2. tcb.cspace = Obj("cspace")
      BY DEF TcbFields
    <3>3. fresh.cspace = CapAt(step, iter, "cspace").obj
      OBVIOUS
    <3>4. CASE f \in DOMAIN fresh
      <4> HIDE DEF tcb, fresh
      <4> QED
        BY <2>1, <3>1, <3>2, <3>3, <3>4
    <3>5. CASE f \notin DOMAIN fresh
      BY <3>1, <3>5
    <3> QED
      BY <3>4, <3>5
  <2> QED
    BY <2>2
<1> HIDE DEF accepted, tcb, fresh, x
<1>7. WrittenFrom(x, tcb)
  BY <1>5, <1>6 DEF WrittenFrom, tcb
<1>8. ASSUME accepted, Advance, kernel' = result
      PROVE  TcbDeed
  <2>1. x = Obj("tcb") /\ plan[step].op \in TcbOps
    BY <1>3 DEF x, TcbOps
  <2> QED
    BY <1>2, <1>7, <1>8, <2>1, TcbWrittenTo
<1> HIDE DEF result
<1>9. Outcome("SetCSpace", accepted, result)
  BY <1>1, PerformOutcome
<1> QED
  BY <1>4, <1>8, <1>9 DEF Outcome, Taken, Deed

LEMMA SetFaultHandlerTaken ==
  ASSUME KernelOk, Backed, SetFaultHandler
  PROVE  Taken
<1> DEFINE x == Obj("tcb")
           tcb == [kernel.tcb[x] EXCEPT !.fault = CapOf(Arg("fault"))]
           fresh == [fault |-> CapAt(step, iter, "fault")]
           accepted == /\ Is("tcb", {"tcb", "thread tcb"})
                       /\ Is("fault", {"ep"})
           result == [kernel EXCEPT !.tcb[x] = tcb]
<1>1. Perform("SetFaultHandler", accepted, result)
  BY DEF SetFaultHandler, OnTcb
<1>2. accepted => Is("tcb", {"tcb", "thread tcb"})
  OBVIOUS
<1>3. plan[step].op = "SetFaultHandler"
  BY <1>1 DEF Perform
<1>4. accepted => CapsKnown
  BY <1>3, ArgHere DEF CapsKnown, CapArgs, Is
<1>5. Fresh(step, iter) = fresh
  BY <1>3 DEF Fresh
<1>6. DOMAIN kernel.tcb[x] = TcbFields => \A f \in TcbFields :
        tcb[f] = IF f \in DOMAIN fresh THEN fresh[f] ELSE kernel.tcb[x][f]
  <2> SUFFICES ASSUME DOMAIN kernel.tcb[x] = TcbFields
               PROVE  \A f \in TcbFields :
                        tcb[f] = IF f \in DOMAIN fresh THEN fresh[f] ELSE kernel.tcb[x][f]
    OBVIOUS
  <2>1. CapOf(Arg("fault")) = CapAt(step, iter, "fault")
    BY ArgHere DEF CapAt
  <2> HIDE DEF x
  <2>2. ASSUME NEW f \in TcbFields
        PROVE  tcb[f] = IF f \in DOMAIN fresh THEN fresh[f] ELSE kernel.tcb[x][f]
    <3>1. DOMAIN fresh = {"fault"}
      OBVIOUS
    <3>2. tcb.fault = CapOf(Arg("fault"))
      BY DEF TcbFields
    <3>3. fresh.fault = CapAt(step, iter, "fault")
      OBVIOUS
    <3>4. CASE f \in DOMAIN fresh
      <4> HIDE DEF tcb, fresh
      <4> QED
        BY <2>1, <3>1, <3>2, <3>3, <3>4
    <3>5. CASE f \notin DOMAIN fresh
      BY <3>1, <3>5
    <3> QED
      BY <3>4, <3>5
  <2> QED
    BY <2>2
<1> HIDE DEF accepted, tcb, fresh, x
<1>7. WrittenFrom(x, tcb)
  BY <1>5, <1>6 DEF WrittenFrom, tcb
<1>8. ASSUME accepted, Advance, kernel' = result
      PROVE  TcbDeed
  <2>1. x = Obj("tcb") /\ plan[step].op \in TcbOps
    BY <1>3 DEF x, TcbOps
  <2> QED
    BY <1>2, <1>7, <1>8, <2>1, TcbWrittenTo
<1> HIDE DEF result
<1>9. Outcome("SetFaultHandler", accepted, result)
  BY <1>1, PerformOutcome
<1> QED
  BY <1>4, <1>8, <1>9 DEF Outcome, Taken, Deed

LEMMA SetTimeoutEndpointTaken ==
  ASSUME KernelOk, Backed, SetTimeoutEndpoint
  PROVE  Taken
<1> DEFINE x == Obj("tcb")
           tcb == [kernel.tcb[x] EXCEPT !.timeout = CapOf(Arg("fault"))]
           fresh == [timeout |-> CapAt(step, iter, "fault")]
           accepted == /\ Is("tcb", {"tcb", "thread tcb"})
                       /\ Is("fault", {"ep"})
           result == [kernel EXCEPT !.tcb[x] = tcb]
<1>1. Perform("SetTimeoutEndpoint", accepted, result)
  BY DEF SetTimeoutEndpoint, OnTcb
<1>2. accepted => Is("tcb", {"tcb", "thread tcb"})
  OBVIOUS
<1>3. plan[step].op = "SetTimeoutEndpoint"
  BY <1>1 DEF Perform
<1>4. accepted => CapsKnown
  BY <1>3, ArgHere DEF CapsKnown, CapArgs, Is
<1>5. Fresh(step, iter) = fresh
  BY <1>3 DEF Fresh
<1>6. DOMAIN kernel.tcb[x] = TcbFields => \A f \in TcbFields :
        tcb[f] = IF f \in DOMAIN fresh THEN fresh[f] ELSE kernel.tcb[x][f]
  <2> SUFFICES ASSUME DOMAIN kernel.tcb[x] = TcbFields
               PROVE  \A f \in TcbFields :
                        tcb[f] = IF f \in DOMAIN fresh THEN fresh[f] ELSE kernel.tcb[x][f]
    OBVIOUS
  <2>1. CapOf(Arg("fault")) = CapAt(step, iter, "fault")
    BY ArgHere DEF CapAt
  <2> HIDE DEF x
  <2>2. ASSUME NEW f \in TcbFields
        PROVE  tcb[f] = IF f \in DOMAIN fresh THEN fresh[f] ELSE kernel.tcb[x][f]
    <3>1. DOMAIN fresh = {"timeout"}
      OBVIOUS
    <3>2. tcb.timeout = CapOf(Arg("fault"))
      BY DEF TcbFields
    <3>3. fresh.timeout = CapAt(step, iter, "fault")
      OBVIOUS
    <3>4. CASE f \in DOMAIN fresh
      <4> HIDE DEF tcb, fresh
      <4> QED
        BY <2>1, <3>1, <3>2, <3>3, <3>4
    <3>5. CASE f \notin DOMAIN fresh
      BY <3>1, <3>5
    <3> QED
      BY <3>4, <3>5
  <2> QED
    BY <2>2
<1> HIDE DEF accepted, tcb, fresh, x
<1>7. WrittenFrom(x, tcb)
  BY <1>5, <1>6 DEF WrittenFrom, tcb
<1>8. ASSUME accepted, Advance, kernel' = result
      PROVE  TcbDeed
  <2>1. x = Obj("tcb") /\ plan[step].op \in TcbOps
    BY <1>3 DEF x, TcbOps
  <2> QED
    BY <1>2, <1>7, <1>8, <2>1, TcbWrittenTo
<1> HIDE DEF result
<1>9. Outcome("SetTimeoutEndpoint", accepted, result)
  BY <1>1, PerformOutcome
<1> QED
  BY <1>4, <1>8, <1>9 DEF Outcome, Taken, Deed

LEMMA SchedContextBindTaken ==
  ASSUME KernelOk, Backed, SchedContextBind
  PROVE  Taken
<1> DEFINE x == Obj("tcb")
           tcb == [kernel.tcb[x] EXCEPT !.sc = Obj("sc")]
           fresh == [sc |-> CapAt(step, iter, "sc").obj]
           accepted == /\ Is("tcb", {"tcb", "thread tcb"})
                       /\ Is("sc", {"sc", "thread sc"})
                       /\ Unbound(Obj("sc"))
                       /\ kernel.tcb[x].sc = NoObject
           result == [kernel EXCEPT !.tcb[x] = tcb]
<1>1. Perform("SchedContextBind", accepted, result)
  BY DEF SchedContextBind, OnTcb
<1>2. accepted => Is("tcb", {"tcb", "thread tcb"})
  OBVIOUS
<1>3. plan[step].op = "SchedContextBind"
  BY <1>1 DEF Perform
<1>4. accepted => CapsKnown
  BY <1>3, ArgHere DEF CapsKnown, CapArgs, Is
<1>5. Fresh(step, iter) = fresh
  BY <1>3 DEF Fresh
<1>6. DOMAIN kernel.tcb[x] = TcbFields => \A f \in TcbFields :
        tcb[f] = IF f \in DOMAIN fresh THEN fresh[f] ELSE kernel.tcb[x][f]
  <2> SUFFICES ASSUME DOMAIN kernel.tcb[x] = TcbFields
               PROVE  \A f \in TcbFields :
                        tcb[f] = IF f \in DOMAIN fresh THEN fresh[f] ELSE kernel.tcb[x][f]
    OBVIOUS
  <2>1. Obj("sc") = CapAt(step, iter, "sc").obj
    BY ArgHere
  <2> HIDE DEF x
  <2>2. ASSUME NEW f \in TcbFields
        PROVE  tcb[f] = IF f \in DOMAIN fresh THEN fresh[f] ELSE kernel.tcb[x][f]
    <3>1. DOMAIN fresh = {"sc"}
      OBVIOUS
    <3>2. tcb.sc = Obj("sc")
      BY DEF TcbFields
    <3>3. fresh.sc = CapAt(step, iter, "sc").obj
      OBVIOUS
    <3>4. CASE f \in DOMAIN fresh
      <4> HIDE DEF tcb, fresh
      <4> QED
        BY <2>1, <3>1, <3>2, <3>3, <3>4
    <3>5. CASE f \notin DOMAIN fresh
      BY <3>1, <3>5
    <3> QED
      BY <3>4, <3>5
  <2> QED
    BY <2>2
<1> HIDE DEF accepted, tcb, fresh, x
<1>7. WrittenFrom(x, tcb)
  BY <1>5, <1>6 DEF WrittenFrom, tcb
<1>8. ASSUME accepted, Advance, kernel' = result
      PROVE  TcbDeed
  <2>1. x = Obj("tcb") /\ plan[step].op \in TcbOps
    BY <1>3 DEF x, TcbOps
  <2> QED
    BY <1>2, <1>7, <1>8, <2>1, TcbWrittenTo
<1> HIDE DEF result
<1>9. Outcome("SchedContextBind", accepted, result)
  BY <1>1, PerformOutcome
<1> QED
  BY <1>4, <1>8, <1>9 DEF Outcome, Taken, Deed

LEMMA SetSchedParamsOfTaken ==
  ASSUME KernelOk, Backed, SetSchedParamsOf
  PROVE  Taken
<1> DEFINE x == Obj("tcb")
           tcb == [kernel.tcb[x] EXCEPT !.sc = Obj("sc"), !.priority = Arg("priority"), !.fault = NoCap]
           fresh == [sc |-> CapAt(step, iter, "sc").obj, priority |-> ArgAt(step, iter, "priority"), fault |-> NoCap]
           accepted == /\ Is("tcb", {"tcb", "thread tcb"})
                       /\ Is("sc", {"sc", "thread sc"})
                       /\ Unbound(Obj("sc"))
                       /\ kernel.tcb[x].sc = NoObject
           result == [kernel EXCEPT !.tcb[x] = tcb]
<1>1. Perform("SetSchedParams", accepted, result)
  BY DEF SetSchedParamsOf, OnTcb
<1>2. accepted => Is("tcb", {"tcb", "thread tcb"})
  OBVIOUS
<1>3. plan[step].op = "SetSchedParams"
  BY <1>1 DEF Perform
<1>4. accepted => CapsKnown
  BY <1>3, ArgHere DEF CapsKnown, CapArgs, Is
<1>5. Fresh(step, iter) = fresh
  BY <1>3 DEF Fresh
<1>6. DOMAIN kernel.tcb[x] = TcbFields => \A f \in TcbFields :
        tcb[f] = IF f \in DOMAIN fresh THEN fresh[f] ELSE kernel.tcb[x][f]
  <2> SUFFICES ASSUME DOMAIN kernel.tcb[x] = TcbFields
               PROVE  \A f \in TcbFields :
                        tcb[f] = IF f \in DOMAIN fresh THEN fresh[f] ELSE kernel.tcb[x][f]
    OBVIOUS
  <2>1. Obj("sc") = CapAt(step, iter, "sc").obj /\ Arg("priority") = ArgAt(step, iter, "priority") /\ NoCap = NoCap
    BY ArgHere
  <2> HIDE DEF x
  <2>2. ASSUME NEW f \in TcbFields
        PROVE  tcb[f] = IF f \in DOMAIN fresh THEN fresh[f] ELSE kernel.tcb[x][f]
    <3>1. DOMAIN fresh = {"sc", "priority", "fault"}
      OBVIOUS
    <3>2. tcb.sc = Obj("sc") /\ tcb.priority = Arg("priority") /\ tcb.fault = NoCap
      BY DEF TcbFields
    <3>3. fresh.sc = CapAt(step, iter, "sc").obj /\ fresh.priority = ArgAt(step, iter, "priority") /\ fresh.fault = NoCap
      OBVIOUS
    <3>4. CASE f \in DOMAIN fresh
      <4> HIDE DEF tcb, fresh
      <4> QED
        BY <2>1, <3>1, <3>2, <3>3, <3>4
    <3>5. CASE f \notin DOMAIN fresh
      BY <3>1, <3>5
    <3> QED
      BY <3>4, <3>5
  <2> QED
    BY <2>2
<1> HIDE DEF accepted, tcb, fresh, x
<1>7. WrittenFrom(x, tcb)
  BY <1>5, <1>6 DEF WrittenFrom, tcb
<1>8. ASSUME accepted, Advance, kernel' = result
      PROVE  TcbDeed
  <2>1. x = Obj("tcb") /\ plan[step].op \in TcbOps
    BY <1>3 DEF x, TcbOps
  <2> QED
    BY <1>2, <1>7, <1>8, <2>1, TcbWrittenTo
<1> HIDE DEF result
<1>9. Outcome("SetSchedParams", accepted, result)
  BY <1>1, PerformOutcome
<1> QED
  BY <1>4, <1>8, <1>9 DEF Outcome, Taken, Deed

LEMMA SetSpaceTaken ==
  ASSUME KernelOk, Backed, SetSpace
  PROVE  Taken
<1> DEFINE x == Obj("tcb")
           tcb == [kernel.tcb[x] EXCEPT !.fault = CapOf(Arg("fault")), !.cspace = Obj("cspace"), !.vspace = Obj("vspace")]
           fresh == [fault |-> CapAt(step, iter, "fault"), cspace |-> CapAt(step, iter, "cspace").obj, vspace |-> CapAt(step, iter, "vspace").obj]
           accepted == /\ Is("tcb", {"tcb", "thread tcb"})
                       /\ Is("fault", {"ep"})
                       /\ Is("cspace", {"cnode"})
                       /\ Is("vspace", {"vspace"})
                       /\ Obj("vspace") \in kernel.asids
           result == [kernel EXCEPT !.tcb[x] = tcb]
<1>1. Perform("SetSpace", accepted, result)
  BY DEF SetSpace, OnTcb
<1>2. accepted => Is("tcb", {"tcb", "thread tcb"})
  OBVIOUS
<1>3. plan[step].op = "SetSpace"
  BY <1>1 DEF Perform
<1>4. accepted => CapsKnown
  BY <1>3, ArgHere DEF CapsKnown, CapArgs, Is
<1>5. Fresh(step, iter) = fresh
  BY <1>3 DEF Fresh
<1>6. DOMAIN kernel.tcb[x] = TcbFields => \A f \in TcbFields :
        tcb[f] = IF f \in DOMAIN fresh THEN fresh[f] ELSE kernel.tcb[x][f]
  <2> SUFFICES ASSUME DOMAIN kernel.tcb[x] = TcbFields
               PROVE  \A f \in TcbFields :
                        tcb[f] = IF f \in DOMAIN fresh THEN fresh[f] ELSE kernel.tcb[x][f]
    OBVIOUS
  <2>1. CapOf(Arg("fault")) = CapAt(step, iter, "fault") /\ Obj("cspace") = CapAt(step, iter, "cspace").obj /\ Obj("vspace") = CapAt(step, iter, "vspace").obj
    BY ArgHere DEF CapAt
  <2> HIDE DEF x
  <2>2. ASSUME NEW f \in TcbFields
        PROVE  tcb[f] = IF f \in DOMAIN fresh THEN fresh[f] ELSE kernel.tcb[x][f]
    <3>1. DOMAIN fresh = {"fault", "cspace", "vspace"}
      OBVIOUS
    <3>2. tcb.fault = CapOf(Arg("fault")) /\ tcb.cspace = Obj("cspace") /\ tcb.vspace = Obj("vspace")
      BY DEF TcbFields
    <3>3. fresh.fault = CapAt(step, iter, "fault") /\ fresh.cspace = CapAt(step, iter, "cspace").obj /\ fresh.vspace = CapAt(step, iter, "vspace").obj
      OBVIOUS
    <3>4. CASE f \in DOMAIN fresh
      <4> HIDE DEF tcb, fresh
      <4> QED
        BY <2>1, <3>1, <3>2, <3>3, <3>4
    <3>5. CASE f \notin DOMAIN fresh
      BY <3>1, <3>5
    <3> QED
      BY <3>4, <3>5
  <2> QED
    BY <2>2
<1> HIDE DEF accepted, tcb, fresh, x
<1>7. WrittenFrom(x, tcb)
  BY <1>5, <1>6 DEF WrittenFrom, tcb
<1>8. ASSUME accepted, Advance, kernel' = result
      PROVE  TcbDeed
  <2>1. x = Obj("tcb") /\ plan[step].op \in TcbOps
    BY <1>3 DEF x, TcbOps
  <2> QED
    BY <1>2, <1>7, <1>8, <2>1, TcbWrittenTo
<1> HIDE DEF result
<1>9. Outcome("SetSpace", accepted, result)
  BY <1>1, PerformOutcome
<1> QED
  BY <1>4, <1>8, <1>9 DEF Outcome, Taken, Deed

LEMMA SetIPCBufferTaken ==
  ASSUME KernelOk, Backed, SetIPCBuffer
  PROVE  Taken
<1> DEFINE x == Obj("tcb")
           tcb == [kernel.tcb[x] EXCEPT !.buffer = Arg("buffer"), !.frame = Obj("frame")]
           fresh == [buffer |-> ArgAt(step, iter, "buffer"), frame |-> CapAt(step, iter, "frame").obj]
           accepted == /\ Is("tcb", {"tcb", "thread tcb"})
                       /\ Is("frame", {"page"})
           result == [kernel EXCEPT !.tcb[x] = tcb]
<1>1. Perform("SetIPCBuffer", accepted, result)
  BY DEF SetIPCBuffer, OnTcb
<1>2. accepted => Is("tcb", {"tcb", "thread tcb"})
  OBVIOUS
<1>3. plan[step].op = "SetIPCBuffer"
  BY <1>1 DEF Perform
<1>4. accepted => CapsKnown
  BY <1>3, ArgHere DEF CapsKnown, CapArgs, Is
<1>5. Fresh(step, iter) = fresh
  BY <1>3 DEF Fresh
<1>6. DOMAIN kernel.tcb[x] = TcbFields => \A f \in TcbFields :
        tcb[f] = IF f \in DOMAIN fresh THEN fresh[f] ELSE kernel.tcb[x][f]
  <2> SUFFICES ASSUME DOMAIN kernel.tcb[x] = TcbFields
               PROVE  \A f \in TcbFields :
                        tcb[f] = IF f \in DOMAIN fresh THEN fresh[f] ELSE kernel.tcb[x][f]
    OBVIOUS
  <2>1. Arg("buffer") = ArgAt(step, iter, "buffer") /\ Obj("frame") = CapAt(step, iter, "frame").obj
    BY ArgHere
  <2> HIDE DEF x
  <2>2. ASSUME NEW f \in TcbFields
        PROVE  tcb[f] = IF f \in DOMAIN fresh THEN fresh[f] ELSE kernel.tcb[x][f]
    <3>1. DOMAIN fresh = {"buffer", "frame"}
      OBVIOUS
    <3>2. tcb.buffer = Arg("buffer") /\ tcb.frame = Obj("frame")
      BY DEF TcbFields
    <3>3. fresh.buffer = ArgAt(step, iter, "buffer") /\ fresh.frame = CapAt(step, iter, "frame").obj
      OBVIOUS
    <3>4. CASE f \in DOMAIN fresh
      <4> HIDE DEF tcb, fresh
      <4> QED
        BY <2>1, <3>1, <3>2, <3>3, <3>4
    <3>5. CASE f \notin DOMAIN fresh
      BY <3>1, <3>5
    <3> QED
      BY <3>4, <3>5
  <2> QED
    BY <2>2
<1> HIDE DEF accepted, tcb, fresh, x
<1>7. WrittenFrom(x, tcb)
  BY <1>5, <1>6 DEF WrittenFrom, tcb
<1>8. ASSUME accepted, Advance, kernel' = result
      PROVE  TcbDeed
  <2>1. x = Obj("tcb") /\ plan[step].op \in TcbOps
    BY <1>3 DEF x, TcbOps
  <2> QED
    BY <1>2, <1>7, <1>8, <2>1, TcbWrittenTo
<1> HIDE DEF result
<1>9. Outcome("SetIPCBuffer", accepted, result)
  BY <1>1, PerformOutcome
<1> QED
  BY <1>4, <1>8, <1>9 DEF Outcome, Taken, Deed

LEMMA WriteRegistersOfTaken ==
  ASSUME KernelOk, Backed, WriteRegistersOf
  PROVE  Taken
<1> DEFINE x == Obj("tcb")
           tcb == [kernel.tcb[x] EXCEPT !.entry = Arg("entry"), !.x0 = Arg("x0")]
           fresh == [entry |-> ArgAt(step, iter, "entry"), x0 |-> ArgAt(step, iter, "x0")]
           accepted == /\ Is("tcb", {"tcb", "thread tcb"})
                       /\ TRUE
           result == [kernel EXCEPT !.tcb[x] = tcb]
<1>1. Perform("WriteRegisters", accepted, result)
  BY DEF WriteRegistersOf, OnTcb
<1>2. accepted => Is("tcb", {"tcb", "thread tcb"})
  OBVIOUS
<1>3. plan[step].op = "WriteRegisters"
  BY <1>1 DEF Perform
<1>4. accepted => CapsKnown
  BY <1>3, ArgHere DEF CapsKnown, CapArgs, Is
<1>5. Fresh(step, iter) = fresh
  BY <1>3 DEF Fresh
<1>6. DOMAIN kernel.tcb[x] = TcbFields => \A f \in TcbFields :
        tcb[f] = IF f \in DOMAIN fresh THEN fresh[f] ELSE kernel.tcb[x][f]
  <2> SUFFICES ASSUME DOMAIN kernel.tcb[x] = TcbFields
               PROVE  \A f \in TcbFields :
                        tcb[f] = IF f \in DOMAIN fresh THEN fresh[f] ELSE kernel.tcb[x][f]
    OBVIOUS
  <2>1. Arg("entry") = ArgAt(step, iter, "entry") /\ Arg("x0") = ArgAt(step, iter, "x0")
    BY ArgHere
  <2> HIDE DEF x
  <2>2. ASSUME NEW f \in TcbFields
        PROVE  tcb[f] = IF f \in DOMAIN fresh THEN fresh[f] ELSE kernel.tcb[x][f]
    <3>1. DOMAIN fresh = {"entry", "x0"}
      OBVIOUS
    <3>2. tcb.entry = Arg("entry") /\ tcb.x0 = Arg("x0")
      BY DEF TcbFields
    <3>3. fresh.entry = ArgAt(step, iter, "entry") /\ fresh.x0 = ArgAt(step, iter, "x0")
      OBVIOUS
    <3>4. CASE f \in DOMAIN fresh
      <4> HIDE DEF tcb, fresh
      <4> QED
        BY <2>1, <3>1, <3>2, <3>3, <3>4
    <3>5. CASE f \notin DOMAIN fresh
      BY <3>1, <3>5
    <3> QED
      BY <3>4, <3>5
  <2> QED
    BY <2>2
<1> HIDE DEF accepted, tcb, fresh, x
<1>7. WrittenFrom(x, tcb)
  BY <1>5, <1>6 DEF WrittenFrom, tcb
<1>8. ASSUME accepted, Advance, kernel' = result
      PROVE  TcbDeed
  <2>1. x = Obj("tcb") /\ plan[step].op \in TcbOps
    BY <1>3 DEF x, TcbOps
  <2> QED
    BY <1>2, <1>7, <1>8, <2>1, TcbWrittenTo
<1> HIDE DEF result
<1>9. Outcome("WriteRegisters", accepted, result)
  BY <1>1, PerformOutcome
<1> QED
  BY <1>4, <1>8, <1>9 DEF Outcome, Taken, Deed

LEMMA BindNotificationTaken ==
  ASSUME KernelOk, Backed, BindNotification
  PROVE  Taken
<1> DEFINE x == Obj("tcb")
           tcb == [kernel.tcb[x] EXCEPT !.ntfn = Obj("notification")]
           fresh == [ntfn |-> CapAt(step, iter, "notification").obj]
           accepted == /\ Is("tcb", {"tcb", "thread tcb"})
                       /\ Is("notification", {"ntfn"})
                       /\ kernel.tcb[x].ntfn = NoObject
                       /\ \A t \in DOMAIN kernel.tcb : kernel.tcb[t].ntfn # Obj("notification")
           result == [kernel EXCEPT !.tcb[x] = tcb]
<1>1. Perform("BindNotification", accepted, result)
  BY DEF BindNotification, OnTcb
<1>2. accepted => Is("tcb", {"tcb", "thread tcb"})
  OBVIOUS
<1>3. plan[step].op = "BindNotification"
  BY <1>1 DEF Perform
<1>4. accepted => CapsKnown
  BY <1>3, ArgHere DEF CapsKnown, CapArgs, Is
<1>5. Fresh(step, iter) = fresh
  BY <1>3 DEF Fresh
<1>6. DOMAIN kernel.tcb[x] = TcbFields => \A f \in TcbFields :
        tcb[f] = IF f \in DOMAIN fresh THEN fresh[f] ELSE kernel.tcb[x][f]
  <2> SUFFICES ASSUME DOMAIN kernel.tcb[x] = TcbFields
               PROVE  \A f \in TcbFields :
                        tcb[f] = IF f \in DOMAIN fresh THEN fresh[f] ELSE kernel.tcb[x][f]
    OBVIOUS
  <2>1. Obj("notification") = CapAt(step, iter, "notification").obj
    BY ArgHere
  <2> HIDE DEF x
  <2>2. ASSUME NEW f \in TcbFields
        PROVE  tcb[f] = IF f \in DOMAIN fresh THEN fresh[f] ELSE kernel.tcb[x][f]
    <3>1. DOMAIN fresh = {"ntfn"}
      OBVIOUS
    <3>2. tcb.ntfn = Obj("notification")
      BY DEF TcbFields
    <3>3. fresh.ntfn = CapAt(step, iter, "notification").obj
      OBVIOUS
    <3>4. CASE f \in DOMAIN fresh
      <4> HIDE DEF tcb, fresh
      <4> QED
        BY <2>1, <3>1, <3>2, <3>3, <3>4
    <3>5. CASE f \notin DOMAIN fresh
      BY <3>1, <3>5
    <3> QED
      BY <3>4, <3>5
  <2> QED
    BY <2>2
<1> HIDE DEF accepted, tcb, fresh, x
<1>7. WrittenFrom(x, tcb)
  BY <1>5, <1>6 DEF WrittenFrom, tcb
<1>8. ASSUME accepted, Advance, kernel' = result
      PROVE  TcbDeed
  <2>1. x = Obj("tcb") /\ plan[step].op \in TcbOps
    BY <1>3 DEF x, TcbOps
  <2> QED
    BY <1>2, <1>7, <1>8, <2>1, TcbWrittenTo
<1> HIDE DEF result
<1>9. Outcome("BindNotification", accepted, result)
  BY <1>1, PerformOutcome
<1> QED
  BY <1>4, <1>8, <1>9 DEF Outcome, Taken, Deed

LEMMA DomainSetTaken ==
  ASSUME KernelOk, Backed, DomainSet
  PROVE  Taken
<1> DEFINE x == Obj("tcb")
           tcb == [kernel.tcb[x] EXCEPT !.domain = Arg("domain")]
           fresh == [domain |-> ArgAt(step, iter, "domain")]
           accepted == /\ Is("tcb", {"tcb", "thread tcb"})
                       /\ Arg("domain") \in 0..NumDomains - 1
           result == [kernel EXCEPT !.tcb[x] = tcb]
<1>1. Perform("DomainSet", accepted, result)
  BY DEF DomainSet, OnTcb
<1>2. accepted => Is("tcb", {"tcb", "thread tcb"})
  OBVIOUS
<1>3. plan[step].op = "DomainSet"
  BY <1>1 DEF Perform
<1>4. accepted => CapsKnown
  BY <1>3, ArgHere DEF CapsKnown, CapArgs, Is
<1>5. Fresh(step, iter) = fresh
  BY <1>3 DEF Fresh
<1>6. DOMAIN kernel.tcb[x] = TcbFields => \A f \in TcbFields :
        tcb[f] = IF f \in DOMAIN fresh THEN fresh[f] ELSE kernel.tcb[x][f]
  <2> SUFFICES ASSUME DOMAIN kernel.tcb[x] = TcbFields
               PROVE  \A f \in TcbFields :
                        tcb[f] = IF f \in DOMAIN fresh THEN fresh[f] ELSE kernel.tcb[x][f]
    OBVIOUS
  <2>1. Arg("domain") = ArgAt(step, iter, "domain")
    BY ArgHere
  <2> HIDE DEF x
  <2>2. ASSUME NEW f \in TcbFields
        PROVE  tcb[f] = IF f \in DOMAIN fresh THEN fresh[f] ELSE kernel.tcb[x][f]
    <3>1. DOMAIN fresh = {"domain"}
      OBVIOUS
    <3>2. tcb.domain = Arg("domain")
      BY DEF TcbFields
    <3>3. fresh.domain = ArgAt(step, iter, "domain")
      OBVIOUS
    <3>4. CASE f \in DOMAIN fresh
      <4> HIDE DEF tcb, fresh
      <4> QED
        BY <2>1, <3>1, <3>2, <3>3, <3>4
    <3>5. CASE f \notin DOMAIN fresh
      BY <3>1, <3>5
    <3> QED
      BY <3>4, <3>5
  <2> QED
    BY <2>2
<1> HIDE DEF accepted, tcb, fresh, x
<1>7. WrittenFrom(x, tcb)
  BY <1>5, <1>6 DEF WrittenFrom, tcb
<1>8. ASSUME accepted, Advance, kernel' = result
      PROVE  TcbDeed
  <2>1. x = Obj("tcb") /\ plan[step].op \in TcbOps
    BY <1>3 DEF x, TcbOps
  <2> QED
    BY <1>2, <1>7, <1>8, <2>1, TcbWrittenTo
<1> HIDE DEF result
<1>9. Outcome("DomainSet", accepted, result)
  BY <1>1, PerformOutcome
<1> QED
  BY <1>4, <1>8, <1>9 DEF Outcome, Taken, Deed

LEMMA ResumeTaken ==
  ASSUME KernelOk, Backed, Resume
  PROVE  Taken
<1> DEFINE x == Obj("tcb")
           tcb == [kernel.tcb[x] EXCEPT !.running = TRUE]
           fresh == [running |-> TRUE]
           accepted == /\ Is("tcb", {"tcb", "thread tcb"})
                       /\ TRUE
           result == [kernel EXCEPT !.tcb[x] = tcb]
<1>1. Perform("Resume", accepted, result)
  BY DEF Resume, OnTcb
<1>2. accepted => Is("tcb", {"tcb", "thread tcb"})
  OBVIOUS
<1>3. plan[step].op = "Resume"
  BY <1>1 DEF Perform
<1>4. accepted => CapsKnown
  BY <1>3, ArgHere DEF CapsKnown, CapArgs, Is
<1>5. Fresh(step, iter) = fresh
  BY <1>3 DEF Fresh
<1>6. DOMAIN kernel.tcb[x] = TcbFields => \A f \in TcbFields :
        tcb[f] = IF f \in DOMAIN fresh THEN fresh[f] ELSE kernel.tcb[x][f]
  <2> SUFFICES ASSUME DOMAIN kernel.tcb[x] = TcbFields
               PROVE  \A f \in TcbFields :
                        tcb[f] = IF f \in DOMAIN fresh THEN fresh[f] ELSE kernel.tcb[x][f]
    OBVIOUS
  <2>1. TRUE = TRUE
    BY ArgHere
  <2> HIDE DEF x
  <2>2. ASSUME NEW f \in TcbFields
        PROVE  tcb[f] = IF f \in DOMAIN fresh THEN fresh[f] ELSE kernel.tcb[x][f]
    <3>1. DOMAIN fresh = {"running"}
      OBVIOUS
    <3>2. tcb.running = TRUE
      BY DEF TcbFields
    <3>3. fresh.running = TRUE
      OBVIOUS
    <3>4. CASE f \in DOMAIN fresh
      <4> HIDE DEF tcb, fresh
      <4> QED
        BY <2>1, <3>1, <3>2, <3>3, <3>4
    <3>5. CASE f \notin DOMAIN fresh
      BY <3>1, <3>5
    <3> QED
      BY <3>4, <3>5
  <2> QED
    BY <2>2
<1> HIDE DEF accepted, tcb, fresh, x
<1>7. WrittenFrom(x, tcb)
  BY <1>5, <1>6 DEF WrittenFrom, tcb
<1>8. ASSUME accepted, Advance, kernel' = result
      PROVE  TcbDeed
  <2>1. x = Obj("tcb") /\ plan[step].op \in TcbOps
    BY <1>3 DEF x, TcbOps
  <2> QED
    BY <1>2, <1>7, <1>8, <2>1, TcbWrittenTo
<1> HIDE DEF result
<1>9. Outcome("Resume", accepted, result)
  BY <1>1, PerformOutcome
<1> QED
  BY <1>4, <1>8, <1>9 DEF Outcome, Taken, Deed

LEMMA FirstSlotIs ==
  ASSUME tablePages \in Nat
  PROVE  FirstSlot \in Nat
<1> DEFINE n == tablePages * Page
<1>1. n \in Nat /\ LargePage \in Nat \ {0}
  BY PagesConstants
<1> HIDE DEF n
<1>2. PICK d \in Nat : RoundUp(n, LargePage) = d * LargePage
  <2>1. \E d \in Nat : RoundUp(n, LargePage) = d * LargePage /\ d * LargePage \in Nat
                         /\ n <= d * LargePage /\ d * LargePage <= n + LargePage - 1
    BY <1>1, RoundsTo, Zenon
  <2> QED
    BY <2>1
<1>3. (d * LargePage) \div LargePage \in Nat
  BY <1>1
<1> QED
  BY <1>2, <1>3 DEF FirstSlot, n

LEMMA SystemSlots ==
  ASSUME tablePages \in Nat
  PROVE  \A slot \in SlotsOf(System) : slot \in Nat
<1>1. FirstSlot \in Nat
  BY FirstSlotIs
<1>2. SlotsOf(System) = FirstSlot..cnodeSize - 1
  BY DEF SlotsOf, System
<1> QED
  BY <1>1, <1>2

LEMMA MintOrCopyTaken ==
  ASSUME KernelOk, Backed, tablePages \in Nat, NEW op \in {"Mint", "Copy"}, MintOrCopy(op)
  PROVE  Taken
<1> DEFINE cnode == Obj("cnode")
           dest == Arg("dest")
           cap == [obj |-> Obj("src"), badge |-> IF Is("src", {"ep", "ntfn"}) THEN Arg("badge") ELSE 0]
           held == Put(cnode, dest, cap)
           result == [kernel EXCEPT !.cspace[cnode] = held]
           accepted == /\ Is("cnode", {"system", "cnode", "thread cnode"}) /\ Known(Arg("src"))
                       /\ Free(cnode, dest)
<1>1. Perform(op, accepted, result)
  BY DEF MintOrCopy
<1>2. plan[step].op = op
  BY <1>1 DEF Perform
<1>3. /\ accepted => Is("cnode", {"system", "cnode", "thread cnode"})
      /\ accepted => dest \notin DOMAIN kernel.cspace[cnode] /\ dest \in SlotsOf(cnode)
  BY DEF Free
<1>4. accepted => CapsKnown
  BY <1>2, ArgHere DEF CapsKnown, CapArgs, Is
<1>5. accepted => cap = MintedCap(step, iter)
  BY ArgHere DEF MintedCap, Is
<1>6. DOMAIN held = DOMAIN kernel.cspace[cnode] \cup {dest}
      /\ \A slot \in DOMAIN held : held[slot] = IF slot \in DOMAIN kernel.cspace[cnode]
                                                 THEN kernel.cspace[cnode][slot] ELSE cap
  <2> HIDE DEF cap, dest, cnode
  <2> QED
    BY DEF Put, Joined
<1>7. cnode = CapAt(step, iter, "cnode").obj /\ dest = ArgAt(step, iter, "dest")
  BY ArgHere
<1> HIDE DEF accepted, held, cap, dest, cnode
<1>8. ASSUME accepted, Advance, kernel' = result
      PROVE  MintDeed
  <2>1. cnode \in DOMAIN kernel.cspace
    BY <1>3, <1>7, <1>8, KnownObject
  <2>2. cnode = System => dest \in Nat
    BY <1>3, <1>8, SystemSlots
  <2>3. /\ kernel'.tcb = kernel.tcb /\ kernel'.configured = kernel.configured
        /\ kernel'.irqs = kernel.irqs /\ kernel'.cspace = [kernel.cspace EXCEPT ![cnode] = held]
    BY <1>8 DEF KernelOk, KernelFields
  <2>4. /\ DOMAIN kernel'.cspace = DOMAIN kernel.cspace /\ kernel'.cspace[cnode] = held
        /\ \A c \in DOMAIN kernel.cspace \ {cnode} : kernel'.cspace[c] = kernel.cspace[c]
    BY <2>1, <2>3
  <2>5. /\ DOMAIN kernel'.cspace[cnode] = DOMAIN kernel.cspace[cnode] \cup {dest}
        /\ \A slot \in DOMAIN kernel.cspace[cnode] : kernel'.cspace[cnode][slot] = kernel.cspace[cnode][slot]
        /\ kernel'.cspace[cnode][dest] = cap /\ dest \in SlotsOf(cnode) \ DOMAIN kernel.cspace[cnode]
    BY <1>3, <1>6, <1>8, <2>4
  <2> QED
    BY <1>2, <1>5, <1>7, <1>8, <2>1, <2>2, <2>3, <2>4, <2>5 DEF MintDeed
<1> HIDE DEF result
<1>9. Outcome(op, accepted, result)
  BY <1>1, PerformOutcome
<1> QED
  BY <1>4, <1>8, <1>9 DEF Outcome, Taken, Deed

LEMMA IrqControlGetTaken ==
  ASSUME KernelOk, Backed, tablePages \in Nat, IrqControlGet
  PROVE  Taken
<1> DEFINE dest == Arg("dest")
           irq == Arg("irq")
           cap == [obj |-> <<"irq", irq>>, badge |-> 0]
           held == Put(System, dest, cap)
           irqs == Joined(kernel.irqs, [i \in {irq} |-> NoCap])
           result == [kernel EXCEPT !.cspace[System] = held, !.irqs = irqs]
           accepted == irq \notin DOMAIN kernel.irqs /\ Free(System, dest)
<1>1. Perform("IrqControlGet", accepted, result)
  BY DEF IrqControlGet
<1>2. plan[step].op = "IrqControlGet"
  BY <1>1 DEF Perform
<1>3. accepted => /\ dest \notin DOMAIN kernel.cspace[System] /\ dest \in SlotsOf(System)
                  /\ irq \notin DOMAIN kernel.irqs
  BY DEF Free
<1>4. CapsKnown
  BY <1>2 DEF CapsKnown, CapArgs
<1>5. DOMAIN held = DOMAIN kernel.cspace[System] \cup {dest}
      /\ \A slot \in DOMAIN held : held[slot] = IF slot \in DOMAIN kernel.cspace[System]
                                                 THEN kernel.cspace[System][slot] ELSE cap
  <2> HIDE DEF cap, dest
  <2> QED
    BY DEF Put, Joined
<1>6. DOMAIN irqs = DOMAIN kernel.irqs \cup {irq}
      /\ \A i \in DOMAIN irqs : irqs[i] = IF i \in DOMAIN kernel.irqs THEN kernel.irqs[i] ELSE NoCap
  <2> HIDE DEF irq
  <2> QED
    BY DEF Joined
<1>7. dest = ArgAt(step, iter, "dest") /\ irq = ArgAt(step, iter, "irq")
      /\ cap = [obj |-> <<"irq", ArgAt(step, iter, "irq")>>, badge |-> 0]
  BY ArgHere
<1> HIDE DEF accepted, held, cap, dest, irq, irqs
<1>8. ASSUME accepted, Advance, kernel' = result
      PROVE  IrqDeed
  <2>2. dest \in Nat \ DOMAIN kernel.cspace[System] /\ dest \in SlotsOf(System)
        /\ System \in DOMAIN kernel.cspace
    BY <1>3, <1>8, SystemSlots DEF Backed
  <2>3. /\ kernel'.tcb = kernel.tcb /\ kernel'.configured = kernel.configured
        /\ kernel'.irqs = irqs /\ kernel'.cspace = [kernel.cspace EXCEPT ![System] = held]
    BY <1>8 DEF KernelOk, KernelFields
  <2>4. /\ DOMAIN kernel'.cspace = DOMAIN kernel.cspace /\ kernel'.cspace[System] = held
        /\ \A c \in DOMAIN kernel.cspace \ {System} : kernel'.cspace[c] = kernel.cspace[c]
    BY <2>2, <2>3
  <2>5. /\ DOMAIN kernel'.cspace[System] = DOMAIN kernel.cspace[System] \cup {dest}
        /\ \A slot \in DOMAIN kernel.cspace[System] : kernel'.cspace[System][slot] = kernel.cspace[System][slot]
        /\ kernel'.cspace[System][dest] = cap
    BY <1>5, <2>2, <2>4
  <2>6. /\ DOMAIN kernel'.irqs = DOMAIN kernel.irqs \cup {irq} /\ kernel'.irqs[irq] = NoCap
        /\ \A i \in DOMAIN kernel.irqs : kernel'.irqs[i] = kernel.irqs[i] /\ irq \notin DOMAIN kernel.irqs
    BY <1>3, <1>6, <1>8, <2>3
  <2>7. irq \notin DOMAIN kernel.irqs
    BY <1>3, <1>8
  <2> QED
    BY <1>2, <1>7, <2>2, <2>3, <2>4, <2>5, <2>6, <2>7 DEF IrqDeed
<1> HIDE DEF result
<1>9. Outcome("IrqControlGet", accepted, result)
  BY <1>1, PerformOutcome
<1> QED
  BY <1>4, <1>8, <1>9 DEF Outcome, Taken, Deed

LEMMA RetypeTaken ==
  ASSUME KernelOk, Backed, tablePages \in Nat, Retype
  PROVE  Taken
<1> DEFINE list == Value("objects")
           first == Arg("dest")
           Of(types) == {o \in ToSet(list) : o[1] \in types}
           slots == first..first + Len(list) - 1
           caps == [slot \in slots |-> [obj |-> list[slot - first + 1], badge |-> 0]]
           held == Joined(kernel.cspace[System], caps)
           cspace == [kernel.cspace EXCEPT ![System] = held]
           old == DOMAIN kernel.tcb
           new == Of({"tcb", "thread tcb"})
           cnodes == Of({"cnode", "thread cnode"})
           cspaces == Joined(cspace, [o \in cnodes |-> <<>>])
           tcb == [t \in old \cup new |-> IF t \in old THEN kernel.tcb[t] ELSE Blank]
           mapped == Joined(kernel.mapped, [o \in Of({"vspace"}) |-> {}])
           result == [kernel EXCEPT !.cspace = cspaces, !.tcb = tcb, !.mapped = mapped]
           accepted == \A slot \in slots : Free(System, slot)
<1>1. Perform("Retype", accepted, result)
  BY DEF Retype
<1>2. plan[step].op = "Retype"
  BY <1>1 DEF Perform
<1>3. accepted => \A slot \in slots : slot \notin DOMAIN kernel.cspace[System] /\ slot \in SlotsOf(System)
  BY DEF Free
<1>4. CapsKnown
  BY <1>2 DEF CapsKnown, CapArgs
<1>5. /\ DOMAIN held = DOMAIN kernel.cspace[System] \cup slots
      /\ \A slot \in DOMAIN kernel.cspace[System] : held[slot] = kernel.cspace[System][slot]
      /\ \A slot \in slots \ DOMAIN kernel.cspace[System] : held[slot] = [obj |-> list[slot - first + 1], badge |-> 0]
  <2> HIDE DEF list, first, slots
  <2> QED
    BY DEF Joined
<1>6. DOMAIN tcb = old \cup new /\ \A t \in DOMAIN tcb : tcb[t] = IF t \in old THEN kernel.tcb[t] ELSE Blank
  <2> HIDE DEF new, old
  <2> QED
    OBVIOUS
<1>7. list = plan[step].args.objects /\ first = ArgAt(step, iter, "dest")
  BY ArgHere DEF Value
<1> HIDE DEF accepted, held, mapped, tcb
<1>8. System \in DOMAIN kernel.cspace
  BY DEF Backed
<1>9. /\ DOMAIN cspaces = DOMAIN kernel.cspace \cup cnodes /\ cspaces[System] = held
      /\ \A c \in DOMAIN kernel.cspace \ {System} : cspaces[c] = kernel.cspace[c]
      /\ \A c \in cnodes \ DOMAIN kernel.cspace : cspaces[c] = <<>>
  <2> HIDE DEF cnodes
  <2>1. /\ DOMAIN cspace = DOMAIN kernel.cspace /\ cspace[System] = held
        /\ \A c \in DOMAIN kernel.cspace \ {System} : cspace[c] = kernel.cspace[c]
    BY <1>8
  <2> HIDE DEF cspace
  <2> QED
    BY <1>8, <2>1 DEF Joined
<1> HIDE DEF cspaces
<1>10. ASSUME accepted, Advance, kernel' = result
       PROVE  RetypeDeed
  <2>1. slots \cap DOMAIN kernel.cspace[System] = {} /\ slots \subseteq Nat /\ slots \subseteq SlotsOf(System)
    BY <1>3, <1>10, SystemSlots
  <2>2. /\ kernel'.tcb = tcb /\ kernel'.configured = kernel.configured
        /\ kernel'.irqs = kernel.irqs /\ kernel'.cspace = cspaces
    BY <1>10 DEF KernelOk, KernelFields
  <2> HIDE DEF slots, cnodes, list, first, new, old
  <2>3. /\ DOMAIN kernel'.cspace[System] = DOMAIN kernel.cspace[System] \cup slots
        /\ \A slot \in DOMAIN kernel.cspace[System] : kernel'.cspace[System][slot] = kernel.cspace[System][slot]
        /\ \A slot \in slots : kernel'.cspace[System][slot] = [obj |-> list[slot - first + 1], badge |-> 0]
    BY <1>5, <1>9, <2>1, <2>2
  <2>4. /\ DOMAIN kernel'.tcb = old \cup new
        /\ \A t \in DOMAIN kernel'.tcb : kernel'.tcb[t] = IF t \in old THEN kernel.tcb[t] ELSE Blank
    BY <1>6, <2>2
  <2>5. /\ DOMAIN kernel'.cspace = DOMAIN kernel.cspace \cup cnodes
        /\ \A c \in DOMAIN kernel.cspace \ {System} : kernel'.cspace[c] = kernel.cspace[c]
        /\ \A c \in cnodes \ DOMAIN kernel.cspace : kernel'.cspace[c] = <<>>
    BY <1>9, <2>2
  <2> QED
    BY <1>2, <1>7, <2>1, <2>2, <2>3, <2>4, <2>5 DEF RetypeDeed, slots, cnodes, new, old
<1> HIDE DEF result
<1>11. Outcome("Retype", accepted, result)
  BY <1>1, PerformOutcome
<1> QED
  BY <1>4, <1>10, <1>11 DEF Outcome, Taken, Deed

LEMMA ConfigureFlagsTaken ==
  ASSUME KernelOk, Backed, ConfigureFlags
  PROVE  Taken
<1> DEFINE configured == kernel.configured \cup {Obj("sc")}
           result == [kernel EXCEPT !.configured = configured]
           accepted == Is("sc", {"sc"})
<1>1. Perform("ConfigureFlags", accepted, result)
  BY DEF ConfigureFlags
<1>2. plan[step].op = "ConfigureFlags"
  BY <1>1 DEF Perform
<1>3. accepted => CapsKnown
  BY <1>2, ArgHere DEF CapsKnown, CapArgs, Is
<1>4. configured = kernel.configured \cup {CapAt(step, iter, "sc").obj}
  BY ArgHere
<1> HIDE DEF accepted, configured
<1>5. ASSUME kernel' = result
      PROVE  FlagsDeed
  BY <1>2, <1>4, <1>5 DEF FlagsDeed, KernelOk, KernelFields
<1> HIDE DEF result
<1>6. Outcome("ConfigureFlags", accepted, result)
  BY <1>1, PerformOutcome
<1> QED
  BY <1>3, <1>5, <1>6 DEF Outcome, Taken, Deed

LEMMA IrqSetNotificationTaken ==
  ASSUME KernelOk, Backed, IrqSetNotification
  PROVE  Taken
<1> DEFINE irq == Obj("handler")[2]
           cap == CapOf(Arg("notification"))
           result == [kernel EXCEPT !.irqs[irq] = cap]
           accepted == Is("handler", {"irq"}) /\ Is("notification", {"ntfn"})
<1>1. Perform("IrqSetNotification", accepted, result)
  BY DEF IrqSetNotification
<1>2. plan[step].op = "IrqSetNotification"
  BY <1>1 DEF Perform
<1>3. accepted => CapsKnown
  BY <1>2, ArgHere DEF CapsKnown, CapArgs, Is
<1>4. irq = CapAt(step, iter, "handler").obj[2] /\ cap = CapAt(step, iter, "notification")
  BY ArgHere DEF CapAt
<1>5. accepted => irq \in DOMAIN kernel.irqs
  BY <1>4, KnownObject
<1> HIDE DEF accepted, irq, cap
<1>6. ASSUME accepted, kernel' = result
      PROVE  NotifyDeed
  <2>1. /\ kernel'.cspace = kernel.cspace /\ kernel'.tcb = kernel.tcb /\ kernel'.configured = kernel.configured
        /\ kernel'.irqs = [kernel.irqs EXCEPT ![irq] = cap]
    BY <1>6 DEF KernelOk, KernelFields
  <2> QED
    BY <1>2, <1>4, <1>5, <1>6, <2>1 DEF NotifyDeed
<1> HIDE DEF result
<1>7. Outcome("IrqSetNotification", accepted, result)
  BY <1>1, PerformOutcome
<1> QED
  BY <1>3, <1>6, <1>7 DEF Outcome, Taken, Deed

\* What is left of the kernel has to do with address spaces.
LEMMA OtherTaken ==
  ASSUME NEW STATE op, op \in {"Suspend", "AsidPoolAssign", "TableMap", "PageMap"}, NEW STATE accepted,
         NEW STATE result, Perform(op, accepted, result), result.cspace = kernel.cspace, result.tcb = kernel.tcb,
         result.configured = kernel.configured, result.irqs = kernel.irqs
  PROVE  Taken
<1>1. Outcome(op, accepted, result)
  BY PerformOutcome
<1>2. plan[step].op \in {"Suspend", "AsidPoolAssign", "TableMap", "PageMap"}
  BY <1>1 DEF Outcome
<1>3. CapsKnown
  BY <1>2 DEF CapsKnown, CapArgs
<1>4. kernel' = result => OtherDeed
  BY <1>2 DEF OtherDeed
<1> QED
  BY <1>1, <1>3, <1>4 DEF Outcome, Taken, Deed

LEMMA SpacesTaken ==
  ASSUME KernelOk, Suspend \/ AsidPoolAssign \/ TableMap \/ PageMap(TRUE) \/ PageMap(FALSE)
  PROVE  Taken
<1>1. CASE Suspend
  <2>1. Perform("Suspend", TRUE, kernel)
    BY <1>1 DEF Suspend
  <2> QED
    BY <2>1, OtherTaken
<1>2. CASE AsidPoolAssign
  <2> DEFINE asids == kernel.asids \cup {Obj("vspace")}
             result == [kernel EXCEPT !.asids = asids]
             accepted == Is("vspace", {"vspace"}) /\ Obj("vspace") \notin kernel.asids
  <2>1. Perform("AsidPoolAssign", accepted, result)
    BY <1>2 DEF AsidPoolAssign
  <2> HIDE DEF accepted, asids
  <2>2. /\ result.cspace = kernel.cspace /\ result.tcb = kernel.tcb /\ result.configured = kernel.configured
        /\ result.irqs = kernel.irqs
    BY DEF KernelOk, KernelFields
  <2> HIDE DEF result
  <2> QED
    BY <2>1, <2>2, OtherTaken
<1>3. CASE TableMap
  <2> DEFINE table == <<Value("level"), Obj("vspace"), Arg("vaddr")>>
             tables == kernel.tables \cup {table}
             result == [kernel EXCEPT !.tables = tables]
             accepted == /\ Is("table", {Value("level")}) /\ Is("vspace", {"vspace"})
                         /\ Obj("vspace") \in kernel.asids /\ table \notin kernel.tables
                         /\ Above(Value("level"), Obj("vspace"), Arg("vaddr")) \subseteq kernel.tables
  <2>1. Perform("TableMap", accepted, result)
    BY <1>3 DEF TableMap
  <2> HIDE DEF accepted, tables
  <2>2. /\ result.cspace = kernel.cspace /\ result.tcb = kernel.tcb /\ result.configured = kernel.configured
        /\ result.irqs = kernel.irqs
    BY DEF KernelOk, KernelFields
  <2> HIDE DEF result
  <2> QED
    BY <2>1, <2>2, OtherTaken
<1>4. ASSUME NEW replace \in BOOLEAN, PageMap(replace)
      PROVE  Taken
  <2> DEFINE page == [page |-> Obj("page"), vaddr |-> Arg("vaddr"), perms |-> Value("perms"),
                      size |-> Region(Obj("page")[2]).page]
             vspace == Obj("vspace")
             large == page.size = LargePage
             pages == {e \in kernel.mapped[vspace] : Meet(e, page)}
             table == {t \in kernel.tables : large /\ t = <<"pt", vspace, page.vaddr>>}
             mapped == (kernel.mapped[vspace] \ pages) \cup {page}
             tables == kernel.tables \ table
             result == [kernel EXCEPT !.mapped[vspace] = mapped, !.tables = tables]
             accepted == /\ Is("page", {"page"}) /\ Is("vspace", {"vspace"}) /\ vspace \in kernel.asids
                         /\ pages \cup table # {} => replace
                         /\ Above(IF large THEN "pt" ELSE "page", vspace, page.vaddr) \subseteq kernel.tables
  <2>1. Perform("PageMap", accepted, result)
    BY <1>4 DEF PageMap
  <2> HIDE DEF accepted, mapped, tables, vspace
  <2>2. /\ result.cspace = kernel.cspace /\ result.tcb = kernel.tcb /\ result.configured = kernel.configured
        /\ result.irqs = kernel.irqs
    BY DEF KernelOk, KernelFields
  <2> HIDE DEF result
  <2> QED
    BY <2>1, <2>2, OtherTaken
<1> QED
  BY <1>1, <1>2, <1>3, <1>4

\* Whatever the iteration is.
LEMMA StepTaken ==
  ASSUME KernelOk, Backed, tablePages \in Nat, SysInitStep
  PROVE  Taken
<1>1. Retype \/ IrqControlGet \/ MintOrCopy("Mint") \/ MintOrCopy("Copy") => Taken
  BY RetypeTaken, IrqControlGetTaken, MintOrCopyTaken
<1>2. SetCSpace \/ SetFaultHandler \/ SetTimeoutEndpoint \/ SchedContextBind \/ SetSchedParamsOf => Taken
  BY SetCSpaceTaken, SetFaultHandlerTaken, SetTimeoutEndpointTaken, SchedContextBindTaken, SetSchedParamsOfTaken
<1>3. SetSpace \/ SetIPCBuffer \/ WriteRegistersOf \/ BindNotification \/ DomainSet \/ Resume => Taken
  BY SetSpaceTaken, SetIPCBufferTaken, WriteRegistersOfTaken, BindNotificationTaken, DomainSetTaken, ResumeTaken
<1>4. ConfigureFlags \/ IrqSetNotification => Taken
  BY ConfigureFlagsTaken, IrqSetNotificationTaken
<1> QED
  BY <1>1, <1>2, <1>3, <1>4, SpacesTaken DEF SysInitStep

-----------------------------------------------------------------------------
(* What there is stays *)

\* What was done is done, and now this iteration is too.
LEMMA DoneNext ==
  ASSUME plan' = plan, step \in 1..Len(plan), Len(plan) \in Nat, iter \in Nat,
         plan[step].count \in Nat, iter < plan[step].count
  PROVE  /\ Halt => \A m, i : Done(m, i)' <=> Done(m, i)
         /\ Advance => \A m, i : Done(m, i)' <=> Done(m, i) \/ (m = step /\ i = iter)
<1>1. ASSUME Halt, NEW m, NEW i
      PROVE  Done(m, i)' <=> Done(m, i)
  BY <1>1 DEF Done, Halt
<1>2. ASSUME Advance, NEW m, NEW i
      PROVE  Done(m, i)' <=> Done(m, i) \/ (m = step /\ i = iter)
  <2> DEFINE count == plan[m].count
             there == m \in 1..Len(plan) /\ i \in 0..count - 1
  <2>1. /\ Done(m, i) <=> there /\ (m < step \/ (m = step /\ i < iter))
        /\ Done(m, i)' <=> there /\ (m < step' \/ (m = step' /\ i < iter'))
    BY DEF Done
  <2>2. m = step /\ i = iter => there
    OBVIOUS
  <2>3. there => m \in Int /\ i \in Int /\ 0 <= i /\ (m = step => i < plan[step].count)
    <3> HAVE there
    <3>1. CASE m = step
      BY <3>1
    <3>2. CASE m # step
      BY <3>2
    <3> QED
      BY <3>1, <3>2
  <2> HIDE DEF there, count
  <2>4. CASE iter + 1 < plan[step].count
    <3>1. iter' = iter + 1 /\ step' = step
      BY <1>2, <2>4 DEF Advance
    <3> QED
      BY <2>1, <2>2, <2>3, <3>1
  <2>5. CASE ~(iter + 1 < plan[step].count)
    <3>1. iter' = 0 /\ step' = step + 1 /\ plan[step].count = iter + 1
      BY <1>2, <2>5 DEF Advance
    <3> QED
      BY <2>1, <2>2, <2>3, <3>1
  <2> QED
    BY <2>4, <2>5
<1> QED
  BY <1>1, <1>2

\* A capability is never removed or replaced, whatever the iteration does.
LEMMA CapsStay ==
  ASSUME Backed, Deed
  PROVE  /\ \A c \in DOMAIN kernel.cspace : \A slot \in DOMAIN kernel.cspace[c] :
              /\ c \in DOMAIN kernel'.cspace /\ slot \in DOMAIN kernel'.cspace[c]
              /\ kernel'.cspace[c][slot] = kernel.cspace[c][slot]
         /\ DOMAIN kernel.cspace \subseteq DOMAIN kernel'.cspace
         /\ DOMAIN kernel.tcb \subseteq DOMAIN kernel'.tcb
         /\ DOMAIN kernel.irqs \subseteq DOMAIN kernel'.irqs
         /\ kernel.configured \subseteq kernel'.configured
<1>1. CASE TcbDeed \/ FlagsDeed \/ OtherDeed
  BY <1>1 DEF TcbDeed, FlagsDeed, OtherDeed
<1>2. CASE NotifyDeed
  BY <1>2 DEF NotifyDeed
<1>3. CASE MintDeed
  <2> DEFINE cnode == CapAt(step, iter, "cnode").obj
  <2>1. \A c \in DOMAIN kernel.cspace : \A slot \in DOMAIN kernel.cspace[c] :
          /\ c \in DOMAIN kernel'.cspace /\ slot \in DOMAIN kernel'.cspace[c]
          /\ kernel'.cspace[c][slot] = kernel.cspace[c][slot]
    <3> TAKE c \in DOMAIN kernel.cspace
    <3> TAKE slot \in DOMAIN kernel.cspace[c]
    <3>1. CASE c = cnode
      BY <1>3, <3>1 DEF MintDeed
    <3>2. CASE c # cnode
      BY <1>3, <3>2 DEF MintDeed
    <3> QED
      BY <3>1, <3>2
  <2> QED
    BY <1>3, <2>1 DEF MintDeed
<1>4. CASE RetypeDeed
  <2>1. \A c \in DOMAIN kernel.cspace : \A slot \in DOMAIN kernel.cspace[c] :
          /\ c \in DOMAIN kernel'.cspace /\ slot \in DOMAIN kernel'.cspace[c]
          /\ kernel'.cspace[c][slot] = kernel.cspace[c][slot]
    <3> TAKE c \in DOMAIN kernel.cspace
    <3> TAKE slot \in DOMAIN kernel.cspace[c]
    <3>1. CASE c = System
      BY <1>4, <3>1 DEF RetypeDeed
    <3>2. CASE c # System
      BY <1>4, <3>2 DEF RetypeDeed
    <3> QED
      BY <3>1, <3>2
  <2> QED
    BY <1>4, <2>1 DEF RetypeDeed
<1>5. CASE IrqDeed
  <2>1. \A c \in DOMAIN kernel.cspace : \A slot \in DOMAIN kernel.cspace[c] :
          /\ c \in DOMAIN kernel'.cspace /\ slot \in DOMAIN kernel'.cspace[c]
          /\ kernel'.cspace[c][slot] = kernel.cspace[c][slot]
    <3> TAKE c \in DOMAIN kernel.cspace
    <3> TAKE slot \in DOMAIN kernel.cspace[c]
    <3>1. CASE c = System
      BY <1>5, <3>1 DEF IrqDeed
    <3>2. CASE c # System
      BY <1>5, <3>2 DEF IrqDeed
    <3> QED
      BY <3>1, <3>2
  <2> QED
    BY <1>5, <2>1 DEF IrqDeed
<1> QED
  BY <1>1, <1>2, <1>3, <1>4, <1>5 DEF Deed

LEMMA KnownStays ==
  ASSUME Backed, Deed, NEW a, Known(a)
  PROVE  Known(a)' /\ CapOf(a)' = CapOf(a)
<1>1. CASE a = SystemCNode
  BY <1>1 DEF Known, CapOf, SystemCNode, InitTcb, SchedControl
<1>2. CASE a \in {InitTcb, SchedControl}
  BY <1>2 DEF Known, CapOf, SystemCNode, InitTcb, SchedControl
<1>3. CASE a \notin {SystemCNode, InitTcb, SchedControl}
  <2>1. a \in DOMAIN kernel.cspace[System] /\ CapOf(a) = kernel.cspace[System][a]
        /\ CapOf(a)' = kernel'.cspace[System][a]
    BY <1>3 DEF Known, CapOf, SystemCNode, InitTcb, SchedControl
  <2>2. a \in DOMAIN kernel'.cspace[System] /\ kernel'.cspace[System][a] = kernel.cspace[System][a]
    BY <2>1, CapsStay DEF Backed
  <2> QED
    BY <2>1, <2>2 DEF Known
<1> QED
  BY <1>1, <1>2, <1>3

\* So an iteration whose capabilities are known means the same later.
LEMMA MeaningStays ==
  ASSUME Backed, Deed, plan' = plan, NEW m, NEW i, \A f \in CapArgs(plan[m].op) : Known(ArgAt(m, i, f))
  PROVE  /\ \A f : ArgAt(m, i, f)' = ArgAt(m, i, f)
         /\ \A f \in CapArgs(plan[m].op) : Known(ArgAt(m, i, f))' /\ CapAt(m, i, f)' = CapAt(m, i, f)
         /\ plan[m].op \in TcbOps => Fresh(m, i)' = Fresh(m, i)
         /\ plan[m].op \in {"Mint", "Copy"} => MintedCap(m, i)' = MintedCap(m, i)
<1>1. \A f : ArgAt(m, i, f)' = ArgAt(m, i, f)
  BY DEF ArgAt
<1>2. ASSUME NEW f \in CapArgs(plan[m].op)
      PROVE  Known(ArgAt(m, i, f))' /\ CapAt(m, i, f)' = CapAt(m, i, f)
  <2> DEFINE a == ArgAt(m, i, f)
  <2>1. Known(a) /\ a' = a
    BY <1>1, <1>2
  <2>2. CapAt(m, i, f) = CapOf(a)
    BY DEF CapAt
  <2> QED
    BY <2>1, <2>2, KnownStays DEF Known, CapAt, CapOf
<1>3. ASSUME plan[m].op \in TcbOps
      PROVE  Fresh(m, i)' = Fresh(m, i)
  <2> DEFINE op == plan[m].op
  <2>1. CASE op = "SetCSpace"
    <3>1. CapAt(m, i, "cspace")' = CapAt(m, i, "cspace")
      BY <1>2, <2>1 DEF CapArgs
    <3> QED
      BY <1>1, <2>1, <3>1 DEF Fresh
  <2>2. CASE op = "SetFaultHandler" \/ op = "SetTimeoutEndpoint"
    <3>1. CapAt(m, i, "fault")' = CapAt(m, i, "fault")
      BY <1>2, <2>2 DEF CapArgs
    <3> QED
      BY <1>1, <2>2, <3>1 DEF Fresh
  <2>3. CASE op = "SchedContextBind" \/ op = "SetSchedParams"
    <3>1. CapAt(m, i, "sc")' = CapAt(m, i, "sc")
      BY <1>2, <2>3 DEF CapArgs
    <3> QED
      BY <1>1, <2>3, <3>1 DEF Fresh
  <2>4. CASE op = "SetSpace"
    <3>1. /\ CapAt(m, i, "fault")' = CapAt(m, i, "fault") /\ CapAt(m, i, "cspace")' = CapAt(m, i, "cspace")
          /\ CapAt(m, i, "vspace")' = CapAt(m, i, "vspace")
      BY <1>2, <2>4 DEF CapArgs
    <3> QED
      BY <1>1, <2>4, <3>1 DEF Fresh
  <2>5. CASE op = "SetIPCBuffer"
    <3>1. CapAt(m, i, "frame")' = CapAt(m, i, "frame")
      BY <1>2, <2>5 DEF CapArgs
    <3> QED
      BY <1>1, <2>5, <3>1 DEF Fresh
  <2>6. CASE op = "BindNotification"
    <3>1. CapAt(m, i, "notification")' = CapAt(m, i, "notification")
      BY <1>2, <2>6 DEF CapArgs
    <3> QED
      BY <1>1, <2>6, <3>1 DEF Fresh
  <2>7. CASE op \in {"WriteRegisters", "DomainSet", "Resume"}
    BY <1>1, <2>7 DEF Fresh
  <2> QED
    BY <1>3, <2>1, <2>2, <2>3, <2>4, <2>5, <2>6, <2>7 DEF TcbOps
<1>4. ASSUME plan[m].op \in {"Mint", "Copy"}
      PROVE  MintedCap(m, i)' = MintedCap(m, i)
  <2>1. CapAt(m, i, "src")' = CapAt(m, i, "src")
    BY <1>2, <1>4 DEF CapArgs
  <2> QED
    BY <1>1, <2>1 DEF MintedCap
<1> QED
  BY <1>1, <1>2, <1>3, <1>4

-----------------------------------------------------------------------------
(* What was done has taken effect: one step *)

\* An accepted iteration.
Performed ==
  /\ Deed /\ CapsKnown /\ plan' = plan /\ step \in 1..Len(plan) /\ iter \in Nat
  /\ \A m, i : Done(m, i)' <=> Done(m, i) \/ (m = step /\ i = iter)
  /\ \A m, i : Done(m, i) => m \in Int /\ m <= step /\ ~(m = step /\ i = iter)

LEMMA ArgsKnownNext ==
  ASSUME Backed, ArgsKnown, Performed
  PROVE  /\ ArgsKnown'
         /\ \A m, i : Done(m, i)' =>
              /\ \A f : ArgAt(m, i, f)' = ArgAt(m, i, f)
              /\ \A f \in CapArgs(plan[m].op) : CapAt(m, i, f)' = CapAt(m, i, f)
              /\ plan[m].op \in TcbOps => Fresh(m, i)' = Fresh(m, i)
              /\ plan[m].op \in {"Mint", "Copy"} => MintedCap(m, i)' = MintedCap(m, i)
<1>1. ASSUME NEW m, NEW i, Done(m, i)'
      PROVE  \A f \in CapArgs(plan[m].op) : Known(ArgAt(m, i, f))
  BY <1>1 DEF ArgsKnown, Performed, CapsKnown
<1>2. ASSUME NEW m, NEW i, Done(m, i)'
      PROVE  /\ \A f : ArgAt(m, i, f)' = ArgAt(m, i, f)
             /\ \A f \in CapArgs(plan[m].op) : Known(ArgAt(m, i, f))' /\ CapAt(m, i, f)' = CapAt(m, i, f)
             /\ plan[m].op \in TcbOps => Fresh(m, i)' = Fresh(m, i)
             /\ plan[m].op \in {"Mint", "Copy"} => MintedCap(m, i)' = MintedCap(m, i)
  BY <1>1, <1>2, MeaningStays DEF Performed
<1>3. plan' = plan
  BY DEF Performed
<1> QED
  BY <1>2, <1>3 DEF ArgsKnown

LEMMA BackedNext ==
  ASSUME Backed, Performed, Retypable(plan[step])
  PROVE  Backed'
<1> DEFINE Ok(obj) == /\ obj[1] = "system" => obj = System
                      /\ obj[1] \in {"cnode", "thread cnode"} => obj \in DOMAIN kernel'.cspace
                      /\ obj[1] \in {"tcb", "thread tcb"} => obj \in DOMAIN kernel'.tcb
                      /\ obj[1] = "irq" => obj[2] \in DOMAIN kernel'.irqs
<1>1. /\ DOMAIN kernel.cspace \subseteq DOMAIN kernel'.cspace /\ DOMAIN kernel.tcb \subseteq DOMAIN kernel'.tcb
      /\ DOMAIN kernel.irqs \subseteq DOMAIN kernel'.irqs /\ Deed
  BY CapsStay DEF Performed
<1>2. \A slot \in DOMAIN kernel.cspace[System] :
        slot \in Nat /\ Ok(kernel.cspace[System][slot].obj) /\ kernel'.cspace[System][slot] = kernel.cspace[System][slot]
  BY <1>1, CapsStay DEF Backed
<1>3. System \in DOMAIN kernel'.cspace
  BY <1>1 DEF Backed
<1>4. SUFFICES ASSUME NEW slot \in DOMAIN kernel'.cspace[System]
               PROVE  slot \in Nat /\ Ok(kernel'.cspace[System][slot].obj)
  BY <1>3, <1>4 DEF Backed
<1>5. CASE slot \in DOMAIN kernel.cspace[System]
  BY <1>2, <1>5
<1>6. CASE slot \notin DOMAIN kernel.cspace[System]
  <2>1. CASE TcbDeed \/ FlagsDeed \/ OtherDeed \/ NotifyDeed
    BY <1>4, <1>6, <2>1 DEF TcbDeed, FlagsDeed, OtherDeed, NotifyDeed
  <2>2. CASE MintDeed
    <3>1. CapAt(step, iter, "cnode").obj = System /\ slot \in Nat
          /\ kernel'.cspace[System][slot] = MintedCap(step, iter)
      BY <1>4, <1>6, <2>2 DEF MintDeed, Backed
    <3>2. Known(ArgAt(step, iter, "src"))
      BY <2>2 DEF MintDeed, CapArgs, Performed, CapsKnown
    <3> DEFINE src == CapAt(step, iter, "src")
               a == ArgAt(step, iter, "src")
    <3>3. Ok(src.obj)
      <4>1. CASE a = SystemCNode
        <5>1. src = [obj |-> System, badge |-> 0]
          BY <4>1 DEF CapAt, CapOf, SystemCNode, InitTcb, SchedControl
        <5>2. src.obj = System /\ System[1] = "system"
          BY <5>1 DEF System
        <5> HIDE DEF src
        <5> QED
          BY <5>2
      <4>2. CASE a \in {InitTcb, SchedControl}
        <5>1. src = [obj |-> <<IF a = InitTcb THEN "init" ELSE "schedcontrol">>, badge |-> 0]
          BY <4>2 DEF CapAt, CapOf, SystemCNode, InitTcb, SchedControl
        <5>2. src.obj[1] \in {"init", "schedcontrol"}
          BY <5>1
        <5> HIDE DEF src
        <5> QED
          BY <5>2
      <4>3. CASE a \notin {SystemCNode, InitTcb, SchedControl}
        <5>1. src = kernel.cspace[System][a] /\ a \in DOMAIN kernel.cspace[System]
          BY <3>2, <4>3 DEF CapAt, CapOf, Known
        <5> HIDE DEF src, a
        <5> QED
          BY <1>2, <5>1
      <4> QED
        BY <4>1, <4>2, <4>3
    <3>4. MintedCap(step, iter).obj = src.obj
      BY DEF MintedCap
    <3> HIDE DEF src
    <3> QED
      BY <3>1, <3>3, <3>4
  <2>3. CASE RetypeDeed
    <3> DEFINE list == plan[step].args.objects
               first == ArgAt(step, iter, "dest")
               obj == list[slot - first + 1]
    <3>1. slot \in first..first + Len(list) - 1 /\ slot \in Nat
          /\ kernel'.cspace[System][slot] = [obj |-> obj, badge |-> 0]
      BY <1>4, <1>6, <2>3 DEF RetypeDeed
    <3>2. plan[step].op = "Retype" /\ first \in Nat /\ IsList(list) /\ \A o \in ToSet(list) : o[1] \notin {"system", "irq"}
      <4>1. plan[step].op = "Retype"
        BY <2>3 DEF RetypeDeed
      <4> QED
        BY <4>1 DEF Retypable, ArgAt
    <3>3. obj \in ToSet(list)
      <4> HIDE DEF first, list
      <4>1. slot - first + 1 \in 1..Len(list)
        BY <3>1, <3>2 DEF IsList
      <4> QED
        BY <3>2, <4>1, ListDomain
    <3>4. /\ obj[1] \in {"cnode", "thread cnode"} => obj \in DOMAIN kernel'.cspace
          /\ obj[1] \in {"tcb", "thread tcb"} => obj \in DOMAIN kernel'.tcb
      <4> HIDE DEF obj
      <4> QED
        BY <2>3, <3>3 DEF RetypeDeed
    <3> HIDE DEF obj, list
    <3>5. obj[1] # "system" /\ obj[1] # "irq"
      BY <3>2, <3>3
    <3>6. kernel'.cspace[System][slot].obj = obj
      BY <3>1
    <3>7. Ok(obj)
      BY <3>4, <3>5
    <3> QED
      BY <3>1, <3>6, <3>7
  <2>4. CASE IrqDeed
    <3>1. /\ slot \in Nat /\ kernel'.cspace[System][slot] = [obj |-> <<"irq", ArgAt(step, iter, "irq")>>, badge |-> 0]
          /\ ArgAt(step, iter, "irq") \in DOMAIN kernel'.irqs
      BY <1>4, <1>6, <2>4 DEF IrqDeed
    <3> QED
      BY <3>1
  <2> QED
    BY <1>1, <2>1, <2>2, <2>3, <2>4 DEF Deed
<1> QED
  BY <1>5, <1>6

LEMMA TargetsNext ==
  ASSUME Backed, ArgsKnown, TargetsThere, Performed
  PROVE  TargetsThere'
<1>1. /\ DOMAIN kernel.tcb \subseteq DOMAIN kernel'.tcb /\ DOMAIN kernel.irqs \subseteq DOMAIN kernel'.irqs
      /\ plan' = plan
  BY CapsStay DEF Performed
<1>2. ASSUME plan[step].op \in TcbOps
      PROVE  CapAt(step, iter, "tcb").obj \in DOMAIN kernel.tcb
  <2>1. Deed
    BY DEF Performed
  <2>2. CASE TcbDeed
    BY <2>2 DEF TcbDeed
  <2> QED
    BY <1>2, <2>1, <2>2 DEF Deed, MintDeed, RetypeDeed, IrqDeed, FlagsDeed, NotifyDeed, OtherDeed, TcbOps
<1>3. ASSUME plan[step].op = "IrqSetNotification"
      PROVE  CapAt(step, iter, "handler").obj[2] \in DOMAIN kernel.irqs
  <2>1. Deed
    BY DEF Performed
  <2>2. CASE NotifyDeed
    BY <2>2 DEF NotifyDeed
  <2> QED
    BY <1>3, <2>1, <2>2 DEF Deed, MintDeed, RetypeDeed, IrqDeed, FlagsDeed, TcbDeed, OtherDeed, TcbOps
<1>4. ASSUME NEW m, NEW i, Done(m, i)'
      PROVE  /\ plan[m].op \in TcbOps => CapAt(m, i, "tcb").obj' \in DOMAIN kernel'.tcb
             /\ plan[m].op = "IrqSetNotification" => (CapAt(m, i, "handler").obj[2])' \in DOMAIN kernel'.irqs
  <2>1. Done(m, i) \/ (m = step /\ i = iter)
    BY <1>4 DEF Performed
  <2>2. /\ plan[m].op \in TcbOps => CapAt(m, i, "tcb").obj \in DOMAIN kernel.tcb
        /\ plan[m].op = "IrqSetNotification" => CapAt(m, i, "handler").obj[2] \in DOMAIN kernel.irqs
    BY <1>2, <1>3, <2>1 DEF TargetsThere
  <2>3. plan[m].op \in TcbOps => "tcb" \in CapArgs(plan[m].op)
    BY DEF TcbOps, CapArgs
  <2>4. plan[m].op = "IrqSetNotification" => "handler" \in CapArgs(plan[m].op)
    BY DEF CapArgs
  <2>5. /\ plan[m].op \in TcbOps => CapAt(m, i, "tcb")' = CapAt(m, i, "tcb")
        /\ plan[m].op = "IrqSetNotification" => CapAt(m, i, "handler")' = CapAt(m, i, "handler")
    BY <1>4, <2>3, <2>4, ArgsKnownNext
  <2> QED
    BY <1>1, <2>2, <2>5
<1> QED
  BY <1>1, <1>4 DEF TargetsThere

LEMMA RetypedNext ==
  ASSUME Backed, ArgsKnown, Retyped, Performed, Retypable(plan[step])
  PROVE  Retyped'
<1> SUFFICES ASSUME NEW m, NEW i, Done(m, i)', plan'[m].op = "Retype", NEW j \in 1..Len(plan'[m].args.objects)
             PROVE  LET dest == ArgAt(m, i, "dest")' + j - 1
                    IN  /\ System \in DOMAIN kernel'.cspace /\ dest \in DOMAIN kernel'.cspace[System]
                        /\ kernel'.cspace[System][dest] = [obj |-> plan'[m].args.objects[j], badge |-> 0]
  BY DEF Retyped, Has
<1> DEFINE dest == ArgAt(m, i, "dest") + j - 1
           list == plan[m].args.objects
<1>1. plan' = plan /\ Deed /\ ArgAt(m, i, "dest")' = ArgAt(m, i, "dest") /\ (Done(m, i) \/ (m = step /\ i = iter))
  BY ArgsKnownNext DEF Performed
<1>2. CASE Done(m, i)
  <2>1. Has(System, dest, [obj |-> list[j], badge |-> 0])
    BY <1>1, <1>2 DEF Retyped
  <2> QED
    BY <1>1, <2>1, CapsStay DEF Has
<1>3. CASE m = step /\ i = iter
  <2> DEFINE first == ArgAt(step, iter, "dest")
  <2>1. RetypeDeed
    BY <1>1, <1>3 DEF Deed, TcbDeed, MintDeed, IrqDeed, FlagsDeed, NotifyDeed, OtherDeed, TcbOps
  <2>2. first \in Nat /\ Len(list) \in Nat
    BY <1>1, <1>3 DEF Retypable, ArgAt, IsList
  <2> HIDE DEF first, list
  <2>3. first + j - 1 \in first..first + Len(list) - 1 /\ (first + j - 1) - first + 1 = j
    BY <1>1, <2>2 DEF list
  <2>4. System \in DOMAIN kernel'.cspace
    BY <2>1 DEF Backed, RetypeDeed
  <2>5. /\ first + j - 1 \in DOMAIN kernel'.cspace[System]
        /\ kernel'.cspace[System][first + j - 1] = [obj |-> list[(first + j - 1) - first + 1], badge |-> 0]
    BY <1>3, <2>1, <2>3 DEF RetypeDeed, first, list
  <2>6. dest = first + j - 1
    BY <1>3 DEF first
  <2> QED
    BY <1>1, <1>3, <2>3, <2>4, <2>5, <2>6 DEF list
<1> QED
  BY <1>1, <1>2, <1>3

LEMMA IrqsTakenNext ==
  ASSUME Backed, ArgsKnown, IrqsTaken, Performed
  PROVE  IrqsTaken'
<1> SUFFICES ASSUME NEW m, NEW i, Done(m, i)', plan'[m].op = "IrqControlGet"
             PROVE  LET dest == ArgAt(m, i, "dest")'
                    IN  /\ System \in DOMAIN kernel'.cspace /\ dest \in DOMAIN kernel'.cspace[System]
                        /\ kernel'.cspace[System][dest] = [obj |-> <<"irq", ArgAt(m, i, "irq")'>>, badge |-> 0]
  BY DEF IrqsTaken, Has
<1>1. plan' = plan /\ Deed /\ (Done(m, i) \/ (m = step /\ i = iter))
      /\ ArgAt(m, i, "dest")' = ArgAt(m, i, "dest") /\ ArgAt(m, i, "irq")' = ArgAt(m, i, "irq")
  BY ArgsKnownNext DEF Performed
<1>2. CASE Done(m, i)
  <2>1. Has(System, ArgAt(m, i, "dest"), [obj |-> <<"irq", ArgAt(m, i, "irq")>>, badge |-> 0])
    BY <1>1, <1>2 DEF IrqsTaken
  <2> QED
    BY <1>1, <2>1, CapsStay DEF Has
<1>3. CASE m = step /\ i = iter
  <2>1. IrqDeed
    BY <1>1, <1>3 DEF Deed, TcbDeed, MintDeed, RetypeDeed, FlagsDeed, NotifyDeed, OtherDeed, TcbOps
  <2>2. System \in DOMAIN kernel'.cspace
    BY <2>1 DEF Backed, IrqDeed
  <2> QED
    BY <1>1, <1>3, <2>1, <2>2 DEF IrqDeed
<1> QED
  BY <1>1, <1>2, <1>3

LEMMA MintedNext ==
  ASSUME Backed, ArgsKnown, Minted, Performed
  PROVE  Minted'
<1> SUFFICES ASSUME NEW m, NEW i, Done(m, i)', plan'[m].op \in {"Mint", "Copy"}
             PROVE  LET cnode == CapAt(m, i, "cnode").obj'
                        dest == ArgAt(m, i, "dest")'
                    IN  /\ cnode \in DOMAIN kernel'.cspace /\ dest \in DOMAIN kernel'.cspace[cnode]
                        /\ kernel'.cspace[cnode][dest] = MintedCap(m, i)'
  BY DEF Minted, Mints, Has
<1> DEFINE cnode == CapAt(m, i, "cnode").obj
           dest == ArgAt(m, i, "dest")
           cap == MintedCap(m, i)
<1>1. plan' = plan /\ Deed /\ (Done(m, i) \/ (m = step /\ i = iter))
  BY DEF Performed
<1>2. "cnode" \in CapArgs(plan[m].op)
  BY <1>1 DEF CapArgs
<1>3. CapAt(m, i, "cnode").obj' = cnode /\ ArgAt(m, i, "dest")' = dest /\ MintedCap(m, i)' = cap
  BY <1>1, <1>2, ArgsKnownNext
<1>4. CASE Done(m, i)
  <2>1. Has(cnode, dest, cap)
    BY <1>1, <1>4 DEF Minted, Mints
  <2> HIDE DEF cnode, dest, cap
  <2> QED
    BY <1>1, <1>3, <2>1, CapsStay DEF Has
<1>5. CASE m = step /\ i = iter
  <2>1. MintDeed
    BY <1>1, <1>5 DEF Deed, TcbDeed, IrqDeed, RetypeDeed, FlagsDeed, NotifyDeed, OtherDeed, TcbOps
  <2> QED
    BY <1>3, <1>5, <2>1 DEF MintDeed
<1> QED
  BY <1>1, <1>4, <1>5

LEMMA MintedOnlyNext ==
  ASSUME Backed, ArgsKnown, MintedOnly, Performed
  PROVE  MintedOnly'
<1> SUFFICES ASSUME NEW cnode \in DOMAIN kernel'.cspace \ {System}, NEW slot \in DOMAIN kernel'.cspace[cnode]
             PROVE  \E m, i : /\ Done(m, i)' /\ plan'[m].op \in {"Mint", "Copy"}
                              /\ CapAt(m, i, "cnode").obj' = cnode /\ ArgAt(m, i, "dest")' = slot
                              /\ kernel'.cspace[cnode][slot] = MintedCap(m, i)'
  BY DEF MintedOnly, Mints
<1>1. plan' = plan /\ Deed
  BY DEF Performed
<1>2. ASSUME NEW m, NEW i, Done(m, i)', plan[m].op \in {"Mint", "Copy"}
      PROVE  /\ CapAt(m, i, "cnode")' = CapAt(m, i, "cnode") /\ ArgAt(m, i, "dest")' = ArgAt(m, i, "dest")
             /\ MintedCap(m, i)' = MintedCap(m, i)
  <2>1. "cnode" \in CapArgs(plan[m].op)
    BY <1>2 DEF CapArgs
  <2> QED
    BY <1>2, <2>1, ArgsKnownNext
<1>3. CASE cnode \in DOMAIN kernel.cspace /\ slot \in DOMAIN kernel.cspace[cnode]
  <2>1. kernel'.cspace[cnode][slot] = kernel.cspace[cnode][slot]
    BY <1>1, <1>3, CapsStay
  <2>2. PICK m, i : /\ Mints(m, i) /\ CapAt(m, i, "cnode").obj = cnode /\ ArgAt(m, i, "dest") = slot
                    /\ kernel.cspace[cnode][slot] = MintedCap(m, i)
    BY <1>3 DEF MintedOnly
  <2>3. Done(m, i)' /\ plan[m].op \in {"Mint", "Copy"}
    BY <2>2 DEF Performed, Mints
  <2> QED
    BY <1>1, <1>2, <2>1, <2>2, <2>3
<1>4. CASE ~(cnode \in DOMAIN kernel.cspace /\ slot \in DOMAIN kernel.cspace[cnode])
  <2>1. MintDeed
    <3>1. CASE RetypeDeed
      <4>1. cnode \notin DOMAIN kernel.cspace => kernel'.cspace[cnode] = <<>>
        BY <3>1 DEF RetypeDeed
      <4>2. DOMAIN <<>> = {}
        OBVIOUS
      <4> QED
        BY <1>4, <3>1, <4>1, <4>2 DEF RetypeDeed
    <3>2. CASE IrqDeed
      BY <1>4, <3>2 DEF IrqDeed
    <3>3. CASE TcbDeed \/ FlagsDeed \/ NotifyDeed \/ OtherDeed
      BY <1>4, <3>3 DEF TcbDeed, FlagsDeed, NotifyDeed, OtherDeed
    <3> QED
      BY <1>1, <3>1, <3>2, <3>3 DEF Deed
  <2>2. /\ CapAt(step, iter, "cnode").obj = cnode /\ ArgAt(step, iter, "dest") = slot
        /\ kernel'.cspace[cnode][slot] = MintedCap(step, iter) /\ plan[step].op \in {"Mint", "Copy"}
    BY <1>4, <2>1 DEF MintDeed
  <2>3. PICK m, i : m = step /\ i = iter
    OBVIOUS
  <2>4. Done(m, i)' /\ CapAt(m, i, "cnode").obj = cnode /\ ArgAt(m, i, "dest") = slot
        /\ kernel'.cspace[cnode][slot] = MintedCap(m, i) /\ plan[m].op \in {"Mint", "Copy"}
    BY <2>2, <2>3 DEF Performed
  <2> QED
    BY <1>1, <1>2, <2>4
<1> QED
  BY <1>3, <1>4

LEMMA BudgetedNext ==
  ASSUME Backed, ArgsKnown, Budgeted, Performed
  PROVE  Budgeted'
<1> SUFFICES ASSUME NEW m, NEW i, Done(m, i)', plan'[m].op = "ConfigureFlags"
             PROVE  CapAt(m, i, "sc").obj' \in kernel'.configured
  BY DEF Budgeted
<1>1. plan' = plan /\ Deed /\ (Done(m, i) \/ (m = step /\ i = iter))
  BY DEF Performed
<1>2. CapAt(m, i, "sc")' = CapAt(m, i, "sc")
  <2>1. "sc" \in CapArgs(plan[m].op)
    BY <1>1 DEF CapArgs
  <2> QED
    BY <2>1, ArgsKnownNext
<1>3. CASE Done(m, i)
  BY <1>1, <1>2, <1>3, CapsStay DEF Budgeted
<1>4. CASE m = step /\ i = iter
  <2>1. FlagsDeed
    BY <1>1, <1>4 DEF Deed, TcbDeed, IrqDeed, RetypeDeed, MintDeed, NotifyDeed, OtherDeed, TcbOps
  <2> QED
    BY <1>2, <1>4, <2>1 DEF FlagsDeed
<1> QED
  BY <1>1, <1>3, <1>4

\* The writers of a TCB are those of before, and this iteration.
LEMMA WritesNext ==
  ASSUME Backed, ArgsKnown, Performed, NEW t, NEW f, NEW m, NEW i
  PROVE  /\ Writes(m, i, t, f)' <=> \/ Writes(m, i, t, f)
                                    \/ /\ m = step /\ i = iter /\ plan[m].op \in TcbOps
                                       /\ CapAt(m, i, "tcb").obj = t /\ f \in DOMAIN Fresh(m, i)
         /\ Writes(m, i, t, f)' => Fresh(m, i)' = Fresh(m, i)
<1>1. plan' = plan /\ (Done(m, i)' <=> Done(m, i) \/ (m = step /\ i = iter))
  BY DEF Performed
<1>2. ASSUME Done(m, i)', plan[m].op \in TcbOps
      PROVE  CapAt(m, i, "tcb").obj' = CapAt(m, i, "tcb").obj /\ Fresh(m, i)' = Fresh(m, i)
  <2>1. "tcb" \in CapArgs(plan[m].op)
    BY <1>2 DEF CapArgs, TcbOps
  <2>2. CapAt(m, i, "tcb")' = CapAt(m, i, "tcb") /\ Fresh(m, i)' = Fresh(m, i)
    BY <1>2, <2>1, ArgsKnownNext
  <2> QED
    BY <2>2
<1> DEFINE op == plan[m].op \in TcbOps
           x == CapAt(m, i, "tcb").obj
           fresh == Fresh(m, i)
<1>3. /\ Writes(m, i, t, f) <=> Done(m, i) /\ op /\ x = t /\ f \in DOMAIN fresh
      /\ Writes(m, i, t, f)' <=> Done(m, i)' /\ op /\ CapAt(m, i, "tcb").obj' = t /\ f \in DOMAIN Fresh(m, i)'
  BY <1>1 DEF Writes
<1> QED
  BY <1>1, <1>2, <1>3

LEMMA LastWrittenNext ==
  ASSUME Backed, ArgsKnown, TargetsThere, LastWritten, Performed
  PROVE  LastWritten'
<1> DEFINE tcb == CapAt(step, iter, "tcb").obj
           fresh == Fresh(step, iter)
<1>1. SUFFICES ASSUME NEW t \in DOMAIN kernel'.tcb, NEW f \in TcbFields
               PROVE  \/ kernel'.tcb[t][f] = Blank[f] /\ \A m, i : ~Writes(m, i, t, f)'
                      \/ \E m, i : /\ Writes(m, i, t, f)' /\ kernel'.tcb[t][f] = Fresh(m, i)'[f]
                                   /\ \A n, j : Writes(n, j, t, f)' => n <= m
  BY DEF LastWritten
<1>2. CASE TcbDeed /\ t = tcb /\ f \in DOMAIN fresh
  <2>1. kernel'.tcb[t][f] = fresh[f] /\ plan[step].op \in TcbOps
    BY <1>2 DEF TcbDeed
  <2>2. PICK m, i : m = step /\ i = iter
    OBVIOUS
  <2>3. Writes(m, i, t, f)' /\ Fresh(m, i)' = fresh
    BY <1>2, <2>1, <2>2, WritesNext
  <2>4. ASSUME NEW n, NEW j, Writes(n, j, t, f)'
        PROVE  n <= m
    <3>1. Done(n, j)'
      BY <2>4 DEF Writes
    <3>2. n = step \/ Done(n, j)
      BY <3>1 DEF Performed
    <3> QED
      BY <2>2, <3>2 DEF Performed
  <2> HIDE DEF fresh
  <2> QED
    BY <2>1, <2>3, <2>4
<1>3. CASE ~(TcbDeed /\ t = tcb /\ f \in DOMAIN fresh)
  <2>1. ASSUME NEW m, NEW i
        PROVE  (Writes(m, i, t, f)' <=> Writes(m, i, t, f)) /\ (Writes(m, i, t, f) => Fresh(m, i)' = Fresh(m, i))
    <3>1. ASSUME m = step, i = iter, plan[m].op \in TcbOps, CapAt(m, i, "tcb").obj = t, f \in DOMAIN Fresh(m, i)
          PROVE  FALSE
      <4>1. plan[step].op \in TcbOps /\ t = tcb /\ f \in DOMAIN fresh
        BY <3>1
      <4>2. TcbDeed
        BY <4>1 DEF Performed, Deed, FlagsDeed, IrqDeed, RetypeDeed, MintDeed, NotifyDeed, OtherDeed, TcbOps
      <4> QED
        BY <1>3, <4>1, <4>2
    <3> QED
      BY <3>1, WritesNext
  <2>2. CASE t \in DOMAIN kernel.tcb
    <3>1. kernel'.tcb[t][f] = kernel.tcb[t][f]
      <4>1. CASE TcbDeed
        BY <1>3, <2>2, <4>1 DEF TcbDeed
      <4>2. CASE RetypeDeed
        BY <1>1, <2>2, <4>2 DEF RetypeDeed
      <4>3. CASE MintDeed \/ IrqDeed \/ FlagsDeed \/ NotifyDeed \/ OtherDeed
        BY <4>3 DEF FlagsDeed, IrqDeed, MintDeed, NotifyDeed, OtherDeed
      <4> QED
        BY <4>1, <4>2, <4>3 DEF Performed, Deed
    <3>2. CASE kernel.tcb[t][f] = Blank[f] /\ \A m, i : ~Writes(m, i, t, f)
      BY <2>1, <3>1, <3>2
    <3>3. ASSUME NEW m, NEW i, Writes(m, i, t, f), kernel.tcb[t][f] = Fresh(m, i)[f],
                 \A n, j : Writes(n, j, t, f) => n <= m
          PROVE  \E n, j : /\ Writes(n, j, t, f)' /\ kernel'.tcb[t][f] = Fresh(n, j)'[f]
                           /\ \A k, l : Writes(k, l, t, f)' => k <= n
      BY <2>1, <3>1, <3>3
    <3> QED
      BY <2>2, <3>2, <3>3 DEF LastWritten
  <2>3. CASE t \notin DOMAIN kernel.tcb
    <3>1. kernel'.tcb[t] = Blank
      <4>1. CASE RetypeDeed
        BY <1>1, <2>3, <4>1 DEF RetypeDeed
      <4>2. CASE ~RetypeDeed
        BY <1>1, <2>3, <4>2 DEF Performed, Deed, FlagsDeed, IrqDeed, MintDeed, NotifyDeed, OtherDeed, TcbDeed
      <4> QED
        BY <4>1, <4>2
    <3>2. \A m, i : ~Writes(m, i, t, f)
      BY <2>3 DEF TargetsThere, Writes
    <3> QED
      BY <2>1, <3>1, <3>2
  <2> QED
    BY <2>2, <2>3
<1> QED
  BY <1>2, <1>3

LEMMA IrqsSetNext ==
  ASSUME Backed, ArgsKnown, TargetsThere, IrqsSet, Performed
  PROVE  IrqsSet'
<1>1. SUFFICES ASSUME NEW irq \in DOMAIN kernel'.irqs
               PROVE  \/ kernel'.irqs[irq] = NoCap /\ \A m, i : ~Sets(m, i, irq)'
                      \/ \E m, i : Sets(m, i, irq)' /\ kernel'.irqs[irq] = CapAt(m, i, "notification")'
  BY DEF IrqsSet
<1>2. ASSUME NEW m, NEW i, plan[m].op = "IrqSetNotification", Done(m, i)'
      PROVE  /\ CapAt(m, i, "handler").obj' = CapAt(m, i, "handler").obj
             /\ CapAt(m, i, "notification")' = CapAt(m, i, "notification")
  <2>1. {"handler", "notification"} \subseteq CapArgs(plan[m].op)
    BY <1>2 DEF CapArgs
  <2>2. CapAt(m, i, "handler")' = CapAt(m, i, "handler") /\ CapAt(m, i, "notification")' = CapAt(m, i, "notification")
    BY <1>2, <2>1, ArgsKnownNext
  <2> QED
    BY <2>2
<1>3. ASSUME NEW m, NEW i
      PROVE  /\ Sets(m, i, irq)' <=> \/ Sets(m, i, irq)
                                     \/ /\ m = step /\ i = iter /\ plan[m].op = "IrqSetNotification"
                                        /\ CapAt(m, i, "handler").obj[2] = irq
             /\ Sets(m, i, irq)' => CapAt(m, i, "notification")' = CapAt(m, i, "notification")
  <2>1. plan' = plan /\ (Done(m, i)' <=> Done(m, i) \/ (m = step /\ i = iter))
    BY DEF Performed
  <2> DEFINE op == plan[m].op = "IrqSetNotification"
             x == CapAt(m, i, "handler").obj
  <2>2. /\ Sets(m, i, irq) <=> Done(m, i) /\ op /\ x[2] = irq
        /\ Sets(m, i, irq)' <=> Done(m, i)' /\ op /\ (CapAt(m, i, "handler").obj')[2] = irq
    BY <2>1 DEF Sets
  <2> QED
    BY <1>2, <2>1, <2>2
<1>4. CASE NotifyDeed /\ irq = CapAt(step, iter, "handler").obj[2]
  <2>1. kernel'.irqs[irq] = CapAt(step, iter, "notification") /\ plan[step].op = "IrqSetNotification"
    BY <1>4 DEF NotifyDeed
  <2>2. PICK m, i : m = step /\ i = iter
    OBVIOUS
  <2>3. Sets(m, i, irq)' /\ kernel'.irqs[irq] = CapAt(m, i, "notification")'
    BY <1>3, <1>4, <2>1, <2>2
  <2> QED
    BY <2>3
<1>5. CASE ~(NotifyDeed /\ irq = CapAt(step, iter, "handler").obj[2])
  <2>1. ASSUME NEW m, NEW i
        PROVE  Sets(m, i, irq)' <=> Sets(m, i, irq)
    <3>1. ASSUME m = step, i = iter, plan[m].op = "IrqSetNotification", CapAt(m, i, "handler").obj[2] = irq
          PROVE  FALSE
      <4>1. plan[step].op = "IrqSetNotification" /\ irq = CapAt(step, iter, "handler").obj[2]
        BY <3>1
      <4>2. NotifyDeed
        BY <4>1 DEF Performed, Deed, FlagsDeed, IrqDeed, RetypeDeed, MintDeed, TcbDeed, OtherDeed, TcbOps
      <4> QED
        BY <1>5, <4>1, <4>2
    <3> QED
      BY <1>3, <3>1
  <2>2. CASE irq \in DOMAIN kernel.irqs
    <3>1. kernel'.irqs[irq] = kernel.irqs[irq]
      <4>1. CASE NotifyDeed
        BY <1>5, <2>2, <4>1 DEF NotifyDeed
      <4>2. CASE ~NotifyDeed
        BY <2>2, <4>2 DEF Performed, Deed, FlagsDeed, IrqDeed, RetypeDeed, MintDeed, TcbDeed, OtherDeed
      <4> QED
        BY <4>1, <4>2
    <3>2. CASE kernel.irqs[irq] = NoCap /\ \A m, i : ~Sets(m, i, irq)
      BY <2>1, <3>1, <3>2
    <3>3. ASSUME NEW m, NEW i, Sets(m, i, irq), kernel.irqs[irq] = CapAt(m, i, "notification")
          PROVE  \E n, j : Sets(n, j, irq)' /\ kernel'.irqs[irq] = CapAt(n, j, "notification")'
      BY <1>3, <2>1, <3>1, <3>3
    <3> QED
      BY <2>2, <3>2, <3>3 DEF IrqsSet
  <2>3. CASE irq \notin DOMAIN kernel.irqs
    <3>1. kernel'.irqs[irq] = NoCap
      <4>1. CASE IrqDeed
        BY <1>1, <2>3, <4>1 DEF IrqDeed
      <4>2. CASE ~IrqDeed
        BY <1>1, <2>3, <4>2 DEF Performed, Deed, FlagsDeed, NotifyDeed, RetypeDeed, MintDeed, TcbDeed, OtherDeed
      <4> QED
        BY <4>1, <4>2
    <3>2. \A m, i : ~Sets(m, i, irq)
      BY <2>3 DEF TargetsThere, Sets
    <3> QED
      BY <2>1, <3>1, <3>2
  <2> QED
    BY <2>2, <2>3
<1> QED
  BY <1>4, <1>5

-----------------------------------------------------------------------------
(* What was done has taken effect: the invariant *)

RetypesOk == pc \in {"size", "link"} \cup Booting => \A m \in 1..Len(plan) : Retypable(plan[m])

LEMMA BootingPcs ==
  /\ Booting = {"boot", "boot failed", "running"}
  /\ Booting \cap ({"parse", "check", "build", "size", "link", "refused"} \cup Built) = {}
BY DEF Booting, Built

\* Nothing has been done yet, and there is nothing.
LEMMA BareEffects == step = 1 /\ iter = 0 /\ kernel = Bare => Effects
<1> SUFFICES ASSUME step = 1, iter = 0, kernel = Bare
             PROVE  Effects
  OBVIOUS
<1>1. \A m, i : ~Done(m, i)
  BY DEF Done
<1>2. /\ DOMAIN kernel.cspace = {System} /\ DOMAIN kernel.cspace[System] = {} /\ DOMAIN kernel.tcb = {}
      /\ DOMAIN kernel.irqs = {}
  <2>1. /\ kernel.cspace = [cnode \in {System} |-> <<>>] /\ kernel.tcb = <<>> /\ kernel.irqs = <<>>
    BY DEF Bare
  <2>2. DOMAIN <<>> = {}
    OBVIOUS
  <2> QED
    BY <2>1, <2>2
<1>3. ArgsKnown /\ TargetsThere /\ Retyped /\ IrqsTaken /\ Minted /\ Budgeted
  BY <1>1 DEF ArgsKnown, TargetsThere, Retyped, IrqsTaken, Minted, Mints, Budgeted
<1>4. Backed /\ MintedOnly /\ LastWritten /\ IrqsSet
  BY <1>2 DEF Backed, MintedOnly, LastWritten, IrqsSet
<1> QED
  BY <1>3, <1>4 DEF Effects

LEMMA EffectsSame ==
  ASSUME Effects, UNCHANGED <<plan, step, iter, kernel>>
  PROVE  Effects'
<1>1. /\ \A m, i : Done(m, i)' <=> Done(m, i)
      /\ \A m, i, f : ArgAt(m, i, f)' = ArgAt(m, i, f)
      /\ \A a : CapOf(a)' = CapOf(a) /\ (Known(a)' <=> Known(a))
  BY DEF Done, ArgAt, CapOf, Known
<1>2. \A m, i, f : CapAt(m, i, f)' = CapAt(m, i, f)
  BY DEF CapAt, ArgAt, CapOf
<1>3. \A m, i : Fresh(m, i)' = Fresh(m, i) /\ MintedCap(m, i)' = MintedCap(m, i)
  BY DEF Fresh, MintedCap, CapAt, ArgAt, CapOf
<1>4. ArgsKnown' /\ TargetsThere'
  <2>1. ArgsKnown'
    <3>1. ArgsKnown
      BY DEF Effects
    <3> QED
      BY <1>1, <3>1 DEF ArgsKnown, ArgAt, Known
  <2> QED
    BY <1>1, <1>2, <2>1 DEF TargetsThere, Effects
<1>5. Backed' /\ Retyped' /\ IrqsTaken'
  BY <1>1 DEF Backed, Retyped, IrqsTaken, Effects, Has
<1>6. Minted' /\ MintedOnly'
  <2>1. ASSUME NEW m, NEW i
        PROVE  (Mints(m, i)' <=> Mints(m, i)) /\ CapAt(m, i, "cnode").obj' = CapAt(m, i, "cnode").obj
    BY <1>1, <1>2 DEF Mints
  <2>2. Minted'
    <3>1. SUFFICES ASSUME NEW m, NEW i, Mints(m, i)'
                   PROVE  Has(CapAt(m, i, "cnode").obj, ArgAt(m, i, "dest"), MintedCap(m, i))'
      BY DEF Minted
    <3>2. Has(CapAt(m, i, "cnode").obj, ArgAt(m, i, "dest"), MintedCap(m, i))
      BY <2>1, <3>1 DEF Minted, Effects
    <3> QED
      BY <1>1, <1>3, <2>1, <3>2 DEF Has
  <2>3. MintedOnly'
    BY <1>1, <1>3, <2>1 DEF MintedOnly, Effects
  <2> QED
    BY <2>2, <2>3
<1>7. LastWritten'
  <2>1. \A m, i, t, f : Writes(m, i, t, f)' <=> Writes(m, i, t, f)
    BY <1>1, <1>2, <1>3 DEF Writes
  <2> QED
    BY <1>3, <2>1 DEF LastWritten, Effects
<1>8. Budgeted' /\ IrqsSet'
  <2>1. \A m, i, irq : Sets(m, i, irq)' <=> Sets(m, i, irq)
    BY <1>1, <1>2 DEF Sets
  <2> QED
    BY <1>1, <1>2, <2>1 DEF Budgeted, IrqsSet, Effects
<1> QED
  BY <1>4, <1>5, <1>6, <1>7, <1>8 DEF Effects

\* The iteration at hand is one of the plan.
LEMMA CountedHere ==
  ASSUME Counted, pc = "boot"
  PROVE  /\ InOrderToStart(plan) /\ Len(plan) \in Nat /\ step \in 1..Len(plan) /\ iter \in Nat
         /\ plan[step].count \in Nat /\ iter < plan[step].count
BY DEF Counted, Booting, InOrderToStart, IsList

LEMMA EffectsTaken ==
  ASSUME Counted, Effects, Taken, RetypesOk
  PROVE  Effects'
<1>1. pc = "boot" /\ plan' = plan
  BY DEF Taken
<1>2. CASE Halt
  BY <1>1, <1>2, EffectsSame DEF Halt
<1>3. CASE Advance /\ CapsKnown /\ Deed
  <2>1. \A m, i : Done(m, i)' <=> Done(m, i) \/ (m = step /\ i = iter)
    BY <1>1, <1>3, DoneNext, CountedHere
  <2>2. \A m, i : Done(m, i) => m \in Int /\ m <= step /\ ~(m = step /\ i = iter)
    BY <1>1, CountedHere DEF Done
  <2>3. Performed
    BY <1>1, <1>3, <2>1, <2>2, CountedHere DEF Performed
  <2>4. Retypable(plan[step])
    BY <1>1, CountedHere DEF RetypesOk, Booting
  <2> QED
    BY <2>3, <2>4, ArgsKnownNext, TargetsNext, BackedNext, RetypedNext, IrqsTakenNext, MintedNext, MintedOnlyNext,
       LastWrittenNext, BudgetedNext, IrqsSetNext DEF Effects
<1> QED
  BY <1>2, <1>3 DEF Taken

LEMMA CountedTaken ==
  ASSUME IInv, Counted, Taken, SysInitStep
  PROVE  Counted'
<1>1. pc = "boot" /\ plan' = plan
  BY DEF Taken
<1>2. /\ InOrderToStart(plan) /\ Len(plan) \in Nat /\ step \in 1..Len(plan) /\ iter \in Nat
      /\ plan[step].count \in Nat /\ iter < plan[step].count
  BY <1>1, CountedHere
<1>3. pc' \in Booting /\ InOrderToStart(plan)'
  BY <1>1, <1>2 DEF Taken, Halt, Advance, Booting, InOrderToStart, IsList, Starts
<1>4. step' \in {step, step + 1} /\ iter' \in Nat
  <2>1. Halt \/ Advance
    BY DEF Taken
  <2>2. CASE Halt
    BY <1>2, <2>2 DEF Halt
  <2>3. CASE Advance
    BY <1>2, <2>3 DEF Advance
  <2> QED
    BY <2>1, <2>2, <2>3
<1>5. \A m \in 1..Len(plan) : Started' /\ plan[m].op \notin Starts => m < step'
  <2> SUFFICES ASSUME NEW m \in 1..Len(plan), Started', plan[m].op \notin Starts
               PROVE  m < step'
    OBVIOUS
  <2>1. PICK op : Turn(op) /\ ((NoStart /\ op \notin Starts) \/ (KernelOk' /\ Steady /\ op \in Starts))
    BY TurnTaken DEF IInv
  <2>2. CASE NoStart
    <3>1. Started
      BY <2>2 DEF Started, NoStart
    <3> QED
      BY <1>1, <1>2, <1>4, <3>1 DEF Counted, Booting
  <2>3. CASE op \in Starts
    <3>1. plan[step].op \in Starts
      BY <2>1, <2>3 DEF Turn
    <3> QED
      BY <1>2, <1>4, <3>1 DEF InOrderToStart
  <2> QED
    BY <2>1, <2>2, <2>3
<1>6. pc' = "boot" => step' <= Len(plan) /\ iter' < plan[step'].count
  <2> SUFFICES ASSUME pc' = "boot"
               PROVE  step' <= Len(plan) /\ iter' < plan[step'].count
    OBVIOUS
  <2>1. Advance
    BY DEF Taken, Halt
  <2>2. plan[step].op # "Suspend"
    BY <2>1 DEF Advance
  <2>3. step # Len(plan)
    BY <1>2, <2>2 DEF InOrderToStart
  <2>4. step' \in 1..Len(plan)
    BY <1>2, <1>4, <2>3
  <2>5. plan[step'].count \in Nat \ {0}
    BY <1>2, <2>4 DEF InOrderToStart
  <2> QED
    BY <1>2, <2>1, <2>4, <2>5 DEF Advance
<1> QED
  <2>1. step' \in 1..Len(plan') + 1
    BY <1>1, <1>2, <1>4
  <2>2. (\A m \in 1..Len(plan) : Started /\ plan[m].op \notin Starts => m < step)'
    BY <1>1, <1>5
  <2>3. (pc = "boot" => step <= Len(plan) /\ iter < plan[step].count)'
    BY <1>1, <1>6
  <2> QED
    BY <1>3, <1>4, <2>1, <2>2, <2>3 DEF Counted

\* What the tool does, it does before.
LEMMA CountedBefore ==
  ASSUME IInv, Counted, UNCHANGED <<step, iter, kernel>>,
         (pc' \in Booting => pc' = pc \/ (pc = "link" /\ pc' = "boot")), pc \notin Booting, plan' = plan \/ pc' \notin Booting
  PROVE  Counted'
<1>1. step = 1 /\ iter = 0 /\ kernel = Bare
  BY DEF Counted
<1>2. CASE pc' \notin Booting
  BY <1>1, <1>2, BootingPcs DEF Counted, Bare
<1>3. CASE pc' \in Booting
  <2>1. pc = "link" /\ pc' = "boot" /\ plan' = plan
    BY <1>3
  <2>2. InOrderToStart(plan) /\ ~Started
    BY <2>1, BuiltPcs DEF IInv
  <2>3. InOrderToStart(plan)' /\ ~Started'
    BY <2>1, <2>2 DEF InOrderToStart, IsList, Starts, Started
  <2>4. Len(plan) \in Nat \ {0} /\ plan[1].count \in Nat \ {0}
    BY <2>2 DEF InOrderToStart, IsList
  <2>5. step' = 1 /\ iter' = 0
    BY <1>1
  <2>6. step' \in 1..Len(plan') + 1 /\ iter' \in Nat /\ step' <= Len(plan') /\ iter' < plan'[step'].count
    BY <2>1, <2>4, <2>5
  <2>7. (\A m \in 1..Len(plan) : Started /\ plan[m].op \notin Starts => m < step)'
    BY <2>3
  <2> QED
    BY <1>3, <2>3, <2>6, <2>7 DEF Counted
<1> QED
  BY <1>2, <1>3

LEMMA InitEffects == Init => Counted /\ Effects
<1> SUFFICES ASSUME Init
             PROVE  Counted /\ Effects
  OBVIOUS
<1>1. step = 1 /\ iter = 0 /\ kernel = Bare /\ pc = "parse"
  BY DEF Init, Bare, DescriptionInit
<1> QED
  BY <1>1, BareEffects, BootingPcs DEF Counted

\* A step of the tool, or one of the init task.
LEMMA ToolOrInit ==
  ASSUME IInv, [Next]_vars
  PROVE  \/ SysInitStep
         \/ UNCHANGED vars
         \/ /\ UNCHANGED <<step, iter, kernel>> /\ pc \notin Booting
            /\ (pc' \in Booting => pc = "link" /\ pc' = "boot")
            /\ plan' = plan \/ pc' \notin Booting
<1>1. CASE ReadDescription /\ UNCHANGED <<objectVars, plan, step, iter, kernel>>
  <2>1. pc \in {"check", "parse"} /\ pc' \in {"build", "refused", "parse", "check"}
    BY <1>1, ReadPcs
  <2> QED
    BY <1>1, <2>1, BootingPcs
<1>2. CASE (LayOut \/ MapRegions \/ CollectObjects \/ AllocateObjects) /\ UNCHANGED <<plan, step, iter, kernel>>
  <2>1. pc \in {"build"} \cup Built /\ pc' \in {"refused"} \cup Built
    BY <1>2 DEF LayOut, MapRegions, CollectObjects, AllocateObjects, Build, Built
  <2> QED
    BY <1>2, <2>1, BootingPcs
<1>3. CASE (MakePlan \/ Size \/ Link) /\ UNCHANGED <<step, iter, kernel>>
  <2>1. CASE MakePlan
    <3>1. pc = "plan" /\ pc' \in {"refused", "size"}
      BY <2>1 DEF MakePlan, Build
    <3> QED
      BY <1>3, <3>1, BootingPcs, BuiltPcs
  <2>2. CASE Size
    <3>1. pc = "size" /\ pc' \in {"link", "build"}
      BY <2>2 DEF Size
    <3> QED
      BY <1>3, <3>1, BootingPcs
  <2>3. CASE Link
    <3>1. pc = "link" /\ pc' \in {"refused", "boot"} /\ plan' = plan
      BY <2>3 DEF Link, Build
    <3> QED
      BY <1>3, <3>1, BootingPcs
  <2> QED
    BY <1>3, <2>1, <2>2, <2>3
<1> QED
  BY <1>1, <1>2, <1>3 DEF Next

LEMMA EffectsInductive ==
  ASSUME IInv, tablePages \in Nat, RetypesOk, Counted, Effects, [Next]_vars
  PROVE  Counted' /\ Effects'
<1>1. CASE SysInitStep
  <2>1. KernelOk /\ Backed
    BY DEF IInv, Effects
  <2>2. Taken
    BY <1>1, <2>1, StepTaken
  <2> QED
    BY <1>1, <2>2, EffectsTaken, CountedTaken
<1>2. CASE UNCHANGED vars
  <2>1. UNCHANGED <<pc, plan, step, iter, kernel>>
    BY <1>2 DEF vars
  <2>2. Effects'
    BY <2>1, EffectsSame
  <2>3. Counted'
    BY <2>1 DEF Counted, InOrderToStart, IsList, Started, Booting, Bare, Starts
  <2> QED
    BY <2>2, <2>3
<1>3. CASE /\ UNCHANGED <<step, iter, kernel>> /\ pc \notin Booting
           /\ (pc' \in Booting => pc = "link" /\ pc' = "boot")
           /\ plan' = plan \/ pc' \notin Booting
  <2>1. Counted'
    BY <1>3, CountedBefore
  <2>2. step = 1 /\ iter = 0 /\ kernel = Bare
    BY <1>3 DEF Counted
  <2>3. (step = 1 /\ iter = 0 /\ kernel = Bare)'
    BY <1>3, <2>2 DEF Bare
  <2>4. (step = 1 /\ iter = 0 /\ kernel = Bare => Effects)'
    BY BareEffects, PTL
  <2> QED
    BY <2>1, <2>3, <2>4
<1> QED
  BY <1>1, <1>2, <1>3, ToolOrInit

-----------------------------------------------------------------------------
(* The description that is built *)

\* What is so of a PD once it has ended.
Family(p) ==
  /\ Cardinality(Children(p)) < 2 /\ \A c \in Children(p) : pds[c].pd_id = 0
  /\ pds[p].threads = 0 \/ Cardinality(Children(p)) < pds[p].threads
  /\ pds[p].root_ppc => Cardinality(Children(p)) > 0
IsOpen(p) == p \in ToSet(open)
Families == \A p \in DOMAIN pds : IsOpen(p) \/ Family(p)

\* Threads other than its own has a root PD only.
RootThreads == \A p \in DOMAIN pds : pds[p].threads > 0 => ~Parented(p)

\* What the checks at the end leave of the descriptions.
Accepted ==
  /\ \A p, q \in DOMAIN pds : pds[p].name = pds[q].name => p = q
  /\ \A cc \in ToSet(channels) : {cc.a, cc.b} \subseteq PdNames
  /\ \A m, n \in DOMAIN AllIrqs : AllIrqs[m].irq = AllIrqs[n].irq => m = n
  /\ \A p \in DOMAIN pds : \A m, n \in DOMAIN pds[p].irqs : pds[p].irqs[m].id = pds[p].irqs[n].id => m = n
  /\ \A n \in DOMAIN channels : ChannelIdsFree(n)
PastCheck == {"build", "size", "link"} \cup Built \cup Booting
DescInv ==
  /\ Families /\ RootThreads /\ (pc \notin {"parse", "refused"} => open = <<>>)
  /\ pc \in PastCheck => Accepted

\* A family remains one if nothing of it changes.
LEMMA FamilyKept ==
  ASSUME NEW p \in DOMAIN pds, Family(p), DOMAIN pds \subseteq DOMAIN pds',
         pds'[p].threads = pds[p].threads, pds'[p].root_ppc = pds[p].root_ppc,
         \A q \in DOMAIN pds : pds'[q].parent = pds[q].parent /\ pds'[q].pd_id = pds[q].pd_id,
         \A q \in DOMAIN pds' \ DOMAIN pds : pds'[q].parent # p
  PROVE  Family(p)'
<1>1. Children(p)' = Children(p) /\ Children(p) \subseteq DOMAIN pds
  BY DEF Children
<1>2. \A c \in Children(p) : pds'[c].pd_id = pds[c].pd_id
  BY <1>1
<1> HIDE DEF Children
<1> QED
  BY <1>1, <1>2 DEF Family

LEMMA FamiliesSame ==
  ASSUME Families, UNCHANGED pds, \A p \in DOMAIN pds : IsOpen(p) => IsOpen(p)'
  PROVE  Families'
<1> SUFFICES ASSUME NEW p \in DOMAIN pds, ~IsOpen(p) PROVE Family(p)'
  BY DEF Families
<1>1. Family(p)
  BY DEF Families
<1> QED
  BY <1>1, FamilyKept

LEMMA FamiliesRefused ==
  ASSUME Families, UNCHANGED <<open, pds>>
  PROVE  Families'
BY FamiliesSame DEF IsOpen

LEMMA LastOpen ==
  ASSUME Described, open # <<>>
  PROVE  /\ IsOpen(Last(open)) /\ Len(open) \in Nat \ {0}
         /\ \A x : IsOpen(x) <=> \E n \in 1..Len(open) : open[n] = x
<1>1. open \in Seq(0..Len(pds))
  BY DEF Described
<1>2. DOMAIN open = 1..Len(open) /\ Len(open) \in Nat \ {0}
  BY <1>1
<1> QED
  BY <1>2 DEF IsOpen, ToSet, Last

LEMMA OpenPDFamilies ==
  ASSUME Described, Families, OpenPD
  PROVE  Families'
<1> DEFINE k == Len(pds) + 1
<1>1. CASE raised' # "ok"
  BY <1>1, FamiliesRefused DEF OpenPD, Accept
<1>2. CASE raised' = "ok"
  <2>1. PICK pd : /\ pds' = Append(pds, pd) /\ open' = Append(open, k)
                  /\ pd.parent = IF InPD THEN Last(open) ELSE NoParent
    <3> DEFINE parent == IF InPD THEN Last(open) ELSE NoParent
               partition == CASE InPD -> pds[parent].partition
                              [] open = <<>> -> 0
                              [] OTHER -> Last(partitions).id
               new == NewPd(document[at], parent, partition)
    <3>1. pds' = Append(pds, new) /\ open' = Append(open, k)
      BY <1>2 DEF OpenPD, Accept, NewPd
    <3>2. new.parent = parent
      BY DEF NewPd
    <3> HIDE DEF new
    <3> QED
      BY <3>1, <3>2
  <2>2. /\ Len(pds) \in Nat /\ DOMAIN pds = 1..Len(pds) /\ DOMAIN pds' = 1..k /\ pds'[k] = pd
        /\ \A q \in DOMAIN pds : pds'[q] = pds[q]
    BY <2>1 DEF Described
  <2>3. \A x : IsOpen(x)' <=> IsOpen(x) \/ x = k
    <3>1. open \in Seq(0..Len(pds))
      BY DEF Described
    <3>2. Len(open) \in Nat /\ DOMAIN open = 1..Len(open) /\ DOMAIN open' = 1..Len(open) + 1 /\ open'[Len(open) + 1] = k
          /\ \A n \in 1..Len(open) : open'[n] = open[n]
      BY <2>1, <3>1
    <3> QED
      BY <3>2 DEF IsOpen, ToSet
  <2>4. ASSUME NEW p \in DOMAIN pds, ~IsOpen(p)
        PROVE  Family(p)'
    <3>1. Family(p)
      BY <2>4 DEF Families
    <3>2. pd.parent # p
      <4>1. CASE InPD
        BY <2>1, <2>4, <4>1, LastOpen DEF InPD
      <4>2. CASE ~InPD
        BY <2>1, <2>2, <4>2 DEF NoParent
      <4> QED
        BY <4>1, <4>2
    <3> QED
      BY <2>2, <3>1, <3>2, FamilyKept
  <2> QED
    BY <2>2, <2>3, <2>4 DEF Families
<1> QED
  BY <1>1, <1>2

\* An element inside a PD that is open.
LEMMA InPDFamilies ==
  ASSUME Described, Families, InPD, NEW pd, pds' = [pds EXCEPT ![Last(open)] = pd],
         pd.parent = pds[Last(open)].parent, pd.pd_id = pds[Last(open)].pd_id, UNCHANGED open
  PROVE  Families'
<1>1. Last(open) \in DOMAIN pds /\ IsOpen(Last(open))
  BY OpenOne, LastOpen DEF InPD
<1>2. /\ DOMAIN pds' = DOMAIN pds /\ \A q \in DOMAIN pds : q # Last(open) => pds'[q] = pds[q]
      /\ pds'[Last(open)] = pd
  BY <1>1
<1>3. \A x : IsOpen(x)' <=> IsOpen(x)
  BY DEF IsOpen
<1>4. ASSUME NEW p \in DOMAIN pds, ~IsOpen(p)
      PROVE  Family(p)'
  <2>1. Family(p) /\ p # Last(open)
    BY <1>1, <1>4 DEF Families
  <2> QED
    BY <1>2, <2>1, FamilyKept
<1> QED
  BY <1>2, <1>3, <1>4 DEF Families

LEMMA ReadInPDFamilies ==
  ASSUME Described, Families, ReadProgramImage \/ ReadMap \/ ReadIrq \/ ReadSetvar
  PROVE  Families'
<1> DEFINE old == pds[Last(open)]
<1>1. CASE raised' # "ok"
  BY <1>1, FamiliesRefused DEF ReadProgramImage, ReadMap, ReadIrq, ReadSetvar, ReadInPD, Accept
<1>2. CASE raised' = "ok"
  <2>1. InPD /\ UNCHANGED open
    BY <1>2 DEF ReadProgramImage, ReadMap, ReadIrq, ReadSetvar, ReadInPD, Accept
  <2>2. old \in PdType
    BY <2>1, OpenOne DEF Described
  <2>3. \E pd : pds' = [pds EXCEPT ![Last(open)] = pd] /\ pd.parent = old.parent /\ pd.pd_id = old.pd_id
    <3>1. CASE ReadProgramImage
      <4> DEFINE pd == [old EXCEPT !.image = TRUE]
      <4>1. pds' = [pds EXCEPT ![Last(open)] = pd]
        BY <1>2, <3>1 DEF ReadProgramImage, ReadInPD, Accept
      <4>2. pd.parent = old.parent /\ pd.pd_id = old.pd_id
        BY <2>2 DEF PdType
      <4> QED
        BY <4>1, <4>2
    <3>2. CASE ReadMap
      <4> DEFINE pd == [old EXCEPT !.maps = Append(@, [mr |-> <<"mr", document[at].mr>>, vaddr |-> document[at].vaddr,
                                                       perms |-> document[at].perms])]
      <4>1. pds' = [pds EXCEPT ![Last(open)] = pd]
        BY <1>2, <3>2 DEF ReadMap, ReadInPD, Accept
      <4>2. pd.parent = old.parent /\ pd.pd_id = old.pd_id
        BY <2>2 DEF PdType
      <4> QED
        BY <4>1, <4>2
    <3>3. CASE ReadIrq
      <4> DEFINE pd == [old EXCEPT !.irqs = Append(@, [irq |-> document[at].irq, id |-> document[at].id])]
      <4>1. pds' = [pds EXCEPT ![Last(open)] = pd]
        BY <1>2, <3>3 DEF ReadIrq, ReadInPD, Accept
      <4>2. pd.parent = old.parent /\ pd.pd_id = old.pd_id
        BY <2>2 DEF PdType
      <4> QED
        BY <4>1, <4>2
    <3>4. CASE ReadSetvar
      <4> DEFINE pd == [old EXCEPT !.setvars = Append(@, document[at].region)]
      <4>1. pds' = [pds EXCEPT ![Last(open)] = pd]
        BY <1>2, <3>4 DEF ReadSetvar, ReadInPD, Accept
      <4>2. pd.parent = old.parent /\ pd.pd_id = old.pd_id
        BY <2>2 DEF PdType
      <4> QED
        BY <4>1, <4>2
    <3> QED
      BY <3>1, <3>2, <3>3, <3>4
  <2> HIDE DEF old
  <2> QED
    BY <2>1, <2>3, InPDFamilies DEF old
<1> QED
  BY <1>1, <1>2

\* The PD that ends is a family then: the checks at its end see to it, and threads it has no
\* more of than children are forgotten.
LEMMA ClosePDFamilies ==
  ASSUME Described, Families, ClosePD
  PROVE  Families'
<1>0. PICK p : p = Last(open)
  OBVIOUS
<1> DEFINE number == Cardinality(Children(p))
           threads == IF pds[p].threads <= number THEN 0 ELSE pds[p].threads
           pd == [pds[p] EXCEPT !.threads = threads]
           a == <<pds[p].image, "no image">>
           b == <<number < 2, "TypeError">>
           c == <<\A q \in Children(p) : pds[q].pd_id = 0, "pd_ids not sequential">>
           d == <<pds[p].root_ppc => number > 0, "root_pp without children">>
<1>1. CASE raised' # "ok"
  BY <1>1, FamiliesRefused DEF ClosePD, Accept
<1>2. CASE raised' = "ok"
  <2>1. /\ pds' = [pds EXCEPT ![p] = pd] /\ open' = Front(open) /\ InPD
        /\ FirstFailure(<<a, b, c, d>>) = "ok"
    BY <1>0, <1>2 DEF ClosePD, Accept
  <2>2. p \in DOMAIN pds /\ pds[p] \in PdType
    <3>1. p \in DOMAIN pds
      BY <1>0, <2>1, OpenOne
    <3> QED
      BY <3>1 DEF Described
  <2>3. /\ DOMAIN pds' = DOMAIN pds /\ \A q \in DOMAIN pds : q # p => pds'[q] = pds[q]
        /\ pds'[p].threads = threads /\ pds'[p].root_ppc = pds[p].root_ppc
        /\ pds'[p].parent = pds[p].parent /\ pds'[p].pd_id = pds[p].pd_id
    BY <2>1, <2>2 DEF PdType
  <2>4. b[1] /\ c[1] /\ d[1]
    <3> DEFINE checks == <<a, b, c, d>>
    <3>1. a[2] # "ok" /\ b[2] # "ok" /\ c[2] # "ok" /\ d[2] # "ok"
      OBVIOUS
    <3> HIDE DEF a, b, c, d
    <3>2. DOMAIN checks = 1..4 /\ checks[1] = a /\ checks[2] = b /\ checks[3] = c /\ checks[4] = d
      OBVIOUS
    <3>3. FirstFailure(checks) = "ok"
      BY <2>1
    <3> HIDE DEF checks
    <3>4. \A m \in DOMAIN checks : checks[m][2] # "ok"
      BY <3>1, <3>2
    <3> QED
      BY <3>2, <3>3, <3>4, CheckHolds
  <2>5. \A x : IsOpen(x) => IsOpen(x)' \/ x = p
    <3>1. Len(open) \in Nat \ {0} /\ \A x : IsOpen(x) <=> \E n \in 1..Len(open) : open[n] = x
      BY <2>1, LastOpen DEF InPD
    <3>2. open \in Seq(0..Len(pds)) /\ Len(open) \in Nat /\ Len(open) # 0
      BY <2>1, <3>1 DEF Described
    <3> DEFINE k == Len(open) - 1
    <3>6. open' = Front(open)
      BY <2>1
    <3>3. open' = [n \in 1..k |-> open[n]] /\ k \in Nat
      BY <3>2, <3>6 DEF Front
    <3>4. DOMAIN open' = 1..k /\ \A n \in 1..k : open'[n] = open[n]
      BY <3>3
    <3>5. p = open[Len(open)]
      BY <1>0 DEF Last
    <3> QED
      BY SMTT(40), <3>1, <3>2, <3>4, <3>5 DEF IsOpen, ToSet
  <2>6. ASSUME NEW q \in DOMAIN pds, q # p, ~IsOpen(q)
        PROVE  Family(q)'
    <3>1. Family(q)
      BY <2>6 DEF Families
    <3> QED
      BY <2>3, <2>6, <3>1, FamilyKept
  <2>7. Family(p)'
    <3>1. Children(p)' = Children(p) /\ \A q \in Children(p) : pds'[q].pd_id = pds[q].pd_id
      <4>1. \A q \in DOMAIN pds : pds'[q].parent = pds[q].parent /\ pds'[q].pd_id = pds[q].pd_id
        BY <2>2, <2>3
      <4> QED
        BY <2>3, <4>1 DEF Children
    <3>2. /\ number < 2 /\ \A q \in Children(p) : pds[q].pd_id = 0
          /\ pds[p].root_ppc => number > 0
      BY <2>4
    <3>3. pds[p].threads \in Nat
      BY <2>2 DEF PdType
    <3>4. number \in Nat
      <4>1. IsFiniteSet(DOMAIN pds)
        <5>1. DOMAIN pds = 1..Len(pds) /\ Len(pds) \in Nat
          BY OpenOne
        <5> QED
          BY <5>1, FS_Interval
      <4>2. IsFiniteSet(Children(p))
        BY <4>1, FS_Subset DEF Children
      <4> QED
        BY <4>2, FS_CardinalityType
    <3>5. threads = 0 \/ number < threads
      BY <3>3, <3>4
    <3> HIDE DEF threads
    <3> QED
      BY <2>3, <3>1, <3>2, <3>5 DEF Family
  <2>8. ASSUME NEW q \in DOMAIN pds', ~IsOpen(q)'
        PROVE  Family(q)'
    <3>1. CASE q = p
      BY <2>7, <3>1
    <3>2. CASE q # p
      BY <2>3, <2>5, <2>6, <2>8, <3>2
    <3> QED
      BY <3>1, <3>2
  <2> QED
    BY <2>8 DEF Families
<1> QED
  BY <1>1, <1>2

LEMMA RootThreadsKept ==
  ASSUME RootThreads, DOMAIN pds' = DOMAIN pds,
         \A p \in DOMAIN pds : /\ pds'[p].parent = pds[p].parent
                               /\ pds'[p].threads = pds[p].threads \/ pds'[p].threads = 0
  PROVE  RootThreads'
BY DEF RootThreads, Parented

\* It is checked where the PD begins, and no element inside it changes that.
LEMMA OpenPDRootThreads ==
  ASSUME Described, RootThreads, OpenPD, raised' = "ok"
  PROVE  RootThreads'
<1> DEFINE parent == IF InPD THEN Last(open) ELSE NoParent
           partition == CASE InPD -> pds[parent].partition
                          [] open = <<>> -> 0
                          [] OTHER -> Last(partitions).id
           el == document[at]
           new == NewPd(el, parent, partition)
           a == <<el.priority \in Priorities, "priority">>
           b == <<parent # NoParent => el.pd_id \in 0..255, "pd_id">>
           c == <<el.threads > 0 => parent = NoParent, "threads of a child">>
           d == <<el.threads >= 0, "threads">>
           e == <<el.budget <= el.period, "budget">>
<1>1. pds' = Append(pds, new) /\ FirstFailure(<<a, b, c, d, e>>) = "ok"
  BY DEF OpenPD, Accept, NewPd
<1>2. new.parent = parent /\ new.threads = el.threads
  BY DEF NewPd
<1>3. c[1]
  <2> DEFINE checks == <<a, b, c, d, e>>
  <2>1. a[2] # "ok" /\ b[2] # "ok" /\ c[2] # "ok" /\ d[2] # "ok" /\ e[2] # "ok"
    OBVIOUS
  <2> HIDE DEF a, b, c, d, e
  <2>2. DOMAIN checks = 1..5 /\ checks[1] = a /\ checks[2] = b /\ checks[3] = c /\ checks[4] = d /\ checks[5] = e
    OBVIOUS
  <2>3. FirstFailure(checks) = "ok"
    BY <1>1
  <2> HIDE DEF checks
  <2>4. \A m \in DOMAIN checks : checks[m][2] # "ok"
    BY <2>1, <2>2
  <2> QED
    BY <2>2, <2>3, <2>4, CheckHolds
<1> HIDE DEF new
<1>4. new.threads > 0 => new.parent = NoParent
  BY <1>2, <1>3
<1>5. /\ Len(pds) \in Nat /\ DOMAIN pds = 1..Len(pds) /\ DOMAIN pds' = 1..Len(pds) + 1 /\ pds'[Len(pds) + 1] = new
      /\ \A q \in DOMAIN pds : pds'[q] = pds[q]
  <2>1. pds' = Append(pds, new)
    BY <1>1
  <2> HIDE DEF a, b, c, d, e, parent, partition, el
  <2>2. pds \in Seq(PdType)
    BY DEF Described
  <2> QED
    BY <2>1, <2>2
<1>6. ASSUME NEW p \in DOMAIN pds', pds'[p].threads > 0
      PROVE  pds'[p].parent = NoParent
  <2>1. CASE p \in DOMAIN pds
    BY <1>5, <1>6, <2>1 DEF RootThreads, Parented
  <2>2. CASE p = Len(pds) + 1
    BY <1>4, <1>5, <1>6, <2>2
  <2> QED
    BY <1>5, <2>1, <2>2
<1> QED
  BY <1>6 DEF RootThreads, Parented

LEMMA ReadInPDRootThreads ==
  ASSUME Described, RootThreads, ReadProgramImage \/ ReadMap \/ ReadIrq \/ ReadSetvar, raised' = "ok"
  PROVE  RootThreads'
<1> DEFINE old == pds[Last(open)]
<1>1. InPD
  BY DEF ReadProgramImage, ReadMap, ReadIrq, ReadSetvar, ReadInPD, Accept
<1>2. Last(open) \in DOMAIN pds /\ old \in PdType
  BY <1>1, OpenOne DEF Described
<1>3. \E pd : pds' = [pds EXCEPT ![Last(open)] = pd] /\ pd.parent = old.parent /\ pd.threads = old.threads
  <2>1. CASE ReadProgramImage
    <3> DEFINE pd == [old EXCEPT !.image = TRUE]
    <3>1. pds' = [pds EXCEPT ![Last(open)] = pd]
      BY <2>1 DEF ReadProgramImage, ReadInPD, Accept
    <3>2. pd.parent = old.parent /\ pd.threads = old.threads
      BY <1>2 DEF PdType
    <3> QED
      BY <3>1, <3>2
  <2>2. CASE ReadMap
    <3> DEFINE pd == [old EXCEPT !.maps = Append(@, [mr |-> <<"mr", document[at].mr>>, vaddr |-> document[at].vaddr,
                                                     perms |-> document[at].perms])]
    <3>1. pds' = [pds EXCEPT ![Last(open)] = pd]
      BY <2>2 DEF ReadMap, ReadInPD, Accept
    <3>2. pd.parent = old.parent /\ pd.threads = old.threads
      BY <1>2 DEF PdType
    <3> QED
      BY <3>1, <3>2
  <2>3. CASE ReadIrq
    <3> DEFINE pd == [old EXCEPT !.irqs = Append(@, [irq |-> document[at].irq, id |-> document[at].id])]
    <3>1. pds' = [pds EXCEPT ![Last(open)] = pd]
      BY <2>3 DEF ReadIrq, ReadInPD, Accept
    <3>2. pd.parent = old.parent /\ pd.threads = old.threads
      BY <1>2 DEF PdType
    <3> QED
      BY <3>1, <3>2
  <2>4. CASE ReadSetvar
    <3> DEFINE pd == [old EXCEPT !.setvars = Append(@, document[at].region)]
    <3>1. pds' = [pds EXCEPT ![Last(open)] = pd]
      BY <2>4 DEF ReadSetvar, ReadInPD, Accept
    <3>2. pd.parent = old.parent /\ pd.threads = old.threads
      BY <1>2 DEF PdType
    <3> QED
      BY <3>1, <3>2
  <2> QED
    BY <2>1, <2>2, <2>3, <2>4
<1>4. PICK pd : pds' = [pds EXCEPT ![Last(open)] = pd] /\ pd.parent = old.parent /\ pd.threads = old.threads
  BY <1>3
<1>5. DOMAIN pds' = DOMAIN pds /\ \A p \in DOMAIN pds : pds'[p].parent = pds[p].parent /\ pds'[p].threads = pds[p].threads
  BY <1>2, <1>4
<1> QED
  BY <1>5, RootThreadsKept

LEMMA ClosePDRootThreads ==
  ASSUME Described, RootThreads, ClosePD, raised' = "ok"
  PROVE  RootThreads'
<1>0. PICK p : p = Last(open)
  OBVIOUS
<1> DEFINE threads == IF pds[p].threads <= Cardinality(Children(p)) THEN 0 ELSE pds[p].threads
           pd == [pds[p] EXCEPT !.threads = threads]
<1>1. pds' = [pds EXCEPT ![p] = pd] /\ InPD
  BY <1>0 DEF ClosePD, Accept
<1>2. p \in DOMAIN pds /\ pds[p] \in PdType
  BY <1>0, <1>1, OpenOne DEF Described
<1>3. pd.parent = pds[p].parent /\ pd.threads = threads /\ (threads = 0 \/ threads = pds[p].threads)
  BY <1>2 DEF PdType
<1> HIDE DEF pd, threads
<1>4. DOMAIN pds' = DOMAIN pds /\ \A q \in DOMAIN pds : pds'[q] = IF q = p THEN pd ELSE pds[q]
  BY <1>1
<1>5. \A q \in DOMAIN pds : pds'[q].parent = pds[q].parent /\ (pds'[q].threads = pds[q].threads \/ pds'[q].threads = 0)
  BY <1>3, <1>4
<1> QED
  BY <1>4, <1>5, RootThreadsKept

LEMMA ReadRootThreads ==
  ASSUME Described, RootThreads, ReadDescription
  PROVE  RootThreads'
<1>1. CASE ReadMemoryRegion \/ ReadChannel \/ OpenPartition \/ ClosePartition \/ EndOfDocument \/ CheckDescription
  <2>1. UNCHANGED pds
    BY <1>1 DEF ReadMemoryRegion, ReadChannel, OpenPartition, ClosePartition, EndOfDocument, CheckDescription, Accept, description
  <2> QED
    BY <2>1, RootThreadsKept
<1>2. CASE raised' # "ok" /\ (OpenPD \/ ClosePD \/ ReadProgramImage \/ ReadMap \/ ReadIrq \/ ReadSetvar)
  <2>1. UNCHANGED pds
    BY <1>2 DEF OpenPD, ClosePD, ReadProgramImage, ReadMap, ReadIrq, ReadSetvar, ReadInPD, Accept
  <2> QED
    BY <2>1, RootThreadsKept
<1> QED
  BY <1>1, <1>2, OpenPDRootThreads, ReadInPDRootThreads, ClosePDRootThreads DEF ReadDescription

LEMMA ReadFamilies ==
  ASSUME Described, Families, ReadDescription
  PROVE  Families'
<1>1. CASE ReadMemoryRegion \/ ReadChannel
  <2>1. UNCHANGED <<open, pds>>
    BY <1>1 DEF ReadMemoryRegion, ReadChannel, Accept
  <2> QED
    BY <2>1, FamiliesRefused
<1>2. CASE OpenPartition \/ ClosePartition
  <2>1. UNCHANGED pds /\ (open = <<>> \/ open = <<InPartition>> \/ UNCHANGED open)
    BY <1>2 DEF OpenPartition, ClosePartition, Accept
  <2>2. UNCHANGED open \/ \A p \in DOMAIN pds : ~IsOpen(p)
    <3>1. \A p \in DOMAIN pds : p # 0
      BY PdFields
    <3> QED
      BY <2>1, <3>1, OneElement, NoElement DEF IsOpen, InPartition
  <2>3. \A p \in DOMAIN pds : IsOpen(p) => IsOpen(p)'
    BY <2>2 DEF IsOpen
  <2> QED
    BY <2>1, <2>3, FamiliesSame
<1>3. CASE EndOfDocument \/ CheckDescription
  <2>1. UNCHANGED <<open, pds>>
    BY <1>3 DEF EndOfDocument, CheckDescription, description
  <2> QED
    BY <2>1, FamiliesRefused
<1> QED
  BY <1>1, <1>2, <1>3, OpenPDFamilies, ReadInPDFamilies, ClosePDFamilies DEF ReadDescription

LEMMA DescriptionAccepted ==
  ASSUME CheckDescription, raised' = "ok"
  PROVE  Accepted
<1> DEFINE c1 == <<Distinct(partitions, LAMBDA pt : pt.id), "duplicate partition">>
           c2 == <<\A n \in DOMAIN partitions : Cardinality(TopLevel(partitions[n].id)) <= 62, "too many PDs">>
           c3 == <<Distinct(pds, LAMBDA pd : pd.name), "duplicate PD">>
           c4 == <<\A p \in DOMAIN pds : [id |-> pds[p].partition] \in ToSet(partitions), "KeyError">>
           c5 == <<Distinct(mrs, LAMBDA mr : mr.name), "duplicate region">>
           c6 == <<\A cc \in ToSet(channels) : {cc.a, cc.b} \subseteq PdNames, "invalid PD name">>
           c7 == <<Distinct(AllIrqs, LAMBDA irq : irq.irq), "duplicate irq">>
           c8 == <<\A p \in DOMAIN pds : Distinct(pds[p].irqs, LAMBDA irq : irq.id), "duplicate irq id">>
           c9 == <<\A n \in DOMAIN channels : ChannelIdsFree(n), "duplicate channel id">>
           c10 == <<\A p \in DOMAIN pds : \A map \in ToSet(pds[p].maps) : MapOk(map), "invalid map">>
           checks == <<c1, c2, c3, c4, c5, c6, c7, c8, c9, c10>>
<1>1. FirstFailure(checks) = "ok"
  BY DEF CheckDescription
<1>2. /\ c1[2] # "ok" /\ c2[2] # "ok" /\ c3[2] # "ok" /\ c4[2] # "ok" /\ c5[2] # "ok" /\ c6[2] # "ok"
      /\ c7[2] # "ok" /\ c8[2] # "ok" /\ c9[2] # "ok" /\ c10[2] # "ok"
  OBVIOUS
<1>3. c3[1] => \A p, q \in DOMAIN pds : pds[p].name = pds[q].name => p = q
  BY DEF Distinct
<1>4. c6[1] => \A cc \in ToSet(channels) : {cc.a, cc.b} \subseteq PdNames
  OBVIOUS
<1>5. c7[1] => \A m, n \in DOMAIN AllIrqs : AllIrqs[m].irq = AllIrqs[n].irq => m = n
  BY DEF Distinct
<1>6. c8[1] => \A p \in DOMAIN pds : \A m, n \in DOMAIN pds[p].irqs : pds[p].irqs[m].id = pds[p].irqs[n].id => m = n
  BY DEF Distinct
<1>7. c9[1] => \A n \in DOMAIN channels : ChannelIdsFree(n)
  OBVIOUS
<1> HIDE DEF c1, c2, c3, c4, c5, c6, c7, c8, c9, c10
<1>8. /\ DOMAIN checks = 1..10 /\ checks[1] = c1 /\ checks[2] = c2 /\ checks[3] = c3 /\ checks[4] = c4
      /\ checks[5] = c5 /\ checks[6] = c6 /\ checks[7] = c7 /\ checks[8] = c8 /\ checks[9] = c9
      /\ checks[10] = c10
  OBVIOUS
<1> HIDE DEF checks
<1>9. \A m \in DOMAIN checks : checks[m][2] # "ok"
  BY <1>2, <1>8
<1>10. c3[1] /\ c6[1] /\ c7[1] /\ c8[1] /\ c9[1]
  BY <1>1, <1>8, <1>9, CheckHolds
<1> QED
  BY <1>3, <1>4, <1>5, <1>6, <1>7, <1>10 DEF Accepted

LEMMA AcceptedKept ==
  ASSUME UNCHANGED description
  PROVE  Accepted' <=> Accepted
BY DEF description, Accepted, PdNames, AllIrqs, ChannelIdsFree, IdsBefore

LEMMA PastCheckPcs ==
  /\ PastCheck = {"build", "size", "link", "map", "collect", "allocate", "plan", "boot", "boot failed", "running"}
  /\ {"parse", "check", "refused"} \cap PastCheck = {}
BY DEF PastCheck, Built, Booting

LEMMA InitDesc == Init => DescInv
<1>1. Init => pds = <<>> /\ pc = "parse"
  BY DEF Init, DescriptionInit
<1>2. DOMAIN <<>> = {}
  OBVIOUS
<1> QED
  BY <1>1, <1>2, PastCheckPcs DEF DescInv, Families, RootThreads

\* A step of the build, or of the init task, leaves the description and does not go back to before it.
LEMMA DescSame ==
  ASSUME DescInv, UNCHANGED description, pc' \in PastCheck => pc \in PastCheck,
         pc' \in {"parse", "refused"} \/ pc \notin {"parse", "refused"}
  PROVE  DescInv'
<1>1. Families' /\ RootThreads'
  BY FamiliesRefused, RootThreadsKept DEF description, DescInv
<1>2. open' = open
  BY DEF description
<1> QED
  BY <1>1, <1>2, AcceptedKept DEF DescInv

\* What each step of the tool and of the init task does to the description and to pc.
LEMMA BuildPcs ==
  ASSUME [Next]_vars, ~(ReadDescription /\ UNCHANGED <<objectVars, plan, step, iter, kernel>>)
  PROVE  /\ UNCHANGED description
         /\ \/ pc' = pc \/ (pc' = "refused" /\ pc \notin Booting)
            \/ pc \in PastCheck /\ pc' \in PastCheck
<1>1. CASE LayOut \/ MapRegions \/ CollectObjects \/ AllocateObjects
  BY <1>1, PastCheckPcs DEF LayOut, MapRegions, CollectObjects, AllocateObjects, Build, Booting
<1>2. CASE MakePlan \/ Size \/ Link
  BY <1>2, PastCheckPcs DEF MakePlan, Size, Link, Build, Booting
<1>3. CASE SysInitStep
  <2>1. UNCHANGED description /\ pc = "boot" /\ pc' \in {"boot", "boot failed", "running"}
    BY <1>3 DEF SysInitStep, Retype, IrqControlGet, MintOrCopy, SetCSpace, SetFaultHandler, SetTimeoutEndpoint,
      SchedContextBind, SetSchedParamsOf, SetSpace, SetIPCBuffer, WriteRegistersOf, BindNotification, DomainSet,
      Resume, Suspend, ConfigureFlags, IrqSetNotification, AsidPoolAssign, TableMap, PageMap, OnTcb, Perform
  <2> QED
    BY <2>1, PastCheckPcs
<1>4. CASE UNCHANGED vars
  <2>1. description' = description /\ pc' = pc
    BY <1>4 DEF vars
  <2> QED
    BY <2>1
<1> QED
  BY <1>1, <1>2, <1>3, <1>4 DEF Next

LEMMA DescInductive ==
  ASSUME IInv, DescInv, [Next]_vars
  PROVE  DescInv'
<1>1. CASE ReadDescription
  <2>1. Families' /\ RootThreads'
    BY <1>1, ReadFamilies, ReadRootThreads DEF IInv, DescInv
  <2>2. CASE CheckDescription
    <3>1. pc = "check" /\ UNCHANGED description /\ pc' = IF raised' = "ok" THEN "build" ELSE "refused"
      BY <2>2 DEF CheckDescription
    <3>2. pc' = "build" => Accepted'
      BY <2>2, <3>1, DescriptionAccepted, AcceptedKept
    <3>3. open' = open /\ open = <<>>
      BY <3>1 DEF DescInv, description
    <3> QED
      BY <2>1, <3>1, <3>2, <3>3, PastCheckPcs DEF DescInv
  <2>3. CASE ~CheckDescription
    <3>1. pc = "parse" /\ pc' \in {"parse", "check", "refused"}
      BY <1>1, <2>3, ReadPcs
    <3>2. pc' = "check" => open' = <<>>
      <4>1. CASE EndOfDocument
        BY <4>1 DEF EndOfDocument
      <4>2. CASE ~EndOfDocument
        <5>1. CASE ReadMemoryRegion \/ OpenPartition \/ OpenPD \/ ClosePD \/ ClosePartition \/ ReadChannel
          BY <3>1, <5>1 DEF ReadMemoryRegion, OpenPartition, OpenPD, ClosePD, ClosePartition, ReadChannel, Accept
        <5>2. CASE ReadProgramImage \/ ReadMap \/ ReadIrq \/ ReadSetvar
          BY <3>1, <5>2 DEF ReadProgramImage, ReadMap, ReadIrq, ReadSetvar, ReadInPD, Accept
        <5> QED
          BY <1>1, <2>3, <4>2, <5>1, <5>2 DEF ReadDescription
      <4> QED
        BY <4>1, <4>2
    <3> QED
      BY <2>1, <3>1, <3>2, PastCheckPcs DEF DescInv
  <2> QED
    BY <2>2, <2>3
<1>2. CASE ~ReadDescription
  <2>1. /\ UNCHANGED description
        /\ \/ pc' = pc \/ (pc' = "refused" /\ pc \notin Booting)
           \/ pc \in PastCheck /\ pc' \in PastCheck
    BY <1>2, BuildPcs
  <2> QED
    BY <2>1, DescSame, PastCheckPcs
<1> QED
  BY <1>1, <1>2

-----------------------------------------------------------------------------
(* The objects and the plan that are booted *)

Collecting == Where(ObjectLists, LAMBDA list : list # <<>>)
SlotAt(object) ==
  LET k == CHOOSE k \in DOMAIN objects : object \in ToSet(objects[k])
      n == CHOOSE n \in DOMAIN objects[k] : objects[k][n] = object
  IN  FirstSlot + Sum(SubSeq(objects, 1, k - 1), Len) + n - 1
Slots == [object \in UNION {ToSet(list) : list \in ToSet(objects)} |-> SlotAt(object)]

\* From a step on, what was made before it is there.
PlanMade == {"size", "link"} \cup Booting
Allocated == {"plan"} \cup PlanMade
Collected == {"allocate"} \cup Allocated
HaveEps == \A p \in DOMAIN pds : Parented(p) => NeedsEp(pds[p].parent)
HavePages == \A n \in DOMAIN maps : maps[n].mr.count > 0
Placed ==
  /\ \A mr \in ToSet(regions) : mr.phys \in Int
  /\ \A f, g \in FixedPages : f.phys = g.phys => f = g
PlanInv ==
  /\ pc \in Collected => RegionsOk /\ MapsOk /\ IsList(objects) /\ objects = Collecting /\ Placed
  /\ pc \in Allocated => slotOf = Slots
  /\ pc \in PlanMade => plan = SystemInvocations /\ HaveEps /\ HavePages

LEMMA ObjectListsKept ==
  ASSUME UNCHANGED <<description, regions, maps>>
  PROVE  ObjectLists' = ObjectLists /\ Collecting' = Collecting
<1>1. ObjectLists' = ObjectLists
  BY DEF description, ObjectLists, Regular, Where, Flat, Each, PagesOf, Fixed, Sorted, FixedPages, Made, ThreadObjects,
    All, WithEp, WithThreads, Pds, NeedsEp, Parented, Uds, Ds, Pts, Tables, Vaddrs, VaddrsOf, InOrder
<1> QED
  BY <1>1 DEF Collecting, Where, Flat, Each

LEMMA PlacedKept ==
  ASSUME UNCHANGED regions
  PROVE  Placed' <=> Placed
BY DEF Placed, FixedPages

LEMMA SlotsKept ==
  ASSUME UNCHANGED <<objects, tablePages>>
  PROVE  Slots' = Slots
BY DEF Slots, SlotAt, FirstSlot, Sum, Each, Total

LEMMA CapsKept ==
  ASSUME UNCHANGED <<description, objectVars>>
  PROVE  /\ IrqList' = IrqList
         /\ \A n : IrqCap(n)' = IrqCap(n) /\ FrameCap(n)' = FrameCap(n) /\ IrqNtfnCap(n)' = IrqNtfnCap(n)
         /\ \A n : FaultCap(n)' = FaultCap(n) /\ ThreadFaultCap(n)' = ThreadFaultCap(n)
         /\ \A n : Spawnable(n)' = Spawnable(n) /\ Children(n)' = Children(n)
         /\ \A n : InOrder(Children(n))' = InOrder(Children(n))
BY DEF description, objectVars, IrqList, Flat, Each, All, FirstSlot, IrqNtfnCap, FrameCap, IrqCap, Sum, Total, FaultCap,
  ThreadFaultCap, Where, WithThreads, Spawnable, Pds, Children, InOrder, Sorted

LEMMA BlocksKept ==
  ASSUME UNCHANGED <<description, objectVars>>
  PROVE  /\ Retypes' = Retypes /\ CreateIrqHandlers' = CreateIrqHandlers /\ AssignAsids' = AssignAsids
         /\ MintPages' = MintPages /\ MintIrqNotifications' = MintIrqNotifications
         /\ MintFaultEndpoints' = MintFaultEndpoints /\ MintInput' = MintInput /\ MintReply' = MintReply
         /\ MintVSpace' = MintVSpace /\ MintIrqHandlers' = MintIrqHandlers
<1>1. Retypes' = Retypes /\ CreateIrqHandlers' = CreateIrqHandlers /\ AssignAsids' = AssignAsids
  BY CapsKept DEF description, objectVars, Retypes, Each, CreateIrqHandlers, AssignAsids, AllRepeated, VSpace
<1>2. MintPages' = MintPages /\ MintIrqNotifications' = MintIrqNotifications
  BY CapsKept DEF description, objectVars, MintPages, MintIrqNotifications, Ntfn
<1>3. MintFaultEndpoints' = MintFaultEndpoints
  BY CapsKept DEF description, objectVars, MintFaultEndpoints, Each, All, Parented, Ep
<1>4. MintInput' = MintInput /\ MintReply' = MintReply /\ MintVSpace' = MintVSpace
  BY DEF description, objectVars, MintInput, Each, All, NeedsEp, Parented, Ep, Ntfn, CNode, MintReply, MintVSpace,
    AllRepeated, Reply, VSpace
<1>5. MintIrqHandlers' = MintIrqHandlers
  BY CapsKept DEF description, objectVars, MintIrqHandlers, CNode
<1> QED
  BY <1>1, <1>2, <1>3, <1>4, <1>5

LEMMA CSpacesKept ==
  ASSUME UNCHANGED <<description, objectVars>>
  PROVE  SetUpRootCSpaces' = SetUpRootCSpaces
<1>1. \A p, c : MintChild(p, c)' = MintChild(p, c)
  BY DEF description, objectVars, MintChild, AcceptsRootPpc, CNode, Ep, Tcb, Sc, Reply
<1>2. \A p : MintThreads(p)' = MintThreads(p)
  <2> TAKE p
  <2>1. /\ Children(p)' = Children(p) /\ InOrder(Children(p))' = InOrder(Children(p))
        /\ Spawnable(p)' = Spawnable(p) /\ ThreadFaultCap(p)' = ThreadFaultCap(p)
    BY CapsKept
  <2>2. \A inv, incr : Spawned(p, inv, incr)' = Spawned(p, inv, incr)
    BY <2>1 DEF Spawned
  <2>3. MintThreadEndpoints(p)' = MintThreadEndpoints(p) /\ MintThreadFaults(p)' = MintThreadFaults(p)
    BY <2>1, <2>2 DEF objectVars, MintThreadEndpoints, MintThreadFaults, Thread, Ep
  <2>4. pds' = pds /\ slotOf' = slotOf
    BY DEF description, objectVars
  <2> QED
    BY <2>1, <2>2, <2>3, <2>4 DEF MintThreads, AcceptsRootPpc, Thread, CNode, Tcb, VSpace, Each
<1>3. pds' = pds /\ \A p : InOrder(Children(p))' = InOrder(Children(p))
  BY CapsKept DEF description
<1> DEFINE children(p) == Flat(InOrder(Children(p)), LAMBDA c : MintChild(p, c))
           own(p) == children(p) \o IF pds[p].threads > 0 THEN MintThreads(p) ELSE <<>>
<1>4. \A p : children(p)' = children(p)
  BY <1>1, <1>3 DEF Flat, Each
<1> HIDE DEF children
<1>5. \A p : own(p)' = own(p)
  BY <1>2, <1>3, <1>4
<1> HIDE DEF own
<1>6. Flat(All, own)' = Flat(All, own)
  BY <1>3, <1>5 DEF Flat, Each, All
<1>7. SetUpRootCSpaces = Flat(All, own)
  BY DEF SetUpRootCSpaces, own, children
<1>8. SetUpRootCSpaces' = Flat(All, own)'
  BY DEF SetUpRootCSpaces, own, children
<1> QED
  BY <1>6, <1>7, <1>8

LEMMA SpacesKept ==
  ASSUME UNCHANGED <<description, objectVars>>
  PROVE  /\ MintChannels' = MintChannels /\ AssociateIrqs' = AssociateIrqs /\ MapTables' = MapTables
         /\ MapPages' = MapPages
<1>1. MintChannels' = MintChannels
  BY DEF description, objectVars, MintChannels, Flat, Each, Named, MintEnd, MintProcedure, CNode, Ntfn, Ep
<1>2. AssociateIrqs' = AssociateIrqs /\ MapPages' = MapPages
  BY CapsKept DEF description, objectVars, AssociateIrqs, MapPages, VSpace
<1>3. MapTables' = MapTables
  BY DEF description, objectVars, MapTables, VSpace, Flat, Each, All, Uds, Ds, Pts, Tables, Vaddrs, VaddrsOf, InOrder, Sorted
<1> QED
  BY <1>1, <1>2, <1>3

LEMMA TcbsKept ==
  ASSUME UNCHANGED <<description, objectVars>>
  PROVE  /\ SetSchedParams' = SetSchedParams /\ SetSpaces' = SetSpaces /\ SetIpcBuffers' = SetIpcBuffers
         /\ WriteRegisters' = WriteRegisters /\ BindNotifications' = BindNotifications
         /\ SetDomains' = SetDomains /\ SetThreadDomains' = SetThreadDomains
         /\ ResumeAll' = ResumeAll /\ SuspendSelf' = SuspendSelf
<1>1. SetSchedParams' = SetSchedParams
  BY CapsKept DEF description, objectVars, SetSchedParams, Flat, Each, All, TimeoutsHandled, Parented, Tcb, Sc
<1>2. SetSpaces' = SetSpaces /\ BindNotifications' = BindNotifications /\ ResumeAll' = ResumeAll
  BY CapsKept DEF description, objectVars, SetSpaces, BindNotifications, ResumeAll, AllRepeated, Tcb, CNode, VSpace, Ntfn
<1>3. SetIpcBuffers' = SetIpcBuffers
  BY CapsKept DEF description, objectVars, SetIpcBuffers, Each, All, Tcb, IpcFrameCap, Stacks, ThreadsIn
<1>4. WriteRegisters' = WriteRegisters
  BY DEF description, objectVars, WriteRegisters, Each, All, Tcb
<1>5. SetDomains' = SetDomains
  BY DEF description, objectVars, SetDomains, Tcb, Sum, Each, Total, NumPds
<1>6. SetThreadDomains' = SetThreadDomains
  BY CapsKept DEF description, objectVars, SetThreadDomains, Each, WithThreads, Pds, Where, Flat, All, Thread
<1>7. SuspendSelf' = SuspendSelf
  BY DEF SuspendSelf
<1> QED
  BY <1>1, <1>2, <1>3, <1>4, <1>5, <1>6, <1>7

\* The plan changes neither with a later step of the tool nor with the init task.
LEMMA PlanKept ==
  ASSUME UNCHANGED <<description, objectVars>>
  PROVE  SystemInvocations' = SystemInvocations
BY BlocksKept, CSpacesKept, SpacesKept, TcbsKept DEF SystemInvocations, CapInvocations, TcbInvocations

LEMMA PlanPcs ==
  /\ PlanMade = {"size", "link", "boot", "boot failed", "running"}
  /\ Allocated = {"plan", "size", "link", "boot", "boot failed", "running"}
  /\ Collected = {"allocate", "plan", "size", "link", "boot", "boot failed", "running"}
BY DEF PlanMade, Allocated, Collected, Booting

\* What has been made stays, until the tool builds again.
LEMMA PlanSame ==
  ASSUME PlanInv, UNCHANGED <<description, objectVars, plan>>,
         pc' \in PlanMade => pc \in PlanMade, pc' \in Allocated => pc \in Allocated,
         pc' \in Collected => pc \in Collected
  PROVE  PlanInv'
<1>1. /\ UNCHANGED <<description, regions, maps>> /\ UNCHANGED <<objects, tablePages>> /\ slotOf' = slotOf
      /\ plan' = plan /\ pds' = pds /\ maps' = maps /\ objects' = objects /\ UNCHANGED <<description, regions>> /\ UNCHANGED regions
  BY DEF objectVars, description
<1>2. pc' \in Collected => RegionsOk' /\ MapsOk' /\ IsList(objects)' /\ (objects = Collecting)' /\ Placed'
  BY <1>1, RegionsKept, ObjectListsKept, PlacedKept DEF PlanInv, MapsOk
<1>3. pc' \in Allocated => (slotOf = Slots)'
  BY <1>1, SlotsKept DEF PlanInv
<1>4. pc' \in PlanMade => (plan = SystemInvocations)' /\ HaveEps' /\ HavePages'
  <2>1. HaveEps => HaveEps'
    BY <1>1 DEF HaveEps, Parented, NeedsEp
  <2>2. HavePages => HavePages'
    BY <1>1 DEF HavePages
  <2> QED
    BY <1>1, <2>1, <2>2, PlanKept DEF PlanInv
<1> QED
  BY <1>2, <1>3, <1>4 DEF PlanInv

\* The regions that are laid out have addresses or none.
LEMMA PhysOf ==
  ASSUME Described, tablePages \in Nat, NEW mr \in ToSet(AllMrs)
  PROVE  mr.phys \in Int
<1> DEFINE areas == Flat(All, LAMBDA p : Each(Areas(p), LAMBDA a : a.mr))
<1>1. AllMrs = (mrs \o ElfMrs) \o areas
  BY DEF AllMrs
<1>2. IsList(mrs) /\ \A x \in ToSet(mrs) : x \in MrType
  BY SeqElements DEF Described
<1>3. /\ IsList(ElfMrs) /\ ToSet(ElfMrs) = UNION {{ElfMr(p, n) : n \in DOMAIN Segments(p)} : p \in DOMAIN pds}
  BY ElfRegionsList
<1>4. IsList(areas)
  BY AreaRegions
<1>5. ASSUME NEW x \in ToSet(areas)
      PROVE  x.phys = None
  <2> DEFINE own(p) == Each(Areas(p), LAMBDA a : a.mr)
             q == Each(All, own)
             k == Len(pds)
  <2>1. k \in Nat /\ q = [p \in 1..k |-> q[p]] /\ (\A p \in 1..k : q[p] = own(p)) /\ DOMAIN pds = 1..k
    BY AllIs DEF Each
  <2>2. \A p \in 1..k : IsList(own(p)) /\ \A y \in ToSet(own(p)) : y.phys = None
    <3> SUFFICES ASSUME NEW p \in 1..k PROVE IsList(own(p)) /\ \A y \in ToSet(own(p)) : y.phys = None
      OBVIOUS
    <3>1. Stacks(p) \in Nat
      BY <2>1, StacksOf
    <3> DEFINE two == << [mr |-> Mr(<<"tls", p>>, AllocTls(p), None), vaddr |-> TlsStart],
                         [mr |-> Mr(<<"ipc", p>>, IpcBuffers(p), None), vaddr |-> TlsEnd] >>
               stacks == [n \in 1..Stacks(p) |-> [mr |-> Mr(<<"stack", p, n>>, Page, None), vaddr |-> ThreadStack(n - 1)]]
               l == Len(Areas(p))
    <3>2. Areas(p) = two \o stacks
      BY DEF Areas
    <3>3. IsList(two) /\ \A a \in ToSet(two) : a.mr.phys = None
      BY TwoElements DEF Mr
    <3>4. IsList(stacks) /\ \A a \in ToSet(stacks) : a.mr.phys = None
      <4>1. stacks = [n \in 1..Stacks(p) |-> stacks[n]] /\ \A n \in 1..Stacks(p) : stacks[n].mr.phys = None
        BY DEF Mr
      <4> HIDE DEF stacks
      <4>2. IsList(stacks) /\ ToSet(stacks) = {stacks[n] : n \in 1..Stacks(p)}
        BY <3>1, <4>1, FunctionElements
      <4> QED
        BY <4>1, <4>2
    <3> HIDE DEF two, stacks
    <3>5. IsList(Areas(p)) /\ \A a \in ToSet(Areas(p)) : a.mr.phys = None
      BY <3>2, <3>3, <3>4, ConcatLists
    <3>6. l \in Nat /\ DOMAIN Areas(p) = 1..l /\ \A n \in 1..l : Areas(p)[n] \in ToSet(Areas(p))
      BY <3>5, ListDomain DEF IsList, ToSet
    <3>7. own(p) = [n \in 1..l |-> own(p)[n]] /\ \A n \in 1..l : own(p)[n].phys = None
      BY <3>5, <3>6 DEF Each
    <3> HIDE DEF own, l
    <3>8. IsList(own(p)) /\ ToSet(own(p)) = {own(p)[n] : n \in 1..l}
      BY <3>6, <3>7, FunctionElements
    <3> QED
      BY <3>7, <3>8
  <2>3. areas = FlattenSeq(q)
    BY DEF Flat
  <2> HIDE DEF own, k, areas, q
  <2>4. \E p \in 1..k : x \in ToSet(q[p])
    BY <2>1, <2>2, <2>3, FlatElements
  <2> QED
    BY <2>1, <2>2, <2>4
<1> HIDE DEF areas
<1>6. ToSet(AllMrs) = (ToSet(mrs) \cup ToSet(ElfMrs)) \cup ToSet(areas)
  <2>1. IsList(mrs \o ElfMrs) /\ ToSet(mrs \o ElfMrs) = ToSet(mrs) \cup ToSet(ElfMrs)
    BY <1>2, <1>3, ConcatLists
  <2> QED
    BY <1>1, <1>4, <2>1, ConcatLists
<1>7. CASE mr \in ToSet(mrs)
  BY <1>2, <1>7 DEF MrType
<1>8. CASE mr \in ToSet(ElfMrs)
  <2>1. PICK p \in DOMAIN pds : \E n \in DOMAIN Segments(p) : mr = ElfMr(p, n)
    BY <1>3, <1>8
  <2>2. PICK n \in DOMAIN Segments(p) : mr = ElfMr(p, n)
    BY <2>1
  <2> QED
    BY <2>2, PhysPlaces DEF ElfMr, Mr
<1>9. CASE mr \in ToSet(areas)
  BY <1>5, <1>9 DEF None
<1> QED
  BY <1>6, <1>7, <1>8, <1>9

LEMMA CollectPlanInv ==
  ASSUME IInv, ImageInv, IInv', CollectObjects
  PROVE  PlanInv'
<1>1. CASE pc' = "refused"
  BY <1>1, PlanPcs DEF PlanInv
<1>2. CASE pc' # "refused"
  <2> DEFINE check == <<\A f, g \in FixedPages : f.phys = g.phys => f = g, "TypeError">>
  <2>1. /\ pc = "collect" /\ pc' = "allocate" /\ objects' = Collecting
        /\ UNCHANGED <<description, regions, maps>> /\ UNCHANGED regions /\ FirstFailure(<<check>>) = "ok"
    BY <1>2 DEF CollectObjects, Build, Collecting
  <2>2. (objects = Collecting)'
    BY <2>1, ObjectListsKept
  <2>3. RegionsOk' /\ MapsOk' /\ IsList(objects)'
    BY <2>1, BuiltPcs DEF IInv
  <2>4. Placed
    <3>1. check[2] # "ok"
      OBVIOUS
    <3>2. check[1] => \A f, g \in FixedPages : f.phys = g.phys => f = g
      OBVIOUS
    <3> HIDE DEF check
    <3> DEFINE checks == <<check>>
    <3>3. DOMAIN checks = 1..1 /\ checks[1] = check /\ FirstFailure(checks) = "ok"
      BY <2>1
    <3> HIDE DEF checks
    <3>4. check[1]
      BY <3>1, <3>3, CheckHolds
    <3>5. \A mr \in ToSet(regions) : mr.phys \in Int
      BY <2>1, PhysOf, BuiltPcs DEF IInv, ImageInv
    <3> QED
      BY <3>2, <3>4, <3>5 DEF Placed
  <2> QED
    BY <2>1, <2>2, <2>3, <2>4, PlanPcs, PlacedKept DEF PlanInv
<1> QED
  BY <1>1, <1>2

LEMMA AllocatePlanInv ==
  ASSUME IInv', PlanInv, AllocateObjects
  PROVE  PlanInv'
<1>1. /\ pc = "allocate" /\ pc' = "plan" /\ slotOf' = Slots /\ UNCHANGED <<objects, tablePages>>
      /\ UNCHANGED <<description, regions, maps>> /\ objects' = objects /\ UNCHANGED regions
  BY DEF AllocateObjects, Slots, SlotAt
<1>2. (slotOf = Slots)'
  BY <1>1, SlotsKept
<1>3. (objects = Collecting)'
  BY <1>1, PlanPcs, ObjectListsKept DEF PlanInv
<1>4. RegionsOk' /\ MapsOk' /\ IsList(objects)' /\ Placed'
  BY <1>1, BuiltPcs, PlacedKept, PlanPcs DEF IInv, PlanInv
<1> QED
  BY <1>1, <1>2, <1>3, <1>4, PlanPcs DEF PlanInv

LEMMA MakePlanPlanInv ==
  ASSUME PlanInv, MakePlan
  PROVE  PlanInv'
<1> DEFINE c1 == <<\A n \in DOMAIN maps : maps[n].mr.count > 0, "no pages">>
           c2 == <<\A p \in DOMAIN pds : Parented(p) => NeedsEp(pds[p].parent), "KeyError">>
           c3 == <<\A p \in DOMAIN pds : SlotsChecked(p), "CSpace full">>
           c4 == <<\A p \in DOMAIN pds : \A name \in ToSet(pds[p].setvars) : RegionFound(name), "no region">>
           c5 == <<\A p \in DOMAIN pds : \A name \in ToSet(pds[p].setvars) :
                     \A n \in DOMAIN mrs : mrs[n].name = <<"mr", name>> => mrs[n].count > 0, "IndexError">>
<1>1. CASE pc' = "refused"
  BY <1>1, PlanPcs DEF PlanInv
<1>2. CASE pc' # "refused"
  <2>1. /\ pc = "plan" /\ pc' = "size" /\ plan' = SystemInvocations /\ UNCHANGED <<description, objectVars>>
        /\ FirstFailure(<<c1, c2, c3, c4, c5>>) = "ok"
    BY <1>2 DEF MakePlan, Build
  <2>2. HaveEps /\ HavePages
    <3>1. c1[2] # "ok" /\ c2[2] # "ok" /\ c3[2] # "ok" /\ c4[2] # "ok" /\ c5[2] # "ok"
      OBVIOUS
    <3>2. (c1[1] => HavePages) /\ (c2[1] => HaveEps)
      BY DEF HaveEps, HavePages
    <3> HIDE DEF c1, c2, c3, c4, c5
    <3> QED
      BY <2>1, <3>1, <3>2, FiveChecks
  <2>3. /\ UNCHANGED <<description, regions, maps>> /\ UNCHANGED <<objects, tablePages>> /\ slotOf' = slotOf
        /\ maps' = maps /\ pds' = pds /\ objects' = objects /\ UNCHANGED <<description, regions>> /\ UNCHANGED regions
    BY <2>1 DEF objectVars, description
  <2>4. RegionsOk' /\ MapsOk' /\ IsList(objects)' /\ (objects = Collecting)' /\ (slotOf = Slots)' /\ Placed'
    BY <2>1, <2>3, PlanPcs, RegionsKept, ObjectListsKept, SlotsKept, PlacedKept DEF PlanInv, MapsOk
  <2>5. (plan = SystemInvocations)' /\ HaveEps' /\ HavePages'
    <3>1. HaveEps'
      BY <2>2, <2>3 DEF HaveEps, Parented, NeedsEp
    <3>2. HavePages'
      BY <2>2, <2>3 DEF HavePages
    <3> QED
      BY <2>1, <3>1, <3>2, PlanKept
  <2> QED
    BY <2>4, <2>5 DEF PlanInv
<1> QED
  BY <1>1, <1>2

\* A plan that fits is linked with the same number of pages; one that does not is made again.
LEMMA SizePlanInv ==
  ASSUME PlanInv, Size
  PROVE  PlanInv'
<1>1. CASE pc' = "build"
  BY <1>1, PlanPcs DEF PlanInv
<1>2. CASE pc' # "build"
  <2>1. pc = "size" /\ pc' = "link" /\ UNCHANGED <<description, objectVars, plan>>
    BY <1>2 DEF Size, objectVars
  <2> QED
    BY <2>1, PlanSame, PlanPcs
<1> QED
  BY <1>1, <1>2

LEMMA InitPlanInv == Init => PlanInv
<1>1. Init => pc = "parse"
  BY DEF Init, DescriptionInit
<1> QED
  BY <1>1, PlanPcs DEF PlanInv

LEMMA PlanInductive ==
  ASSUME IInv, IInv', ImageInv, PlanInv, [Next]_vars
  PROVE  PlanInv'
<1>1. CASE ReadDescription
  <2>1. pc' \in {"parse", "check", "build", "refused"}
    BY <1>1, ReadPcs
  <2> QED
    BY <2>1, PlanPcs DEF PlanInv
<1>2. CASE LayOut \/ MapRegions
  <2>1. pc' \in {"map", "collect", "refused"}
    BY <1>2 DEF LayOut, MapRegions, Build
  <2> QED
    BY <2>1, PlanPcs DEF PlanInv
<1>3. CASE Link /\ UNCHANGED <<step, iter, kernel>>
  <2>1. pc = "link" /\ pc' \in {"boot", "refused"} /\ UNCHANGED <<description, objectVars, plan>>
    BY <1>3 DEF Link, Build
  <2> QED
    BY <2>1, PlanSame, PlanPcs
<1>4. CASE SysInitStep
  <2>1. UNCHANGED <<description, objectVars, plan>> /\ pc = "boot"
    BY <1>4 DEF SysInitStep, Retype, IrqControlGet, MintOrCopy, SetCSpace, SetFaultHandler, SetTimeoutEndpoint,
      SchedContextBind, SetSchedParamsOf, SetSpace, SetIPCBuffer, WriteRegistersOf, BindNotification, DomainSet,
      Resume, Suspend, ConfigureFlags, IrqSetNotification, AsidPoolAssign, TableMap, PageMap, OnTcb, Perform
  <2> QED
    BY <2>1, PlanSame, PlanPcs
<1>5. CASE UNCHANGED vars
  <2>1. UNCHANGED <<description, objectVars, plan>> /\ pc' = pc
    BY <1>5 DEF vars, description
  <2> QED
    BY <2>1, PlanSame
<1> QED
  BY <1>1, <1>2, <1>3, <1>4, <1>5, CollectPlanInv, AllocatePlanInv, MakePlanPlanInv, SizePlanInv DEF Next

-----------------------------------------------------------------------------
(* Sets in the order of their keys *)

RankBy(S, key, x) == Cardinality({y \in S : key[y] < key[x]})

\* Each rank from 0 on is that of a member, and of one only.
LEMMA Ranks ==
  ASSUME NEW S, IsFiniteSet(S), NEW key, \A x \in S : key[x] \in Int,
         \A x, y \in S : key[x] = key[y] => x = y
  PROVE  /\ Cardinality(S) \in Nat
         /\ \A n \in 1..Cardinality(S) : \E x \in S : RankBy(S, key, x) = n - 1
         /\ \A x \in S : RankBy(S, key, x) \in 0..Cardinality(S) - 1
         /\ \A x, y \in S : RankBy(S, key, x) = RankBy(S, key, y) => x = y
<1> DEFINE below(x) == {y \in S : key[y] < key[x]}
           rank(x) == Cardinality(below(x))
           m == Cardinality(S)
<1>1. m \in Nat
  BY FS_CardinalityType
<1>2. ASSUME NEW x \in S
      PROVE  IsFiniteSet(below(x)) /\ rank(x) \in Nat /\ rank(x) < m
  <2>1. below(x) \in SUBSET S /\ x \notin below(x)
    OBVIOUS
  <2> HIDE DEF below
  <2>2. IsFiniteSet(below(x)) /\ rank(x) <= m /\ rank(x) # m
    BY <2>1, FS_Subset
  <2>3. rank(x) \in Nat
    BY <2>2, FS_CardinalityType
  <2> QED
    BY <1>1, <2>2, <2>3
<1>3. ASSUME NEW x \in S, NEW y \in S, key[x] < key[y]
      PROVE  rank(x) < rank(y)
  <2>1. below(x) \in SUBSET below(y) /\ x \in below(y) /\ x \notin below(x)
    BY <1>3
  <2>2. IsFiniteSet(below(y)) /\ rank(y) \in Nat /\ rank(x) \in Nat
    BY <1>2
  <2> HIDE DEF below
  <2>3. rank(x) <= rank(y) /\ rank(x) # rank(y)
    BY <2>1, <2>2, FS_Subset
  <2> HIDE DEF rank
  <2> QED
    BY <2>2, <2>3
<1>4. \A x, y \in S : rank(x) = rank(y) => x = y
  <2> SUFFICES ASSUME NEW x \in S, NEW y \in S, rank(x) = rank(y), x # y PROVE FALSE
    OBVIOUS
  <2>1. key[x] < key[y] \/ key[y] < key[x]
    OBVIOUS
  <2>2. rank(x) \in Nat /\ rank(y) \in Nat
    BY <1>2
  <2>3. rank(x) < rank(y) \/ rank(y) < rank(x)
    BY <1>3, <2>1
  <2> HIDE DEF rank
  <2> QED
    BY <2>2, <2>3
<1> DEFINE T == 0..m - 1
           f == [x \in S |-> rank(x)]
<1>5. \A x \in S : rank(x) \in T
  <2>1. \A x \in S : rank(x) \in Nat /\ rank(x) < m
    BY <1>2
  <2> HIDE DEF rank, m
  <2> QED
    BY <1>1, <2>1
<1>6. f \in Injection(S, T)
  <2>1. \A x \in S : f[x] = rank(x)
    OBVIOUS
  <2>2. f = [x \in S |-> f[x]]
    OBVIOUS
  <2> HIDE DEF rank, T, f
  <2> QED
    BY <1>4, <1>5, <2>1, <2>2 DEF Injection, IsInjective
<1>7. IsFiniteSet(T) /\ Cardinality(T) = m
  BY <1>1, FS_Interval
<1>8. f \in Surjection(S, T)
  <2> HIDE DEF f, T
  <2> QED
    BY <1>6, <1>7, FS_Injection
<1>9. \A n \in T : \E x \in S : rank(x) = n
  <2>1. \A x \in S : f[x] = rank(x)
    OBVIOUS
  <2> HIDE DEF rank, T, f
  <2> QED
    BY <1>8, <2>1 DEF Surjection
<1>10. \A n \in 1..m : n - 1 \in T
  BY <1>1
<1>11. \A x : RankBy(S, key, x) = rank(x)
  BY DEF RankBy
<1> HIDE DEF rank, T, m
<1>12. \A n \in 1..m : \E x \in S : rank(x) = n - 1
  BY <1>9, <1>10
<1> QED
  BY <1>1, <1>4, <1>5, <1>11, <1>12 DEF T, m

\* Numbers in order.
LEMMA InOrderIs ==
  ASSUME NEW S \in SUBSET Int, IsFiniteSet(S)
  PROVE  /\ IsList(InOrder(S)) /\ ToSet(InOrder(S)) = S /\ Len(InOrder(S)) = Cardinality(S)
<1> DEFINE key == [x \in S |-> x]
           rank(x) == Cardinality({y \in S : y < x})
           s == InOrder(S)
           m == Cardinality(S)
<1>1. /\ m \in Nat /\ \A n \in 1..m : \E x \in S : rank(x) = n - 1
      /\ \A x \in S : rank(x) \in 0..m - 1
      /\ \A x, y \in S : rank(x) = rank(y) => x = y
  <2>1. (\A x \in S : key[x] \in Int) /\ \A x, y \in S : key[x] = key[y] => x = y
    OBVIOUS
  <2>2. ASSUME NEW x \in S
        PROVE  RankBy(S, key, x) = rank(x)
    <3>1. {y \in S : key[y] < key[x]} = {y \in S : y < x}
      OBVIOUS
    <3> QED
      BY <3>1 DEF RankBy
  <2> HIDE DEF key
  <2>3. /\ Cardinality(S) \in Nat
        /\ \A n \in 1..Cardinality(S) : \E x \in S : RankBy(S, key, x) = n - 1
        /\ \A x \in S : RankBy(S, key, x) \in 0..Cardinality(S) - 1
        /\ \A x, y \in S : RankBy(S, key, x) = RankBy(S, key, y) => x = y
    BY <2>1, Ranks, Zenon
  <2>4. /\ m \in Nat /\ \A n \in 1..m : \E x \in S : RankBy(S, key, x) = n - 1
        /\ \A x \in S : RankBy(S, key, x) \in 0..m - 1
    BY <2>3
  <2> HIDE DEF rank, m
  <2>5. \A n \in 1..m : \E x \in S : rank(x) = n - 1
    BY <2>2, <2>4
  <2> QED
    BY <2>2, <2>3, <2>5, <2>4
<1>2. s = [n \in 1..m |-> CHOOSE x \in S : rank(x) = n - 1]
  BY DEF InOrder, Sorted
<1> HIDE DEF rank, m, s
<1>3. \A n \in 1..m : s[n] \in S /\ rank(s[n]) = n - 1
  BY <1>1, <1>2
<1>4. s = [n \in 1..m |-> s[n]]
  BY <1>2
<1>5. IsList(s) /\ Len(s) = m /\ ToSet(s) = {s[n] : n \in 1..m}
  BY <1>1, <1>4, FunctionElements
<1>6. ASSUME NEW x \in S
      PROVE  x \in ToSet(s)
  <2>1. rank(x) + 1 \in 1..m /\ rank(x) = (rank(x) + 1) - 1
    BY <1>1
  <2>2. s[rank(x) + 1] = x
    BY <1>1, <1>3, <2>1
  <2> QED
    BY <1>5, <2>1, <2>2
<1> QED
  BY <1>3, <1>5, <1>6 DEF s, m

-----------------------------------------------------------------------------
(* The objects of the lists *)

IsPage(o) == o[1] = "page" /\ o # <<>>
PageList(list) == IsList(list) /\ \A o \in ToSet(list) : IsPage(o)

LEMMA RegularPages ==
  ASSUME RegionsOk, NEW size
  PROVE  PageList(Regular(size))
<1> DEFINE some == Where(regions, LAMBDA mr : mr.phys = None /\ mr.page = size)
           k == Len(regions)
           q == Each(regions, LAMBDA e : IF e.phys = None /\ e.page = size THEN <<e>> ELSE <<>>)
           r == Each(some, PagesOf)
           l == Len(some)
<1>1. k \in Nat /\ DOMAIN regions = 1..k /\ \A n \in 1..k : regions[n] \in ToSet(regions)
  BY ListDomain DEF RegionsOk, IsList, ToSet
<1>2. q = [n \in 1..k |-> q[n]] /\ \A n \in 1..k : q[n] = <<regions[n]>> \/ q[n] = <<>>
  BY <1>1 DEF Each
<1>3. some = FlattenSeq(q)
  BY DEF Where, Flat
<1> HIDE DEF q, k, some
<1>4. \A n \in 1..k : IsList(q[n]) /\ \A e \in ToSet(q[n]) : e \in ToSet(regions)
  BY ZenonT(40), <1>1, <1>2, OneElement, NoElement
<1>5. IsList(some) /\ \A e \in ToSet(some) : e \in ToSet(regions)
  BY <1>1, <1>2, <1>3, <1>4, FlatElements
<1>6. l \in Nat /\ DOMAIN some = 1..l /\ \A n \in 1..l : some[n] \in ToSet(some)
  BY <1>5, ListDomain DEF IsList, ToSet
<1>7. r = [n \in 1..l |-> r[n]] /\ \A n \in 1..l : r[n] = PagesOf(some[n])
  BY <1>6 DEF Each
<1> HIDE DEF r, l
<1>8. ASSUME NEW n \in 1..l
      PROVE  PageList(r[n])
  <2> DEFINE mr == some[n]
             c == IF mr.count > 0 THEN mr.count ELSE 0
             s == PagesOf(mr)
  <2>1. mr.count \in Int /\ c \in Nat /\ 1..mr.count = 1..c
    BY <1>5, <1>6 DEF RegionsOk, RegionOk
  <2>2. s = [i \in 1..c |-> s[i]] /\ \A i \in 1..c : s[i] = <<"page", mr.name, i>>
    BY <2>1 DEF PagesOf
  <2>3. \A i \in 1..c : IsPage(s[i])
    <3> SUFFICES ASSUME NEW i \in 1..c PROVE IsPage(s[i])
      OBVIOUS
    <3>1. s[i] = <<"page", mr.name, i>>
      BY <2>2
    <3> HIDE DEF s, mr
    <3> QED
      BY <3>1 DEF IsPage
  <2> HIDE DEF s, mr, c
  <2>4. IsList(s) /\ ToSet(s) = {s[i] : i \in 1..c}
    BY <2>1, <2>2, FunctionElements
  <2> QED
    BY <1>7, <2>3, <2>4 DEF PageList, s, mr
<1>9. IsList(FlattenSeq(r)) /\ \A x \in ToSet(FlattenSeq(r)) : \E n \in 1..l : x \in ToSet(r[n])
  BY <1>6, <1>7, <1>8, FlatElements DEF PageList
<1>10. Regular(size) = FlattenSeq(r)
  BY DEF Regular, Flat, r, some
<1> QED
  BY <1>8, <1>9, <1>10 DEF PageList

LEMMA FixedPagesFinite ==
  ASSUME RegionsOk
  PROVE  IsFiniteSet(FixedPages)
<1> DEFINE R == {m \in ToSet(regions) : m.phys # None}
           own(mr) == {[phys |-> mr.phys + (k - 1) * mr.page, page |-> <<"page", mr.name, k>>] : k \in 1..mr.count}
           f == [mr \in R |-> own(mr)]
<1>1. IsFiniteSet(R)
  <2>1. IsFiniteSet(ToSet(regions)) /\ R \in SUBSET ToSet(regions)
    BY FiniteList DEF RegionsOk
  <2> HIDE DEF R
  <2> QED
    BY <2>1, FS_Subset
<1>2. ASSUME NEW mr \in R
      PROVE  IsFiniteSet(own(mr))
  <2> DEFINE K == 1..mr.count
             g == [k \in K |-> [phys |-> mr.phys + (k - 1) * mr.page, page |-> <<"page", mr.name, k>>]]
  <2>1. mr.count \in Int
    BY DEF RegionsOk, RegionOk
  <2>2. IsFiniteSet(K)
    BY <2>1, FS_Interval
  <2>3. own(mr) = {g[k] : k \in K}
    OBVIOUS
  <2> HIDE DEF K, g, own
  <2> QED
    BY <2>2, <2>3, FiniteImage
<1>3. FixedPages = UNION {f[mr] : mr \in R}
  <2>1. FixedPages = UNION {own(mr) : mr \in R}
    BY Zenon DEF FixedPages
  <2> HIDE DEF R, own
  <2> QED
    BY <2>1
<1> QED
  <2>1. \A T \in {f[mr] : mr \in R} : IsFiniteSet(T)
    BY <1>2
  <2> HIDE DEF f, R, own
  <2> QED
    BY ZenonT(40), <1>1, <1>3, <2>1, FiniteImage, FS_UNION

\* The pages at given addresses are in the order of these, and are those of the regions.
LEMMA FixedIsPages ==
  ASSUME RegionsOk, Placed
  PROVE  PageList(Fixed)
<1> DEFINE S == FixedPages
           key == [f \in S |-> f.phys]
           list == Sorted(S, LAMBDA f : f.phys)
           m == Cardinality(S)
           s == Each(list, LAMBDA f : f.page)
<1>1. \A f \in S : f.phys \in Int /\ IsPage(f.page)
  <2> SUFFICES ASSUME NEW f \in S PROVE f.phys \in Int /\ IsPage(f.page)
    OBVIOUS
  <2>1. PICK mr \in ToSet(regions) : \E k \in 1..mr.count :
          f = [phys |-> mr.phys + (k - 1) * mr.page, page |-> <<"page", mr.name, k>>]
    BY DEF FixedPages
  <2>2. PICK k \in 1..mr.count : f = [phys |-> mr.phys + (k - 1) * mr.page, page |-> <<"page", mr.name, k>>]
    BY <2>1
  <2>3. mr.phys \in Int /\ mr.page \in Int /\ mr.count \in Int
    BY DEF Placed, RegionsOk, RegionOk
  <2>4. k \in Int /\ (k - 1) * mr.page \in Int
    BY <2>3
  <2> QED
    BY <2>2, <2>3, <2>4 DEF IsPage
<1>2. IsFiniteSet(S) /\ \A f, g \in S : f.phys = g.phys => f = g
  BY FixedPagesFinite DEF Placed
<1>3. (\A f \in S : key[f] = f.phys)
  OBVIOUS
<1> HIDE DEF key, S
<1>4. /\ Cardinality(S) \in Nat
      /\ \A n \in 1..Cardinality(S) : \E f \in S : RankBy(S, key, f) = n - 1
  <2>1. \A x \in S : key[x] \in Int
    BY <1>1, <1>3
  <2>2. \A x, y \in S : key[x] = key[y] => x = y
    BY <1>2, <1>3
  <2>3. IsFiniteSet(S)
    BY <1>2
  <2>4. /\ Cardinality(S) \in Nat
        /\ \A n \in 1..Cardinality(S) : \E x \in S : RankBy(S, key, x) = n - 1
        /\ \A x \in S : RankBy(S, key, x) \in 0..Cardinality(S) - 1
        /\ \A x, y \in S : RankBy(S, key, x) = RankBy(S, key, y) => x = y
    BY <2>1, <2>2, <2>3, Ranks, Zenon
  <2> QED
    BY <2>4
<1>5. list = [n \in 1..m |-> CHOOSE f \in S : Cardinality({g \in S : g.phys < f.phys}) = n - 1]
  BY DEF Sorted
<1>6. \A f \in S : RankBy(S, key, f) = Cardinality({g \in S : g.phys < f.phys})
  <2> SUFFICES ASSUME NEW f \in S PROVE RankBy(S, key, f) = Cardinality({g \in S : g.phys < f.phys})
    OBVIOUS
  <2>1. {g \in S : key[g] < key[f]} = {g \in S : g.phys < f.phys}
    BY <1>3
  <2> QED
    BY <2>1 DEF RankBy
<1> DEFINE rank(f) == Cardinality({g \in S : g.phys < f.phys})
<1>7. \A n \in 1..m : \E f \in S : rank(f) = n - 1
  BY <1>4, <1>6
<1>8. m \in Nat /\ DOMAIN list = 1..m /\ \A n \in 1..m : list[n] = CHOOSE f \in S : rank(f) = n - 1
  BY <1>4, <1>5
<1> HIDE DEF rank, m, list
<1>9. \A n \in 1..m : list[n] \in S
  BY <1>7, <1>8
<1>10. s = [n \in 1..m |-> s[n]] /\ \A n \in 1..m : s[n] = list[n].page
  BY <1>8 DEF Each
<1>11. Fixed = s
  BY DEF Fixed, list, S
<1> HIDE DEF s
<1>12. IsList(s) /\ ToSet(s) = {s[n] : n \in 1..m}
  BY <1>8, <1>10, FunctionElements
<1> QED
  BY <1>1, <1>9, <1>10, <1>11, <1>12 DEF PageList

MadeTypes == {"tcb", "sc", "reply", "ep", "ntfn", "vspace", "ud", "d", "pt", "cnode"}
Owners(type) == IF type = "ep" THEN WithEp ELSE IF type = "ud" THEN Uds ELSE IF type = "d" THEN Ds
                ELSE IF type = "pt" THEN Pts ELSE All

LEMMA ChosenPds ==
  ASSUME Described
  PROVE  /\ \A p \in DOMAIN pds : NeedsEp(p) => p \in ToSet(WithEp)
         /\ \A p \in DOMAIN pds : pds[p].threads > 0 => p \in ToSet(WithThreads)
<1> DEFINE k == Len(pds)
           eps == Each(All, LAMBDA e : IF NeedsEp(e) THEN <<e>> ELSE <<>>)
           roots == Each(All, LAMBDA e : IF pds[e].threads > 0 THEN <<e>> ELSE <<>>)
<1>1. k \in Nat /\ DOMAIN pds = 1..k
  BY AllIs
<1>2. /\ eps = [p \in 1..k |-> eps[p]] /\ \A p \in 1..k : eps[p] = IF NeedsEp(p) THEN <<p>> ELSE <<>>
      /\ roots = [p \in 1..k |-> roots[p]]
      /\ \A p \in 1..k : roots[p] = IF pds[p].threads > 0 THEN <<p>> ELSE <<>>
  BY AllIs DEF Each
<1>3. WithEp = FlattenSeq(eps) /\ WithThreads = FlattenSeq(roots)
  BY DEF WithEp, WithThreads, Pds, Where, Flat
<1> HIDE DEF eps, roots, k
<1>4. \A p \in 1..k : IsList(eps[p]) /\ (NeedsEp(p) => p \in ToSet(eps[p]))
  BY <1>2, OneElement, NoElement
<1>5. \A p \in 1..k : IsList(roots[p]) /\ (pds[p].threads > 0 => p \in ToSet(roots[p]))
  BY <1>2, OneElement, NoElement
<1>6. IsList(eps) /\ Len(eps) = k /\ IsList(roots) /\ Len(roots) = k
  BY <1>1, <1>2, FunctionIsList
<1>7. ToSet(WithEp) = UNION {ToSet(eps[p]) : p \in 1..k}
  BY <1>3, <1>4, <1>6, FlatLists
<1>8. ToSet(WithThreads) = UNION {ToSet(roots[p]) : p \in 1..k}
  BY <1>3, <1>5, <1>6, FlatLists
<1> QED
  BY <1>1, <1>4, <1>5, <1>7, <1>8

LEMMA OwnersList ==
  ASSUME Described, MapsOk, NEW type
  PROVE  IsList(Owners(type))
<1>1. IsList(All)
  BY AllIs, FunctionIsList
<1>2. IsList(WithEp) /\ IsList(Uds) /\ IsList(Ds) /\ IsList(Pts)
  BY PdsWhere, TablesList DEF Uds, Ds, Pts
<1> QED
  BY <1>1, <1>2 DEF Owners

\* What is in the lists of one type.
LEMMA MadeIs ==
  ASSUME NEW type, NEW list, IsList(list)
  PROVE  /\ IsList(Made(type, list)) /\ Len(Made(type, list)) = Len(list) /\ Len(list) \in Nat
         /\ \A n \in 1..Len(list) : Made(type, list)[n] = <<type, list[n]>>
         /\ ToSet(Made(type, list)) = {<<type, x>> : x \in ToSet(list)}
<1> DEFINE s == Made(type, list)
           k == Len(list)
<1>1. k \in Nat /\ DOMAIN list = 1..k /\ ToSet(list) = {list[n] : n \in 1..k}
  BY ListDomain DEF IsList, ToSet
<1>2. s = [n \in 1..k |-> s[n]] /\ \A n \in 1..k : s[n] = <<type, list[n]>>
  BY <1>1 DEF Made, Each
<1> HIDE DEF s, k
<1>3. IsList(s) /\ Len(s) = k /\ ToSet(s) = {s[n] : n \in 1..k}
  BY <1>1, <1>2, FunctionElements
<1>4. ToSet(s) = {<<type, x>> : x \in ToSet(list)}
  <2>1. ASSUME NEW y \in ToSet(s)
        PROVE  y \in {<<type, x>> : x \in ToSet(list)}
    <3>1. PICK n \in 1..k : y = s[n]
      BY <1>3, <2>1
    <3>2. list[n] \in ToSet(list) /\ y = <<type, list[n]>>
      BY <1>1, <1>2, <3>1
    <3> QED
      BY <3>2
  <2>2. ASSUME NEW x \in ToSet(list)
        PROVE  <<type, x>> \in ToSet(s)
    <3>1. PICK n \in 1..k : x = list[n]
      BY <1>1
    <3>2. s[n] \in ToSet(s) /\ s[n] = <<type, x>>
      BY <1>2, <1>3, <3>1
    <3> QED
      BY <3>2
  <2> QED
    BY <2>1, <2>2
<1> QED
  BY <1>1, <1>2, <1>3, <1>4 DEF s, k

LEMMA ThreadObjectsAre ==
  ASSUME Described, NEW p \in DOMAIN pds, NEW n \in 1..4
  PROVE  LET list == ThreadObjects(p)[n]
         IN  /\ IsList(list) /\ Len(list) = pds[p].threads
             /\ \A t \in 1..pds[p].threads : list[t] = <<ThreadTypes[n], p, t - 1>>
             /\ ToSet(list) = {<<ThreadTypes[n], p, t - 1>> : t \in 1..pds[p].threads}
<1> DEFINE list == ThreadObjects(p)[n]
           k == pds[p].threads
<1>1. k \in Nat
  BY PdFields
<1>2. list = [t \in 1..k |-> <<ThreadTypes[n], p, t - 1>>]
  BY DEF ThreadObjects, ThreadTypes
<1>3. list = [t \in 1..k |-> list[t]] /\ \A t \in 1..k : list[t] = <<ThreadTypes[n], p, t - 1>>
  BY <1>2
<1> HIDE DEF list, k
<1>4. IsList(list) /\ Len(list) = k /\ ToSet(list) = {list[t] : t \in 1..k}
  BY <1>1, <1>3, FunctionElements
<1>5. {list[t] : t \in 1..k} = {<<ThreadTypes[n], p, t - 1>> : t \in 1..k}
  BY <1>3
<1> QED
  BY <1>3, <1>4, <1>5 DEF list, k

IsMade(list) == \E type \in MadeTypes : list = Made(type, Owners(type))
IsThreads(list) == \E p \in ToSet(WithThreads) : \E n \in 1..4 : list = ThreadObjects(p)[n]

\* The lists that objects are made from: of pages, of one object for each PD or table, and
\* of the objects of threads.
LEMMA ListsAre ==
  ASSUME Described, RegionsOk, Placed
  PROVE  /\ IsList(ObjectLists)
         /\ \A list \in ToSet(ObjectLists) : PageList(list) \/ IsMade(list) \/ IsThreads(list)
         /\ \A list : IsMade(list) \/ IsThreads(list) => list \in ToSet(ObjectLists)
<1> DEFINE pages == <<Regular(LargePage), Regular(Page)>>
           fixed == Each(Fixed, LAMBDA page : <<page>>)
           others == << Made("tcb", All), Made("sc", All), Made("reply", All), Made("ep", WithEp),
                        Made("ntfn", All), Made("vspace", All), Made("ud", Uds), Made("d", Ds),
                        Made("pt", Pts), Made("cnode", All) >>
           threads == Flat(WithThreads, ThreadObjects)
           q == Each(WithThreads, ThreadObjects)
           k == Len(WithThreads)
<1>1. IsList(pages) /\ \A list \in ToSet(pages) : PageList(list)
  BY TwoElements, RegularPages
<1>2. IsList(fixed) /\ \A list \in ToSet(fixed) : PageList(list)
  <2> DEFINE l == Len(Fixed)
  <2>1. l \in Nat /\ DOMAIN Fixed = 1..l /\ \A n \in 1..l : Fixed[n] \in ToSet(Fixed)
    BY FixedList, ListDomain DEF IsList, ToSet
  <2>2. fixed = [n \in 1..l |-> fixed[n]] /\ \A n \in 1..l : fixed[n] = <<Fixed[n]>>
    BY <2>1 DEF Each
  <2> HIDE DEF fixed, l
  <2>3. \A n \in 1..l : PageList(fixed[n])
    BY <2>1, <2>2, FixedIsPages, OneElement DEF PageList
  <2>4. IsList(fixed) /\ ToSet(fixed) = {fixed[n] : n \in 1..l}
    BY <2>1, <2>2, FunctionElements
  <2> QED
    BY <2>3, <2>4
<1>3. IsList(others) /\ \A list : IsMade(list) <=> list \in ToSet(others)
  <2>1. others = [n \in 1..10 |-> others[n]]
    OBVIOUS
  <2>2. \A list : IsMade(list) <=> \E n \in 1..10 : list = others[n]
    <3>1. \A list : IsMade(list) <=>
            \/ list = Made("tcb", All) \/ list = Made("sc", All) \/ list = Made("reply", All)
            \/ list = Made("ep", WithEp) \/ list = Made("ntfn", All) \/ list = Made("vspace", All)
            \/ list = Made("ud", Uds) \/ list = Made("d", Ds) \/ list = Made("pt", Pts) \/ list = Made("cnode", All)
      BY DEF IsMade, MadeTypes, Owners
    <3>2. /\ others[1] = Made("tcb", All) /\ others[2] = Made("sc", All) /\ others[3] = Made("reply", All)
          /\ others[4] = Made("ep", WithEp) /\ others[5] = Made("ntfn", All) /\ others[6] = Made("vspace", All)
          /\ others[7] = Made("ud", Uds) /\ others[8] = Made("d", Ds) /\ others[9] = Made("pt", Pts)
          /\ others[10] = Made("cnode", All)
      OBVIOUS
    <3>3. \A n : n \in 1..10 <=> n = 1 \/ n = 2 \/ n = 3 \/ n = 4 \/ n = 5 \/ n = 6 \/ n = 7 \/ n = 8 \/ n = 9 \/ n = 10
      OBVIOUS
    <3> HIDE DEF others
    <3> QED
      BY <3>1, <3>2, <3>3
  <2> HIDE DEF others
  <2>3. IsList(others) /\ ToSet(others) = {others[n] : n \in 1..10}
    BY <2>1, FunctionElements
  <2> QED
    BY <2>2, <2>3
<1>4. k \in Nat /\ DOMAIN WithThreads = 1..k /\ ToSet(WithThreads) = {WithThreads[n] : n \in 1..k}
  BY PdsWhere, ListDomain DEF IsList, ToSet
<1>5. q = [n \in 1..k |-> q[n]] /\ \A n \in 1..k : q[n] = ThreadObjects(WithThreads[n])
  BY <1>4 DEF Each
<1>6. threads = FlattenSeq(q)
  BY DEF Flat
<1> HIDE DEF pages, fixed, others, threads, q, k
<1>7. ASSUME NEW p
      PROVE  IsList(ThreadObjects(p)) /\ \A list : list \in ToSet(ThreadObjects(p)) <=> \E n \in 1..4 : list = ThreadObjects(p)[n]
  <2> DEFINE s == ThreadObjects(p)
  <2>1. s = [n \in 1..4 |-> s[n]]
    BY DEF ThreadObjects
  <2> HIDE DEF s
  <2>2. IsList(s) /\ ToSet(s) = {s[n] : n \in 1..4}
    BY <2>1, FunctionElements
  <2>3. \A list : list \in {s[n] : n \in 1..4} <=> \E n \in 1..4 : list = s[n]
    OBVIOUS
  <2> QED
    BY <2>2, <2>3 DEF s
<1>8. IsList(threads) /\ \A list : IsThreads(list) <=> list \in ToSet(threads)
  <2>1. \A n \in 1..k : IsList(q[n])
    BY <1>5, <1>7
  <2>2. IsList(q) /\ Len(q) = k
    BY <1>4, <1>5, FunctionIsList
  <2>3. IsList(threads) /\ ToSet(threads) = UNION {ToSet(q[n]) : n \in 1..k}
    BY <1>6, <2>1, <2>2, FlatLists
  <2>4. \A list : list \in ToSet(threads) <=> \E n \in 1..k : \E i \in 1..4 : list = ThreadObjects(WithThreads[n])[i]
    BY <1>5, <1>7, <2>3
  <2> QED
    BY <1>4, <2>3, <2>4 DEF IsThreads
<1> DEFINE all == ((pages \o fixed) \o others) \o threads
<1>9. ObjectLists = all
  BY DEF ObjectLists, pages, fixed, others, threads
<1>10. /\ IsList(all)
       /\ ToSet(all) = ((ToSet(pages) \cup ToSet(fixed)) \cup ToSet(others)) \cup ToSet(threads)
  <2>1. IsList(pages \o fixed) /\ ToSet(pages \o fixed) = ToSet(pages) \cup ToSet(fixed)
    BY <1>1, <1>2, ConcatLists
  <2>2. /\ IsList((pages \o fixed) \o others)
        /\ ToSet((pages \o fixed) \o others) = (ToSet(pages) \cup ToSet(fixed)) \cup ToSet(others)
    BY <1>3, <2>1, ConcatLists
  <2> QED
    BY <1>8, <2>2, ConcatLists
<1> HIDE DEF all
<1> QED
  BY <1>1, <1>2, <1>3, <1>8, <1>9, <1>10

\* Of a list, what is not empty is kept.
LEMMA NonEmptyAre ==
  ASSUME NEW lists, IsList(lists)
  PROVE  \A x : x \in ToSet(Where(lists, LAMBDA list : list # <<>>)) <=> x \in ToSet(lists) /\ x # <<>>
<1> DEFINE q == Each(lists, LAMBDA e : IF e # <<>> THEN <<e>> ELSE <<>>)
           k == Len(lists)
<1>1. k \in Nat /\ DOMAIN lists = 1..k /\ ToSet(lists) = {lists[n] : n \in 1..k}
  BY ListDomain DEF IsList, ToSet
<1>2. q = [n \in 1..k |-> q[n]] /\ \A n \in 1..k : q[n] = IF lists[n] # <<>> THEN <<lists[n]>> ELSE <<>>
  BY <1>1 DEF Each
<1> HIDE DEF q, k
<1>3. \A n \in 1..k : IsList(q[n]) /\ \A x : x \in ToSet(q[n]) <=> x = lists[n] /\ x # <<>>
  BY <1>2, OneElement, NoElement
<1>4. IsList(q) /\ Len(q) = k
  BY <1>1, <1>2, FunctionIsList
<1>5. ToSet(FlattenSeq(q)) = UNION {ToSet(q[n]) : n \in 1..k}
  BY <1>3, <1>4, FlatLists
<1>6. \A x : x \in UNION {ToSet(q[n]) : n \in 1..k} <=> \E n \in 1..k : x = lists[n] /\ x # <<>>
  BY <1>3
<1>7. Where(lists, LAMBDA list : list # <<>>) = FlattenSeq(q)
  BY DEF Where, Flat, q
<1> QED
  BY <1>1, <1>5, <1>6, <1>7

-----------------------------------------------------------------------------
(* The slots of the objects *)

Laid == Described /\ RegionsOk /\ MapsOk /\ Placed /\ IsList(objects) /\ objects = Collecting

LEMMA ElementsOf ==
  ASSUME NEW s, IsList(s)
  PROVE  \A x : x \in ToSet(s) <=> \E n \in 1..Len(s) : x = s[n]
BY ListDomain DEF ToSet

LEMMA ObjectsAre ==
  ASSUME Laid
  PROVE  /\ \A list \in ToSet(objects) : list # <<>> /\ (PageList(list) \/ IsMade(list) \/ IsThreads(list))
         /\ \A list : (IsMade(list) \/ IsThreads(list)) /\ list # <<>> => list \in ToSet(objects)
BY ListsAre, NonEmptyAre DEF Laid, Collecting

\* The type of an object tells its list.
LEMMA MadeTag ==
  ASSUME Laid, NEW list, IsMade(list)
  PROVE  IsList(list) /\ \A o \in ToSet(list) : o[1] \in MadeTypes /\ list = Made(o[1], Owners(o[1]))
<1>1. PICK type \in MadeTypes : list = Made(type, Owners(type))
  BY DEF IsMade
<1>2. IsList(list) /\ ToSet(list) = {<<type, x>> : x \in ToSet(Owners(type))}
  BY <1>1, OwnersList, MadeIs DEF Laid
<1>3. \A o \in ToSet(list) : o[1] = type
  BY <1>2
<1> QED
  BY <1>1, <1>2, <1>3

LEMMA ThreadTag ==
  ASSUME Laid, NEW list, IsThreads(list)
  PROVE  /\ IsList(list)
         /\ \A o \in ToSet(list) : \E n \in 1..4 : o[1] = ThreadTypes[n] /\ list = ThreadObjects(o[2])[n]
<1>1. PICK p \in ToSet(WithThreads), n \in 1..4 : list = ThreadObjects(p)[n]
  BY DEF IsThreads
<1>2. p \in DOMAIN pds
  BY <1>1, PdsWhere DEF Laid
<1>3. IsList(list) /\ ToSet(list) = {<<ThreadTypes[n], p, t - 1>> : t \in 1..pds[p].threads}
  BY <1>1, <1>2, ThreadObjectsAre DEF Laid
<1>4. \A o \in ToSet(list) : o[1] = ThreadTypes[n] /\ o[2] = p
  BY <1>3
<1> QED
  BY <1>1, <1>3, <1>4

LEMMA TypesApart ==
  /\ \A n \in 1..4 : ThreadTypes[n] \notin MadeTypes \cup {"page", "system", "irq"}
  /\ \A m, n \in 1..4 : ThreadTypes[m] = ThreadTypes[n] => m = n
  /\ MadeTypes \cap {"page", "system", "irq"} = {}
<1>1. /\ ThreadTypes[1] = "thread tcb" /\ ThreadTypes[2] = "thread sc" /\ ThreadTypes[3] = "thread cnode"
      /\ ThreadTypes[4] = "thread reply"
  BY DEF ThreadTypes
<1>2. \A n \in 1..4 : n = 1 \/ n = 2 \/ n = 3 \/ n = 4
  OBVIOUS
<1>3. \A n \in 1..4 : ThreadTypes[n] \notin MadeTypes \cup {"page", "system", "irq"}
  BY <1>1, <1>2 DEF MadeTypes
<1>4. \A m, n \in 1..4 : ThreadTypes[m] = ThreadTypes[n] => m = n
  BY <1>1, <1>2
<1> QED
  BY <1>3, <1>4 DEF MadeTypes

\* An object that is no page is in one list only.
LEMMA OneList ==
  ASSUME Laid, NEW K \in ToSet(objects), NEW L \in ToSet(objects), NEW o \in ToSet(K) \cap ToSet(L),
         o[1] # "page"
  PROVE  K = L
<1>1. ~PageList(K) /\ ~PageList(L)
  BY DEF PageList, IsPage
<1>2. (IsMade(K) \/ IsThreads(K)) /\ (IsMade(L) \/ IsThreads(L))
  BY <1>1, ObjectsAre
<1>3. CASE IsMade(K) /\ IsMade(L)
  BY <1>3, MadeTag
<1>4. CASE IsThreads(K) /\ IsThreads(L)
  <2>1. PICK m \in 1..4 : o[1] = ThreadTypes[m] /\ K = ThreadObjects(o[2])[m]
    BY <1>4, ThreadTag
  <2>2. PICK n \in 1..4 : o[1] = ThreadTypes[n] /\ L = ThreadObjects(o[2])[n]
    BY <1>4, ThreadTag
  <2> QED
    BY <2>1, <2>2, TypesApart
<1>5. CASE IsMade(K) /\ IsThreads(L)
  <2>1. o[1] \in MadeTypes
    BY <1>5, MadeTag
  <2>2. \E n \in 1..4 : o[1] = ThreadTypes[n]
    BY <1>5, ThreadTag
  <2> QED
    BY <2>1, <2>2, TypesApart
<1>6. CASE IsThreads(K) /\ IsMade(L)
  <2>1. o[1] \in MadeTypes
    BY <1>6, MadeTag
  <2>2. \E n \in 1..4 : o[1] = ThreadTypes[n]
    BY <1>6, ThreadTag
  <2> QED
    BY <2>1, <2>2, TypesApart
<1> QED
  BY <1>2, <1>3, <1>4, <1>5, <1>6

\* What a list that objects are made from holds.
LEMMA ObjectListIs ==
  ASSUME Laid, NEW list \in ToSet(objects)
  PROVE  /\ IsList(list) /\ list # <<>> /\ Len(list) \in Nat \ {0} /\ list[1] \in ToSet(list)
         /\ \A o \in ToSet(list) : o # <<>> /\ o[1] \in MadeTypes \cup {"page"} \cup {ThreadTypes[n] : n \in 1..4}
<1>1. list # <<>> /\ (PageList(list) \/ IsMade(list) \/ IsThreads(list))
  BY ObjectsAre
<1>2. IsList(list)
  BY <1>1, MadeTag, ThreadTag DEF PageList
<1>3. Len(list) \in Nat \ {0} /\ list[1] \in ToSet(list)
  <2>1. Len(list) \in Nat /\ list = [n \in 1..Len(list) |-> list[n]] /\ DOMAIN list = 1..Len(list)
    BY <1>2, ListDomain DEF IsList
  <2>2. Len(list) # 0
    <3>1. list \in Seq(ToSet(list))
      BY <1>2, ListDomain
    <3> QED
      BY <1>1, <3>1, EmptySeq
  <2> QED
    BY <2>1, <2>2 DEF ToSet
<1>4. CASE PageList(list)
  BY <1>1, <1>2, <1>3, <1>4 DEF PageList, IsPage
<1>5. CASE IsMade(list)
  <2>1. PICK type \in MadeTypes : list = Made(type, Owners(type))
    BY <1>5 DEF IsMade
  <2>2. ToSet(list) = {<<type, x>> : x \in ToSet(Owners(type))}
    BY <2>1, OwnersList, MadeIs DEF Laid
  <2>3. \A x : <<type, x>> # <<>> /\ <<type, x>>[1] = type
    OBVIOUS
  <2> QED
    BY <1>1, <1>2, <1>3, <2>2, <2>3
<1>6. CASE IsThreads(list)
  <2>1. PICK p \in ToSet(WithThreads), n \in 1..4 : list = ThreadObjects(p)[n]
    BY <1>6 DEF IsThreads
  <2>2. p \in DOMAIN pds
    BY <2>1, PdsWhere DEF Laid
  <2>3. ToSet(list) = {<<ThreadTypes[n], p, t - 1>> : t \in 1..pds[p].threads}
    BY <2>1, <2>2, ThreadObjectsAre DEF Laid
  <2>4. \A t : <<ThreadTypes[n], p, t>> # <<>> /\ <<ThreadTypes[n], p, t>>[1] = ThreadTypes[n]
    OBVIOUS
  <2> QED
    BY <1>1, <1>2, <1>3, <2>3, <2>4
<1> QED
  BY <1>1, <1>4, <1>5, <1>6

\* The slots before a list are those of the lists before it.
LEMMA SlotsBefore ==
  ASSUME Laid, NEW k \in 1..Len(objects)
  PROVE  Sum(SubSeq(objects, 1, k - 1), Len) \in Nat
<1> DEFINE m == Len(objects)
           v == [n \in 1..m |-> Len(objects[n])]
           part == [n \in 1..k - 1 |-> objects[n]]
<1>1. m \in Nat /\ DOMAIN objects = 1..m /\ objects \in Seq(ToSet(objects)) /\ \A n \in 1..m : objects[n] \in ToSet(objects)
  BY ListDomain DEF Laid, IsList, ToSet
<1>2. \A n \in 1..m : v[n] \in Nat
  BY <1>1, ObjectListIs
<1>3. SubSeq(objects, 1, k - 1) = part
  BY <1>1, Beginning
<1>4. Each(part, Len) = [n \in 1..k - 1 |-> v[n]]
  BY <1>1 DEF Each
<1> HIDE DEF v, part, m
<1>5. k - 1 \in 0..m
  BY <1>1 DEF m
<1>6. Total([n \in 1..k - 1 |-> v[n]]) \in Nat
  <2>1. PICK u : /\ \A n \in 0..m : u[n] \in Nat
                 /\ \A j \in 0..m : Total([n \in 1..j |-> v[n]]) = u[j]
                 /\ \A i, j \in 0..m : i <= j => u[i] <= u[j]
                 /\ \A n \in 1..m : u[n] = u[n - 1] + v[n]
    BY <1>1, <1>2, TotalStages
  <2> QED
    BY <1>5, <2>1
<1> QED
  BY <1>3, <1>4, <1>6 DEF Sum

LEMMA SlotNat ==
  ASSUME Laid, tablePages \in Nat, NEW list \in ToSet(objects), NEW o \in ToSet(list)
  PROVE  SlotAt(o) \in Nat
<1> DEFINE k == CHOOSE k \in DOMAIN objects : o \in ToSet(objects[k])
           n == CHOOSE n \in DOMAIN objects[k] : objects[k][n] = o
<1>1. DOMAIN objects = 1..Len(objects) /\ \A i \in DOMAIN objects : objects[i] \in ToSet(objects)
  BY ListDomain DEF Laid, IsList, ToSet
<1>2. \E i \in DOMAIN objects : o \in ToSet(objects[i])
  BY ElementsOf, <1>1 DEF Laid
<1>3. k \in DOMAIN objects /\ o \in ToSet(objects[k])
  BY <1>2
<1>4. IsList(objects[k]) /\ DOMAIN objects[k] = 1..Len(objects[k])
  BY <1>1, <1>3, ObjectListIs, ListDomain
<1>5. n \in 1..Len(objects[k])
  BY ZenonT(40), <1>3, <1>4, ElementsOf
<1> DEFINE base == Sum(SubSeq(objects, 1, k - 1), Len)
<1>6. SlotAt(o) = FirstSlot + base + n - 1
  BY DEF SlotAt
<1> HIDE DEF k, n
<1>7. base \in Nat
  BY <1>1, <1>3, SlotsBefore
<1> HIDE DEF base
<1>8. Len(objects[k]) \in Nat /\ FirstSlot \in Nat
  BY <1>4, FirstSlotIs DEF IsList
<1> QED
  BY <1>5, <1>6, <1>7, <1>8

\* The objects of a list have adjacent slots.
LEMMA Adjacent ==
  ASSUME Laid, tablePages \in Nat, NEW L \in ToSet(objects), \A o \in ToSet(L) : o[1] # "page", Once(L, ToSet(L))
  PROVE  SlotAt(L[1]) \in Nat /\ \A j \in 1..Len(L) : SlotAt(L[j]) = SlotAt(L[1]) + j - 1
<1> DEFINE k == CHOOSE k \in DOMAIN objects : objects[k] = L
           base == Sum(SubSeq(objects, 1, k - 1), Len)
<1>1. DOMAIN objects = 1..Len(objects) /\ \A i \in DOMAIN objects : objects[i] \in ToSet(objects)
  BY ListDomain DEF Laid, IsList, ToSet
<1>2. IsList(L) /\ Len(L) \in Nat \ {0} /\ DOMAIN L = 1..Len(L) /\ \A j \in 1..Len(L) : L[j] \in ToSet(L)
  BY ObjectListIs, ListDomain DEF ToSet
<1>3. k \in DOMAIN objects /\ objects[k] = L
  <2>1. \E i \in DOMAIN objects : objects[i] = L
    BY ElementsOf, <1>1 DEF Laid
  <2> QED
    BY <2>1
<1>4. ASSUME NEW j \in 1..Len(L)
      PROVE  SlotAt(L[j]) = FirstSlot + base + j - 1
  <2>1. \A i \in DOMAIN objects : L[j] \in ToSet(objects[i]) <=> objects[i] = L
    BY <1>1, <1>2, OneList
  <2>2. (CHOOSE i \in DOMAIN objects : L[j] \in ToSet(objects[i])) = k
    BY <2>1
  <2>3. SlotAt(L[j]) = FirstSlot + base + (CHOOSE n \in DOMAIN objects[k] : objects[k][n] = L[j]) - 1
    BY <2>2 DEF SlotAt
  <2> HIDE DEF k
  <2>4. (CHOOSE n \in DOMAIN objects[k] : objects[k][n] = L[j]) = j
    BY <1>2, <1>3 DEF Once
  <2> QED
    BY <2>3, <2>4
<1> HIDE DEF k
<1>5. base \in Nat
  BY <1>1, <1>3, SlotsBefore
<1> HIDE DEF base
<1> QED
  BY <1>2, <1>4, <1>5, FirstSlotIs

\* An object with slots of its own.
Slotted == Laid /\ tablePages \in Nat /\ slotOf = Slots
Homed(o) == \E list \in ToSet(objects) : o \in ToSet(list) /\ Once(list, ToSet(list))
                                         /\ \A x \in ToSet(list) : x[1] # "page"

LEMMA OneByOne ==
  ASSUME NEW x
  PROVE  Once(<<x>>, {x}) /\ Once(<<>>, {})
BY DEF Once

LEMMA WithEpOnce ==
  ASSUME Described
  PROVE  Once(WithEp, ToSet(WithEp))
<1> DEFINE k == Len(pds)
           eps == Each(All, LAMBDA e : IF NeedsEp(e) THEN <<e>> ELSE <<>>)
           X == ToSet(WithEp)
<1>1. k \in Nat /\ DOMAIN pds = 1..k
  BY AllIs
<1>2. eps = [p \in 1..k |-> eps[p]] /\ \A p \in 1..k : eps[p] = IF NeedsEp(p) THEN <<p>> ELSE <<>>
  BY AllIs DEF Each
<1>3. WithEp = FlattenSeq(eps)
  BY DEF WithEp, Pds, Where, Flat
<1> HIDE DEF eps, k, X
<1>4. IsList(eps) /\ Len(eps) = k
  BY <1>1, <1>2, FunctionIsList
<1>5. \A p \in 1..k : IsList(eps[p]) /\ \A x \in ToSet(eps[p]) : x = p
  BY <1>2, OneElement, NoElement
<1>6. ASSUME NEW p \in 1..k
      PROVE  Once(eps[p], X)
  <2>1. CASE NeedsEp(p)
    <3>1. eps[p] = <<p>>
      BY <1>2, <2>1
    <3> QED
      BY <3>1 DEF Once
  <2>2. CASE ~NeedsEp(p)
    <3>1. eps[p] = <<>>
      BY <1>2, <2>2
    <3> QED
      BY <3>1 DEF Once
  <2> QED
    BY <2>1, <2>2
<1>7. \A m, n \in 1..k : m # n => \A x \in ToSet(eps[m]) : x \in X => x \notin ToSet(eps[n])
  BY <1>5
<1>8. \A n \in 1..k : IsList(eps[n]) /\ Once(eps[n], X)
  BY <1>5, <1>6
<1>9. Once(FlattenSeq(eps), X)
  <2>1. \A n \in 1..Len(eps) : IsList(eps[n]) /\ Once(eps[n], X)
    BY <1>4, <1>8
  <2>2. \A m, n \in 1..Len(eps) : m # n => \A x \in ToSet(eps[m]) : x \in X => x \notin ToSet(eps[n])
    BY <1>4, <1>7
  <2> QED
    BY <1>4, <2>1, <2>2, FlatOnce
<1> QED
  BY <1>3, <1>9 DEF X

\* The objects of a list of one type, each of an owner of its own.
LEMMA MadeHomed ==
  ASSUME Laid, NEW type \in MadeTypes, NEW owner \in ToSet(Owners(type)), Once(Owners(type), ToSet(Owners(type)))
  PROVE  LET list == Made(type, Owners(type))
         IN  /\ list \in ToSet(objects) /\ <<type, owner>> \in ToSet(list) /\ Once(list, ToSet(list))
             /\ \A x \in ToSet(list) : x[1] # "page"
             /\ Len(list) = Len(Owners(type)) /\ \A n \in 1..Len(list) : list[n] = <<type, Owners(type)[n]>>
<1> DEFINE list == Made(type, Owners(type))
           k == Len(Owners(type))
<1>1. IsList(Owners(type))
  BY OwnersList DEF Laid
<1>2. /\ IsList(list) /\ Len(list) = k /\ k \in Nat /\ \A n \in 1..k : list[n] = <<type, Owners(type)[n]>>
      /\ ToSet(list) = {<<type, x>> : x \in ToSet(Owners(type))}
  BY <1>1, MadeIs
<1>3. IsMade(list)
  BY DEF IsMade
<1> HIDE DEF list
<1>4. <<type, owner>> \in ToSet(list)
  BY <1>2
<1>5. list # <<>>
  BY <1>4, NoElement
<1>6. list \in ToSet(objects)
  BY <1>3, <1>5, ObjectsAre
<1>7. Once(list, ToSet(list))
  <2>1. \A i, j \in 1..k : Owners(type)[i] = Owners(type)[j] => i = j
    BY <1>1, ElementsOf DEF Once
  <2> QED
    BY <1>2, <2>1 DEF Once
<1>8. \A x \in ToSet(list) : x[1] # "page"
  BY <1>2, TypesApart
<1> QED
  BY <1>2, <1>4, <1>6, <1>7, <1>8 DEF list, k

\* One of each PD.
PdTypes == {"tcb", "sc", "reply", "ntfn", "vspace", "cnode"}

LEMMA PdObjects ==
  ASSUME Slotted, NEW type \in PdTypes, NEW p \in DOMAIN pds
  PROVE  /\ Homed(<<type, p>>) /\ slotOf[<<type, 1>>] \in Nat
         /\ slotOf[<<type, p>>] = slotOf[<<type, 1>>] + p - 1
<1> DEFINE list == Made(type, Owners(type))
<1>1. type \in MadeTypes /\ Owners(type) = All
  BY DEF PdTypes, MadeTypes, Owners
<1>2. Len(pds) \in Nat /\ DOMAIN pds = 1..Len(pds) /\ All = [q \in 1..Len(pds) |-> q]
  BY AllIs DEF Slotted, Laid
<1>3. IsList(All) /\ Len(All) = Len(pds) /\ p \in ToSet(All) /\ Once(All, ToSet(All)) /\ \A n \in 1..Len(pds) : All[n] = n
  <2>1. IsList(All) /\ Len(All) = Len(pds)
    BY <1>2, FunctionIsList
  <2> QED
    BY <1>2, <2>1, ElementsOf DEF Once
<1>4. /\ list \in ToSet(objects) /\ <<type, p>> \in ToSet(list) /\ Once(list, ToSet(list))
      /\ \A x \in ToSet(list) : x[1] # "page"
      /\ Len(list) = Len(pds) /\ \A n \in 1..Len(list) : list[n] = <<type, n>>
  BY <1>1, <1>3, MadeHomed DEF Slotted
<1> HIDE DEF list
<1>5. Homed(<<type, p>>)
  BY <1>4 DEF Homed
<1>6. SlotAt(list[1]) \in Nat /\ \A j \in 1..Len(list) : SlotAt(list[j]) = SlotAt(list[1]) + j - 1
  BY <1>4, Adjacent DEF Slotted
<1>7. \A o \in ToSet(list) : slotOf[o] = SlotAt(o)
  BY <1>4 DEF Slotted, Slots
<1>8. IsList(list) /\ \A n \in 1..Len(list) : list[n] \in ToSet(list)
  BY <1>4, ObjectListIs, ElementsOf DEF Slotted
<1>9. 1 \in 1..Len(list) /\ p \in 1..Len(list)
  BY <1>2, <1>4
<1> QED
  BY <1>4, <1>5, <1>6, <1>7, <1>8, <1>9

LEMMA EpObjects ==
  ASSUME Slotted, NEW p \in DOMAIN pds, NeedsEp(p)
  PROVE  Homed(<<"ep", p>>)
<1>1. "ep" \in MadeTypes /\ Owners("ep") = WithEp
  BY DEF MadeTypes, Owners
<1>2. p \in ToSet(WithEp) /\ Once(WithEp, ToSet(WithEp))
  BY ChosenPds, WithEpOnce DEF Slotted, Laid
<1> DEFINE list == Made("ep", Owners("ep"))
<1>3. /\ list \in ToSet(objects) /\ <<"ep", p>> \in ToSet(list) /\ Once(list, ToSet(list))
      /\ \A x \in ToSet(list) : x[1] # "page"
  BY <1>1, <1>2, MadeHomed DEF Slotted
<1> HIDE DEF list
<1> QED
  BY <1>3 DEF Homed

LEMMA ThreadObjectsHomed ==
  ASSUME Slotted, NEW p \in DOMAIN pds, NEW n \in 1..4, NEW t \in 0..pds[p].threads - 1
  PROVE  /\ Homed(<<ThreadTypes[n], p, t>>) /\ slotOf[<<ThreadTypes[n], p, 0>>] \in Nat
         /\ slotOf[<<ThreadTypes[n], p, t>>] = slotOf[<<ThreadTypes[n], p, 0>>] + t
<1> DEFINE list == ThreadObjects(p)[n]
           k == pds[p].threads
<1>1. k \in Nat /\ t + 1 \in 1..k /\ 1 \in 1..k
  BY PdFields DEF Slotted, Laid
<1>2. /\ IsList(list) /\ Len(list) = k /\ \A i \in 1..k : list[i] = <<ThreadTypes[n], p, i - 1>>
      /\ ToSet(list) = {<<ThreadTypes[n], p, i - 1>> : i \in 1..k}
  BY ThreadObjectsAre DEF Slotted, Laid
<1>3. p \in ToSet(WithThreads)
  BY <1>1, ChosenPds DEF Slotted, Laid
<1>4. IsThreads(list)
  BY <1>3 DEF IsThreads
<1> HIDE DEF list, k
<1>5. \A i \in 1..k : list[i] \in ToSet(list)
  BY <1>2, ElementsOf
<1>6. list \in ToSet(objects)
  BY <1>1, <1>4, <1>5, NoElement, ObjectsAre DEF Slotted
<1>7. Once(list, ToSet(list))
  BY <1>2 DEF Once
<1>8. \A x \in ToSet(list) : x[1] # "page"
  BY <1>2, TypesApart
<1>9. SlotAt(list[1]) \in Nat /\ \A j \in 1..Len(list) : SlotAt(list[j]) = SlotAt(list[1]) + j - 1
  BY <1>6, <1>7, <1>8, Adjacent DEF Slotted
<1>10. \A o \in ToSet(list) : slotOf[o] = SlotAt(o)
  BY <1>6 DEF Slotted, Slots
<1>11. list[t + 1] = <<ThreadTypes[n], p, t>> /\ list[1] = <<ThreadTypes[n], p, 0>>
  <2>1. list[t + 1] = <<ThreadTypes[n], p, (t + 1) - 1>> /\ list[1] = <<ThreadTypes[n], p, 1 - 1>>
    BY <1>1, <1>2
  <2>2. (t + 1) - 1 = t /\ 1 - 1 = 0
    BY <1>1
  <2> QED
    BY <2>1, <2>2
<1>12. list[1] \in ToSet(list) /\ list[t + 1] \in ToSet(list)
  BY <1>1, <1>5
<1>13. SlotAt(list[t + 1]) = SlotAt(list[1]) + t
  BY <1>1, <1>2, <1>9
<1>14. Homed(<<ThreadTypes[n], p, t>>)
  BY <1>6, <1>7, <1>8, <1>11, <1>12 DEF Homed
<1>15. slotOf[list[1]] = SlotAt(list[1]) /\ slotOf[list[t + 1]] = SlotAt(list[t + 1])
  BY <1>10, <1>12
<1> QED
  BY <1>9, <1>11, <1>13, <1>14, <1>15

-----------------------------------------------------------------------------
(* The invocations of the plan, one by one *)

IsRetype(inv) ==
  \E list \in ToSet(objects) : inv = Do("Retype", [dest |-> slotOf[list[1]], objects |-> list])
IsIrqGet(inv) ==
  \E n \in 1..Len(IrqList) : inv = Do("IrqControlGet", [irq |-> IrqList[n].irq, dest |-> IrqCap(n)])
IsPageMint(inv) ==
  \E n \in 1..Len(maps) :
    inv = Repeat(Mint(SystemCNode, FrameCap(n), slotOf[<<"page", maps[n].mr.name, 1>>], 0),
                 maps[n].mr.count, [dest |-> 1, src |-> 1])
IsIrqNtfn(inv) ==
  \E n \in 1..Len(IrqList) :
    inv = Mint(SystemCNode, IrqNtfnCap(n), Ntfn(IrqList[n].pd), NtfnBadge(IrqList[n].id))
IsPdFault(inv) ==
  \E p \in DOMAIN pds :
    inv = IF Parented(p) THEN Mint(SystemCNode, FaultCap(p), Ep(pds[p].parent), FaultBadge(pds[p].pd_id))
                         ELSE Mint(SystemCNode, FaultCap(p), Ep(p), FaultRootBadge)
IsInput(inv) ==
  \E p \in DOMAIN pds : inv = Mint(CNode(p), InputSlot, IF NeedsEp(p) THEN Ep(p) ELSE Ntfn(p), 0)
IsReply(inv) == inv = Repeat(Mint(CNode(1), ReplySlot, Reply(1), 1), Len(pds), [cnode |-> 1, src |-> 1])
IsVSpace(inv) == inv = Repeat(Mint(CNode(1), VSpaceSlot, VSpace(1), 0), Len(pds), [cnode |-> 1, src |-> 1])
IsIrqHandler(inv) ==
  \E n \in 1..Len(IrqList) : inv = Mint(CNode(IrqList[n].pd), IrqSlot + IrqList[n].id, IrqCap(n), 0)
IsIrqSet(inv) ==
  \E n \in 1..Len(IrqList) :
    inv = Do("IrqSetNotification", [handler |-> IrqCap(n), notification |-> IrqNtfnCap(n)])

LEMMA LaidReady == Laid => Ready
BY DEF Laid, Ready

LEMMA RetypesAre ==
  ASSUME Laid
  PROVE  \A inv : inv \in ToSet(Retypes) <=> IsRetype(inv)
<1> DEFINE s == Retypes
           k == Len(objects)
           of(list) == Do("Retype", [dest |-> slotOf[list[1]], objects |-> list])
<1>1. k \in Nat /\ DOMAIN objects = 1..k
  BY LaidReady, Domains
<1>2. s = [n \in 1..k |-> s[n]] /\ \A n \in 1..k : s[n] = of(objects[n])
  BY <1>1 DEF Retypes, Each
<1>3. \A inv : IsRetype(inv) <=> \E list \in ToSet(objects) : inv = of(list)
  BY DEF IsRetype
<1>4. \A list : list \in ToSet(objects) <=> \E n \in 1..k : list = objects[n]
  BY ElementsOf DEF Laid
<1> HIDE DEF s, k, of
<1>5. \A inv : inv \in ToSet(s) <=> \E n \in 1..k : inv = s[n]
  BY <1>1, <1>2, FunctionElements
<1> QED
  BY <1>2, <1>3, <1>4, <1>5 DEF s

LEMMA IrqInvocations ==
  ASSUME Laid
  PROVE  /\ \A inv : inv \in ToSet(CreateIrqHandlers) <=> IsIrqGet(inv)
         /\ \A inv : inv \in ToSet(MintIrqNotifications) <=> IsIrqNtfn(inv)
         /\ \A inv : inv \in ToSet(MintIrqHandlers) <=> IsIrqHandler(inv)
         /\ \A inv : inv \in ToSet(AssociateIrqs) <=> IsIrqSet(inv)
<1> DEFINE k == Len(IrqList)
<1>1. k \in Nat /\ DOMAIN IrqList = 1..k
  BY LaidReady, IrqsList
<1>2. \A inv : inv \in ToSet(CreateIrqHandlers) <=> IsIrqGet(inv)
  <2> DEFINE s == CreateIrqHandlers
             of(n) == Do("IrqControlGet", [irq |-> IrqList[n].irq, dest |-> IrqCap(n)])
  <2>1. s = [n \in 1..k |-> s[n]] /\ \A n \in 1..k : s[n] = of(n)
    BY <1>1 DEF CreateIrqHandlers
  <2>2. \A inv : IsIrqGet(inv) <=> \E n \in 1..k : inv = of(n)
    BY DEF IsIrqGet
  <2> HIDE DEF s, k, of
  <2>3. \A inv : inv \in ToSet(s) <=> \E n \in 1..k : inv = s[n]
    BY <1>1, <2>1, FunctionElements
  <2> QED
    BY <2>1, <2>2, <2>3 DEF s
<1>3. \A inv : inv \in ToSet(MintIrqNotifications) <=> IsIrqNtfn(inv)
  <2> DEFINE s == MintIrqNotifications
             of(n) == Mint(SystemCNode, IrqNtfnCap(n), Ntfn(IrqList[n].pd), NtfnBadge(IrqList[n].id))
  <2>1. s = [n \in 1..k |-> s[n]] /\ \A n \in 1..k : s[n] = of(n)
    BY <1>1 DEF MintIrqNotifications
  <2>2. \A inv : IsIrqNtfn(inv) <=> \E n \in 1..k : inv = of(n)
    BY DEF IsIrqNtfn
  <2> HIDE DEF s, k, of
  <2>3. \A inv : inv \in ToSet(s) <=> \E n \in 1..k : inv = s[n]
    BY <1>1, <2>1, FunctionElements
  <2> QED
    BY <2>1, <2>2, <2>3 DEF s
<1>4. \A inv : inv \in ToSet(MintIrqHandlers) <=> IsIrqHandler(inv)
  <2> DEFINE s == MintIrqHandlers
             of(n) == Mint(CNode(IrqList[n].pd), IrqSlot + IrqList[n].id, IrqCap(n), 0)
  <2>1. s = [n \in 1..k |-> s[n]] /\ \A n \in 1..k : s[n] = of(n)
    BY <1>1 DEF MintIrqHandlers
  <2>2. \A inv : IsIrqHandler(inv) <=> \E n \in 1..k : inv = of(n)
    BY DEF IsIrqHandler
  <2> HIDE DEF s, k, of
  <2>3. \A inv : inv \in ToSet(s) <=> \E n \in 1..k : inv = s[n]
    BY <1>1, <2>1, FunctionElements
  <2> QED
    BY <2>1, <2>2, <2>3 DEF s
<1>5. \A inv : inv \in ToSet(AssociateIrqs) <=> IsIrqSet(inv)
  <2> DEFINE s == AssociateIrqs
             of(n) == Do("IrqSetNotification", [handler |-> IrqCap(n), notification |-> IrqNtfnCap(n)])
  <2>1. s = [n \in 1..k |-> s[n]] /\ \A n \in 1..k : s[n] = of(n)
    BY <1>1 DEF AssociateIrqs
  <2>2. \A inv : IsIrqSet(inv) <=> \E n \in 1..k : inv = of(n)
    BY DEF IsIrqSet
  <2> HIDE DEF s, k, of
  <2>3. \A inv : inv \in ToSet(s) <=> \E n \in 1..k : inv = s[n]
    BY <1>1, <2>1, FunctionElements
  <2> QED
    BY <2>1, <2>2, <2>3 DEF s
<1> QED
  BY <1>2, <1>3, <1>4, <1>5

LEMMA PageMintsAre ==
  ASSUME Laid
  PROVE  \A inv : inv \in ToSet(MintPages) <=> IsPageMint(inv)
<1> DEFINE s == MintPages
           k == Len(maps)
           of(n) == Repeat(Mint(SystemCNode, FrameCap(n), slotOf[<<"page", maps[n].mr.name, 1>>], 0),
                           maps[n].mr.count, [dest |-> 1, src |-> 1])
<1>1. k \in Nat /\ DOMAIN maps = 1..k
  BY LaidReady, Domains
<1>2. s = [n \in 1..k |-> s[n]] /\ \A n \in 1..k : s[n] = of(n)
  BY <1>1 DEF MintPages
<1>3. \A inv : IsPageMint(inv) <=> \E n \in 1..k : inv = of(n)
  BY DEF IsPageMint
<1> HIDE DEF s, k, of
<1>4. \A inv : inv \in ToSet(s) <=> \E n \in 1..k : inv = s[n]
  BY <1>1, <1>2, FunctionElements
<1> QED
  BY <1>2, <1>3, <1>4 DEF s

LEMMA MintsByPd ==
  ASSUME Laid
  PROVE  /\ \A inv : inv \in ToSet(MintFaultEndpoints) <=> IsPdFault(inv)
         /\ \A inv : inv \in ToSet(MintInput) <=> IsInput(inv)
<1> DEFINE k == Len(pds)
<1>1. k \in Nat /\ DOMAIN pds = 1..k /\ DOMAIN All = 1..k /\ \A p \in 1..k : All[p] = p
  BY LaidReady, Domains
<1>2. \A inv : inv \in ToSet(MintFaultEndpoints) <=> IsPdFault(inv)
  <2> DEFINE s == MintFaultEndpoints
             of(p) == IF Parented(p) THEN Mint(SystemCNode, FaultCap(p), Ep(pds[p].parent), FaultBadge(pds[p].pd_id))
                                     ELSE Mint(SystemCNode, FaultCap(p), Ep(p), FaultRootBadge)
  <2>1. s = [n \in 1..k |-> s[n]] /\ \A n \in 1..k : s[n] = of(n)
    BY <1>1 DEF MintFaultEndpoints, Each
  <2>2. \A inv : IsPdFault(inv) <=> \E n \in 1..k : inv = of(n)
    BY <1>1 DEF IsPdFault
  <2> HIDE DEF s, k, of
  <2>3. \A inv : inv \in ToSet(s) <=> \E n \in 1..k : inv = s[n]
    BY <1>1, <2>1, FunctionElements
  <2> QED
    BY <2>1, <2>2, <2>3 DEF s
<1>3. \A inv : inv \in ToSet(MintInput) <=> IsInput(inv)
  <2> DEFINE s == MintInput
             of(p) == Mint(CNode(p), InputSlot, IF NeedsEp(p) THEN Ep(p) ELSE Ntfn(p), 0)
  <2>1. s = [n \in 1..k |-> s[n]] /\ \A n \in 1..k : s[n] = of(n)
    BY <1>1 DEF MintInput, Each
  <2>2. \A inv : IsInput(inv) <=> \E n \in 1..k : inv = of(n)
    BY <1>1 DEF IsInput
  <2> HIDE DEF s, k, of
  <2>3. \A inv : inv \in ToSet(s) <=> \E n \in 1..k : inv = s[n]
    BY <1>1, <2>1, FunctionElements
  <2> QED
    BY <2>1, <2>2, <2>3 DEF s
<1> QED
  BY <1>2, <1>3

LEMMA MintsForAll ==
  /\ \A inv : inv \in ToSet(MintReply) <=> IsReply(inv)
  /\ \A inv : inv \in ToSet(MintVSpace) <=> IsVSpace(inv)
  /\ \A inv : inv \in ToSet(AssignAsids) => inv.op = "AsidPoolAssign"
<1>1. MintReply = <<Repeat(Mint(CNode(1), ReplySlot, Reply(1), 1), Len(pds), [cnode |-> 1, src |-> 1])>>
  BY DEF MintReply, AllRepeated
<1>2. MintVSpace = <<Repeat(Mint(CNode(1), VSpaceSlot, VSpace(1), 0), Len(pds), [cnode |-> 1, src |-> 1])>>
  BY DEF MintVSpace, AllRepeated
<1>3. \A x : ToSet(<<x>>) = {x}
  BY OneElement
<1>4. \A inv \in ToSet(AssignAsids) : inv.op = "AsidPoolAssign"
  <2>1. AssignAsids = <<Repeat(Do("AsidPoolAssign", [vspace |-> VSpace(1)]), Len(pds), [vspace |-> 1])>>
    BY DEF AssignAsids, AllRepeated
  <2>2. Repeat(Do("AsidPoolAssign", [vspace |-> VSpace(1)]), Len(pds), [vspace |-> 1]).op = "AsidPoolAssign"
    BY DEF Repeat, Do
  <2> QED
    BY <1>3, <2>1, <2>2
<1> QED
  BY <1>1, <1>2, <1>3, <1>4 DEF IsReply, IsVSpace

ChildMint(p, c, inv) ==
  LET id == pds[c].pd_id
      n == pds[p].threads
  IN  \/ pds[p].root_ppc /\ inv = Mint(CNode(c), RootEpSlot, Ep(p), RootPpcBadge(id))
      \/ inv = Mint(CNode(p), TcbSlot + id, Tcb(c), 0)
      \/ n > 0 /\ inv = Mint(CNode(p), ThreadSc(n, id), Sc(c), 0)
      \/ n > 0 /\ inv = Mint(CNode(p), ThreadCSpace(n, id), CNode(c), 0)
      \/ n > 0 /\ inv = Copy(CNode(p), ThreadReply(n, id), Reply(c))
      \/ n > 0 /\ inv = Mint(CNode(p), PdVSpace(n, id), VSpace(c), 0)

\* The capabilities of threads that are no PDs, and what is written into their TCBs.
ThreadMint(p, inv) ==
  LET n == pds[p].threads
      k == Cardinality(Children(p))
      Given(slot, type) == Spawned(p, Mint(CNode(p), slot, Thread(type, p, k), 0), [dest |-> 1, src |-> 1])
  IN  \/ /\ pds[p].root_ppc
         /\ inv = Spawned(p, Mint(Thread("thread cnode", p, k), RootEpSlot, Ep(p), RootPpcBadge(k)),
                          [cnode |-> 1, badge |-> 1])
      \/ inv = Spawned(p, Mint(SystemCNode, ThreadFaultCap(p), Ep(p), FaultBadge(k)), [dest |-> 1, badge |-> 1])
      \/ inv = Given(TcbSlot + k, "thread tcb") \/ inv = Given(ThreadSc(n, k), "thread sc")
      \/ inv = Given(ThreadCSpace(n, k), "thread cnode")
      \/ inv = Spawned(p, Copy(CNode(p), ThreadReply(n, k), Thread("thread reply", p, k)), [dest |-> 1, src |-> 1])
      \/ inv = Copy(CNode(p), SelfCNodeSlot, CNode(p)) \/ inv = Copy(CNode(p), SelfTcbSlot, Tcb(p))
      \/ inv = Copy(CNode(p), SchedControlSlot, SchedControl)
ThreadWrite(p, inv) ==
  LET k == Cardinality(Children(p))
  IN  \/ /\ pds[p].root_ppc
         /\ inv = Spawned(p, Do("SetCSpace", [tcb |-> Thread("thread tcb", p, k),
                                              cspace |-> Thread("thread cnode", p, k)]), [tcb |-> 1, cspace |-> 1])
      \/ inv = Spawned(p, Do("SetFaultHandler", [tcb |-> Thread("thread tcb", p, k), fault |-> ThreadFaultCap(p)]),
                       [tcb |-> 1, fault |-> 1])
      \/ inv = Spawned(p, Do("SchedContextBind", [sc |-> Thread("thread sc", p, k), tcb |-> Thread("thread tcb", p, k)]),
                       [sc |-> 1, tcb |-> 1])
IsCSpace(inv) ==
  \E p \in DOMAIN pds : \/ \E c \in Children(p) : ChildMint(p, c, inv)
                        \/ pds[p].threads > 0 /\ (ThreadMint(p, inv) \/ ThreadWrite(p, inv))

LEMMA FlatMembers ==
  ASSUME NEW m \in Nat, NEW q, q = [n \in 1..m |-> q[n]], \A n \in 1..m : IsList(q[n])
  PROVE  IsList(FlattenSeq(q)) /\ \A x : x \in ToSet(FlattenSeq(q)) <=> \E n \in 1..m : x \in ToSet(q[n])
<1>1. IsList(q) /\ Len(q) = m
  BY FunctionIsList
<1>2. IsList(FlattenSeq(q)) /\ ToSet(FlattenSeq(q)) = UNION {ToSet(q[n]) : n \in 1..m}
  BY <1>1, FlatLists
<1> QED
  BY <1>2

LEMMA ConcatMembers ==
  ASSUME NEW s, IsList(s), NEW t, IsList(t)
  PROVE  IsList(s \o t) /\ \A x : x \in ToSet(s \o t) <=> x \in ToSet(s) \/ x \in ToSet(t)
BY ConcatLists

LEMMA ThreeElements ==
  ASSUME NEW a, NEW b, NEW c
  PROVE  IsList(<<a, b, c>>) /\ \A x : x \in ToSet(<<a, b, c>>) <=> x = a \/ x = b \/ x = c
<1> DEFINE s == <<a, b, c>>
<1>1. s = [n \in 1..3 |-> s[n]] /\ s[1] = a /\ s[2] = b /\ s[3] = c
  OBVIOUS
<1> HIDE DEF s
<1>2. IsList(s) /\ ToSet(s) = {s[n] : n \in 1..3}
  BY <1>1, FunctionElements
<1>3. \A n : n \in 1..3 <=> n = 1 \/ n = 2 \/ n = 3
  OBVIOUS
<1>4. \A x : x \in ToSet(s) <=> \E n \in 1..3 : x = s[n]
  BY <1>2
<1> QED
  BY <1>1, <1>2, <1>3, <1>4 DEF s

LEMMA ChildMintsAre ==
  ASSUME NEW p, NEW c
  PROVE  /\ IsList(MintChild(p, c))
         /\ \A inv : inv \in ToSet(MintChild(p, c)) \/ (pds[p].threads > 0 /\ inv = Mint(CNode(p), PdVSpace(pds[p].threads, pds[c].pd_id), VSpace(c), 0))
                      <=> ChildMint(p, c, inv)
<1> DEFINE id == pds[c].pd_id
           n == pds[p].threads
           m1 == Mint(CNode(c), RootEpSlot, Ep(p), RootPpcBadge(id))
           m2 == Mint(CNode(p), TcbSlot + id, Tcb(c), 0)
           m3 == Mint(CNode(p), ThreadSc(n, id), Sc(c), 0)
           m4 == Mint(CNode(p), ThreadCSpace(n, id), CNode(c), 0)
           m5 == Copy(CNode(p), ThreadReply(n, id), Reply(c))
           root == IF AcceptsRootPpc(p) THEN <<m1>> ELSE <<>>
           more == IF n > 0 THEN <<m3, m4, m5>> ELSE <<>>
<1>1. MintChild(p, c) = (root \o <<m2>>) \o more
  BY DEF MintChild
<1>2. \A inv : ChildMint(p, c, inv) <=>
        \/ pds[p].root_ppc /\ inv = m1
        \/ inv = m2 \/ (n > 0 /\ (inv = m3 \/ inv = m4 \/ inv = m5))
        \/ n > 0 /\ inv = Mint(CNode(p), PdVSpace(n, id), VSpace(c), 0)
  BY DEF ChildMint
<1> HIDE DEF m1, m2, m3, m4, m5
<1>3. IsList(root) /\ \A inv : inv \in ToSet(root) <=> pds[p].root_ppc /\ inv = m1
  BY OneElement, NoElement DEF AcceptsRootPpc
<1>4. IsList(<<m2>>) /\ \A inv : inv \in ToSet(<<m2>>) <=> inv = m2
  BY OneElement
<1>5. IsList(more) /\ \A inv : inv \in ToSet(more) <=> n > 0 /\ (inv = m3 \/ inv = m4 \/ inv = m5)
  BY ThreeElements, NoElement
<1> HIDE DEF root, more
<1>6. IsList(root \o <<m2>>) /\ \A inv : inv \in ToSet(root \o <<m2>>) <=> inv \in ToSet(root) \/ inv = m2
  BY <1>3, <1>4, ConcatMembers
<1>7. IsList((root \o <<m2>>) \o more)
      /\ \A inv : inv \in ToSet((root \o <<m2>>) \o more) <=> inv \in ToSet(root \o <<m2>>) \/ inv \in ToSet(more)
  BY <1>5, <1>6, ConcatMembers
<1> QED
  BY <1>1, <1>2, <1>3, <1>5, <1>6, <1>7

LEMMA EightElements ==
  ASSUME NEW s, s = [n \in 1..8 |-> s[n]]
  PROVE  /\ IsList(s)
         /\ \A x : x \in ToSet(s) <=> \/ x = s[1] \/ x = s[2] \/ x = s[3] \/ x = s[4]
                                      \/ x = s[5] \/ x = s[6] \/ x = s[7] \/ x = s[8]
<1>1. IsList(s) /\ ToSet(s) = {s[n] : n \in 1..8}
  BY FunctionElements
<1>2. \A n : n \in 1..8 <=> n = 1 \/ n = 2 \/ n = 3 \/ n = 4 \/ n = 5 \/ n = 6 \/ n = 7 \/ n = 8
  OBVIOUS
<1>3. \A x : x \in ToSet(s) <=> \E n \in 1..8 : x = s[n]
  BY <1>1
<1> QED
  BY <1>1, <1>2, <1>3

LEMMA ChildrenInOrder ==
  ASSUME Described, NEW p
  PROVE  IsList(InOrder(Children(p))) /\ ToSet(InOrder(Children(p))) = Children(p)
<1>1. Children(p) \subseteq 1..Len(pds) /\ Len(pds) \in Nat
  BY AllIs DEF Children
<1>2. IsFiniteSet(1..Len(pds))
  BY <1>1, FS_Interval
<1>3. IsFiniteSet(Children(p)) /\ Children(p) \in SUBSET Int
  BY <1>1, <1>2, FS_Subset
<1> QED
  BY <1>3, InOrderIs

LEMMA ThreadMintsAre ==
  ASSUME Described, NEW p
  PROVE  /\ IsList(MintThreads(p))
         /\ \A inv : inv \in ToSet(MintThreads(p)) <=>
              \/ ThreadMint(p, inv) \/ ThreadWrite(p, inv)
              \/ \E c \in Children(p) : inv = Mint(CNode(p), PdVSpace(pds[p].threads, pds[c].pd_id), VSpace(c), 0)
<1> DEFINE n == pds[p].threads
           k == Cardinality(Children(p))
           given(slot, type) == Spawned(p, Mint(CNode(p), slot, Thread(type, p, k), 0), [dest |-> 1, src |-> 1])
           e1 == Spawned(p, Mint(Thread("thread cnode", p, k), RootEpSlot, Ep(p), RootPpcBadge(k)),
                          [cnode |-> 1, badge |-> 1])
           e2 == Spawned(p, Do("SetCSpace", [tcb |-> Thread("thread tcb", p, k), cspace |-> Thread("thread cnode", p, k)]),
                 [tcb |-> 1, cspace |-> 1])
           f1 == Spawned(p, Mint(SystemCNode, ThreadFaultCap(p), Ep(p), FaultBadge(k)), [dest |-> 1, badge |-> 1])
           f2 == Spawned(p, Do("SetFaultHandler", [tcb |-> Thread("thread tcb", p, k), fault |-> ThreadFaultCap(p)]),
                 [tcb |-> 1, fault |-> 1])
           i1 == given(TcbSlot + k, "thread tcb")
           i2 == given(ThreadSc(n, k), "thread sc")
           i3 == Spawned(p, Do("SchedContextBind", [sc |-> Thread("thread sc", p, k), tcb |-> Thread("thread tcb", p, k)]),
                         [sc |-> 1, tcb |-> 1])
           i4 == given(ThreadCSpace(n, k), "thread cnode")
           i5 == Copy(CNode(p), SelfCNodeSlot, CNode(p))
           i6 == Copy(CNode(p), SelfTcbSlot, Tcb(p))
           i7 == Spawned(p, Copy(CNode(p), ThreadReply(n, k), Thread("thread reply", p, k)), [dest |-> 1, src |-> 1])
           i8 == Copy(CNode(p), SchedControlSlot, SchedControl)
           own == << i1, i2, i3, i4, i5, i6, i7, i8 >>
           of(c) == Mint(CNode(p), PdVSpace(n, pds[c].pd_id), VSpace(c), 0)
           spaces == Each(InOrder(Children(p)), LAMBDA c : of(c))
           roots == IF AcceptsRootPpc(p) THEN <<e1, e2>> ELSE <<>>
<1>1. MintThreads(p) = ((roots \o <<f1, f2>>) \o own) \o spaces
  BY DEF MintThreads, MintThreadEndpoints, MintThreadFaults
<1>2. \A inv : ThreadMint(p, inv) <=>
        \/ pds[p].root_ppc /\ inv = e1
        \/ inv = f1 \/ inv = i1 \/ inv = i2 \/ inv = i4 \/ inv = i7 \/ inv = i5 \/ inv = i6 \/ inv = i8
  BY DEF ThreadMint
<1>3. \A inv : ThreadWrite(p, inv) <=> \/ pds[p].root_ppc /\ inv = e2
                                       \/ inv = f2 \/ inv = i3
  BY DEF ThreadWrite
<1>4. IsList(spaces) /\ \A inv : inv \in ToSet(spaces) <=> \E c \in Children(p) : inv = of(c)
  <2> DEFINE list == InOrder(Children(p))
             m == Len(list)
  <2>1. m \in Nat /\ DOMAIN list = 1..m /\ Children(p) = {list[j] : j \in 1..m}
    BY ChildrenInOrder, ListDomain DEF IsList, ToSet
  <2>2. spaces = [j \in 1..m |-> spaces[j]] /\ \A j \in 1..m : spaces[j] = of(list[j])
    BY <2>1 DEF Each
  <2> HIDE DEF list, m, of, spaces
  <2>3. IsList(spaces) /\ ToSet(spaces) = {spaces[j] : j \in 1..m}
    BY <2>1, <2>2, FunctionElements
  <2>4. \A inv : inv \in ToSet(spaces) <=> \E j \in 1..m : inv = of(list[j])
    BY <2>2, <2>3
  <2>5. \A inv : (\E c \in Children(p) : inv = of(c)) <=> \E j \in 1..m : inv = of(list[j])
    BY <2>1
  <2> QED
    BY <2>3, <2>4, <2>5
<1>5. \A c : of(c) = Mint(CNode(p), PdVSpace(pds[p].threads, pds[c].pd_id), VSpace(c), 0)
  OBVIOUS
<1> HIDE DEF e1, e2, f1, f2, i1, i2, i3, i4, i5, i6, i7, i8, spaces, of
<1>6. IsList(roots) /\ \A inv : inv \in ToSet(roots) <=> pds[p].root_ppc /\ (inv = e1 \/ inv = e2)
  BY TwoElements, NoElement DEF AcceptsRootPpc
<1>7. IsList(<<f1, f2>>) /\ \A inv : inv \in ToSet(<<f1, f2>>) <=> inv = f1 \/ inv = f2
  BY TwoElements
<1>8. IsList(own) /\ \A inv : inv \in ToSet(own) <=>
        \/ inv = i1 \/ inv = i2 \/ inv = i3 \/ inv = i4 \/ inv = i5 \/ inv = i6 \/ inv = i7 \/ inv = i8
  <2>1. /\ own = [j \in 1..8 |-> own[j]]
        /\ own[1] = i1 /\ own[2] = i2 /\ own[3] = i3 /\ own[4] = i4 /\ own[5] = i5 /\ own[6] = i6
        /\ own[7] = i7 /\ own[8] = i8
    OBVIOUS
  <2> HIDE DEF own
  <2> QED
    BY <2>1, EightElements
<1> HIDE DEF roots, own
<1>9. IsList(roots \o <<f1, f2>>)
      /\ \A inv : inv \in ToSet(roots \o <<f1, f2>>) <=> inv \in ToSet(roots) \/ inv = f1 \/ inv = f2
  BY <1>6, <1>7, ConcatMembers
<1>10. IsList((roots \o <<f1, f2>>) \o own)
       /\ \A inv : inv \in ToSet((roots \o <<f1, f2>>) \o own) <=> inv \in ToSet(roots \o <<f1, f2>>) \/ inv \in ToSet(own)
  BY <1>8, <1>9, ConcatMembers
<1>11. IsList(((roots \o <<f1, f2>>) \o own) \o spaces)
       /\ \A inv : inv \in ToSet(((roots \o <<f1, f2>>) \o own) \o spaces)
                     <=> inv \in ToSet((roots \o <<f1, f2>>) \o own) \/ inv \in ToSet(spaces)
  BY <1>4, <1>10, ConcatMembers
<1>12. ASSUME NEW inv
       PROVE  inv \in ToSet(MintThreads(p)) <=>
                ThreadMint(p, inv) \/ ThreadWrite(p, inv) \/ \E c \in Children(p) : inv = of(c)
  <2>1. inv \in ToSet(MintThreads(p)) <=>
          \/ pds[p].root_ppc /\ (inv = e1 \/ inv = e2)
          \/ inv = f1 \/ inv = f2 \/ inv \in ToSet(own) \/ inv \in ToSet(spaces)
    BY <1>1, <1>6, <1>9, <1>10, <1>11
  <2>2. inv \in ToSet(own) <=>
          \/ inv = i1 \/ inv = i2 \/ inv = i3 \/ inv = i4 \/ inv = i5 \/ inv = i6 \/ inv = i7 \/ inv = i8
    BY <1>8
  <2>3. inv \in ToSet(spaces) <=> \E c \in Children(p) : inv = of(c)
    BY <1>4
  <2> HIDE DEF own
  <2> QED
    BY <1>2, <1>3, <2>1, <2>2, <2>3
<1> QED
  BY <1>1, <1>5, <1>11, <1>12

LEMMA CSpacesAre ==
  ASSUME Laid
  PROVE  \A inv : inv \in ToSet(SetUpRootCSpaces) <=> IsCSpace(inv)
<1> DEFINE k == Len(pds)
           vspace(p, c) == Mint(CNode(p), PdVSpace(pds[p].threads, pds[c].pd_id), VSpace(c), 0)
           of(p) == Flat(InOrder(Children(p)), LAMBDA c : MintChild(p, c))
           threads(p) == IF pds[p].threads > 0 THEN MintThreads(p) ELSE <<>>
           q == Each(All, LAMBDA p : of(p) \o threads(p))
<1>1. k \in Nat /\ DOMAIN pds = 1..k /\ DOMAIN All = 1..k /\ \A p \in 1..k : All[p] = p
  BY LaidReady, Domains
<1>2. SetUpRootCSpaces = FlattenSeq(q)
  BY DEF SetUpRootCSpaces, Flat
<1>3. q = [p \in 1..k |-> q[p]] /\ \A p \in 1..k : q[p] = of(p) \o threads(p)
  <2> HIDE DEF of, threads, k
  <2>1. q = [p \in 1..k |-> of(All[p]) \o threads(All[p])]
    BY <1>1 DEF Each
  <2> QED
    BY <1>1, <2>1
<1>4. ASSUME NEW p \in 1..k
      PROVE  IsList(of(p)) /\ \A inv : inv \in ToSet(of(p)) <=> \E c \in Children(p) : inv \in ToSet(MintChild(p, c))
  <2> DEFINE list == InOrder(Children(p))
             m == Len(list)
             r == Each(list, LAMBDA c : MintChild(p, c))
  <2>1. m \in Nat /\ DOMAIN list = 1..m /\ Children(p) = {list[j] : j \in 1..m}
    BY ChildrenInOrder, ListDomain DEF IsList, ToSet, Laid
  <2>2. r = [j \in 1..m |-> r[j]] /\ \A j \in 1..m : r[j] = MintChild(p, list[j])
    BY <2>1 DEF Each
  <2>3. of(p) = FlattenSeq(r)
    BY DEF Flat
  <2> HIDE DEF list, m, r, of
  <2>4. \A j \in 1..m : IsList(r[j])
    BY <2>2, ChildMintsAre
  <2>5. IsList(of(p)) /\ \A inv : inv \in ToSet(of(p)) <=> \E j \in 1..m : inv \in ToSet(r[j])
    BY <2>1, <2>2, <2>3, <2>4, FlatMembers
  <2>6. \A inv : (\E c \in Children(p) : inv \in ToSet(MintChild(p, c))) <=> \E j \in 1..m : inv \in ToSet(MintChild(p, list[j]))
    BY <2>1
  <2> QED
    BY <2>2, <2>5, <2>6
<1>5. ASSUME NEW p \in 1..k
      PROVE  IsList(threads(p)) /\ \A inv : inv \in ToSet(threads(p)) <=>
               /\ pds[p].threads > 0
               /\ ThreadMint(p, inv) \/ ThreadWrite(p, inv) \/ \E c \in Children(p) : inv = vspace(p, c)
  BY ThreadMintsAre, NoElement DEF Laid
<1>6. \A p, c, inv : inv \in ToSet(MintChild(p, c)) \/ (pds[p].threads > 0 /\ inv = vspace(p, c)) <=> ChildMint(p, c, inv)
  BY ChildMintsAre
<1>7. \A inv : IsCSpace(inv) <=>
        \E p \in 1..k : \/ \E c \in Children(p) : ChildMint(p, c, inv)
                        \/ pds[p].threads > 0 /\ (ThreadMint(p, inv) \/ ThreadWrite(p, inv))
  BY <1>1 DEF IsCSpace
<1> HIDE DEF k, q, of, threads, vspace
<1>8. ASSUME NEW p \in 1..k
      PROVE  IsList(q[p]) /\ \A inv : inv \in ToSet(q[p]) <=> inv \in ToSet(of(p)) \/ inv \in ToSet(threads(p))
  BY <1>3, <1>4, <1>5, ConcatMembers
<1>9. \A inv : inv \in ToSet(FlattenSeq(q)) <=> \E p \in 1..k : inv \in ToSet(q[p])
  BY <1>1, <1>3, <1>8, FlatMembers
<1>10. ASSUME NEW p \in 1..k, NEW inv
       PROVE  inv \in ToSet(q[p]) <=> \/ \E c \in Children(p) : ChildMint(p, c, inv)
                                      \/ pds[p].threads > 0 /\ (ThreadMint(p, inv) \/ ThreadWrite(p, inv))
  <2>1. inv \in ToSet(q[p]) <=> \/ \E c \in Children(p) : inv \in ToSet(MintChild(p, c))
                                \/ /\ pds[p].threads > 0
                                   /\ ThreadMint(p, inv) \/ ThreadWrite(p, inv) \/ \E c \in Children(p) : inv = vspace(p, c)
    BY <1>4, <1>5, <1>8
  <2> QED
    BY <2>1, <1>6
<1> QED
  BY <1>2, <1>7, <1>9, <1>10

ChannelMint(cc, inv) ==
  LET a == Named(cc.a)
      b == Named(cc.b)
  IN  \/ inv = Mint(CNode(a), NtfnSlot + cc.ida, Ntfn(b), NtfnBadge(cc.idb))
      \/ inv = Mint(CNode(b), NtfnSlot + cc.idb, Ntfn(a), NtfnBadge(cc.ida))
      \/ pds[b].pp /\ inv = Mint(CNode(a), EpSlot + cc.ida, Ep(b), PpcBadge(cc.idb))
      \/ pds[a].pp /\ inv = Mint(CNode(b), EpSlot + cc.idb, Ep(a), PpcBadge(cc.ida))
IsChannel(inv) == \E cc \in ToSet(channels) : ChannelMint(cc, inv)
IsFlags(inv) == \E p \in DOMAIN pds : inv = Do("ConfigureFlags", [sc |-> Sc(p)])
IsTimeout(inv) ==
  \E p \in DOMAIN pds : TimeoutsHandled(p) /\ inv = Do("SetTimeoutEndpoint", [tcb |-> Tcb(p), fault |-> FaultCap(p)])
IsParams(inv) ==
  \E p \in DOMAIN pds : inv = Do("SetSchedParams", [tcb |-> Tcb(p), priority |-> pds[p].priority, sc |-> Sc(p)])
IsSpace(inv) ==
  inv = Repeat(Do("SetSpace", [tcb |-> Tcb(1), fault |-> FaultCap(1), cspace |-> CNode(1), vspace |-> VSpace(1)]),
               Len(pds), [tcb |-> 1, fault |-> 1, cspace |-> 1, vspace |-> 1])
IsBuffer(inv) ==
  \E p \in DOMAIN pds :
    inv = Repeat(Do("SetIPCBuffer", [tcb |-> Tcb(p), buffer |-> TlsEnd, frame |-> IpcFrameCap(p)]),
                 Stacks(p), [buffer |-> Page, frame |-> 1])
IsRegisters(inv) ==
  \E p \in DOMAIN pds :
    inv = Do("WriteRegisters", [tcb |-> Tcb(p), entry |-> Images[pds[p].name].entry, x0 |-> pds[p].pd_id, x1 |-> 1])
IsBind(inv) ==
  inv = Repeat(Do("BindNotification", [tcb |-> Tcb(1), notification |-> Ntfn(1)]),
               Len(pds), [tcb |-> 1, notification |-> 1])

LEMMA ChannelMintsAre ==
  ASSUME Laid
  PROVE  \A inv : inv \in ToSet(MintChannels) <=> IsChannel(inv)
<1> DEFINE k == Len(channels)
           own(cc) == LET a == Named(cc.a)
                          b == Named(cc.b)
                      IN  <<MintEnd(a, cc.ida, b, cc.idb), MintEnd(b, cc.idb, a, cc.ida)>>
                          \o MintProcedure(a, cc.ida, b, cc.idb) \o MintProcedure(b, cc.idb, a, cc.ida)
           q == Each(channels, LAMBDA cc :
                  LET a == Named(cc.a)
                      b == Named(cc.b)
                  IN  <<MintEnd(a, cc.ida, b, cc.idb), MintEnd(b, cc.idb, a, cc.ida)>>
                      \o MintProcedure(a, cc.ida, b, cc.idb) \o MintProcedure(b, cc.idb, a, cc.ida))
<1>0. k \in Nat /\ DOMAIN channels = 1..k
  BY LaidReady, Domains
<1>1. q = [n \in 1..k |-> q[n]] /\ \A n \in 1..k : q[n] = own(channels[n])
  BY <1>0 DEF Each
<1>2. MintChannels = FlattenSeq(q)
  BY DEF MintChannels, Flat
<1>3. ASSUME NEW cc
      PROVE  IsList(own(cc)) /\ \A inv : inv \in ToSet(own(cc)) <=> ChannelMint(cc, inv)
  <2> DEFINE a == Named(cc.a)
             b == Named(cc.b)
             ends == <<MintEnd(a, cc.ida, b, cc.idb), MintEnd(b, cc.idb, a, cc.ida)>>
             to == MintProcedure(a, cc.ida, b, cc.idb)
             from == MintProcedure(b, cc.idb, a, cc.ida)
  <2>1. IsList(ends) /\ \A inv : inv \in ToSet(ends) <=> inv = MintEnd(a, cc.ida, b, cc.idb) \/ inv = MintEnd(b, cc.idb, a, cc.ida)
    BY TwoElements
  <2>2. ASSUME NEW x, NEW id, NEW y, NEW idy
        PROVE  /\ IsList(MintProcedure(x, id, y, idy))
               /\ \A inv : inv \in ToSet(MintProcedure(x, id, y, idy))
                             <=> pds[y].pp /\ inv = Mint(CNode(x), EpSlot + id, Ep(y), PpcBadge(idy))
    BY OneElement, NoElement DEF MintProcedure
  <2>3. /\ IsList(to) /\ \A inv : inv \in ToSet(to) <=> pds[b].pp /\ inv = Mint(CNode(a), EpSlot + cc.ida, Ep(b), PpcBadge(cc.idb))
        /\ IsList(from) /\ \A inv : inv \in ToSet(from) <=> pds[a].pp /\ inv = Mint(CNode(b), EpSlot + cc.idb, Ep(a), PpcBadge(cc.ida))
    BY <2>2
  <2>4. own(cc) = (ends \o to) \o from
    OBVIOUS
  <2>5. \A inv : ChannelMint(cc, inv) <=>
          \/ inv = MintEnd(a, cc.ida, b, cc.idb) \/ inv = MintEnd(b, cc.idb, a, cc.ida)
          \/ pds[b].pp /\ inv = Mint(CNode(a), EpSlot + cc.ida, Ep(b), PpcBadge(cc.idb))
          \/ pds[a].pp /\ inv = Mint(CNode(b), EpSlot + cc.idb, Ep(a), PpcBadge(cc.ida))
    BY DEF ChannelMint, MintEnd
  <2> HIDE DEF ends, to, from, own, a, b
  <2>6. IsList(ends \o to) /\ \A inv : inv \in ToSet(ends \o to) <=> inv \in ToSet(ends) \/ inv \in ToSet(to)
    BY <2>1, <2>3, ConcatMembers
  <2>7. /\ IsList((ends \o to) \o from)
        /\ \A inv : inv \in ToSet((ends \o to) \o from) <=> inv \in ToSet(ends \o to) \/ inv \in ToSet(from)
    BY <2>3, <2>6, ConcatMembers
  <2> QED
    BY <2>1, <2>3, <2>4, <2>5, <2>6, <2>7
<1>4. \A cc : cc \in ToSet(channels) <=> \E n \in 1..k : cc = channels[n]
  BY <1>0 DEF ToSet
<1>5. \A inv : IsChannel(inv) <=> \E cc \in ToSet(channels) : ChannelMint(cc, inv)
  BY DEF IsChannel
<1> HIDE DEF q, own, k
<1>6. \A n \in 1..k : IsList(q[n])
  BY <1>1, <1>3
<1>7. \A inv : inv \in ToSet(FlattenSeq(q)) <=> \E n \in 1..k : inv \in ToSet(q[n])
  BY <1>0, <1>1, <1>6, FlatMembers
<1>8. \A n \in 1..k : \A inv : inv \in ToSet(q[n]) <=> ChannelMint(channels[n], inv)
  BY <1>1, <1>3
<1>9. \A inv : inv \in ToSet(MintChannels) <=> \E n \in 1..k : ChannelMint(channels[n], inv)
  BY <1>2, <1>7, <1>8
<1>10. \A inv : IsChannel(inv) <=> \E n \in 1..k : ChannelMint(channels[n], inv)
  BY <1>4, <1>5
<1> QED
  BY <1>9, <1>10

\* The two parts of SetSchedParams.
Flags ==
  Flat(All, LAMBDA p :
    << Do("ConfigureFlags", [sc |-> Sc(p)]) >>
    \o IF TimeoutsHandled(p)
       THEN << Do("SetTimeoutEndpoint", [tcb |-> Tcb(p), fault |-> FaultCap(p)]) >>
       ELSE <<>>)
Params == Each(All, LAMBDA p : Do("SetSchedParams", [tcb |-> Tcb(p), priority |-> pds[p].priority, sc |-> Sc(p)]))

LEMMA SchedParamsAre ==
  ASSUME Laid
  PROVE  /\ SetSchedParams = Flags \o Params /\ IsList(Flags) /\ IsList(Params)
         /\ \A inv : inv \in ToSet(Flags) <=> IsFlags(inv) \/ IsTimeout(inv)
         /\ \A inv : inv \in ToSet(Params) <=> IsParams(inv)
<1> DEFINE k == Len(pds)
           flags(p) == Do("ConfigureFlags", [sc |-> Sc(p)])
           timeout(p) == Do("SetTimeoutEndpoint", [tcb |-> Tcb(p), fault |-> FaultCap(p)])
           own(p) == <<flags(p)>> \o IF TimeoutsHandled(p) THEN <<timeout(p)>> ELSE <<>>
           q == Each(All, LAMBDA p :
                  << Do("ConfigureFlags", [sc |-> Sc(p)]) >>
                  \o IF TimeoutsHandled(p)
                     THEN << Do("SetTimeoutEndpoint", [tcb |-> Tcb(p), fault |-> FaultCap(p)]) >>
                     ELSE <<>>)
           params(p) == Do("SetSchedParams", [tcb |-> Tcb(p), priority |-> pds[p].priority, sc |-> Sc(p)])
<1>0. k \in Nat /\ DOMAIN pds = 1..k /\ DOMAIN All = 1..k /\ \A p \in 1..k : All[p] = p
  BY LaidReady, Domains
<1>1. q = [n \in 1..k |-> q[n]] /\ \A n \in 1..k : q[n] = own(n)
  BY <1>0 DEF Each
<1>2. Params = [n \in 1..k |-> Params[n]] /\ \A n \in 1..k : Params[n] = params(n)
  BY <1>0 DEF Params, Each
<1>3. Flags = FlattenSeq(q) /\ SetSchedParams = Flags \o Params
  BY DEF SetSchedParams, Flags, Params, Flat
<1>4. \A inv : /\ IsFlags(inv) <=> \E p \in 1..k : inv = flags(p)
               /\ IsTimeout(inv) <=> \E p \in 1..k : TimeoutsHandled(p) /\ inv = timeout(p)
               /\ IsParams(inv) <=> \E p \in 1..k : inv = params(p)
  BY <1>0 DEF IsFlags, IsTimeout, IsParams
<1> HIDE DEF q, flags, timeout, params, k
<1>5. \A p : IsList(own(p)) /\ \A inv : inv \in ToSet(own(p)) <=> inv = flags(p) \/ (TimeoutsHandled(p) /\ inv = timeout(p))
  <2> TAKE p
  <2> DEFINE more == IF TimeoutsHandled(p) THEN <<timeout(p)>> ELSE <<>>
  <2>1. IsList(<<flags(p)>>) /\ \A inv : inv \in ToSet(<<flags(p)>>) <=> inv = flags(p)
    BY OneElement
  <2>2. IsList(more) /\ \A inv : inv \in ToSet(more) <=> TimeoutsHandled(p) /\ inv = timeout(p)
    BY OneElement, NoElement
  <2> HIDE DEF more
  <2>3. IsList(<<flags(p)>> \o more) /\ \A inv : inv \in ToSet(<<flags(p)>> \o more) <=> inv \in ToSet(<<flags(p)>>) \/ inv \in ToSet(more)
    BY <2>1, <2>2, ConcatMembers
  <2> QED
    BY <2>1, <2>2, <2>3 DEF more
<1> HIDE DEF own
<1>6. \A n \in 1..k : IsList(q[n])
  BY <1>1, <1>5
<1>7. IsList(FlattenSeq(q)) /\ \A inv : inv \in ToSet(FlattenSeq(q)) <=> \E n \in 1..k : inv \in ToSet(q[n])
  BY <1>0, <1>1, <1>6, FlatMembers
<1>8. \A inv : inv \in ToSet(Flags) <=> IsFlags(inv) \/ IsTimeout(inv)
  BY <1>1, <1>3, <1>4, <1>5, <1>7
<1>9. IsList(Params) /\ ToSet(Params) = {Params[n] : n \in 1..k}
  BY <1>0, <1>2, FunctionElements
<1>10. \A inv : inv \in ToSet(Params) <=> IsParams(inv)
  BY <1>2, <1>4, <1>9
<1> QED
  BY <1>3, <1>7, <1>8, <1>9, <1>10

LEMMA TcbBlocksAre ==
  ASSUME Laid
  PROVE  /\ \A inv : inv \in ToSet(SetSpaces) <=> IsSpace(inv)
         /\ \A inv : inv \in ToSet(SetIpcBuffers) <=> IsBuffer(inv)
         /\ \A inv : inv \in ToSet(WriteRegisters) <=> IsRegisters(inv)
         /\ \A inv : inv \in ToSet(BindNotifications) <=> IsBind(inv)
<1> DEFINE k == Len(pds)
<1>1. k \in Nat /\ DOMAIN pds = 1..k /\ DOMAIN All = 1..k /\ \A p \in 1..k : All[p] = p
  BY LaidReady, Domains
<1>2. \A inv : inv \in ToSet(SetIpcBuffers) <=> IsBuffer(inv)
  <2> DEFINE s == SetIpcBuffers
             of(p) == Repeat(Do("SetIPCBuffer", [tcb |-> Tcb(p), buffer |-> TlsEnd, frame |-> IpcFrameCap(p)]),
                             Stacks(p), [buffer |-> Page, frame |-> 1])
  <2>1. s = [n \in 1..k |-> s[n]] /\ \A n \in 1..k : s[n] = of(n)
    BY <1>1 DEF SetIpcBuffers, Each
  <2>2. \A inv : IsBuffer(inv) <=> \E n \in 1..k : inv = of(n)
    BY <1>1 DEF IsBuffer
  <2> HIDE DEF s, k, of
  <2>3. \A inv : inv \in ToSet(s) <=> \E n \in 1..k : inv = s[n]
    BY <1>1, <2>1, FunctionElements
  <2> QED
    BY <2>1, <2>2, <2>3 DEF s
<1>3. \A inv : inv \in ToSet(WriteRegisters) <=> IsRegisters(inv)
  <2> DEFINE s == WriteRegisters
             of(p) == Do("WriteRegisters", [tcb |-> Tcb(p), entry |-> Images[pds[p].name].entry,
                                            x0 |-> pds[p].pd_id, x1 |-> 1])
  <2>1. s = [n \in 1..k |-> s[n]] /\ \A n \in 1..k : s[n] = of(n)
    BY <1>1 DEF WriteRegisters, Each
  <2>2. \A inv : IsRegisters(inv) <=> \E n \in 1..k : inv = of(n)
    BY <1>1 DEF IsRegisters
  <2> HIDE DEF s, k, of
  <2>3. \A inv : inv \in ToSet(s) <=> \E n \in 1..k : inv = s[n]
    BY <1>1, <2>1, FunctionElements
  <2> QED
    BY <2>1, <2>2, <2>3 DEF s
<1>4. \A x : ToSet(<<x>>) = {x}
  BY OneElement
<1>5. \A inv : inv \in ToSet(SetSpaces) <=> IsSpace(inv)
  <2> DEFINE one == Repeat(Do("SetSpace", [tcb |-> Tcb(1), fault |-> FaultCap(1), cspace |-> CNode(1), vspace |-> VSpace(1)]),
               Len(pds), [tcb |-> 1, fault |-> 1, cspace |-> 1, vspace |-> 1])
  <2>1. SetSpaces = <<one>> /\ \A inv : IsSpace(inv) <=> inv = one
    BY DEF SetSpaces, AllRepeated, IsSpace
  <2> HIDE DEF one
  <2> QED
    BY <1>4, <2>1
<1>6. \A inv : inv \in ToSet(BindNotifications) <=> IsBind(inv)
  <2> DEFINE one == Repeat(Do("BindNotification", [tcb |-> Tcb(1), notification |-> Ntfn(1)]),
               Len(pds), [tcb |-> 1, notification |-> 1])
  <2>1. BindNotifications = <<one>> /\ \A inv : IsBind(inv) <=> inv = one
    BY DEF BindNotifications, AllRepeated, IsBind
  <2> HIDE DEF one
  <2> QED
    BY <1>4, <2>1
<1> QED
  BY <1>2, <1>3, <1>5, <1>6

-----------------------------------------------------------------------------
(* All of the plan *)

\* The rest has to do with address spaces, domains and with what runs.
RestOps == {"AsidPoolAssign", "TableMap", "PageMap", "DomainSet", "Resume", "Suspend"}
HasRestOp(inv) == inv.op \in RestOps

LEMMA OpKept ==
  ASSUME NEW op, NEW args, NEW count, NEW incr
  PROVE  Do(op, args).op = op /\ Repeat(Do(op, args), count, incr).op = op
BY DEF Do, Repeat

LEMMA RestOfList ==
  ASSUME NEW m \in Nat, NEW s, s = [n \in 1..m |-> s[n]], \A n \in 1..m : HasRestOp(s[n])
  PROVE  \A inv \in ToSet(s) : HasRestOp(inv)
BY FunctionElements

LEMMA RestOfTables ==
  ASSUME Laid
  PROVE  IsList(MapTables) /\ \A inv \in ToSet(MapTables) : HasRestOp(inv)
<1> DEFINE Level(level, list) == Each(list, LAMBDA t : Map(level, slotOf[<<level, t>>], VSpace(t[1]), t[2]))
<1>1. ASSUME NEW level, NEW list, IsList(list)
      PROVE  IsList(Level(level, list)) /\ \A inv \in ToSet(Level(level, list)) : HasRestOp(inv)
  <2> DEFINE s == Level(level, list)
             k == Len(list)
  <2>1. k \in Nat /\ DOMAIN list = 1..k
    BY <1>1, ListDomain DEF IsList
  <2>2. s = [n \in 1..k |-> s[n]] /\ \A n \in 1..k : s[n] = Map(level, slotOf[<<level, list[n]>>], VSpace(list[n][1]), list[n][2])
    BY <2>1 DEF Each
  <2>3. \A n \in 1..k : HasRestOp(s[n])
    <3>1. \A table, vspace, vaddr : Map(level, table, vspace, vaddr).op = "TableMap"
      BY OpKept DEF Map
    <3>2. \A n \in 1..k : Map(level, slotOf[<<level, list[n]>>], VSpace(list[n][1]), list[n][2]).op = "TableMap"
      BY <3>1
    <3>3. \A n \in 1..k : s[n].op = "TableMap"
      BY <2>2, <3>2
    <3> HIDE DEF s
    <3> QED
      BY <3>3 DEF RestOps, HasRestOp
  <2> HIDE DEF s, k
  <2> QED
    BY <2>1, <2>2, <2>3, RestOfList, FunctionElements DEF s
<1>2. IsList(Uds) /\ IsList(Ds) /\ IsList(Pts)
  <2>1. Owners("ud") = Uds /\ Owners("d") = Ds /\ Owners("pt") = Pts
    BY DEF Owners
  <2> QED
    BY <2>1, OwnersList DEF Laid
<1>3. MapTables = (Level("ud", Uds) \o Level("d", Ds)) \o Level("pt", Pts)
  BY DEF MapTables
<1> HIDE DEF Level
<1>4. /\ IsList(Level("ud", Uds)) /\ IsList(Level("d", Ds)) /\ IsList(Level("pt", Pts))
      /\ \A inv \in ToSet(Level("ud", Uds)) \cup ToSet(Level("d", Ds)) \cup ToSet(Level("pt", Pts)) : HasRestOp(inv)
  BY <1>1, <1>2
<1>5. /\ IsList(Level("ud", Uds) \o Level("d", Ds))
      /\ ToSet(Level("ud", Uds) \o Level("d", Ds)) = ToSet(Level("ud", Uds)) \cup ToSet(Level("d", Ds))
  BY <1>4, ConcatLists
<1> QED
  BY <1>3, <1>4, <1>5, ConcatLists

LEMMA RestIs ==
  ASSUME Laid
  PROVE  /\ \A inv \in ToSet(MapPages) : HasRestOp(inv)
         /\ \A inv \in ToSet(SetDomains) : HasRestOp(inv)
         /\ \A inv \in ToSet(SetThreadDomains) : HasRestOp(inv)
         /\ IsList(ResumeAll) /\ \A inv \in ToSet(ResumeAll) : HasRestOp(inv)
         /\ IsList(SuspendSelf) /\ \A inv \in ToSet(SuspendSelf) : HasRestOp(inv)
<1>1. \A inv \in ToSet(MapPages) : HasRestOp(inv)
  <2> DEFINE s == MapPages
             k == Len(maps)
  <2>1. k \in Nat /\ DOMAIN maps = 1..k
    BY LaidReady, Domains
  <2>2. s = [n \in 1..k |-> s[n]]
    BY <2>1 DEF MapPages
  <2>3. \A n \in 1..k : s[n].op = "PageMap"
    BY <2>1, OpKept DEF MapPages
  <2> HIDE DEF s, k
  <2> QED
    BY <2>1, <2>2, <2>3, RestOfList DEF s, HasRestOp, RestOps
<1>2. \A inv \in ToSet(SetDomains) : HasRestOp(inv)
  <2> DEFINE s == SetDomains
             k == Len(partitions)
  <2>1. k \in Nat /\ DOMAIN partitions = 1..k
    BY LaidReady, Domains
  <2>2. s = [n \in 1..k |-> s[n]]
    BY <2>1 DEF SetDomains
  <2>3. \A n \in 1..k : s[n].op = "DomainSet"
    BY <2>1, OpKept DEF SetDomains
  <2> HIDE DEF s, k
  <2> QED
    BY <2>1, <2>2, <2>3, RestOfList DEF s, HasRestOp, RestOps
<1>3. \A inv \in ToSet(SetThreadDomains) : HasRestOp(inv)
  <2> DEFINE s == SetThreadDomains
             k == Len(WithThreads)
             of(p) == Repeat(Do("DomainSet", [domain |-> pds[p].partition,
                               tcb |-> Thread("thread tcb", p, Cardinality(Children(p)))]), Spawnable(p), [tcb |-> 1])
  <2>1. k \in Nat /\ DOMAIN WithThreads = 1..k
    BY LaidReady, Domains
  <2>2. s = [n \in 1..k |-> s[n]] /\ \A n \in 1..k : s[n] = of(WithThreads[n])
    BY <2>1 DEF SetThreadDomains, Each
  <2>3. \A n \in 1..k : s[n].op = "DomainSet"
    <3>1. \A p : of(p).op = "DomainSet"
      BY DEF Repeat, Do
    <3> HIDE DEF of
    <3> QED
      BY <2>2, <3>1
  <2> HIDE DEF s, k
  <2> QED
    BY <2>1, <2>2, <2>3, RestOfList DEF s, HasRestOp, RestOps
<1>4. IsList(ResumeAll) /\ \A inv \in ToSet(ResumeAll) : HasRestOp(inv)
  BY OneElement, OpKept DEF ResumeAll, AllRepeated, HasRestOp, RestOps
<1>5. IsList(SuspendSelf) /\ \A inv \in ToSet(SuspendSelf) : HasRestOp(inv)
  BY OneElement, OpKept DEF SuspendSelf, HasRestOp, RestOps
<1> QED
  BY <1>1, <1>2, <1>3, <1>4, <1>5

\* What builds the CSpaces, and what configures the TCBs.
CapPart(inv) ==
  \/ IsRetype(inv) \/ IsIrqGet(inv) \/ IsPageMint(inv) \/ IsIrqNtfn(inv) \/ IsPdFault(inv) \/ IsInput(inv)
  \/ IsReply(inv) \/ IsVSpace(inv) \/ IsIrqHandler(inv) \/ IsCSpace(inv) \/ IsChannel(inv) \/ IsIrqSet(inv)
TcbPart(inv) ==
  \/ IsFlags(inv) \/ IsTimeout(inv) \/ IsParams(inv) \/ IsSpace(inv) \/ IsBuffer(inv) \/ IsRegisters(inv) \/ IsBind(inv)

LEMMA JoinedLists ==
  ASSUME NEW s, NEW t, IsList(s), IsList(t), NEW S, NEW T, ToSet(s) = S, ToSet(t) = T
  PROVE  IsList(s \o t) /\ ToSet(s \o t) = S \cup T
BY ConcatLists

LEMMA CapPartIs ==
  ASSUME Laid
  PROVE  /\ IsList(CapInvocations)
         /\ \A inv : CapPart(inv) => inv \in ToSet(CapInvocations)
         /\ \A inv \in ToSet(CapInvocations) : CapPart(inv) \/ HasRestOp(inv)
<1>1. /\ IsList(Retypes) /\ IsList(CreateIrqHandlers) /\ IsList(AssignAsids) /\ IsList(MintPages)
      /\ IsList(MintIrqNotifications) /\ IsList(MintFaultEndpoints) /\ IsList(MintInput)
      /\ IsList(MintReply) /\ IsList(MintVSpace) /\ IsList(MintIrqHandlers) /\ IsList(SetUpRootCSpaces)
      /\ IsList(MintChannels) /\ IsList(AssociateIrqs) /\ IsList(MapTables) /\ IsList(MapPages)
  BY LaidReady, QuietRetypes, QuietIrqs, QuietMaps, QuietByPd, QuietRepeated, QuietCSpaces, QuietChannels, QuietTables
  DEF Quiets
<1> DEFINE a == Retypes \o CreateIrqHandlers \o AssignAsids \o MintPages \o MintIrqNotifications
           b == a \o MintFaultEndpoints \o MintInput \o MintReply \o MintVSpace
           c == b \o MintIrqHandlers \o SetUpRootCSpaces \o MintChannels
           A == ToSet(Retypes) \cup ToSet(CreateIrqHandlers) \cup ToSet(AssignAsids) \cup ToSet(MintPages) \cup ToSet(MintIrqNotifications)
           B == A \cup ToSet(MintFaultEndpoints) \cup ToSet(MintInput) \cup ToSet(MintReply) \cup ToSet(MintVSpace)
           C == B \cup ToSet(MintIrqHandlers) \cup ToSet(SetUpRootCSpaces) \cup ToSet(MintChannels)
<1>2. CapInvocations = c \o AssociateIrqs \o MapTables \o MapPages
  BY DEF CapInvocations
<1>3. IsList(a) /\ ToSet(a) = A
  BY <1>1, JoinedLists
<1> HIDE DEF a, A
<1>4. IsList(b) /\ ToSet(b) = B
  BY <1>1, <1>3, JoinedLists
<1> HIDE DEF b, B
<1>5. IsList(c) /\ ToSet(c) = C
  BY <1>1, <1>4, JoinedLists
<1> HIDE DEF c, C
<1>6. IsList(CapInvocations) /\ ToSet(CapInvocations) = C \cup ToSet(AssociateIrqs) \cup ToSet(MapTables) \cup ToSet(MapPages)
  BY <1>1, <1>2, <1>5, JoinedLists
<1>7. \A inv : inv \in ToSet(CapInvocations) <=>
        \/ inv \in ToSet(Retypes) \/ inv \in ToSet(CreateIrqHandlers) \/ inv \in ToSet(AssignAsids) \/ inv \in ToSet(MintPages)
        \/ inv \in ToSet(MintIrqNotifications) \/ inv \in ToSet(MintFaultEndpoints) \/ inv \in ToSet(MintInput)
        \/ inv \in ToSet(MintReply) \/ inv \in ToSet(MintVSpace) \/ inv \in ToSet(MintIrqHandlers)
        \/ inv \in ToSet(SetUpRootCSpaces) \/ inv \in ToSet(MintChannels) \/ inv \in ToSet(AssociateIrqs)
        \/ inv \in ToSet(MapTables) \/ inv \in ToSet(MapPages)
  BY <1>6 DEF A, B, C
<1>8. \A inv \in ToSet(AssignAsids) \cup ToSet(MapTables) \cup ToSet(MapPages) : HasRestOp(inv)
  BY MintsForAll, RestOfTables, RestIs DEF HasRestOp, RestOps
<1>9. \A inv : /\ inv \in ToSet(Retypes) <=> IsRetype(inv)
               /\ inv \in ToSet(CreateIrqHandlers) <=> IsIrqGet(inv)
               /\ inv \in ToSet(MintPages) <=> IsPageMint(inv)
               /\ inv \in ToSet(MintIrqNotifications) <=> IsIrqNtfn(inv)
               /\ inv \in ToSet(MintFaultEndpoints) <=> IsPdFault(inv)
               /\ inv \in ToSet(MintInput) <=> IsInput(inv)
               /\ inv \in ToSet(MintReply) <=> IsReply(inv)
               /\ inv \in ToSet(MintVSpace) <=> IsVSpace(inv)
               /\ inv \in ToSet(MintIrqHandlers) <=> IsIrqHandler(inv)
               /\ inv \in ToSet(SetUpRootCSpaces) <=> IsCSpace(inv)
               /\ inv \in ToSet(MintChannels) <=> IsChannel(inv)
               /\ inv \in ToSet(AssociateIrqs) <=> IsIrqSet(inv)
  BY RetypesAre, IrqInvocations, PageMintsAre, MintsByPd, MintsForAll, CSpacesAre, ChannelMintsAre
<1>10. \A inv : CapPart(inv) => inv \in ToSet(CapInvocations)
  BY <1>7, <1>9 DEF CapPart
<1>11. \A inv \in ToSet(CapInvocations) : CapPart(inv) \/ HasRestOp(inv)
  BY <1>7, <1>8, <1>9 DEF CapPart
<1> QED
  BY <1>6, <1>10, <1>11

LEMMA TcbPartIs ==
  ASSUME Laid
  PROVE  /\ IsList(TcbInvocations)
         /\ \A inv : TcbPart(inv) => inv \in ToSet(TcbInvocations)
         /\ \A inv \in ToSet(TcbInvocations) : TcbPart(inv) \/ HasRestOp(inv)
<1>1. /\ IsList(SetSchedParams) /\ IsList(SetSpaces) /\ IsList(SetIpcBuffers) /\ IsList(WriteRegisters)
      /\ IsList(BindNotifications) /\ IsList(SetDomains) /\ IsList(SetThreadDomains)
  BY LaidReady, QuietSchedParams, QuietByPd, QuietRepeated, QuietDomains DEF Quiets
<1>2. /\ IsList(TcbInvocations)
      /\ ToSet(TcbInvocations) = ToSet(SetSchedParams) \cup ToSet(SetSpaces) \cup ToSet(SetIpcBuffers) \cup ToSet(WriteRegisters)
                                 \cup ToSet(BindNotifications) \cup ToSet(SetDomains) \cup ToSet(SetThreadDomains)
  BY <1>1, JoinedLists DEF TcbInvocations
<1>3. \A inv : inv \in ToSet(SetSchedParams) <=> inv \in ToSet(Flags) \/ inv \in ToSet(Params)
  BY SchedParamsAre, ConcatMembers
<1>4. \A inv \in ToSet(SetDomains) \cup ToSet(SetThreadDomains) : HasRestOp(inv)
  BY RestIs
<1>5. \A inv : /\ inv \in ToSet(Flags) <=> IsFlags(inv) \/ IsTimeout(inv)
               /\ inv \in ToSet(Params) <=> IsParams(inv)
               /\ inv \in ToSet(SetSpaces) <=> IsSpace(inv)
               /\ inv \in ToSet(SetIpcBuffers) <=> IsBuffer(inv)
               /\ inv \in ToSet(WriteRegisters) <=> IsRegisters(inv)
               /\ inv \in ToSet(BindNotifications) <=> IsBind(inv)
  BY SchedParamsAre, TcbBlocksAre
<1>6. \A inv : TcbPart(inv) => inv \in ToSet(TcbInvocations)
  BY <1>2, <1>3, <1>5 DEF TcbPart
<1>7. \A inv \in ToSet(TcbInvocations) : TcbPart(inv) \/ HasRestOp(inv)
  BY <1>2, <1>3, <1>4, <1>5 DEF TcbPart
<1> QED
  BY <1>2, <1>6, <1>7

\* What is in the plan.
LEMMA PlanIs ==
  ASSUME Laid
  PROVE  /\ \A inv : CapPart(inv) \/ TcbPart(inv) => inv \in ToSet(SystemInvocations)
         /\ \A inv \in ToSet(SystemInvocations) : CapPart(inv) \/ TcbPart(inv) \/ HasRestOp(inv)
<1>1. IsList(ResumeAll) /\ IsList(SuspendSelf) /\ \A inv \in ToSet(ResumeAll) \cup ToSet(SuspendSelf) : HasRestOp(inv)
  BY RestIs
<1>2. IsList(CapInvocations) /\ IsList(TcbInvocations)
  BY CapPartIs, TcbPartIs
<1>3. ToSet(SystemInvocations) = ToSet(CapInvocations) \cup ToSet(TcbInvocations) \cup ToSet(ResumeAll) \cup ToSet(SuspendSelf)
  BY <1>1, <1>2, JoinedLists DEF SystemInvocations
<1> QED
  BY <1>1, <1>3, CapPartIs, TcbPartIs

IsChildMint(inv) == \E p \in DOMAIN pds : \E c \in Children(p) : ChildMint(p, c, inv)
IsThreadMint(inv) == \E p \in DOMAIN pds : pds[p].threads > 0 /\ ThreadMint(p, inv)
IsThreadWrite(inv) == \E p \in DOMAIN pds : pds[p].threads > 0 /\ ThreadWrite(p, inv)
MintPart(inv) ==
  \/ IsPageMint(inv) \/ IsIrqNtfn(inv) \/ IsPdFault(inv) \/ IsInput(inv) \/ IsReply(inv) \/ IsVSpace(inv)
  \/ IsIrqHandler(inv) \/ IsChildMint(inv) \/ IsThreadMint(inv) \/ IsChannel(inv)
MintOps == {"Mint", "Copy"}
ThreadOps == {"SetCSpace", "SetFaultHandler", "SchedContextBind"}

LEMMA MintIs ==
  /\ \A cnode, dest, src, badge : Mint(cnode, dest, src, badge).op \in MintOps
  /\ \A cnode, dest, src : Copy(cnode, dest, src).op \in MintOps
  /\ \A cnode, dest, src, badge, count, incr : Repeat(Mint(cnode, dest, src, badge), count, incr).op \in MintOps
  /\ \A cnode, dest, src, count, incr : Repeat(Copy(cnode, dest, src), count, incr).op \in MintOps
BY OpKept DEF Mint, Copy, MintOps

LEMMA MintPartOps ==
  ASSUME NEW inv, MintPart(inv)
  PROVE  inv.op \in MintOps
<1>1. CASE IsPageMint(inv) \/ IsIrqNtfn(inv) \/ IsPdFault(inv) \/ IsInput(inv)
  BY <1>1, MintIs DEF IsPageMint, IsIrqNtfn, IsPdFault, IsInput
<1>2. CASE IsReply(inv) \/ IsVSpace(inv) \/ IsIrqHandler(inv) \/ IsChildMint(inv)
  BY <1>2, MintIs DEF IsReply, IsVSpace, IsIrqHandler, IsChildMint, ChildMint
<1>3. CASE IsThreadMint(inv) \/ IsChannel(inv)
  BY <1>3, MintIs DEF IsThreadMint, ThreadMint, IsChannel, ChannelMint, Spawned
<1> QED
  BY <1>1, <1>2, <1>3 DEF MintPart

LEMMA ThreadWriteOps ==
  ASSUME NEW inv, IsThreadWrite(inv)
  PROVE  inv.op \in ThreadOps
<1>1. \A p, op, args, incr : Spawned(p, Do(op, args), incr).op = op
  BY OpKept DEF Spawned
<1>2. PICK p \in DOMAIN pds : ThreadWrite(p, inv)
  BY DEF IsThreadWrite
<1>3. \/ \E args, incr : inv = Spawned(p, Do("SetCSpace", args), incr)
      \/ \E args, incr : inv = Spawned(p, Do("SetFaultHandler", args), incr)
      \/ \E args, incr : inv = Spawned(p, Do("SchedContextBind", args), incr)
  BY <1>2, Zenon DEF ThreadWrite
<1>4. inv.op = "SetCSpace" \/ inv.op = "SetFaultHandler" \/ inv.op = "SchedContextBind"
  BY <1>1, <1>3
<1> QED
  BY <1>4 DEF ThreadOps

LEMMA SingleOps ==
  ASSUME NEW inv
  PROVE  /\ IsRetype(inv) => inv.op = "Retype"
         /\ IsIrqGet(inv) => inv.op = "IrqControlGet"
         /\ IsIrqSet(inv) => inv.op = "IrqSetNotification"
         /\ IsFlags(inv) => inv.op = "ConfigureFlags"
         /\ IsTimeout(inv) => inv.op = "SetTimeoutEndpoint"
         /\ IsParams(inv) => inv.op = "SetSchedParams"
         /\ IsSpace(inv) => inv.op = "SetSpace"
         /\ IsBuffer(inv) => inv.op = "SetIPCBuffer"
         /\ IsRegisters(inv) => inv.op = "WriteRegisters"
         /\ IsBind(inv) => inv.op = "BindNotification"
<1>1. IsRetype(inv) => inv.op = "Retype"
  BY OpKept DEF IsRetype
<1>2. IsIrqGet(inv) => inv.op = "IrqControlGet"
  BY OpKept DEF IsIrqGet
<1>3. IsIrqSet(inv) => inv.op = "IrqSetNotification"
  BY OpKept DEF IsIrqSet
<1>4. IsFlags(inv) => inv.op = "ConfigureFlags"
  BY OpKept DEF IsFlags
<1>5. IsTimeout(inv) => inv.op = "SetTimeoutEndpoint"
  BY OpKept DEF IsTimeout
<1>6. IsParams(inv) => inv.op = "SetSchedParams"
  BY OpKept DEF IsParams
<1>7. IsSpace(inv) => inv.op = "SetSpace"
  BY OpKept DEF IsSpace
<1>8. IsBuffer(inv) => inv.op = "SetIPCBuffer"
  BY OpKept DEF IsBuffer
<1>9. IsRegisters(inv) => inv.op = "WriteRegisters"
  BY OpKept DEF IsRegisters
<1>10. IsBind(inv) => inv.op = "BindNotification"
  BY OpKept DEF IsBind
<1> QED
  BY <1>1, <1>2, <1>3, <1>4, <1>5, <1>6, <1>7, <1>8, <1>9, <1>10

\* What the invocations of one kind are.
LEMMA ByOp ==
  ASSUME Laid, NEW inv \in ToSet(SystemInvocations)
  PROVE  /\ inv.op = "Retype" => IsRetype(inv)
         /\ inv.op = "IrqControlGet" => IsIrqGet(inv)
         /\ inv.op \in {"Mint", "Copy"} => MintPart(inv)
         /\ inv.op \in ThreadOps => IsThreadWrite(inv)
         /\ inv.op = "IrqSetNotification" => IsIrqSet(inv)
         /\ inv.op = "ConfigureFlags" => IsFlags(inv)
         /\ inv.op = "SetTimeoutEndpoint" => IsTimeout(inv)
         /\ inv.op = "SetSchedParams" => IsParams(inv)
         /\ inv.op = "SetSpace" => IsSpace(inv)
         /\ inv.op = "SetIPCBuffer" => IsBuffer(inv)
         /\ inv.op = "WriteRegisters" => IsRegisters(inv)
         /\ inv.op = "BindNotification" => IsBind(inv)
<1>1. CapPart(inv) \/ TcbPart(inv) \/ HasRestOp(inv)
  BY PlanIs
<1>2. IsCSpace(inv) => IsChildMint(inv) \/ IsThreadMint(inv) \/ IsThreadWrite(inv)
  BY DEF IsCSpace, IsChildMint, IsThreadMint, IsThreadWrite
<1>3. CASE CapPart(inv)
  <2>1. IsRetype(inv) \/ IsIrqGet(inv) \/ MintPart(inv) \/ IsThreadWrite(inv) \/ IsIrqSet(inv)
    BY <1>2, <1>3 DEF CapPart, MintPart
  <2> QED
    BY <2>1, SingleOps, MintPartOps, ThreadWriteOps DEF MintOps, ThreadOps
<1>4. CASE TcbPart(inv)
  BY <1>4, SingleOps DEF TcbPart, ThreadOps
<1>5. CASE HasRestOp(inv)
  BY <1>5 DEF HasRestOp, RestOps, ThreadOps
<1> QED
  BY <1>1, <1>3, <1>4, <1>5

-----------------------------------------------------------------------------
(* The whole run *)

\* The plan is made from objects with slots.
LEMMA PlanSlotted ==
  ASSUME IInv, ImageInv, PlanInv, pc \in PlanMade
  PROVE  Slotted /\ plan = SystemInvocations /\ HaveEps /\ HavePages
BY PlanPcs DEF IInv, ImageInv, PlanInv, Slotted, Laid

LEMMA PlanElements ==
  ASSUME IInv, ImageInv, PlanInv, pc \in PlanMade
  PROVE  /\ IsList(plan) /\ Len(plan) \in Nat
         /\ \A inv : inv \in ToSet(SystemInvocations) <=> \E m \in 1..Len(plan) : inv = plan[m]
<1>1. Slotted /\ plan = SystemInvocations
  BY PlanSlotted
<1>2. IsList(plan)
  BY <1>1, LaidReady, PlanInOrder DEF Slotted, InOrderToStart
<1> QED
  BY <1>1, <1>2, ElementsOf DEF IsList

LEMMA RetypeIs ==
  ASSUME Slotted, NEW inv, IsRetype(inv)
  PROVE  Retypable(inv)
<1> PICK list \in ToSet(objects) : inv = Do("Retype", [dest |-> slotOf[list[1]], objects |-> list])
  BY DEF IsRetype
<1>1. /\ IsList(list) /\ list # <<>> /\ Len(list) \in Nat \ {0} /\ list[1] \in ToSet(list)
      /\ \A o \in ToSet(list) : o # <<>> /\ o[1] \in MadeTypes \cup {"page"} \cup {ThreadTypes[n] : n \in 1..4}
  BY ObjectListIs DEF Slotted
<1>2. \A o \in ToSet(list) : o[1] \notin {"system", "irq"}
  BY <1>1, TypesApart
<1>3. slotOf[list[1]] \in Nat
  <2>1. list[1] \in UNION {ToSet(l) : l \in ToSet(objects)}
    BY <1>1
  <2>2. SlotAt(list[1]) \in Nat
    BY <1>1, SlotNat DEF Slotted
  <2> QED
    BY <2>1, <2>2 DEF Slotted, Slots
<1> QED
  BY <1>1, <1>2, <1>3 DEF Retypable, Do

LEMMA PlanRetypesOk ==
  ASSUME IInv, ImageInv, PlanInv
  PROVE  RetypesOk
<1> SUFFICES ASSUME pc \in PlanMade, NEW m \in 1..Len(plan)
             PROVE  Retypable(plan[m])
  BY DEF RetypesOk, PlanMade
<1>1. Slotted /\ plan[m] \in ToSet(SystemInvocations)
  BY PlanSlotted, PlanElements
<1>2. plan[m].op = "Retype" => IsRetype(plan[m])
  BY <1>1, ByOp DEF Slotted
<1>3. plan[m].op = "Retype" => Retypable(plan[m])
  BY <1>1, <1>2, RetypeIs
<1> QED
  BY <1>3 DEF Retypable

\* The invariant: a description that was checked, a plan that was made from it, and a kernel in
\* which what was done of the plan has taken effect, and nothing else has.
BootInv == IInv /\ ImageInv /\ DescInv /\ PlanInv /\ Counted /\ Effects

LEMMA InitBootInv == Init => BootInv
BY InitIInv, InitImageInv, InitDesc, InitPlanInv, InitEffects DEF BootInv

LEMMA BootInvNext == BootInv /\ [Next]_vars => BootInv'
<1> SUFFICES ASSUME BootInv, [Next]_vars
             PROVE  BootInv'
  OBVIOUS
<1>1. IInv /\ ImageInv /\ DescInv /\ PlanInv /\ Counted /\ Effects
  BY DEF BootInv
<1>2. IInv' /\ ImageInv'
  BY <1>1, Inductive, ImageInductive
<1>3. DescInv'
  BY <1>1, DescInductive
<1>4. PlanInv'
  BY <1>1, <1>2, PlanInductive
<1>5. RetypesOk /\ tablePages \in Nat
  BY <1>1, PlanRetypesOk DEF ImageInv
<1>6. Counted' /\ Effects'
  BY <1>1, <1>5, EffectsInductive
<1> QED
  BY <1>2, <1>3, <1>4, <1>6 DEF BootInv

-----------------------------------------------------------------------------
(* Types *)

\* Where the run is, and whether it has been refused.
PcOk == pc \in Everywhere /\ (pc = "refused" <=> raised # "ok")

\* What happens to pc and to raised, whatever the step: a check fails, it does not, or there is none.
Goes == \/ raised' # "ok" /\ pc' = "refused"
        \/ raised' = "ok" /\ pc' \in Everywhere \ {"refused"}
        \/ raised' = raised /\ pc' = pc
        \/ raised' = raised /\ pc # "refused" /\ pc' \in Everywhere \ {"refused"}

LEMMA ReadGoes ==
  ASSUME ReadDescription
  PROVE  Goes
<1>1. CASE ReadMemoryRegion \/ OpenPartition \/ OpenPD \/ ClosePD \/ ClosePartition \/ ReadChannel
  BY <1>1 DEF ReadMemoryRegion, OpenPartition, OpenPD, ClosePD, ClosePartition, ReadChannel, Accept, Element, Goes, Everywhere
<1>2. CASE ReadProgramImage \/ ReadMap \/ ReadIrq \/ ReadSetvar
  BY <1>2 DEF ReadProgramImage, ReadMap, ReadIrq, ReadSetvar, ReadInPD, Accept, Element, Goes, Everywhere
<1>3. CASE EndOfDocument
  BY <1>3 DEF EndOfDocument, Goes, Everywhere
<1>4. CASE CheckDescription
  BY <1>4 DEF CheckDescription, Goes, Everywhere
<1> QED
  BY <1>1, <1>2, <1>3, <1>4 DEF ReadDescription

LEMMA NextGoes ==
  ASSUME [Next]_vars
  PROVE  Goes
<1>1. CASE LayOut \/ MapRegions \/ CollectObjects \/ AllocateObjects
  BY <1>1 DEF LayOut, MapRegions, CollectObjects, AllocateObjects, Build, Goes, Everywhere
<1>2. CASE MakePlan \/ Size \/ Link
  BY <1>2 DEF MakePlan, Size, Link, Build, Goes, Everywhere
<1>3. CASE SysInitStep
  <2>1. raised' = raised /\ pc = "boot" /\ pc' \in {"boot", "boot failed", "running"}
    BY <1>3 DEF SysInitStep, Retype, IrqControlGet, MintOrCopy, SetCSpace, SetFaultHandler, SetTimeoutEndpoint,
      SchedContextBind, SetSchedParamsOf, SetSpace, SetIPCBuffer, WriteRegistersOf, BindNotification, DomainSet,
      Resume, Suspend, ConfigureFlags, IrqSetNotification, AsidPoolAssign, TableMap, PageMap, OnTcb, Perform
  <2> QED
    BY <2>1 DEF Goes, Everywhere
<1>4. CASE UNCHANGED vars
  BY <1>4 DEF vars, Goes
<1> QED
  BY <1>1, <1>2, <1>3, <1>4, ReadGoes DEF Next

LEMMA PcOkNext == PcOk /\ [Next]_vars => PcOk'
BY NextGoes DEF PcOk, Goes, Everywhere

LEMMA InitPcOk == Init => PcOk
BY DEF Init, DescriptionInit, PcOk, Everywhere

\* What is known of a PD and of a channel.
LEMMA PdTyped ==
  ASSUME Described, NEW p \in DOMAIN pds
  PROVE  /\ pds[p].pd_id \in 0..255 /\ pds[p].priority \in 0..254 /\ pds[p].threads \in Nat
         /\ pds[p].parent \in 0..p - 1 /\ pds[p].partition \in Int /\ p \in Nat \ {0}
         /\ pds[p].pp \in BOOLEAN /\ pds[p].root_ppc \in BOOLEAN /\ pds[p].timeouts \in BOOLEAN
         /\ pds[p].irqs \in Seq([irq : Int, id : 0..62])
<1>1. pds \in Seq(PdType) /\ pds[p].parent \in 0..p - 1
  BY DEF Described
<1>2. pds[p] \in PdType /\ p \in Nat \ {0}
  BY <1>1
<1> QED
  BY <1>1, <1>2 DEF PdType

LEMMA IrqTyped ==
  ASSUME Described, NEW p \in DOMAIN pds, NEW irq \in ToSet(pds[p].irqs)
  PROVE  irq.irq \in Int /\ irq.id \in 0..62
<1>1. pds[p].irqs \in Seq([irq : Int, id : 0..62])
  BY PdTyped
<1>2. irq \in [irq : Int, id : 0..62]
  BY <1>1, SeqElements
<1> QED
  BY <1>2

LEMMA ChannelTyped ==
  ASSUME Described, NEW cc \in ToSet(channels)
  PROVE  cc.ida \in 0..62 /\ cc.idb \in 0..62
<1>1. channels \in Seq(ChannelType)
  BY DEF Described
<1>2. cc \in ChannelType
  BY <1>1 DEF ToSet
<1> QED
  BY <1>2 DEF ChannelType

\* The interrupts of all PDs.
LEMMA IrqListIs ==
  ASSUME Laid
  PROVE  /\ IsList(IrqList) /\ Len(IrqList) \in Nat
         /\ \A n \in 1..Len(IrqList) : \E p \in DOMAIN pds : \E irq \in ToSet(pds[p].irqs) :
              IrqList[n] = [pd |-> p, irq |-> irq.irq, id |-> irq.id]
         /\ \A p \in DOMAIN pds : \A irq \in ToSet(pds[p].irqs) : \E n \in 1..Len(IrqList) :
              IrqList[n] = [pd |-> p, irq |-> irq.irq, id |-> irq.id]
<1> DEFINE k == Len(pds)
           of(p) == Each(pds[p].irqs, LAMBDA i : [pd |-> p, irq |-> i.irq, id |-> i.id])
           q == Each(All, LAMBDA p : Each(pds[p].irqs, LAMBDA i : [pd |-> p, irq |-> i.irq, id |-> i.id]))
<1>0. k \in Nat /\ DOMAIN pds = 1..k /\ DOMAIN All = 1..k /\ \A p \in 1..k : All[p] = p
  BY LaidReady, Domains
<1>1. q = [n \in 1..k |-> q[n]] /\ \A n \in 1..k : q[n] = of(n)
  <2> HIDE DEF of
  <2>1. q = Each(All, of)
    BY DEF of
  <2> HIDE DEF q
  <2> QED
    BY <1>0, <2>1 DEF Each
<1>2. IrqList = FlattenSeq(q)
  BY DEF IrqList, Flat
<1>3. ASSUME NEW p \in 1..k
      PROVE  /\ IsList(of(p))
             /\ \A x : x \in ToSet(of(p)) <=> \E irq \in ToSet(pds[p].irqs) : x = [pd |-> p, irq |-> irq.irq, id |-> irq.id]
  <2> DEFINE m == Len(pds[p].irqs)
             s == of(p)
  <2>1. m \in Nat /\ DOMAIN pds[p].irqs = 1..m
    <3>1. pds[p].irqs \in Seq([irq : Int, id : 0..62])
      BY <1>0, PdTyped DEF Laid
    <3> QED
      BY <3>1
  <2>2. s = [n \in 1..m |-> s[n]] /\ \A n \in 1..m : s[n] = [pd |-> p, irq |-> pds[p].irqs[n].irq, id |-> pds[p].irqs[n].id]
    BY <2>1 DEF Each
  <2>3. \A x : x \in ToSet(pds[p].irqs) <=> \E n \in 1..m : x = pds[p].irqs[n]
    BY <2>1 DEF ToSet
  <2> HIDE DEF s, m, of
  <2>4. IsList(s) /\ ToSet(s) = {s[n] : n \in 1..m}
    BY <2>1, <2>2, FunctionElements
  <2> QED
    BY <2>2, <2>3, <2>4 DEF s
<1> HIDE DEF q, of, k
<1>4. \A n \in 1..k : IsList(q[n])
  BY <1>1, <1>3
<1>5. IsList(IrqList) /\ \A x : x \in ToSet(IrqList) <=> \E n \in 1..k : x \in ToSet(q[n])
  BY <1>0, <1>1, <1>2, <1>4, FlatMembers
<1>6. \A x : x \in ToSet(IrqList) <=> \E p \in DOMAIN pds : \E irq \in ToSet(pds[p].irqs) : x = [pd |-> p, irq |-> irq.irq, id |-> irq.id]
  BY <1>0, <1>1, <1>3, <1>5
<1>7. \A x : x \in ToSet(IrqList) <=> \E n \in 1..Len(IrqList) : x = IrqList[n]
  BY <1>5, ElementsOf
<1>8. Len(IrqList) \in Nat
  BY <1>5 DEF IsList
<1>9. \A n \in 1..Len(IrqList) : \E p \in DOMAIN pds : \E irq \in ToSet(pds[p].irqs) :
        IrqList[n] = [pd |-> p, irq |-> irq.irq, id |-> irq.id]
  BY <1>6, <1>7
<1>10. \A p \in DOMAIN pds : \A irq \in ToSet(pds[p].irqs) : \E n \in 1..Len(IrqList) :
         IrqList[n] = [pd |-> p, irq |-> irq.irq, id |-> irq.id]
  <2> TAKE p \in DOMAIN pds
  <2> TAKE irq \in ToSet(pds[p].irqs)
  <2>1. [pd |-> p, irq |-> irq.irq, id |-> irq.id] \in ToSet(IrqList)
    BY <1>6
  <2> QED
    BY <1>7, <2>1
<1> QED
  BY <1>5, <1>8, <1>9, <1>10

\* The badges are numbers, and what is retyped is an object.
GoodCap(inv) ==
  /\ inv.op \in MintOps => /\ inv.args.badge \in Nat
                           /\ "badge" \in DOMAIN inv.incr => inv.incr["badge"] \in Nat
  /\ inv.op = "Retype" => \A o \in ToSet(inv.args.objects) : o # NoObject

LEMMA GoodMint ==
  /\ \A cnode, dest, src, badge : badge \in Nat => GoodCap(Mint(cnode, dest, src, badge))
  /\ \A cnode, dest, src : GoodCap(Copy(cnode, dest, src))
BY DEF GoodCap, Mint, Copy, Do, MintOps

LEMMA GoodRepeat ==
  ASSUME NEW inv, GoodCap(inv), inv.op \in MintOps,
         inv = [op |-> inv.op, args |-> inv.args, count |-> inv.count, incr |-> inv.incr],
         NEW count, NEW incr, "badge" \in DOMAIN incr => incr["badge"] \in Nat
  PROVE  GoodCap(Repeat(inv, count, incr))
BY DEF GoodCap, Repeat, MintOps

LEMMA GoodRepeatMint ==
  /\ \A cnode, dest, src, badge, count, incr :
       badge \in Nat /\ ("badge" \in DOMAIN incr => incr["badge"] \in Nat)
         => GoodCap(Repeat(Mint(cnode, dest, src, badge), count, incr))
  /\ \A cnode, dest, src, count, incr :
       ("badge" \in DOMAIN incr => incr["badge"] \in Nat) => GoodCap(Repeat(Copy(cnode, dest, src), count, incr))
<1>1. ASSUME NEW inv, GoodCap(inv), inv.op \in MintOps,
             inv = [op |-> inv.op, args |-> inv.args, count |-> inv.count, incr |-> inv.incr]
      PROVE  \A count, incr : ("badge" \in DOMAIN incr => incr["badge"] \in Nat) => GoodCap(Repeat(inv, count, incr))
  BY <1>1, GoodRepeat
<1>2. \A cnode, dest, src, badge :
        LET inv == Mint(cnode, dest, src, badge)
        IN  inv = [op |-> inv.op, args |-> inv.args, count |-> inv.count, incr |-> inv.incr]
  BY DEF Mint, Do
<1>3. \A cnode, dest, src :
        LET inv == Copy(cnode, dest, src)
        IN  inv = [op |-> inv.op, args |-> inv.args, count |-> inv.count, incr |-> inv.incr]
  BY DEF Copy, Do
<1>4. \A cnode, dest, src, badge, count, incr :
       badge \in Nat /\ ("badge" \in DOMAIN incr => incr["badge"] \in Nat)
         => GoodCap(Repeat(Mint(cnode, dest, src, badge), count, incr))
  <2> TAKE cnode, dest, src, badge, count, incr
  <2> HAVE badge \in Nat /\ ("badge" \in DOMAIN incr => incr["badge"] \in Nat)
  <2>1. GoodCap(Mint(cnode, dest, src, badge)) /\ Mint(cnode, dest, src, badge).op \in MintOps
    BY GoodMint, MintIs
  <2> DEFINE inv == Mint(cnode, dest, src, badge)
  <2>2. inv = [op |-> inv.op, args |-> inv.args, count |-> inv.count, incr |-> inv.incr]
    BY <1>2
  <2>3. GoodCap(inv) /\ inv.op \in MintOps
    BY <2>1
  <2> HIDE DEF inv
  <2>4. GoodCap(Repeat(inv, count, incr))
    BY <1>1, <2>2, <2>3
  <2> QED
    BY <2>4 DEF inv
<1>5. \A cnode, dest, src, count, incr :
       ("badge" \in DOMAIN incr => incr["badge"] \in Nat) => GoodCap(Repeat(Copy(cnode, dest, src), count, incr))
  <2> TAKE cnode, dest, src, count, incr
  <2> HAVE "badge" \in DOMAIN incr => incr["badge"] \in Nat
  <2>1. GoodCap(Copy(cnode, dest, src)) /\ Copy(cnode, dest, src).op \in MintOps
    BY GoodMint, MintIs
  <2> DEFINE inv == Copy(cnode, dest, src)
  <2>2. inv = [op |-> inv.op, args |-> inv.args, count |-> inv.count, incr |-> inv.incr]
    BY <1>3
  <2>3. GoodCap(inv) /\ inv.op \in MintOps
    BY <2>1
  <2> HIDE DEF inv
  <2>4. GoodCap(Repeat(inv, count, incr))
    BY <1>1, <2>2, <2>3
  <2> QED
    BY <2>4 DEF inv
<1> QED
  BY <1>4, <1>5

LEMMA BadgesAre ==
  /\ \A id \in Nat : NtfnBadge(id) \in Nat /\ FaultBadge(id) \in Nat /\ PpcBadge(id) \in Nat /\ RootPpcBadge(id) \in Nat
  /\ FaultRootBadge \in Nat /\ 0 \in Nat /\ 1 \in Nat
BY DEF NtfnBadge, FaultBadge, PpcBadge, RootPpcBadge, FaultRootBadge

LEMMA GoodRepeats ==
  ASSUME NEW cnode, NEW dest, NEW src, NEW badge \in Nat, NEW n
  PROVE  /\ GoodCap(Repeat(Mint(cnode, dest, src, badge), n, [cnode |-> 1, badge |-> 1]))
         /\ GoodCap(Repeat(Mint(cnode, dest, src, badge), n, [dest |-> 1, badge |-> 1]))
         /\ GoodCap(Repeat(Mint(cnode, dest, src, badge), n, [dest |-> 1, src |-> 1]))
         /\ GoodCap(Repeat(Mint(cnode, dest, src, badge), n, [cnode |-> 1, src |-> 1]))
         /\ GoodCap(Repeat(Copy(cnode, dest, src), n, [dest |-> 1, src |-> 1]))
BY GoodRepeatMint

LEMMA MintPartGood ==
  ASSUME Laid, NEW inv, MintPart(inv)
  PROVE  GoodCap(inv)
<1>1. Described
  BY DEF Laid
<1>2. CASE IsPageMint(inv) \/ IsReply(inv) \/ IsVSpace(inv)
  <2>1. /\ \A cnode, dest, src, n : GoodCap(Repeat(Mint(cnode, dest, src, 0), n, [dest |-> 1, src |-> 1]))
        /\ \A cnode, dest, src, n : GoodCap(Repeat(Mint(cnode, dest, src, 0), n, [cnode |-> 1, src |-> 1]))
        /\ \A cnode, dest, src, n : GoodCap(Repeat(Mint(cnode, dest, src, 1), n, [cnode |-> 1, src |-> 1]))
    BY GoodRepeats, BadgesAre
  <2>2. CASE IsPageMint(inv)
    BY <2>1, <2>2, Zenon DEF IsPageMint
  <2>3. CASE IsReply(inv) \/ IsVSpace(inv)
    BY <2>1, <2>3, Zenon DEF IsReply, IsVSpace
  <2> QED
    BY <1>2, <2>2, <2>3
<1>3. CASE IsIrqNtfn(inv) \/ IsIrqHandler(inv)
  <2>1. \A n \in 1..Len(IrqList) : IrqList[n].id \in Nat
    <3> TAKE n \in 1..Len(IrqList)
    <3>1. PICK p \in DOMAIN pds : \E irq \in ToSet(pds[p].irqs) : IrqList[n] = [pd |-> p, irq |-> irq.irq, id |-> irq.id]
      BY IrqListIs
    <3>2. PICK irq \in ToSet(pds[p].irqs) : IrqList[n] = [pd |-> p, irq |-> irq.irq, id |-> irq.id]
      BY <3>1
    <3>3. irq.id \in 0..62
      BY <1>1, IrqTyped
    <3>4. irq.id \in Nat
      <4>1. 0..62 \subseteq Nat
        OBVIOUS
      <4> QED
        BY <3>3, <4>1
    <3>5. IrqList[n].id = irq.id
      BY <3>2
    <3> QED
      BY <3>4, <3>5
  <2>2. \A n \in 1..Len(IrqList) : NtfnBadge(IrqList[n].id) \in Nat
    BY <2>1, BadgesAre
  <2>3. CASE IsIrqNtfn(inv)
    BY <2>2, <2>3, GoodMint DEF IsIrqNtfn
  <2>4. CASE IsIrqHandler(inv)
    <3>1. PICK n \in 1..Len(IrqList) : inv = Mint(CNode(IrqList[n].pd), IrqSlot + IrqList[n].id, IrqCap(n), 0)
      BY <2>4 DEF IsIrqHandler
    <3>2. 0 \in Nat
      OBVIOUS
    <3> QED
      BY <3>1, <3>2, GoodMint
  <2> QED
    BY <1>3, <2>3, <2>4
<1>4. CASE IsPdFault(inv)
  <2>1. \A p \in DOMAIN pds : FaultBadge(pds[p].pd_id) \in Nat /\ FaultRootBadge \in Nat
    <3> TAKE p \in DOMAIN pds
    <3>1. pds[p].pd_id \in 0..255
      BY <1>1, PdTyped
    <3>2. pds[p].pd_id \in Nat
      BY <3>1
    <3> QED
      BY <3>2, BadgesAre
  <2> QED
    BY <1>4, <2>1, GoodMint DEF IsPdFault
<1>5. CASE IsInput(inv)
  BY <1>5, GoodMint, BadgesAre DEF IsInput
<1>6. CASE IsChildMint(inv)
  <2> PICK p \in DOMAIN pds : \E c \in Children(p) : ChildMint(p, c, inv)
    BY <1>6 DEF IsChildMint
  <2> PICK c \in Children(p) : ChildMint(p, c, inv)
    OBVIOUS
  <2>0. c \in DOMAIN pds
    BY DEF Children
  <2>1. pds[c].pd_id \in 0..255
    BY <1>1, <2>0, PdTyped
  <2>2. pds[c].pd_id \in Nat
    BY <2>1
  <2>3. RootPpcBadge(pds[c].pd_id) \in Nat /\ 0 \in Nat
    BY <2>2, BadgesAre
  <2>4. /\ \A cnode, dest, src : GoodCap(Mint(cnode, dest, src, RootPpcBadge(pds[c].pd_id)))
        /\ \A cnode, dest, src : GoodCap(Mint(cnode, dest, src, 0)) /\ GoodCap(Copy(cnode, dest, src))
    BY <2>3, GoodMint
  <2> QED
    BY <2>4, Zenon DEF ChildMint
<1>7. CASE IsThreadMint(inv)
  <2> PICK p \in DOMAIN pds : ThreadMint(p, inv)
    BY <1>7 DEF IsThreadMint
  <2> DEFINE k == Cardinality(Children(p))
  <2>1. k \in Nat
    BY LaidReady, SpawnableThreads
  <2>2. RootPpcBadge(k) \in Nat /\ FaultBadge(k) \in Nat
    BY <2>1, BadgesAre
  <2>3. 0 \in Nat
    OBVIOUS
  <2> DEFINE Given(slot, type) == Spawned(p, Mint(CNode(p), slot, Thread(type, p, k), 0), [dest |-> 1, src |-> 1])
  <2>4. \A slot, type : GoodCap(Given(slot, type))
    BY <2>3, GoodRepeats DEF Spawned
  <2>5. GoodCap(Spawned(p, Mint(Thread("thread cnode", p, k), RootEpSlot, Ep(p), RootPpcBadge(k)), [cnode |-> 1, badge |-> 1]))
    BY <2>2, GoodRepeats DEF Spawned
  <2>6. GoodCap(Spawned(p, Mint(SystemCNode, ThreadFaultCap(p), Ep(p), FaultBadge(k)), [dest |-> 1, badge |-> 1]))
    BY <2>2, GoodRepeats DEF Spawned
  <2>7. \A src, slot : GoodCap(Spawned(p, Copy(CNode(p), slot, src), [dest |-> 1, src |-> 1]))
    BY <2>3, GoodRepeats DEF Spawned
  <2>8. \A slot, src : GoodCap(Copy(CNode(p), slot, src))
    BY GoodMint
  <2> HIDE DEF k
  <2> QED
    BY <2>4, <2>5, <2>6, <2>7, <2>8 DEF ThreadMint, k
<1>8. CASE IsChannel(inv)
  <2> PICK cc \in ToSet(channels) : ChannelMint(cc, inv)
    BY <1>8 DEF IsChannel
  <2>1. cc.ida \in 0..62 /\ cc.idb \in 0..62
    BY <1>1, ChannelTyped
  <2>2. cc.ida \in Nat /\ cc.idb \in Nat
    BY <2>1
  <2>3. /\ \A cnode, dest, src : GoodCap(Mint(cnode, dest, src, NtfnBadge(cc.ida))) /\ GoodCap(Mint(cnode, dest, src, NtfnBadge(cc.idb)))
        /\ \A cnode, dest, src : GoodCap(Mint(cnode, dest, src, PpcBadge(cc.ida))) /\ GoodCap(Mint(cnode, dest, src, PpcBadge(cc.idb)))
    BY <2>2, BadgesAre, GoodMint
  <2> QED
    BY <2>3, Zenon DEF ChannelMint
<1> QED
  BY <1>2, <1>3, <1>4, <1>5, <1>6, <1>7, <1>8 DEF MintPart

LEMMA RetypeGood ==
  ASSUME Laid, NEW inv, IsRetype(inv)
  PROVE  GoodCap(inv)
<1> PICK list \in ToSet(objects) : inv = Do("Retype", [dest |-> slotOf[list[1]], objects |-> list])
  BY DEF IsRetype
<1>1. \A o \in ToSet(list) : o # <<>>
  BY ObjectListIs
<1> QED
  BY <1>1 DEF GoodCap, Do, MintOps, NoObject

\* So is every invocation of the plan.
LEMMA PlanGood ==
  ASSUME IInv, ImageInv, PlanInv, pc \in PlanMade, NEW m \in 1..Len(plan)
  PROVE  GoodCap(plan[m])
<1>1. Laid /\ plan[m] \in ToSet(SystemInvocations)
  BY PlanSlotted, PlanElements DEF Slotted
<1>2. plan[m].op \in MintOps => GoodCap(plan[m])
  BY <1>1, ByOp, MintPartGood DEF MintOps
<1>3. plan[m].op = "Retype" => GoodCap(plan[m])
  BY <1>1, ByOp, RetypeGood
<1> QED
  BY <1>2, <1>3 DEF GoodCap

CapsTyped ==
  \A cnode \in DOMAIN kernel.cspace :
    \A slot \in DOMAIN kernel.cspace[cnode] :
      /\ slot \in SlotsOf(cnode)
      /\ kernel.cspace[cnode][slot].obj # NoObject /\ kernel.cspace[cnode][slot].badge \in Nat

LEMMA KnownCap ==
  ASSUME CapsTyped, Backed, NEW a, Known(a)
  PROVE  CapOf(a).obj # NoObject
<1>1. CASE a \in {SystemCNode, InitTcb, SchedControl}
  BY <1>1 DEF CapOf, System, NoObject
<1>2. CASE a \notin {SystemCNode, InitTcb, SchedControl}
  <2>1. CapOf(a) = kernel.cspace[System][a] /\ a \in DOMAIN kernel.cspace[System]
    BY <1>2 DEF CapOf, Known
  <2> QED
    BY <2>1 DEF CapsTyped, Backed
<1> QED
  BY <1>1, <1>2

\* A cap at a place is good.
GoodAt(c, slot) ==
  /\ slot \in SlotsOf(c) /\ kernel.cspace[c][slot].obj # NoObject /\ kernel.cspace[c][slot].badge \in Nat

LEMMA CapsTypedDeed ==
  ASSUME Backed, CapsTyped, Deed, CapsKnown, UNCHANGED objectVars, GoodCap(plan[step]), iter \in Nat,
         Retypable(plan[step])
  PROVE  CapsTyped'
<1>0. \A c : SlotsOf(c)' = SlotsOf(c)
  BY DEF SlotsOf, FirstSlot, objectVars
<1>1. CASE kernel'.cspace = kernel.cspace
  BY <1>0, <1>1 DEF CapsTyped
<1>2. CASE MintDeed
  <2> DEFINE cnode == CapAt(step, iter, "cnode").obj
             dest == ArgAt(step, iter, "dest")
             cap == MintedCap(step, iter)
  <2>1. plan[step].op \in {"Mint", "Copy"}
    BY <1>2 DEF MintDeed
  <2>2. CapAt(step, iter, "src").obj # NoObject
    <3>1. "src" \in CapArgs(plan[step].op)
      BY <2>1 DEF CapArgs
    <3> QED
      BY <3>1, KnownCap DEF CapsKnown, CapAt
  <2>3. ArgAt(step, iter, "badge") \in Nat
    BY <2>1 DEF ArgAt, GoodCap, MintOps
  <2>4. cap.obj # NoObject /\ cap.badge \in Nat
    BY <2>2, <2>3 DEF MintedCap
  <2>5. /\ dest \in SlotsOf(cnode)
        /\ DOMAIN kernel'.cspace = DOMAIN kernel.cspace
        /\ \A c \in DOMAIN kernel.cspace \ {cnode} : kernel'.cspace[c] = kernel.cspace[c]
        /\ DOMAIN kernel'.cspace[cnode] = DOMAIN kernel.cspace[cnode] \cup {dest}
        /\ \A slot \in DOMAIN kernel.cspace[cnode] : kernel'.cspace[cnode][slot] = kernel.cspace[cnode][slot]
        /\ kernel'.cspace[cnode][dest] = cap
    BY <1>2 DEF MintDeed
  <2> HIDE DEF cnode, dest, cap
  <2> QED
    BY <1>0, <2>4, <2>5 DEF CapsTyped
<1>3. CASE RetypeDeed
  <2> DEFINE list == plan[step].args.objects
             first == ArgAt(step, iter, "dest")
             slots == first..first + Len(list) - 1
             cnodes == {o \in ToSet(list) : o[1] \in {"cnode", "thread cnode"}}
             old == DOMAIN kernel.cspace[System]
  <2>1. /\ slots \subseteq SlotsOf(System)
        /\ DOMAIN kernel'.cspace = DOMAIN kernel.cspace \cup cnodes
        /\ \A c \in DOMAIN kernel.cspace \ {System} : kernel'.cspace[c] = kernel.cspace[c]
        /\ \A c \in cnodes \ DOMAIN kernel.cspace : kernel'.cspace[c] = <<>>
        /\ DOMAIN kernel'.cspace[System] = old \cup slots
        /\ \A slot \in old : kernel'.cspace[System][slot] = kernel.cspace[System][slot]
        /\ \A slot \in slots : kernel'.cspace[System][slot] = [obj |-> list[slot - first + 1], badge |-> 0]
    BY <1>3 DEF RetypeDeed
  <2>2. plan[step].op = "Retype" /\ first \in Nat /\ IsList(list) /\ \A o \in ToSet(list) : o # NoObject
    <3>1. plan[step].op = "Retype"
      BY <1>3 DEF RetypeDeed
    <3>2. /\ plan[step].incr = <<>> /\ plan[step].args.dest \in Nat /\ IsList(list)
          /\ \A o \in ToSet(list) : o # NoObject
      BY <3>1 DEF GoodCap, Retypable
    <3>3. "dest" \notin DOMAIN plan[step].incr
      BY <3>2
    <3>4. first = plan[step].args.dest
      BY <3>2, <3>3 DEF ArgAt
    <3> QED
      BY <3>1, <3>2, <3>4
  <2>3. \A slot \in slots : list[slot - first + 1] # NoObject
    <3>1. Len(list) \in Nat
      BY <2>2 DEF IsList
    <3>2. \A slot \in slots : slot - first + 1 \in 1..Len(list)
      BY SMTT(40), <2>2, <3>1
    <3>3. \A n \in 1..Len(list) : list[n] \in ToSet(list)
      BY <2>2, ElementsOf
    <3> HIDE DEF slots, list, first
    <3> QED
      BY <2>2, <3>2, <3>3
  <2>4. System \in DOMAIN kernel.cspace
    BY DEF Backed
  <2> HIDE DEF slots, list, first, cnodes, old
  <2>5. ASSUME NEW c \in DOMAIN kernel'.cspace, NEW slot \in DOMAIN kernel'.cspace[c]
        PROVE  slot \in SlotsOf(c) /\ kernel'.cspace[c][slot].obj # NoObject /\ kernel'.cspace[c][slot].badge \in Nat
    <3>1. CASE c = System
      <4>1. CASE slot \in old
        BY <2>1, <2>4, <3>1, <4>1 DEF CapsTyped, old
      <4>2. CASE slot \in slots
        <5>1. kernel'.cspace[System][slot] = [obj |-> list[slot - first + 1], badge |-> 0]
          BY <2>1, <4>2
        <5>2. list[slot - first + 1] # NoObject
          BY <2>3, <4>2
        <5>3. slot \in SlotsOf(System)
          BY <2>1, <4>2
        <5> QED
          BY <3>1, <5>1, <5>2, <5>3
      <4> QED
        BY <2>1, <2>5, <3>1, <4>1, <4>2
    <3>2. CASE c # System /\ c \in DOMAIN kernel.cspace
      BY <2>1, <2>5, <3>2 DEF CapsTyped
    <3>3. CASE c \in cnodes \ DOMAIN kernel.cspace
      BY <2>1, <2>5, <3>3
    <3> QED
      BY <2>1, <2>5, <3>1, <3>2, <3>3
  <2> QED
    BY <1>0, <2>5 DEF CapsTyped
<1>4. CASE IrqDeed
  <2> DEFINE irq == ArgAt(step, iter, "irq")
             dest == ArgAt(step, iter, "dest")
             old == DOMAIN kernel.cspace[System]
  <2>1. /\ dest \in SlotsOf(System)
        /\ DOMAIN kernel'.cspace = DOMAIN kernel.cspace
        /\ \A c \in DOMAIN kernel.cspace \ {System} : kernel'.cspace[c] = kernel.cspace[c]
        /\ DOMAIN kernel'.cspace[System] = old \cup {dest}
        /\ \A slot \in old : kernel'.cspace[System][slot] = kernel.cspace[System][slot]
        /\ kernel'.cspace[System][dest] = [obj |-> <<"irq", irq>>, badge |-> 0]
    BY <1>4 DEF IrqDeed
  <2>2. <<"irq", irq>> # NoObject
    BY DEF NoObject
  <2> HIDE DEF irq, dest
  <2> QED
    BY <1>0, <2>1, <2>2 DEF CapsTyped
<1>5. TcbDeed \/ FlagsDeed \/ NotifyDeed \/ OtherDeed => kernel'.cspace = kernel.cspace
  BY DEF TcbDeed, FlagsDeed, NotifyDeed, OtherDeed
<1> QED
  BY <1>1, <1>2, <1>3, <1>4, <1>5 DEF Deed

LEMMA CapsTypedNext ==
  ASSUME BootInv, CapsTyped, [Next]_vars
  PROVE  CapsTyped'
<1>0. IInv /\ ImageInv /\ PlanInv /\ Counted /\ Effects /\ KernelOk /\ Backed /\ tablePages \in Nat /\ RetypesOk
  BY PlanRetypesOk DEF BootInv, IInv, ImageInv, Effects
<1>1. CASE SysInitStep
  <2>1. Taken
    BY <1>0, <1>1, StepTaken
  <2>2. CASE Halt
    <3>1. UNCHANGED <<objectVars, kernel>>
      BY <2>1, <2>2 DEF Taken, Halt
    <3> QED
      BY <3>1 DEF CapsTyped, SlotsOf, FirstSlot, objectVars
  <2>3. CASE Advance /\ CapsKnown /\ Deed
    <3>1. pc = "boot" /\ UNCHANGED objectVars
      BY <2>1 DEF Taken
    <3>2. step \in 1..Len(plan) /\ iter \in Nat
      BY <1>0, <3>1, CountedHere
    <3>3. GoodCap(plan[step]) /\ Retypable(plan[step])
      BY <1>0, <3>1, <3>2, PlanGood DEF RetypesOk, PlanMade, Booting
    <3> QED
      BY <1>0, <2>3, <3>1, <3>2, <3>3, CapsTypedDeed
  <2> QED
    BY <2>1, <2>2, <2>3 DEF Taken
<1>2. CASE UNCHANGED vars
  <2>1. UNCHANGED <<objectVars, kernel>>
    BY <1>2 DEF vars
  <2> QED
    BY <2>1 DEF CapsTyped, SlotsOf, FirstSlot, objectVars
<1>3. CASE UNCHANGED <<step, iter, kernel>> /\ pc \notin Booting
  <2>1. kernel' = Bare
    BY <1>0, <1>3 DEF Counted
  <2>2. \A c \in DOMAIN kernel'.cspace : DOMAIN kernel'.cspace[c] = {}
    BY <2>1 DEF Bare
  <2> QED
    BY <2>2 DEF CapsTyped
<1> QED
  BY <1>0, <1>1, <1>2, <1>3, ToolOrInit

LEMMA InitCapsTyped == Init => CapsTyped
<1>1. Init => \A c \in DOMAIN kernel.cspace : DOMAIN kernel.cspace[c] = {}
  BY DEF Init
<1> QED
  BY <1>1 DEF CapsTyped

LEMMA BlankFields == DOMAIN Blank = TcbFields
BY DEF Blank, TcbFields

LEMMA TypesHold ==
  ASSUME BootInv, PcOk, CapsTyped
  PROVE  TypeOK
<1>0. IInv /\ Described /\ KernelOk /\ Counted
  BY DEF BootInv, IInv
<1>1. pc \in Everywhere /\ (pc = "refused" <=> raised # "ok")
  BY DEF PcOk
<1>2. \A p \in DOMAIN pds : /\ pds[p].parent \in 0..p - 1 /\ pds[p].pd_id \in 0..255
                            /\ pds[p].priority \in 0..254 /\ pds[p].threads \in Nat
  BY <1>0, PdTyped
<1>3. step \in 1..Len(plan) + 1 /\ iter \in Nat
  <2>1. CASE pc \in Booting
    BY <1>0, <2>1 DEF Counted
  <2>2. CASE pc \notin Booting
    <3>1. step = 1 /\ iter = 0 /\ Len(plan) \in Nat
      BY <1>0, <2>2 DEF Counted
    <3> QED
      BY <3>1
  <2> QED
    BY <2>1, <2>2
<1>4. \A t \in DOMAIN kernel.tcb : DOMAIN kernel.tcb[t] = DOMAIN Blank
  BY <1>0, BlankFields DEF KernelOk
<1>5. \A cnode \in DOMAIN kernel.cspace :
        \A slot \in DOMAIN kernel.cspace[cnode] :
          /\ slot \in SlotsOf(cnode)
          /\ kernel.cspace[cnode][slot].obj # NoObject /\ kernel.cspace[cnode][slot].badge \in Nat
  BY DEF CapsTyped
<1> QED
  BY <1>1, <1>2, <1>3, <1>4, <1>5 DEF TypeOK

\* Whatever the description, the step of the tool and of the init task: a description that is
\* read has PDs within their ranges, a slot that is filled is one that the CNode has, although
\* the tool computes the slots apart from the size of the CNode, and holds a capability with an
\* object behind it and a badge that is a number.
THEOREM Typed == Spec => []TypeOK
<1>1. Init => BootInv /\ PcOk /\ CapsTyped
  BY InitBootInv, InitPcOk, InitCapsTyped
<1>2. (BootInv /\ PcOk /\ CapsTyped) /\ [Next]_vars => (BootInv /\ PcOk /\ CapsTyped)'
  BY BootInvNext, PcOkNext, CapsTypedNext
<1>3. BootInv /\ PcOk /\ CapsTyped => TypeOK
  BY TypesHold
<1> QED
  BY <1>1, <1>2, <1>3, PTL DEF Spec
=============================================================================
