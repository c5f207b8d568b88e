-------------------------- MODULE SystemDescription --------------------------
(***************************************************************************)
(* How the tool reads a system description (sysxml.py): the elements in    *)
(* document order, the checks made at each of them, and the checks of      *)
(* SystemDescription.__init__ at the end.  The spelling and the presence   *)
(* of attributes are left out.                                             *)
(***************************************************************************)
EXTENDS Integers, Sequences, FiniteSets, FiniteSetsExt, SequencesExt

CONSTANTS
  Documents,  \* the descriptions: sequences of elements, of which partitions and PDs
              \*   end with an element of their own, tagged "end"
  PageSizes   \* of the platform

None == -1

Elements ==
  [tag : {"memory_region"}, name : STRING, size : Int, page : Int, phys : Int]
  \cup [tag : {"partition"}, id : Int, length : Int]
  \cup [tag : {"protection_domain"}, name : STRING, priority : Int, budget : Int, period : Int,
        pd_id : Int, threads : Int, pp : BOOLEAN, root_pp : BOOLEAN, timeouts : BOOLEAN]
  \cup [tag : {"program_image", "end"}]
  \cup [tag : {"map"}, mr : STRING, vaddr : Int, perms : SUBSET {"r", "w", "x"}]
  \cup [tag : {"irq"}, irq : Int, id : Int]
  \cup [tag : {"setvar"}, region : STRING]
  \cup [tag : {"channel"}, ends : Seq([pd : STRING, id : Int])]

ASSUME DocumentsAssumption == Documents \subseteq Seq(Elements) /\ PageSizes \subseteq Nat \ {0}

VARIABLES
  document, at,  \* the input, and the next element of it
  open,          \* the elements that have not ended: InPartition, or the number of a PD
  pds, mrs, channels, partitions,
  pc, raised

description == <<document, at, open, pds, mrs, channels, partitions>>

InPartition == 0
NoParent == 0

DescriptionInit ==
  /\ document \in Documents /\ at = 1 /\ open = <<>>
  /\ pds = <<>> /\ mrs = <<>> /\ channels = <<>> /\ partitions = <<>>
  /\ pc = "parse" /\ raised = "ok"

\* The reason of the first check that fails; a check is <<condition, reason>>.
FirstFailure(checks) ==
  LET failed == {n \in DOMAIN checks : ~checks[n][1]}
  IN  IF failed = {} THEN "ok" ELSE checks[Min(failed)][2]

Element(tag) == pc = "parse" /\ at <= Len(document) /\ document[at].tag = tag

\* The checks of an element: if all hold its effect takes place and the next one is read.
Accept(checks, effect) ==
  /\ raised' = FirstFailure(checks)
  /\ IF raised' = "ok"
     THEN effect /\ at' = at + 1 /\ UNCHANGED pc
     ELSE pc' = "refused" /\ UNCHANGED <<at, open, pds, mrs, channels, partitions>>
  /\ UNCHANGED document

\* The form with an upper bound that the kernel does not have.
PrioritiesTo255 == 0..255
Priorities == 0..254

InPD == open # <<>> /\ Last(open) # InPartition

ReadMemoryRegion ==
  /\ Element("memory_region") /\ open = <<>>
  /\ LET mr == document[at]
     IN  Accept(<< <<mr.page \in PageSizes, "page size">>, <<mr.size % mr.page = 0, "size">>,
                   <<mr.phys = None \/ mr.phys % mr.page = 0, "phys_addr">> >>,
                /\ mrs' = Append(mrs, [name |-> <<"mr", mr.name>>, page |-> mr.page,
                                       count |-> mr.size \div mr.page, phys |-> mr.phys])
                /\ UNCHANGED <<open, pds, channels, partitions>>)

\* len(pt_xml) == 0 is the case of a partition that ends at once.
OpenPartition ==
  /\ Element("partition") /\ open = <<>>
  /\ LET pt == document[at]
     IN  Accept(<< <<pt.length \in 1..254, "length">>,
                   <<document[at + 1].tag # "end", "no protection domains">> >>,
                /\ partitions' = Append(partitions, [id |-> pt.id])
                /\ open' = <<InPartition>>
                /\ UNCHANGED <<pds, mrs, channels>>)

OpenPD ==
  /\ Element("protection_domain")
  /\ LET pd == document[at]
         parent == IF InPD THEN Last(open) ELSE NoParent
         partition == CASE InPD -> pds[parent].partition
                        [] open = <<>> -> 0
                        [] OTHER -> Last(partitions).id
     IN  Accept(<< <<pd.priority \in Priorities, "priority">>,
                   <<parent # NoParent => pd.pd_id \in 0..255, "pd_id">>,
                   <<pd.threads > 0 => parent = NoParent, "threads of a child">>,
                   <<pd.threads >= 0, "threads">>, <<pd.budget <= pd.period, "budget">> >>,
                /\ pds' = Append(pds, [name |-> pd.name, priority |-> pd.priority,
                                       pd_id |-> IF parent = NoParent THEN 0 ELSE pd.pd_id,
                                       threads |-> pd.threads, pp |-> pd.pp,
                                       root_ppc |-> pd.root_pp, timeouts |-> pd.timeouts,
                                       parent |-> parent, partition |-> partition,
                                       image |-> FALSE, maps |-> <<>>, irqs |-> <<>>,
                                       setvars |-> <<>>])
                /\ open' = Append(open, Len(pds) + 1)
                /\ UNCHANGED <<mrs, channels, partitions>>)

\* An element inside the PD that is open.
ReadInPD(tag, checks(_), change(_, _)) ==
  /\ Element(tag) /\ InPD
  /\ Accept(checks(document[at]),
            /\ pds' = [pds EXCEPT ![Last(open)] = change(@, document[at])]
            /\ UNCHANGED <<open, mrs, channels, partitions>>)

ReadProgramImage ==
  ReadInPD("program_image", LAMBDA e : << <<~pds[Last(open)].image, "second image">> >>,
           LAMBDA pd, e : [pd EXCEPT !.image = TRUE])

ReadMap ==
  ReadInPD("map", LAMBDA e : << <<e.perms # {"w"}, "write-only">> >>,
           LAMBDA pd, e : [pd EXCEPT !.maps =
                            Append(@, [mr |-> <<"mr", e.mr>>, vaddr |-> e.vaddr, perms |-> e.perms])])

ReadIrq ==
  ReadInPD("irq", LAMBDA e : << <<e.id < 63, "id">>, <<e.id >= 0, "id">> >>,
           LAMBDA pd, e : [pd EXCEPT !.irqs = Append(@, [irq |-> e.irq, id |-> e.id])])

ReadSetvar ==
  ReadInPD("setvar", LAMBDA e : <<>>, LAMBDA pd, e : [pd EXCEPT !.setvars = Append(@, e.region)])

Children(p) == {c \in DOMAIN pds : pds[c].parent = p}

\* What xml2pd does after the children: sorted() fails on two PDs, because __lt__ is a
\* property and not a method.
ClosePD ==
  /\ Element("end") /\ InPD
  /\ LET p == Last(open)
         number == Cardinality(Children(p))
     IN  Accept(<< <<pds[p].image, "no image">>, <<number < 2, "TypeError">>,
                   <<\A c \in Children(p) : pds[c].pd_id = 0, "pd_ids not sequential">>,
                   <<pds[p].root_ppc => number > 0, "root_pp without children">> >>,
                /\ pds' = [pds EXCEPT ![p].threads = IF @ <= number THEN 0 ELSE @]
                /\ open' = Front(open)
                /\ UNCHANGED <<mrs, channels, partitions>>)

ClosePartition ==
  /\ Element("end") /\ open = <<InPartition>>
  /\ Accept(<<>>, open' = <<>> /\ UNCHANGED <<pds, mrs, channels, partitions>>)

ReadChannel ==
  /\ Element("channel") /\ open = <<>>
  /\ LET ends == document[at].ends
     IN  Accept(<< <<\A n \in DOMAIN ends : ends[n].id \in 0..62, "id">>,
                   <<Len(ends) = 2, "two ends">> >>,
                /\ channels' = Append(channels, [a |-> ends[1].pd, ida |-> ends[1].id,
                                                 b |-> ends[2].pd, idb |-> ends[2].id])
                /\ UNCHANGED <<open, pds, mrs, partitions>>)

EndOfDocument ==
  /\ pc = "parse" /\ at = Len(document) + 1 /\ open = <<>>
  /\ IF pds = <<>> /\ partitions = <<>>
     THEN pc' = "refused" /\ raised' = "empty" /\ UNCHANGED partitions
     ELSE /\ pc' = "check" /\ UNCHANGED raised
          /\ partitions' = IF partitions = <<>> THEN <<[id |-> 0]>> ELSE partitions
  /\ UNCHANGED <<document, at, open, pds, mrs, channels>>

-----------------------------------------------------------------------------
(* SystemDescription.__init__ *)

Distinct(list, key(_)) == \A m, n \in DOMAIN list : key(list[m]) = key(list[n]) => m = n

PdNames == {pds[p].name : p \in DOMAIN pds}
Named(name) == CHOOSE p \in DOMAIN pds : pds[p].name = name

TopLevel(id) == {p \in DOMAIN pds : pds[p].parent = NoParent /\ pds[p].partition = id}
NumPds(id) == Cardinality({p \in DOMAIN pds : pds[p].partition = id})

\* The identifiers that a PD uses before the n-th channel is checked.
IdsBefore(name, n) ==
  {irq.id : irq \in UNION {ToSet(pds[p].irqs) : p \in {q \in DOMAIN pds : pds[q].name = name}}}
    \cup {channels[m].ida : m \in {k \in 1..n - 1 : channels[k].a = name}}
    \cup {channels[m].idb : m \in {k \in 1..n - 1 : channels[k].b = name}}

\* Both ends of a channel are looked up before either is recorded.
ChannelIdsFree(n) ==
  /\ channels[n].ida \notin IdsBefore(channels[n].a, n)
  /\ channels[n].idb \notin IdsBefore(channels[n].b, n)

AllIrqs == FlattenSeq([p \in DOMAIN pds |-> pds[p].irqs])

MapOk(map) ==
  \E n \in DOMAIN mrs : mrs[n].name = map.mr /\ map.vaddr % mrs[n].page = 0

CheckDescription ==
  /\ pc = "check"
  /\ raised' = FirstFailure(<<
       <<Distinct(partitions, LAMBDA pt : pt.id), "duplicate partition">>,
       <<\A n \in DOMAIN partitions : Cardinality(TopLevel(partitions[n].id)) <= 62, "too many PDs">>,
       <<Distinct(pds, LAMBDA pd : pd.name), "duplicate PD">>,
       <<\A p \in DOMAIN pds : [id |-> pds[p].partition] \in ToSet(partitions), "KeyError">>,
       <<Distinct(mrs, LAMBDA mr : mr.name), "duplicate region">>,
       <<\A cc \in ToSet(channels) : {cc.a, cc.b} \subseteq PdNames, "invalid PD name">>,
       <<Distinct(AllIrqs, LAMBDA irq : irq.irq), "duplicate irq">>,
       <<\A p \in DOMAIN pds : Distinct(pds[p].irqs, LAMBDA irq : irq.id), "duplicate irq id">>,
       <<\A n \in DOMAIN channels : ChannelIdsFree(n), "duplicate channel id">>,
       <<\A p \in DOMAIN pds : \A map \in ToSet(pds[p].maps) : MapOk(map), "invalid map">> >>)
  /\ pc' = IF raised' = "ok" THEN "build" ELSE "refused"
  /\ UNCHANGED description

ReadDescription ==
  \/ ReadMemoryRegion \/ OpenPartition \/ OpenPD \/ ReadProgramImage \/ ReadMap \/ ReadIrq
  \/ ReadSetvar \/ ClosePD \/ ClosePartition \/ ReadChannel \/ EndOfDocument
  \/ CheckDescription
=============================================================================
