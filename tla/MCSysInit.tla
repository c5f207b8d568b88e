------------------------------- MODULE MCSysInit -------------------------------
(***************************************************************************)
(* Descriptions for SysInit, in the manner of the hello_world example: a   *)
(* root PD with a child, a second partition, threads, channels, interrupts *)
(* and regions; and descriptions that the tool or the kernel refuses.      *)
(***************************************************************************)
EXTENDS SysInit

Pd(name) == [tag |-> "protection_domain", name |-> name, priority |-> 100, budget |-> 5, period |-> 5,
             pd_id |-> 0, threads |-> 0, pp |-> FALSE, root_pp |-> FALSE, timeouts |-> FALSE]
Image == [tag |-> "program_image"]
End_ == [tag |-> "end"]
Part(id) == [tag |-> "partition", id |-> id, length |-> 2]
Mem(name, size, page, phys) ==
  [tag |-> "memory_region", name |-> name, size |-> size, page |-> page, phys |-> phys]
MapIt(mr, vaddr, perms) == [tag |-> "map", mr |-> mr, vaddr |-> vaddr, perms |-> perms]
Irq(irq, id) == [tag |-> "irq", irq |-> irq, id |-> id]
Setvar(region) == [tag |-> "setvar", region |-> region]
Channel(a, ida, b, idb) ==
  [tag |-> "channel", ends |-> <<[pd |-> a, id |-> ida], [pd |-> b, id |-> idb]>>]

\* A PD that does nothing but run, alone or in a partition.
Simple(name) == <<Pd(name), Image, End_>>
InPart(id, elements) == <<Part(id)>> \o elements \o <<End_>>

\* A root PD and its child.
Family(root, child) == <<root, Image, [Pd("hello") EXCEPT !.priority = 99], Image>> \o child \o <<End_, End_>>
Os(threads, rootPp, timeouts) ==
  [Pd("os") EXCEPT !.threads = threads, !.root_pp = rootPp, !.timeouts = timeouts]

World(pp) == <<[Pd("world") EXCEPT !.pp = pp], Image, Irq(7, 3), Irq(9, 4), MapIt("shared", 512, {"r"}),
               Setvar("device"), End_>>
Regions == <<Mem("shared", 8, 4, None), Mem("big", 128, 64, None), Mem("device", 8, 4, 2000)>>

Hello ==
  { Regions \o InPart(0, Family(Os(threads, rootPp, timeouts),
                                <<MapIt("shared", 260, {"r", "w"}), MapIt("big", 320, {"r", "w"})>>))
            \o InPart(1, World(pp))
            \o <<Channel("os", 1, "world", 2), Channel("world", 0, "hello", 62)>> :
    threads \in {0, 2, 3}, rootPp, timeouts, pp \in BOOLEAN }

\* Threads without a child: there is room in the CSpace for 4 of them.
Alone == { <<[Pd("os") EXCEPT !.threads = n], Image, End_>> \o Simple("world") : n \in 1..5 }

\* Two root PDs with threads.
Two ==
  { InPart(1, Family(Os(m, TRUE, TRUE), <<>>))
    \o InPart(0, <<[Pd("world") EXCEPT !.threads = n, !.pp = TRUE], Image, End_>>)
    \o <<Channel("world", 5, "os", 5), Channel("world", 6, "world", 7)>> : m \in {2, 4}, n \in {1, 2} }

\* Accepted, but not as they should be.
Itself == { Simple("world") \o <<Channel("world", 1, "world", 1)>> }
Overlaps ==
  { <<Mem("large", 64, 64, None), Mem("small", 4, 4, None), Pd("world"), Image,
      MapIt("large", 256, {"r"}), MapIt("small", vaddr, {"r"}), End_>> : vaddr \in {64, 260} }
  \cup { <<Mem("large", 64, 64, None), Pd("world"), Image, MapIt("large", 256, {"r"}),
           MapIt("large", 256, {"r"}), End_>> }
FourthDomain == { InPart(3, Simple("world")) }
Mixed == { Simple("world") \o InPart(1, Simple("os")) \o InPart(0, Simple("hello")) }
ChildThreads == { Family(Os(2, TRUE, TRUE), <<>>) }

\* Refused by a build step.
Unbuildable ==
  { Family(Os(n, FALSE, FALSE), <<>>) : n \in {5} }
  \cup { Simple("bulky"), <<Mem("none", 0, 4, None), Pd("os"), Image, MapIt("none", 256, {"r"}), End_>>,
         <<Pd("os"), Image, Setvar("missing"), End_>>,
         <<Mem("none", 0, 4, None), Pd("os"), Image, Setvar("none"), End_>>,
         <<Mem("a", 64, 64, 2048), Mem("b", 4, 4, 2048)>> \o Simple("os") }
  \cup { <<Pd("os"), Image, [Pd("hello") EXCEPT !.pp = pp], Image>> \o Simple("world") \o <<End_, End_>> :
           pp \in BOOLEAN }

\* Refused by a check of the description.
Refused ==
  { <<>>, <<Mem("a", 4, 8, None)>>, <<Mem("a", 6, 4, None)>>, <<Mem("a", 4, 4, 2)>>,
    <<[Part(0) EXCEPT !.length = 0], End_>>, <<Part(0), End_>>,
    <<[Pd("os") EXCEPT !.priority = 255]>>, <<[Pd("os") EXCEPT !.threads = -1]>>,
    <<[Pd("os") EXCEPT !.budget = 6]>>, <<Pd("os"), Image, [Pd("hello") EXCEPT !.pd_id = 256]>>,
    <<Pd("os"), Image, [Pd("hello") EXCEPT !.threads = 1]>>, <<Pd("os"), Image, Image>>,
    <<Pd("os"), MapIt("a", 4, {"w"})>>, <<Pd("os"), Irq(1, 63)>>, <<Pd("os"), Irq(1, -1)>>,
    <<Pd("os"), End_>>, <<Pd("os"), Image>> \o Simple("hello") \o Simple("world") \o <<End_>>,
    <<Pd("os"), Image, [Pd("hello") EXCEPT !.pd_id = 1], Image, End_, End_>>,
    <<[Pd("os") EXCEPT !.root_pp = TRUE], Image, End_>>,
    <<Channel("os", 1, "os", 63)>>,
    InPart(0, Simple("os")) \o InPart(0, Simple("world")), Simple("os") \o Simple("os"),
    Simple("os") \o InPart(1, Simple("world")), <<Mem("a", 4, 4, None), Mem("a", 8, 4, None)>> \o Simple("os"),
    Simple("os") \o <<Channel("os", 1, "world", 1)>>,
    <<Pd("os"), Image, Irq(1, 0), Irq(1, 1), End_>>, <<Pd("os"), Image, Irq(1, 0), Irq(2, 0), End_>>,
    <<Pd("os"), Image, Irq(1, 0), End_>> \o Simple("world") \o <<Channel("world", 1, "os", 0)>>,
    <<Pd("os"), Image, MapIt("a", 4, {"r"}), End_>>,
    <<Mem("a", 4, 4, None), Pd("os"), Image, MapIt("a", 6, {"r"}), End_>> }

MCDocuments ==
  Hello \cup Alone \cup Two \cup Itself \cup Overlaps \cup FourthDomain \cup Mixed \cup Unbuildable \cup Refused

MCImages ==
  LET Of(tls, data) == [segments |-> << [vaddr |-> 64, size |-> 10, perms |-> {"r", "x"}],
                                        [vaddr |-> 78, size |-> data, perms |-> {"r", "w"}] >>,
                        tls |-> tls, entry |-> 64]
  IN  [os |-> Of(3, 1), hello |-> Of(2, 7), world |-> Of(4, 3), bulky |-> Of(17, 1)]
MCPageSizes == {4, 64}
MCKernelRegion == [base |-> 900, size |-> 100]
=============================================================================
