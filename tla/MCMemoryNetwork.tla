--------------------------- MODULE MCMemoryNetwork ---------------------------
EXTENDS MemoryNetwork

Flow(s, d, v, z, n, a) == [src |-> s, dst |-> d, vc |-> v, size |-> z, max |-> n, answered |-> a]

(* A cache on one switch, a directory and a memory controller on another.  *)
MCNodes == {0, 1, 2}
MCLinks == << <<NodePort(0), SwitchPort(0, 0)>>, <<NodePort(1), SwitchPort(1, 0)>>,
              <<NodePort(2), SwitchPort(1, 2)>>, <<SwitchPort(0, 1), SwitchPort(1, 1)>> >>
MCRoutes == (0 :> (0 :> << <<0, 0>> >> @@ 1 :> << <<1, 0>> >> @@ 2 :> << <<1, 0>> >>))
         @@ (1 :> (0 :> << <<1, 0>> >> @@ 1 :> << <<0, 0>> >> @@ 2 :> << <<2, 0>> >>))
MCFlows == { Flow(0, 1, REQUEST_VC, 5, 4, FALSE), Flow(1, 2, SNOOP_VC, 1, 1, TRUE), Flow(1, 2, SNOOP_VC, 1, 1, FALSE) }
MCStubborn == { <<1, REQUEST_VC>> }

(* One column of 16x3-torus.topology: switches 1, 5, 9 and 13, the caches  *)
(* at port 0 and the directories at port 1; ports 4 and 6 are 2 and 3.     *)
TorusLinks == << <<NodePort(1), SwitchPort(1, 0)>>, <<NodePort(5), SwitchPort(5, 0)>>,
                 <<NodePort(9), SwitchPort(9, 0)>>, <<NodePort(13), SwitchPort(13, 0)>>,
                 <<NodePort(17), SwitchPort(1, 1)>>, <<NodePort(21), SwitchPort(5, 1)>>,
                 <<NodePort(25), SwitchPort(9, 1)>>, <<NodePort(29), SwitchPort(13, 1)>>,
                 <<SwitchPort(1, 3), SwitchPort(5, 2)>>, <<SwitchPort(5, 3), SwitchPort(9, 2)>>,
                 <<SwitchPort(9, 3), SwitchPort(13, 2)>>, <<SwitchPort(13, 3), SwitchPort(1, 2)>> >>
Via(p, v) == << <<p, v>> >>
TorusRoutes ==
     (1  :> (17 :> Via(1, 0) @@ 21 :> Via(3, 1) @@ 25 :> Via(2, 1) @@ 29 :> Via(2, 1)))
  @@ (5  :> (17 :> Via(2, 1) @@ 21 :> Via(1, 0) @@ 25 :> Via(3, 1) @@ 29 :> Via(2, 1)))
  @@ (9  :> (17 :> Via(2, 1) @@ 21 :> Via(2, 1) @@ 25 :> Via(1, 0) @@ 29 :> Via(3, 1)))
  @@ (13 :> (17 :> Via(3, 1) @@ 21 :> Via(2, 1) @@ 25 :> Via(2, 1) @@ 29 :> Via(1, 0)))
TorusFlows == { Flow(1, 25, REQUEST_VC, 1, 4, FALSE), Flow(13, 21, REQUEST_VC, 1, 4, FALSE),
                Flow(9, 17, REQUEST_VC, 1, 4, FALSE), Flow(5, 29, REQUEST_VC, 1, 4, FALSE) }
(* One schedule of Next: every cache sends as soon as its interface has    *)
(* room, and everything that arrives is accepted at once.                  *)
CanPush(f) == sent[f] < f.max /\ Len(nic[f.src].send[f.vc]) < SendCapacity
Burst ==
  \/ \E f \in Flows : Push(f)
  \/ (\A f \in Flows : ~CanPush(f)) /\ Cycle(Endpoints, Memories)
BurstSpec == Init /\ [][Burst]_vars
=============================================================================
