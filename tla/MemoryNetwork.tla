---------------------------- MODULE MemoryNetwork ----------------------------
(***************************************************************************)
(* The interconnect: network interfaces (components/MultiNic), switches,   *)
(* channels and nodes of the network simulator (components/NetShim), and   *)
(* the memory controllers (components/MemoryLoopback) that take a request  *)
(* from the network only while there is room for the reply.                *)
(*                                                                         *)
(* The simulator is synchronous.  In a cycle the interfaces, the network   *)
(* and the memory controllers are driven in the order of wiring.cpp, each  *)
(* in one call; between two cycles the caches and directories push         *)
(* messages into their interfaces.  Everything inside a cycle is           *)
(* determined: an operator takes the state of the network and returns the  *)
(* state after the call.  What is left open is which messages are sent,    *)
(* which interfaces can hand a message on, and when a memory access ends.  *)
(*                                                                         *)
(* A message is known by its flow (source, destination, virtual channel,   *)
(* and the cycles it occupies a channel) and its number in the flow.       *)
(***************************************************************************)
EXTENDS Integers, Sequences, SequencesExt, FiniteSets

CONSTANTS
  Nodes,              \* the network nodes, numbered
  Switches,           \* the switches, numbered
  SwitchPorts,        \* ports of a switch, numbered from 0
  Links,              \* the Top lines of the topology file, in order
  Routes,             \* the Route lines: switch -> node -> sequence of <<port, vc>>
  InputBuffers, OutputBuffers, InternalBuffers, \* entries for each virtual channel
  Bandwidth,          \* SwitchBandwidth
  ChannelLatency, LatencyDivider,
  SendCapacity, RecvCapacity,                   \* of the queues of an interface
  Memories,           \* nodes with a memory controller
  MaxRequests,        \* entries of outQueue
  Flows,              \* what the caches and directories send; max bounds the messages of a flow
  Stubborn            \* <<node, vc>> that may refuse messages for ever

ASSUME SizesAssumption ==
  /\ InputBuffers \in Nat \ {0} /\ OutputBuffers \in Nat \ {0} /\ InternalBuffers \in Nat
  /\ Bandwidth \in Nat \ {0} /\ ChannelLatency \in Nat \ {0} /\ LatencyDivider \in Nat \ {0}
  /\ SwitchPorts \in Nat \ {0} /\ MaxRequests \in Nat \ {0}
  /\ SendCapacity \in Nat \ {0} /\ RecvCapacity \in Nat \ {0}

VARIABLES
  nic,      \* sendQueue and recvQueue of each interface, by virtual channel
  net,      \* the buffers, timers and counters of the network
  outQueue, \* outQueue of each memory controller
  sent,     \* ghost: messages sent in each flow
  got       \* ghost: the numbers of the messages taken from each flow

vars == <<nic, net, outQueue, sent, got>>

REPLY_VC == 0
SNOOP_VC == 1
REQUEST_VC == 2
MAX_PROT_VC == 4
MAX_NET_VC == 2
VChannels == {REPLY_VC, SNOOP_VC, REQUEST_VC}

(* The network serves the lowest virtual channel first: requests go before *)
(* snoops and snoops before replies.                                       *)
Priority(vc) == MAX_PROT_VC - vc - 1
BUILD_VC(prot, n) == prot * MAX_NET_VC + n
PROT_VC(v) == MAX_PROT_VC - (v \div MAX_NET_VC) - 1
ProtVCs == {f.vc : f \in Flows} \cup (IF Memories = {} THEN {} ELSE {REPLY_VC})
RouteVCs == {0} \cup UNION {{r[2] : r \in Range(Routes[s][n])} : s \in Switches, n \in DOMAIN Routes[CHOOSE t \in Switches : TRUE]}
NetVCs == {BUILD_VC(Priority(vc), n) : vc \in ProtVCs, n \in RouteVCs}

InOrderOf(S) == [i \in 1 .. Cardinality(S) |-> CHOOSE n \in S : Cardinality({m \in S : m < n}) = i - 1]
VCOrder == InOrderOf(NetVCs)
NicOrder == InOrderOf(VChannels)
NodeOrder == InOrderOf(Nodes)
SwitchOrder == InOrderOf(Switches)

(* op for each element of q in turn: a loop of the program.                *)
Loop(op(_, _), base, q) ==
  LET after[i \in 0 .. Len(q)] == IF i = 0 THEN base ELSE op(after[i - 1], q[i])
  IN  after[Len(q)]


NodePort(n) == <<"Node", n, 0>>
SwitchPort(s, p) == <<"Switch", s, p>>
Ports == {NodePort(n) : n \in Nodes} \cup {SwitchPort(s, p) : s \in Switches, p \in 0 .. SwitchPorts - 1}

(* Every Top line makes two channels, one for each direction.  A channel   *)
(* to or from a node is shorter.                                           *)
IsNodePort(p) == p[1] = "Node"
Channels == 1 .. 2 * Len(Links)
From == [c \in Channels |-> Links[(c + 1) \div 2][IF c % 2 = 1 THEN 1 ELSE 2]]
To == [c \in Channels |-> Links[(c + 1) \div 2][IF c % 2 = 1 THEN 2 ELSE 1]]
IsLocal(c) == IsNodePort(From[c]) \/ IsNodePort(To[c])
ChannelOf == [p \in Range(From) |-> CHOOSE c \in Channels : From[c] = p]

(* A memory controller answers a request on the reply channel; a write-    *)
(* back that needs no acknowledgement has no answer.                       *)
ReplyFlow(f) == [src |-> f.dst, dst |-> f.src, vc |-> REPLY_VC, size |-> f.size, max |-> f.max, answered |-> FALSE]
AllFlows == Flows \cup {ReplyFlow(f) : f \in {g \in Flows : g.answered}}
Message == [flow : AllFlows, number : Nat \ {0}]

BufferCount(p) == IF IsNodePort(p) THEN 1 ELSE InputBuffers
Count(q, v) == Len(SelectSeq(q, LAMBDA d : d.vc = v))

(* The messages in the output ports, in the input ports with those under   *)
(* way to them, and in the internal buffers of the switches; the cycles a  *)
(* channel is still busy; the port a switch starts with; and the counters  *)
(* of waiting messages of channels, switches and nodes.                    *)
TypeOK ==
  /\ nic \in [Nodes -> [send : [VChannels -> Seq(Message)], recv : [VChannels -> Seq(Message)]]]
  /\ \A n \in Nodes, vc \in VChannels : /\ Len(nic[n].send[vc]) <= SendCapacity
                                        /\ Len(nic[n].recv[vc]) <= RecvCapacity
  /\ DOMAIN net = {"out", "in", "delay", "internal", "busy", "start", "channelWaiting",
                   "switchWaiting", "nodeWaiting"}
  /\ \A p \in Ports, v \in NetVCs :
       /\ IsNodePort(p) \/ Len(net.out[p][v]) <= OutputBuffers
       /\ Len(net.in[p][v]) + Count(net.delay[p], v) <= BufferCount(p)
  /\ \A s \in Switches, v \in NetVCs : Len(net.internal[s][v]) <= InternalBuffers
  /\ net.start \in [Switches -> 0 .. SwitchPorts - 1]
  /\ \A m \in Memories : outQueue[m] \in Seq(Message) /\ Len(outQueue[m]) <= MaxRequests

Init ==
  /\ nic = [n \in Nodes |-> [send |-> [vc \in VChannels |-> <<>>], recv |-> [vc \in VChannels |-> <<>>]]]
  /\ net = [out |-> [p \in Ports |-> [v \in NetVCs |-> <<>>]],
            in |-> [p \in Ports |-> [v \in NetVCs |-> <<>>]],
            delay |-> [p \in Ports |-> <<>>],
            internal |-> [s \in Switches |-> [v \in NetVCs |-> <<>>]],
            busy |-> [c \in Channels |-> 0],
            start |-> [s \in Switches |-> 0],
            channelWaiting |-> [c \in Channels |-> 0],
            switchWaiting |-> [s \in Switches |-> [v \in NetVCs |-> 0]],
            nodeWaiting |-> [n \in Nodes |-> 0]]
  /\ outQueue = [m \in Memories |-> <<>>]
  /\ sent = [f \in AllFlows |-> 0]
  /\ got = [f \in AllFlows |-> <<>>]

-----------------------------------------------------------------------------
(* Switches.                                                               *)

(* insertMessage of an output port wakes its channel.                      *)
PutOut(N, p, v, m) ==
  [N EXCEPT !.out[p][v] = Append(@, m), !.channelWaiting[ChannelOf[p]] = @ + 1]

(* Mutant: one message too many.                                           *)
MutRouteToFull(N, s, m) ==
  SelectSeq(Routes[s][m.flow.dst],
            LAMBDA r : Len(N.out[SwitchPort(s, r[1])][BUILD_VC(Priority(m.flow.vc), r[2])]) <= OutputBuffers)

(* routingPolicy: the entries of the routing table that have a place free. *)
RoutingPolicy(N, s, m) ==
  SelectSeq(Routes[s][m.flow.dst],
            LAMBDA r : Len(N.out[SwitchPort(s, r[1])][BUILD_VC(Priority(m.flow.vc), r[2])]) < OutputBuffers)

sendMessageToOutput(N, s, m) ==
  LET r == Head(RoutingPolicy(N, s, m))
  IN  PutOut(N, SwitchPort(s, r[1]), BUILD_VC(Priority(m.flow.vc), r[2]), m)

(* The internal buffer, oldest first, as long as there is bandwidth.       *)
(* removeMessage steps to the next message and the loop steps again: the   *)
(* message after one that is sent is passed over.                          *)
DriveInternal(a, s, v) ==
  LET q == a.net.internal[s][v]
      Step(b, i) ==
        IF b.skip THEN [b EXCEPT !.skip = FALSE, !.kept = Append(@, q[i])]
        ELSE IF b.bandwidth > 0 /\ RoutingPolicy(b.net, s, q[i]) # <<>>
             THEN [b EXCEPT !.net = sendMessageToOutput(@, s, q[i]), !.bandwidth = @ - 1, !.skip = TRUE]
        ELSE [b EXCEPT !.kept = Append(@, q[i])]
      b == Loop(Step, [net |-> a.net, bandwidth |-> a.bandwidth, skip |-> FALSE, kept |-> <<>>],
                    [i \in DOMAIN q |-> i])
  IN  [net |-> [b.net EXCEPT !.internal[s][v] = b.kept], bandwidth |-> b.bandwidth]

(* Mutant: the counter is not brought down for the internal buffer.        *)
MutInternalStillCounted(a, s, p, v) ==
  LET port == SwitchPort(s, p)
      m == Head(a.net.in[port][v])
      taken == [a.net EXCEPT !.in[port][v] = Tail(@)]
  IN  IF a.net.in[port][v] = <<>> THEN a
      ELSE IF RoutingPolicy(a.net, s, m) # <<>>
           THEN [net |-> sendMessageToOutput([taken EXCEPT !.switchWaiting[s][v] = @ - 1], s, m),
                 bandwidth |-> a.bandwidth - 1]
      ELSE IF Len(a.net.internal[s][v]) < InternalBuffers
           THEN [a EXCEPT !.net = [taken EXCEPT !.internal[s][v] = Append(@, m)]]
      ELSE a

(* The head of an input port goes to an output, or into the internal       *)
(* buffer.                                                                 *)
DrivePort(a, s, p, v) ==
  LET port == SwitchPort(s, p)
      m == Head(a.net.in[port][v])
      taken == [a.net EXCEPT !.in[port][v] = Tail(@), !.switchWaiting[s][v] = @ - 1]
  IN  IF a.net.in[port][v] = <<>> THEN a
      ELSE IF RoutingPolicy(a.net, s, m) # <<>>
           THEN [net |-> sendMessageToOutput(taken, s, m), bandwidth |-> a.bandwidth - 1]
      ELSE IF Len(a.net.internal[s][v]) < InternalBuffers
           THEN [a EXCEPT !.net = [taken EXCEPT !.internal[s][v] = Append(@, m)]]
      ELSE a

(* The ports in turn.  The bandwidth is looked at after a port only, and   *)
(* compared with 0: the first port is served in any case.                  *)
DrivePorts(a, s, v) ==
  LET order == [i \in 1 .. SwitchPorts |-> (a.net.start[s] + i - 1) % SwitchPorts]
      Step(b, p) == IF b.stop THEN b
                    ELSE LET d == DrivePort(b.at, s, p, v) IN [at |-> d, stop |-> d.bandwidth = 0]
  IN  IF a.net.switchWaiting[s][v] = 0 THEN a
      ELSE Loop(Step, [at |-> a, stop |-> FALSE], order).at

DriveSwitch(N, s) ==
  [Loop(LAMBDA a, v : DrivePorts(DriveInternal(a, s, v), s, v), [net |-> N, bandwidth |-> Bandwidth],
        VCOrder).net EXCEPT !.start[s] = (@ + 1) % SwitchPorts]

-----------------------------------------------------------------------------
(* Ports and channels.                                                     *)

Notify(N, p, v) ==
  IF IsNodePort(p) THEN [N EXCEPT !.nodeWaiting[p[2]] = @ + 1] ELSE [N EXCEPT !.switchWaiting[p[2]][v] = @ + 1]

(* The messages that have travelled long enough reach the port.            *)
DriveInputPort(N, p) ==
  LET aged == [i \in DOMAIN N.delay[p] |-> [N.delay[p][i] EXCEPT !.left = @ - 1]]
      Arrive(a, d) == Notify([a EXCEPT !.in[p][d.vc] = Append(@, d.msg)], p, d.vc)
  IN  Loop(Arrive, [N EXCEPT !.delay[p] = SelectSeq(aged, LAMBDA d : d.left > 0)],
           SelectSeq(aged, LAMBDA d : d.left <= 0))

DriveInputPorts(N) == Loop(DriveInputPort, N, SelectSeq(To, LAMBDA p : N.delay[p] # <<>>))

Latency(c) == IF IsLocal(c) THEN 1 ELSE ChannelLatency
TransmitTime(c, m) == IF IsLocal(c) THEN (m.flow.size + LatencyDivider - 1) \div LatencyDivider ELSE m.flow.size

Transferable(N, c) ==
  {v \in NetVCs : /\ N.out[From[c]][v] # <<>>
                  /\ Len(N.in[To[c]][v]) + Count(N.delay[To[c]], v) < BufferCount(To[c])}

(* An idle channel takes a message of the lowest virtual channel that has  *)
(* a place at the other end.                                               *)
DriveChannel(N, c) ==
  LET v == CHOOSE u \in Transferable(N, c) : \A w \in Transferable(N, c) : u <= w
      m == Head(N.out[From[c]][v])
  IN  IF N.busy[c] > 0 THEN [N EXCEPT !.busy[c] = @ - 1]
      ELSE IF Transferable(N, c) = {} THEN N
      ELSE [N EXCEPT !.out[From[c]][v] = Tail(@),
                     !.delay[To[c]] = Append(@, [msg |-> m, vc |-> v, left |-> Latency(c)]),
                     !.busy[c] = TransmitTime(c, m) - 1,
                     !.channelWaiting[c] = @ - 1]

DriveChannels(N) ==
  Loop(DriveChannel, N, SelectSeq([c \in Channels |-> c], LAMBDA c : N.busy[c] > 0 \/ N.channelWaiting[c] > 0))

-----------------------------------------------------------------------------
(* Nodes and interfaces.  The state is that of the network with nic.       *)

(* Mutant: the virtual channels share the places of the interface.         *)
MutSharedPlaces(a, n, vc) ==
  Cardinality({v \in VChannels : a.nic[n].recv[v] # <<>>}) < RecvCapacity

recvAvailable(a, n, vc) == Len(a.nic[n].recv[vc]) < RecvCapacity

(* The network gives a node what its interface has room for.               *)
DriveNode(a, n) ==
  LET Step(b, v) ==
        LET q == b.net.in[NodePort(n)][v]
        IN  IF q # <<>> /\ recvAvailable(b, n, PROT_VC(v))
            THEN [nic |-> [b.nic EXCEPT ![n].recv[PROT_VC(v)] = Append(@, Head(q))],
                  net |-> [b.net EXCEPT !.in[NodePort(n)][v] = Tail(@), !.nodeWaiting[n] = @ - 1]]
            ELSE b
  IN  IF a.net.nodeWaiting[n] = 0 THEN a ELSE Loop(Step, a, VCOrder)

(* Whether the network takes a message looks at the buffer numbered with   *)
(* the priority, of the node port whose first two buffers have one place.  *)
NetworkAvailable(N, n, vc) ==
  Priority(vc) \in {0, 1} \cap NetVCs => Len(N.out[NodePort(n)][Priority(vc)]) < 1

(* msgFromNode: the head of each send queue goes to the network, or to the *)
(* own receive queue.                                                      *)
msgFromNode(a, n) ==
  LET Step(b, vc) ==
        LET q == b.nic[n].send[vc]
            m == Head(q)
            popped == [b EXCEPT !.nic[n].send[vc] = Tail(@)]
        IN  IF q = <<>> THEN b
            ELSE IF m.flow.dst = n
                 THEN IF recvAvailable(b, n, vc) THEN [popped EXCEPT !.nic[n].recv[vc] = Append(@, m)] ELSE b
            ELSE IF NetworkAvailable(b.net, n, vc)
                 THEN [popped EXCEPT !.net = PutOut(@, NodePort(n), BUILD_VC(Priority(vc), 0), m)]
            ELSE b
  IN  Loop(Step, a, NicOrder)

(* msgToNode: the interface hands on one message of each virtual channel   *)
(* that the cache or directory, or the memory controller, accepts.  The    *)
(* controller accepts while a reply has room, and queues the reply.        *)
NewReply(a, m) == LET f == ReplyFlow(m.flow) IN [flow |-> f, number |-> a.sent[f] + 1]

msgToNode(a, n, accept) ==
  LET Step(b, vc) ==
        LET q == b.nic[n].recv[vc]
            m == Head(q)
            popped == [b EXCEPT !.nic[n].recv[vc] = Tail(@), !.got[m.flow] = Append(@, m.number)]
        IN  IF q = <<>> THEN b
            ELSE IF n \in Memories
                 THEN IF Len(b.outQueue[n]) = MaxRequests THEN b
                      ELSE IF ~m.flow.answered THEN popped
                      ELSE [popped EXCEPT !.outQueue[n] = Append(@, NewReply(b, m)), !.sent[ReplyFlow(m.flow)] = @ + 1]
            ELSE IF <<n, vc>> \in accept THEN popped ELSE b
  IN  Loop(Step, a, Reverse(NicOrder))

(* LoopbackDrive: the replies that are ready and find room in the          *)
(* interface.                                                              *)
DriveMemory(a, n) ==
  LET room == SendCapacity - Len(a.nic[n].send[REPLY_VC])
      k == IF room < Len(a.outQueue[n]) THEN room ELSE Len(a.outQueue[n])
  IN  [a EXCEPT !.nic[n].send[REPLY_VC] = @ \o SubSeq(a.outQueue[n], 1, k),
                !.outQueue[n] = SubSeq(@, k + 1, Len(@))]

-----------------------------------------------------------------------------
DriveNetwork(N) == DriveChannels(DriveInputPorts(Loop(DriveSwitch, N, SwitchOrder)))

(* One cycle: accept are the interfaces that can hand a message on, ready  *)
(* the memory controllers whose first access is done.                      *)
Driven(accept, ready) ==
  LET a == [nic |-> nic, net |-> net, outQueue |-> outQueue, sent |-> sent, got |-> got]
      nics == Loop(LAMBDA b, n : msgToNode(msgFromNode(b, n), n, accept), a, NodeOrder)
      moved == [nics EXCEPT !.net = DriveNetwork(@)]
      delivered == Loop(LAMBDA b, n : LET d == DriveNode([nic |-> b.nic, net |-> b.net], n)
                                          IN  [b EXCEPT !.nic = d.nic, !.net = d.net], moved, NodeOrder)
  IN  Loop(DriveMemory, delivered, InOrderOf(ready))

Cycle(accept, ready) ==
  LET a == Driven(accept, ready)
  IN  /\ nic' = a.nic /\ net' = a.net /\ outQueue' = a.outQueue /\ sent' = a.sent /\ got' = a.got

(* A cache or a directory pushes a message into its interface.             *)
Push(f) ==
  /\ sent[f] < f.max
  /\ Len(nic[f.src].send[f.vc]) < SendCapacity
  /\ nic' = [nic EXCEPT ![f.src].send[f.vc] = Append(@, [flow |-> f, number |-> sent[f] + 1])]
  /\ sent' = [sent EXCEPT ![f] = @ + 1]
  /\ UNCHANGED <<net, outQueue, got>>

Endpoints == (Nodes \ Memories) \X VChannels
Waiting == {e \in Endpoints : nic[e[1]].recv[e[2]] # <<>>}

Next ==
  \/ \E f \in Flows : Push(f)
  \/ \E accept \in SUBSET Waiting, ready \in SUBSET Memories : Cycle(accept, ready)

Spec == Init /\ [][Next]_vars

(* Again and again there is a cycle in which everybody but the stubborn    *)
(* accepts and memory is ready.                                            *)
FairSpec == Spec /\ []<><<Cycle(Endpoints \ Stubborn, Memories)>>_vars
-----------------------------------------------------------------------------
(* The counters that let channels, switches and nodes skip their work      *)
(* agree with the queues, so nothing that waits is overlooked.             *)
CountersMatch ==
  LET Total(q) == Loop(LAMBDA n, v : n + Len(q[v]), 0, VCOrder)
  IN  /\ \A c \in Channels : net.channelWaiting[c] = Total(net.out[From[c]])
      /\ \A n \in Nodes : net.nodeWaiting[n] = Total(net.in[NodePort(n)])
      /\ \A s \in Switches, v \in NetVCs :
           net.switchWaiting[s][v] =
             Loop(LAMBDA k, p : k + Len(net.in[SwitchPort(s, p - 1)][v]), 0, [p \in 1 .. SwitchPorts |-> p])

(* Every message to somebody who is not stubborn arrives, and arrives      *)
(* once, however the others fill the buffers of their virtual channels:    *)
(* requests that nobody takes do not hold up the replies, and memory gets  *)
(* its requests because its replies get through.                           *)
Delivered(f) == Len(got[f]) = sent[f] /\ ToSet(got[f]) = 1 .. sent[f]
AllDelivered == \A f \in AllFlows : <<f.dst, f.vc>> \notin Stubborn => []<>Delivered(f)

(* "Deadlock-free routing tables" (16x3-torus.topology): while a message   *)
(* is under way, a cycle in which everybody accepts and memory is ready    *)
(* moves a message or counts down a timer.  A cycle that does neither only *)
(* turns the order of the ports, and so will all that follow.              *)
DeadlockFree ==
  LET a == Driven(Endpoints, Memories)
  IN  (\E f \in AllFlows : ~Delivered(f)) =>
        a.nic # nic \/ a.outQueue # outQueue \/ [a.net EXCEPT !.start = net.start] # net
=============================================================================
