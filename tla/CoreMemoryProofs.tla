------------------------- MODULE CoreMemoryProofs -------------------------
(***************************************************************************)
(* Proofs about the memory unit of the core: an inductive invariant for    *)
(* every program and all bounds, and the properties that follow from it.   *)
(* The first part is about the calls of CoreMemory, each of which takes a  *)
(* core and returns a core, the second about the messages between the core *)
(* and the L1, the third about the steps.                                  *)
(***************************************************************************)
EXTENDS CoreMemory, FiniteSetTheorems, SequenceTheorems, WellFoundedInduction, NaturalsInduction, TLAPS

-----------------------------------------------------------------------------
(* Types.                                                                  *)

Loaded == {None} \cup UNION {[A -> Values] : A \in SUBSET Bytes}
EntryType ==
  [op : Operations, queue : {"LSQ", "SB"}, access : SUBSET Bytes, data : Values, loaded : Loaded,
   failed : BOOLEAN, override : BOOLEAN, issued : BOOLEAN, partial : BOOLEAN, annulled : BOOLEAN,
   mshr : BOOLEAN, storeComplete : BOOLEAN]
Queues == UNION {[S -> EntryType] : S \in SUBSET Ids}
Messages == {"Load", "Store", "RMW", "CAS", "StorePrefetch"} \X SUBSET Bytes
CoreType ==
  [queue : Queues, mshrs : [Bytes -> MSHR], requests : SUBSET Ids, prefetches : SUBSET Ids,
   outstanding : SUBSET Blocks, permission : [Blocks -> [count : Int, held : BOOLEAN]],
   ports : {None} \cup Messages]

(* The program is one of Programs. *)
Prog == program \in Programs

(* What ProgramsAssumption says of the program that runs.                  *)
LEMMA ProgFacts ==
  ASSUME Prog
  PROVE  /\ Len(program) \in Nat /\ Ids = 1 .. Len(program)
         /\ \A i \in Ids : /\ program[i].op \in Operations
                           /\ program[i].base \in Nat /\ program[i].from \in Nat
                           /\ program[i].access \in [1 .. 2 -> SUBSET Bytes]
                           /\ program[i].slot \in BOOLEAN
                           /\ \A d \in {program[i].base, program[i].from} \ {0} :
                                d < i /\ d \in Ids /\ program[d].op \in {"Load", "RMW", "CAS"}
                           /\ \A v \in 1 .. 2 :
                                /\ program[i].op # "MEMBAR" => program[i].access[v] # {}
                                /\ \A a, b \in program[i].access[v] : BlockOf[a] = BlockOf[b]
<1> DEFINE I == [op : Operations, access : [1 .. 2 -> SUBSET Bytes], base : Nat, from : Nat, slot : BOOLEAN]
<1>1. program \in Seq(I)
  BY ProgramsAssumption DEF Prog
<1> HIDE DEF I
<1>2. Len(program) \in Nat /\ Ids = 1 .. Len(program) /\ \A i \in Ids : program[i] \in I
  BY <1>1 DEF Ids
<1>3. \A i \in Ids : /\ program[i].op \in Operations
                     /\ program[i].base \in Nat /\ program[i].from \in Nat
                     /\ program[i].access \in [1 .. 2 -> SUBSET Bytes]
                     /\ program[i].slot \in BOOLEAN
  BY <1>2 DEF I
<1>4. \A i \in Ids, v \in 1 .. 2 :
         /\ \A d \in {program[i].base, program[i].from} \ {0} : d < i /\ program[d].op \in {"Load", "RMW", "CAS"}
         /\ program[i].op # "MEMBAR" => program[i].access[v] # {}
         /\ \A a, b \in program[i].access[v] : BlockOf[a] = BlockOf[b]
  BY ProgramsAssumption, Zenon DEF Prog, Ids
<1>5. 1 \in 1 .. 2
  OBVIOUS
<1>6. \A i \in Ids : \A d \in {program[i].base, program[i].from} \ {0} :
         d < i /\ program[d].op \in {"Load", "RMW", "CAS"}
  BY <1>4, <1>5
<1>7. \A i \in Ids : \A d \in {program[i].base, program[i].from} \ {0} : d \in Ids
  <2> TAKE i \in Ids
  <2> TAKE d \in {program[i].base, program[i].from} \ {0}
  <2>1. d \in Nat /\ d # 0 /\ d < i /\ i \in 1 .. Len(program)
    BY <1>2, <1>3, <1>6
  <2> QED BY <1>2, <2>1
<1> QED BY <1>2, <1>3, <1>4, <1>6, <1>7

(* A queue is a function on some of the instructions.                      *)
LEMMA QueueType ==
  ASSUME NEW q
  PROVE  q \in Queues <=> DOMAIN q \subseteq Ids /\ q \in [DOMAIN q -> EntryType]
  BY DEF Queues

(* The entries of a core. *)
LEMMA EntryTyped ==
  ASSUME NEW c \in CoreType
  PROVE  /\ DOMAIN c.queue \subseteq Ids
         /\ c.queue = [i \in DOMAIN c.queue |-> c.queue[i]]
         /\ \A i \in DOMAIN c.queue : c.queue[i] \in EntryType
<1>1. c.queue \in Queues
  BY DEF CoreType
<1>2. DOMAIN c.queue \subseteq Ids /\ c.queue \in [DOMAIN c.queue -> EntryType]
  BY <1>1, QueueType
<1> QED BY <1>2

(* A core with another queue. *)
LEMMA NewQueue ==
  ASSUME NEW c \in CoreType, NEW q, DOMAIN q \subseteq Ids,
         q = [i \in DOMAIN q |-> q[i]], \A i \in DOMAIN q : q[i] \in EntryType,
         NEW d, d = [c EXCEPT !.queue = q]
  PROVE  /\ d \in CoreType /\ d.queue = q /\ d.mshrs = c.mshrs /\ d.requests = c.requests
         /\ d.prefetches = c.prefetches /\ d.outstanding = c.outstanding
         /\ d.permission = c.permission /\ d.ports = c.ports
<1>1. q \in Queues
  BY QueueType
<1> QED BY <1>1 DEF CoreType

(* What status says. *)
LEMMA StatusFacts ==
  ASSUME NEW e
  PROVE  /\ status(e) = "AwaitingAddress" <=> ~e.annulled /\ e.op # "MEMBAR" /\ e.access = {}
         /\ status(e) = "Complete" <=>
              /\ ~e.annulled /\ e.op # "MEMBAR" /\ e.access # {}
              /\ IsLoad(e) /\ e.loaded # None /\ (IsAtomic(e) => e.data # 0)
         /\ status(e) = "IssuedToMemory" <=>
              \/ ~e.annulled /\ e.op = "MEMBAR"
              \/ /\ ~e.annulled /\ e.access # {} /\ e.op # "MEMBAR"
                 /\ ~(IsLoad(e) /\ e.loaded # None /\ (IsAtomic(e) => e.data # 0))
                 /\ ~(e.op = "Store" /\ e.data = 0) /\ e.mshr
         /\ status(e) = "AwaitingPort" <=>
              /\ ~e.annulled /\ e.access # {} /\ e.op # "MEMBAR"
              /\ ~(IsLoad(e) /\ e.loaded # None /\ (IsAtomic(e) => e.data # 0))
              /\ ~(e.op = "Store" /\ e.data = 0) /\ ~e.mshr /\ e.issued
         /\ status(e) = "AwaitingIssue" <=>
              /\ ~e.annulled /\ e.access # {} /\ e.op # "MEMBAR"
              /\ ~(e.op = "Store" /\ e.data = 0) /\ ~e.mshr /\ ~e.issued
              /\ e.loaded = None
         /\ status(e) = "AwaitingValue" =>
              /\ ~e.annulled /\ e.access # {} /\ e.op # "MEMBAR"
              /\ ~(IsLoad(e) /\ e.loaded # None /\ (IsAtomic(e) => e.data # 0))
              /\ (e.op = "Store" /\ e.data = 0) \/ (~e.mshr /\ ~e.issued /\ e.loaded # None)
         /\ status(e) \in {"Annulled", "AwaitingAddress", "Complete", "IssuedToMemory", "AwaitingPort",
                           "AwaitingIssue", "AwaitingValue"}
         /\ status(e) = "Annulled" <=> e.annulled
<1> DEFINE ann == e.annulled
           answered == IsLoad(e) /\ e.loaded # None /\ (IsAtomic(e) => e.data # 0)
           rest == IF answered THEN "Complete"
                   ELSE IF e.op = "Store" /\ e.data = 0 THEN "AwaitingValue"
                   ELSE IF e.mshr THEN "IssuedToMemory"
                   ELSE IF e.issued THEN "AwaitingPort"
                   ELSE IF e.loaded # None THEN "AwaitingValue"
                   ELSE "AwaitingIssue"
<1>1. status(e) = IF e.annulled THEN "Annulled"
                  ELSE IF e.op = "MEMBAR" THEN "IssuedToMemory"
                  ELSE IF e.access = {} THEN "AwaitingAddress" ELSE rest
  BY Zenon DEF status, Unresolved
<1> QED BY <1>1 DEF IsLoad, IsAtomic

-----------------------------------------------------------------------------
(* What calls leave alone.                                                 *)

(* Everything of an entry but what doLoad and the arbiter change. *)
Keeps(e, f) ==
  /\ f.op = e.op /\ f.queue = e.queue /\ f.access = e.access /\ f.data = e.data
  /\ f.failed = e.failed /\ f.override = e.override /\ f.annulled = e.annulled
  /\ f.storeComplete = e.storeComplete
(* Everything but issued. *)
KeepsLoad(e, f) == Keeps(e, f) /\ f.loaded = e.loaded /\ f.partial = e.partial /\ f.mshr = e.mshr

(* What a search reads of an entry, and the value of a load with it. *)
Alike(e, f) == f.op = e.op /\ f.access = e.access /\ f.data = e.data /\ f.annulled = e.annulled
SameLoad(e, f) == Alike(e, f) /\ f.loaded = e.loaded

(* The same entries, and the same outside of the queue, the MSHRs and the arbiter. *)
Frame(c, d) ==
  /\ c \in CoreType /\ d \in CoreType
  /\ DOMAIN d.queue = DOMAIN c.queue
  /\ \A i \in DOMAIN c.queue : Keeps(c.queue[i], d.queue[i])
  /\ d.outstanding = c.outstanding /\ d.permission = c.permission /\ d.ports = c.ports

(* Two calls that keep the frame keep it together.                         *)
LEMMA FrameTransitive ==
  ASSUME NEW a, NEW b, NEW c, Frame(a, b), Frame(b, c)
  PROVE  Frame(a, c)
<1>1. \A i \in DOMAIN a.queue : Keeps(a.queue[i], b.queue[i]) /\ Keeps(b.queue[i], c.queue[i])
  BY DEF Frame
<1>2. \A i \in DOMAIN a.queue : Keeps(a.queue[i], c.queue[i])
  BY <1>1 DEF Keeps
<1> QED BY <1>2 DEF Frame

(* The LSQ and the store buffer are the same.                              *)
LEMMA FrameQueues ==
  ASSUME NEW c, NEW d, Frame(c, d)
  PROVE  /\ \A q : InQueue(d, q) = InQueue(c, q)
         /\ LSQHead(d) = LSQHead(c)
<1>1. \A q : InQueue(d, q) = InQueue(c, q)
  BY DEF Frame, Keeps, InQueue
<1> QED BY <1>1 DEF LSQHead

(* The requests of S that the arbiter takes. *)
Granted(c, S) ==
  {i \in S \cap DOMAIN c.queue :
     /\ status(c.queue[i]) \in {"AwaitingIssue", "AwaitingPort"}
     /\ c.queue[i].partial => i = LSQHead(c)}

(* requestPorts: what it grants asks for a port, the rest is left alone.   *)
LEMMA RequestFacts ==
  ASSUME NEW c \in CoreType, NEW S, NEW d, d = requestPorts(c, S)
  PROVE  /\ Frame(c, d) /\ d.mshrs = c.mshrs
         /\ d.requests = c.requests \cup Granted(c, S)
         /\ d.prefetches = c.prefetches \ Granted(c, S)
         /\ \A i \in DOMAIN c.queue :
              /\ KeepsLoad(c.queue[i], d.queue[i])
              /\ d.queue[i].issued = (c.queue[i].issued \/ i \in Granted(c, S))
<1> DEFINE R == Granted(c, S)
           q == [i \in DOMAIN c.queue |-> [c.queue[i] EXCEPT !.issued = @ \/ i \in R]]
<1>1. d = [c EXCEPT !.requests = @ \cup R, !.prefetches = @ \ R, !.queue = q]
  BY DEF requestPorts, Granted
<1>2. R \subseteq DOMAIN c.queue /\ DOMAIN c.queue \subseteq Ids
  BY EntryTyped DEF Granted
<1> HIDE DEF R
<1>3. ASSUME NEW i \in DOMAIN c.queue
      PROVE  /\ q[i] \in EntryType /\ KeepsLoad(c.queue[i], q[i])
             /\ q[i].issued = (c.queue[i].issued \/ i \in R)
  <2>1. c.queue[i] \in EntryType
    BY EntryTyped
  <2>2. q[i] = [c.queue[i] EXCEPT !.issued = @ \/ i \in R]
    OBVIOUS
  <2> QED BY <2>1, <2>2 DEF EntryType, KeepsLoad, Keeps
<1>4. DOMAIN q = DOMAIN c.queue /\ q = [i \in DOMAIN q |-> q[i]]
  OBVIOUS
<1> HIDE DEF q
<1>5. q \in Queues
  BY <1>2, <1>3, <1>4, QueueType
<1>6. /\ d \in CoreType /\ d.mshrs = c.mshrs /\ d.requests = c.requests \cup R
      /\ d.prefetches = c.prefetches \ R /\ d.queue = q
      /\ d.outstanding = c.outstanding /\ d.permission = c.permission /\ d.ports = c.ports
  BY <1>1, <1>2, <1>5 DEF CoreType
<1> QED BY <1>3, <1>4, <1>6 DEF Frame, KeepsLoad, R

(* An entry that has or waits for a port or an MSHR. *)
Engaged(c, i) ==
  \/ c.queue[i].issued \/ c.queue[i].mshr \/ i \in c.requests
  \/ \E k \in Bytes : i \in c.mshrs[k].blocked

(* Wake: the entries an MSHR blocked ask again.                            *)
LEMMA WakeFacts ==
  ASSUME NEW c \in CoreType, NEW m \in MSHR, NEW d, d = Wake(c, m)
  PROVE  /\ Frame(c, d) /\ d.mshrs = c.mshrs
         /\ d.requests = c.requests \cup Granted(c, m.blocked)
         /\ d.prefetches \subseteq c.prefetches \cup DOMAIN c.queue
         /\ \A i \in DOMAIN c.queue :
              /\ KeepsLoad(c.queue[i], d.queue[i])
              /\ d.queue[i].issued = (c.queue[i].issued \/ i \in Granted(c, m.blocked))
<1> DEFINE b == [c EXCEPT !.prefetches = @ \cup (m.prefetches \cap DOMAIN c.queue)]
<1>1. d = requestPorts(b, m.blocked)
  BY DEF Wake
<1>2. /\ b \in CoreType /\ b.queue = c.queue /\ b.mshrs = c.mshrs /\ b.requests = c.requests
      /\ b.prefetches = c.prefetches \cup (m.prefetches \cap DOMAIN c.queue)
      /\ b.outstanding = c.outstanding /\ b.permission = c.permission /\ b.ports = c.ports
  <2>1. DOMAIN c.queue \subseteq Ids
    BY EntryTyped
  <2> QED BY <2>1 DEF CoreType
<1> HIDE DEF b
<1>3. Granted(b, m.blocked) = Granted(c, m.blocked)
  BY <1>2 DEF Granted, LSQHead, InQueue
<1> QED BY <1>1, <1>2, <1>3, RequestFacts DEF Frame

(* The first of some numbers. *)
LEMMA FirstOf ==
  ASSUME NEW S, S \subseteq Nat, S # {}
  PROVE  \E m \in S : \A k \in S : m <= k
<1> DEFINE R == OpToRel(<, Nat)
<1>1. IsWellFoundedOn(R, Nat)
  BY NatLessThanWellFounded
<1>2. \A x, y \in Nat : <<x, y>> \in R <=> x < y
  BY DEF OpToRel
<1> HIDE DEF R
<1>3. PICK m \in S : \A k \in S : ~(<<k, m>> \in R)
  BY <1>1, WFMin
<1>4. m \in Nat /\ \A k \in S : k \in Nat /\ ~(k < m)
  BY <1>2, <1>3
<1>5. \A k \in S : m <= k
  BY <1>4
<1> QED BY <1>5

(* Min of numbers is the least of them.                                    *)
LEMMA MinFacts ==
  ASSUME NEW S, S \subseteq Nat, S # {}
  PROVE  Min(S) \in S /\ \A k \in S : Min(S) <= k
<1>1. \E m \in S : \A k \in S : m <= k
  BY FirstOf
<1> QED BY <1>1 DEF Min

(* The least byte of an access is one of its bytes.                        *)
LEMMA MinByte ==
  ASSUME NEW A, A \subseteq Bytes, A # {}
  PROVE  Min(A) \in A /\ Min(A) \in Bytes
<1>1. A \subseteq Nat
  BY BytesAssumption
<1> QED BY <1>1, MinFacts

(* The address of an entry is a byte. *)
LEMMA PaddrByte ==
  ASSUME NEW e \in EntryType, e.access # {}
  PROVE  paddr(e) \in Bytes /\ paddr(e) \in e.access
<1>1. e.access \subseteq Bytes
  BY DEF EntryType
<1> QED BY <1>1, MinByte DEF paddr

(* One entry is replaced. *)
LEMMA SetEntry ==
  ASSUME NEW c \in CoreType, NEW i \in DOMAIN c.queue, NEW e \in EntryType,
         NEW d, d = [c EXCEPT !.queue[i] = e]
  PROVE  /\ d \in CoreType /\ DOMAIN d.queue = DOMAIN c.queue /\ d.queue[i] = e
         /\ \A j \in DOMAIN c.queue : j # i => d.queue[j] = c.queue[j]
         /\ d.mshrs = c.mshrs /\ d.requests = c.requests
         /\ d.prefetches = c.prefetches /\ d.outstanding = c.outstanding
         /\ d.permission = c.permission /\ d.ports = c.ports
<1> DEFINE q == [c.queue EXCEPT ![i] = e]
<1>1. /\ DOMAIN q = DOMAIN c.queue /\ q = [j \in DOMAIN q |-> q[j]] /\ q[i] = e
      /\ \A j \in DOMAIN c.queue : j # i => q[j] = c.queue[j]
  OBVIOUS
<1>2. d = [c EXCEPT !.queue = q]
  BY DEF CoreType
<1> HIDE DEF q
<1>3. DOMAIN q \subseteq Ids /\ \A j \in DOMAIN q : q[j] \in EntryType
  BY <1>1, EntryTyped
<1> QED BY <1>1, <1>2, <1>3, NewQueue

(* One MSHR is replaced. *)
LEMMA SetMSHR ==
  ASSUME NEW c \in CoreType, NEW k \in Bytes, NEW m \in MSHR, NEW d, d = [c EXCEPT !.mshrs[k] = m]
  PROVE  /\ d \in CoreType /\ d.mshrs[k] = m
         /\ \A j \in Bytes : j # k => d.mshrs[j] = c.mshrs[j]
         /\ d.queue = c.queue /\ d.requests = c.requests
         /\ d.prefetches = c.prefetches /\ d.outstanding = c.outstanding
         /\ d.permission = c.permission /\ d.ports = c.ports
<1> DEFINE n == [c.mshrs EXCEPT ![k] = m]
<1>1. c.mshrs \in [Bytes -> MSHR]
  BY DEF CoreType
<1>2. n \in [Bytes -> MSHR] /\ n[k] = m /\ \A j \in Bytes : j # k => n[j] = c.mshrs[j]
  BY <1>1
<1>3. d = [c EXCEPT !.mshrs = n]
  BY DEF CoreType
<1> HIDE DEF n
<1> QED BY <1>2, <1>3 DEF CoreType

(* A free MSHR is one.                                                     *)
LEMMA NoMSHRType == NoMSHR \in MSHR
  BY DEF NoMSHR, MSHR, Unresolved

(* What breaking the link of an entry frees. *)
Freed(c, i) == c.queue[i].mshr /\ c.mshrs[paddr(c.queue[i])].waiting \ {i} = {}
Woken(c, i) == IF Freed(c, i) THEN Granted(c, c.mshrs[paddr(c.queue[i])].blocked) \ {i} ELSE {}

(* breakMSHRLink: the entry is unlinked, an MSHR without waiters is freed  *)
(* and what it blocked is woken.                                           *)
LEMMA BreakFacts ==
  ASSUME NEW c \in CoreType, NEW i \in DOMAIN c.queue, c.queue[i].mshr => c.queue[i].access # {},
         NEW d, d = breakMSHRLink(c, i)
  PROVE  /\ Frame(c, d)
         /\ \A j \in DOMAIN c.queue \ {i} :
              /\ KeepsLoad(c.queue[j], d.queue[j])
              /\ d.queue[j].issued = (c.queue[j].issued \/ j \in Woken(c, i))
         /\ d.queue[i].loaded = c.queue[i].loaded /\ d.queue[i].partial = c.queue[i].partial
         /\ ~d.queue[i].mshr /\ ~d.queue[i].issued
         /\ d.requests = c.requests \cup Woken(c, i)
         /\ d.prefetches \subseteq c.prefetches \cup DOMAIN c.queue
         /\ ~c.queue[i].mshr => d.mshrs = c.mshrs
         /\ c.queue[i].mshr =>
              /\ \A k \in Bytes : k # paddr(c.queue[i]) => d.mshrs[k] = c.mshrs[k]
              /\ d.mshrs[paddr(c.queue[i])] =
                   IF Freed(c, i) THEN NoMSHR
                   ELSE [c.mshrs[paddr(c.queue[i])] EXCEPT !.waiting = @ \ {i}]
<1> DEFINE e == c.queue[i]
           k == paddr(e)
           m == c.mshrs[k]
           a == [c EXCEPT !.queue[i].issued = FALSE]
           f == [e EXCEPT !.issued = FALSE]
           u == [a EXCEPT !.mshrs[k].waiting = @ \ {i}]
           n == [a EXCEPT !.mshrs[k] = NoMSHR]
           w == Wake(n, m)
           v == IF u.mshrs[k].waiting = {} THEN w ELSE u
<1>0. e \in EntryType /\ c.mshrs \in [Bytes -> MSHR]
  BY EntryTyped DEF CoreType
<1>b. \A j \in DOMAIN c.queue : c.queue[j].issued \in BOOLEAN
  BY EntryTyped DEF EntryType
<1>1. d = IF e.mshr THEN [v EXCEPT !.queue[i].mshr = FALSE] ELSE a
  BY DEF breakMSHRLink
<1>2. a = [c EXCEPT !.queue[i] = f]
  BY DEF CoreType
<1>3. f \in EntryType /\ KeepsLoad(e, f) /\ ~f.issued
  BY <1>0 DEF EntryType, KeepsLoad, Keeps
<1> HIDE DEF f, a
<1>4. /\ a \in CoreType /\ DOMAIN a.queue = DOMAIN c.queue /\ a.queue[i] = f
      /\ \A j \in DOMAIN c.queue : j # i => a.queue[j] = c.queue[j]
      /\ a.mshrs = c.mshrs /\ a.requests = c.requests
      /\ a.prefetches = c.prefetches /\ a.outstanding = c.outstanding
      /\ a.permission = c.permission /\ a.ports = c.ports
  BY <1>2, <1>3, SetEntry
<1>5. Frame(c, a)
  BY <1>3, <1>4 DEF Frame, KeepsLoad, Keeps
<1>6. CASE ~e.mshr
  <2>1. d = a /\ Woken(c, i) = {}
    BY <1>1, <1>6 DEF Woken, Freed
  <2> QED BY <1>b, <1>3, <1>4, <1>5, <1>6, <2>1 DEF KeepsLoad, Keeps
<1>7. CASE e.mshr
  <2>1. k \in Bytes /\ m \in MSHR
    BY <1>0, <1>7, PaddrByte
  <2> DEFINE l == [m EXCEPT !.waiting = @ \ {i}]
  <2>2. l \in MSHR /\ l.waiting = m.waiting \ {i}
    BY <2>1 DEF MSHR
  <2>3. u = [a EXCEPT !.mshrs[k] = l]
    BY <1>4 DEF CoreType
  <2> HIDE DEF l, u
  <2>4. /\ u \in CoreType /\ u.mshrs[k] = l
        /\ \A j \in Bytes : j # k => u.mshrs[j] = a.mshrs[j]
        /\ u.queue = a.queue /\ u.requests = a.requests
        /\ u.prefetches = a.prefetches /\ u.outstanding = a.outstanding
        /\ u.permission = a.permission /\ u.ports = a.ports
    BY <1>4, <2>1, <2>2, <2>3, SetMSHR
  <2>5. Freed(c, i) <=> u.mshrs[k].waiting = {}
    BY <1>7, <2>2, <2>4 DEF Freed
  <2> DEFINE g == [v.queue[i] EXCEPT !.mshr = FALSE]
  <2>6. CASE ~Freed(c, i)
    <3>1. v = u
      BY <2>5, <2>6
    <3>2. d = [u EXCEPT !.queue[i] = g]
      BY <1>1, <1>7, <2>4, <3>1 DEF CoreType
    <3>3. g \in EntryType /\ Keeps(f, g) /\ g.loaded = f.loaded /\ g.partial = f.partial /\ ~g.mshr /\ ~g.issued
      BY <1>3, <1>4, <2>4, <3>1 DEF EntryType, Keeps
    <3> HIDE DEF g, v
    <3>4. /\ d \in CoreType /\ DOMAIN d.queue = DOMAIN u.queue /\ d.queue[i] = g
          /\ \A j \in DOMAIN u.queue : j # i => d.queue[j] = u.queue[j]
          /\ d.mshrs = u.mshrs /\ d.requests = u.requests
          /\ d.prefetches = u.prefetches /\ d.outstanding = u.outstanding
          /\ d.permission = u.permission /\ d.ports = u.ports
      BY <1>4, <2>4, <3>2, <3>3, SetEntry
    <3>5. Woken(c, i) = {}
      BY <2>6 DEF Woken
    <3>6. Frame(c, d)
      BY <1>3, <1>4, <2>4, <3>3, <3>4 DEF Frame, KeepsLoad, Keeps
    <3>7. \A j \in DOMAIN c.queue \ {i} : d.queue[j] = c.queue[j]
      BY <1>4, <2>4, <3>4
    <3>8. d.queue[i].loaded = e.loaded /\ d.queue[i].partial = e.partial /\ ~d.queue[i].mshr /\ ~d.queue[i].issued
      BY <1>3, <3>3, <3>4 DEF KeepsLoad
    <3>9. d.mshrs[k] = l /\ \A j \in Bytes : j # k => d.mshrs[j] = c.mshrs[j]
      BY <1>4, <2>4, <3>4
    <3> QED BY <1>b, <1>4, <1>7, <2>4, <2>6, <3>4, <3>5, <3>6, <3>7, <3>8, <3>9 DEF KeepsLoad, Keeps, l
  <2>7. CASE Freed(c, i)
    <3>1. v = w
      BY <2>5, <2>7
    <3>2. /\ n \in CoreType /\ n.mshrs[k] = NoMSHR
          /\ \A j \in Bytes : j # k => n.mshrs[j] = a.mshrs[j]
          /\ n.queue = a.queue /\ n.requests = a.requests
          /\ n.prefetches = a.prefetches /\ n.outstanding = a.outstanding
          /\ n.permission = a.permission /\ n.ports = a.ports
      BY <1>4, <2>1, NoMSHRType, SetMSHR
    <3> HIDE DEF n
    <3>3. Frame(c, n)
      BY <1>3, <1>4, <3>2 DEF Frame, KeepsLoad, Keeps
    <3>4. Granted(n, m.blocked) = Woken(c, i)
      <4>1. LSQHead(n) = LSQHead(c)
        BY <3>3, FrameQueues
      <4>2. i \notin Granted(n, m.blocked)
        <5>1. n.queue[i] = f /\ f.mshr
          BY <1>3, <1>4, <1>7, <3>2 DEF KeepsLoad
        <5>2. status(f) \notin {"AwaitingIssue", "AwaitingPort"}
          BY <5>1, StatusFacts
        <5> QED BY <5>1, <5>2 DEF Granted
      <4>3. \A j \in DOMAIN c.queue \ {i} : n.queue[j] = c.queue[j]
        BY <1>4, <3>2
      <4>4. DOMAIN n.queue = DOMAIN c.queue
        BY <1>4, <3>2
      <4> QED BY <2>7, <4>1, <4>2, <4>3, <4>4 DEF Granted, Woken
    <3>5. /\ Frame(n, w) /\ w.mshrs = n.mshrs
          /\ w.requests = n.requests \cup Woken(c, i)
          /\ w.prefetches \subseteq n.prefetches \cup DOMAIN n.queue
          /\ \A j \in DOMAIN n.queue :
               /\ KeepsLoad(n.queue[j], w.queue[j])
               /\ w.queue[j].issued = (n.queue[j].issued \/ j \in Woken(c, i))
      BY <2>1, <3>2, <3>4, WakeFacts
    <3> HIDE DEF w, v
    <3>6. /\ w \in CoreType /\ i \in DOMAIN w.queue /\ DOMAIN w.queue = DOMAIN c.queue
          /\ w.queue[i] \in EntryType /\ KeepsLoad(f, w.queue[i])
          /\ ~w.queue[i].issued
      <4>1. w \in CoreType /\ i \in DOMAIN w.queue /\ DOMAIN w.queue = DOMAIN c.queue
        BY <1>4, <3>2, <3>5 DEF Frame
      <4>2. i \notin Woken(c, i)
        BY DEF Woken
      <4>3. KeepsLoad(f, w.queue[i]) /\ w.queue[i].issued = (f.issued \/ i \in Woken(c, i))
        BY <1>4, <3>2, <3>5
      <4> QED BY <1>3, <4>1, <4>2, <4>3, EntryTyped
    <3>7. d = [w EXCEPT !.queue[i] = g]
      BY <1>1, <1>7, <3>1, <3>6 DEF CoreType
    <3>8. g \in EntryType /\ Keeps(f, g) /\ g.loaded = f.loaded /\ g.partial = f.partial /\ ~g.mshr /\ ~g.issued
      BY <3>1, <3>6 DEF EntryType, Keeps, KeepsLoad
    <3> HIDE DEF g
    <3>9. /\ d \in CoreType /\ DOMAIN d.queue = DOMAIN w.queue /\ d.queue[i] = g
          /\ \A j \in DOMAIN w.queue : j # i => d.queue[j] = w.queue[j]
          /\ d.mshrs = w.mshrs /\ d.requests = w.requests
          /\ d.prefetches = w.prefetches /\ d.outstanding = w.outstanding
          /\ d.permission = w.permission /\ d.ports = w.ports
      BY <3>6, <3>7, <3>8, SetEntry
    <3>10. \A j \in DOMAIN c.queue \ {i} :
              /\ KeepsLoad(c.queue[j], d.queue[j])
              /\ d.queue[j].issued = (c.queue[j].issued \/ j \in Woken(c, i))
      BY <1>4, <3>2, <3>5, <3>6, <3>9
    <3>11. Keeps(e, d.queue[i]) /\ d.queue[i].loaded = e.loaded /\ d.queue[i].partial = e.partial
           /\ ~d.queue[i].mshr /\ ~d.queue[i].issued
      BY <1>3, <3>8, <3>9 DEF KeepsLoad, Keeps
    <3>12. Frame(c, d)
      BY <1>4, <3>2, <3>5, <3>6, <3>9, <3>10, <3>11 DEF Frame, KeepsLoad
    <3>13. d.mshrs[k] = NoMSHR /\ \A j \in Bytes : j # k => d.mshrs[j] = c.mshrs[j]
      BY <1>4, <3>2, <3>5, <3>9
    <3>14. d.requests = c.requests \cup Woken(c, i) /\ d.prefetches \subseteq c.prefetches \cup DOMAIN c.queue
      BY <1>4, <3>2, <3>5, <3>9
    <3> QED BY <1>7, <2>7, <3>10, <3>11, <3>12, <3>13, <3>14
  <2> QED BY <2>6, <2>7
<1> QED BY <1>6, <1>7

(* Max of instructions is the greatest of them.                            *)
LEMMA MaxFacts ==
  ASSUME NEW N \in Nat, NEW S, S \subseteq 1 .. N, S # {}
  PROVE  Max(S) \in S /\ \A k \in S : k <= Max(S)
<1> DEFINE D == {N - k : k \in S}
<1>0. \A k \in S : N - k \in Nat
  OBVIOUS
<1>1. D \subseteq Nat /\ D # {}
  BY <1>0, Zenon
<1>2. PICK m \in D : \A k \in D : m <= k
  <2> HIDE DEF D
  <2> QED BY <1>1, FirstOf
<1>3. PICK x \in S : m = N - x
  BY <1>2
<1>4. \A k \in S : k <= x
  <2> TAKE k \in S
  <2>1. N - k \in D
    OBVIOUS
  <2>2. m <= N - k
    BY <1>2, <2>1
  <2> QED BY <1>3, <2>2
<1>5. \E y \in S : \A k \in S : y >= k
  BY <1>4
<1>6. Max(S) \in S /\ \A k \in S : Max(S) >= k
  BY <1>5 DEF Max
<1> QED BY <1>6

-----------------------------------------------------------------------------
(* The invariant of the core.                                              *)

Least(c, i) == \A j \in DOMAIN c.queue : i <= j

(* The first lines are about stores and atomics: a store leaves the LSQ    *)
(* with address and value, only the oldest entry is issued, and what an    *)
(* atomic read is kept with it.                                            *)
EntryOK(c, i) ==
  LET e == c.queue[i]
  IN  /\ e.queue = "SB" => e.op = "Store" /\ e.access # {} /\ e.data # 0
      /\ IsStore(e) /\ Engaged(c, i) => e.data # 0 /\ Least(c, i) /\ (e.op = "Store" => e.queue = "SB")
      /\ e.storeComplete <=> IsAtomic(e) /\ e.loaded # None
      /\ e.storeComplete => Least(c, i) /\ e.data # 0
      /\ e.failed => e.storeComplete
      /\ e.op = program[i].op
      /\ e.op = "MEMBAR" => e.access = {}
      /\ e.op = "Store" => e.loaded = None
      /\ e.access = {} \/ \E v \in 1 .. 2 : e.access = program[i].access[v]
      /\ e.loaded # None => e.loaded \in [e.access -> Values]
      /\ e.annulled => e.op \notin {"Load", "MEMBAR"}
      /\ e.partial => e.op = "Load"
      /\ e.issued => e.access # {}
      /\ e.mshr => e.op # "MEMBAR" /\ e.access # {} /\ e.loaded = None

Linked(c) ==
  /\ \A k \in Bytes :
       LET m == c.mshrs[k]
       IN  /\ m = NoMSHR \/ m.waiting # {}
           /\ m.blocked \subseteq DOMAIN c.queue
           /\ m.op # "Load" => \A i, j \in m.waiting : i = j
           /\ \A i \in m.waiting : /\ i \in DOMAIN c.queue /\ c.queue[i].mshr
                                   /\ c.queue[i].access = m.access /\ c.queue[i].op = m.op
                                   /\ paddr(c.queue[i]) = k
  /\ \A i \in DOMAIN c.queue : c.queue[i].mshr => i \in c.mshrs[paddr(c.queue[i])].waiting

SBOrder(c) == \A i \in InQueue(c, "SB"), j \in InQueue(c, "LSQ") : i < j

NoPartial(c) == \A i \in DOMAIN c.queue : ~c.queue[i].partial
PortsKnown(c, X) ==
  \A i \in DOMAIN c.queue \ X : status(c.queue[i]) = "AwaitingPort" =>
    i \in c.requests \/ i \in c.mshrs[paddr(c.queue[i])].blocked

CoreInvBut(c, X) ==
  /\ c \in CoreType
  /\ c.requests \subseteq DOMAIN c.queue /\ c.prefetches \subseteq DOMAIN c.queue
  /\ \A i \in DOMAIN c.queue : EntryOK(c, i)
  /\ Linked(c)
  /\ SBOrder(c)
  /\ SameSize => NoPartial(c) /\ PortsKnown(c, X)

CoreInv(c) == CoreInvBut(c, {})

(* What doLoad and the calls in it may do. *)
Loading(c, d) ==
  /\ Frame(c, d)
  /\ d.requests \subseteq DOMAIN c.queue /\ d.prefetches \subseteq DOMAIN c.queue
  /\ \A j \in DOMAIN c.queue :
       LET e == c.queue[j]
           f == d.queue[j]
       IN  /\ \/ f.loaded = e.loaded
              \/ e.op = "Load" /\ (f.loaded = None \/ f.loaded \in [e.access -> Values])
           /\ e.op # "Load" => f.partial = e.partial
           /\ f.mshr => e.mshr /\ f.loaded = e.loaded
           /\ IsStore(e) /\ Engaged(d, j) => Engaged(c, j)
           /\ f.issued => e.issued \/ e.access # {}

(* Two calls of that kind are one.                                         *)
LEMMA LoadingTransitive ==
  ASSUME NEW a, NEW b, NEW c, Loading(a, b), Loading(b, c)
  PROVE  Loading(a, c)
<1>1. Frame(a, c)
  BY FrameTransitive DEF Loading
<1>2. DOMAIN b.queue = DOMAIN a.queue /\ \A j \in DOMAIN a.queue : Keeps(a.queue[j], b.queue[j])
  BY DEF Loading, Frame
<1> QED BY <1>1, <1>2 DEF Loading, Keeps, IsStore, IsAtomic

(* They keep what is known of each entry.                                  *)
LEMMA LoadingEntries ==
  ASSUME NEW c, NEW d, Loading(c, d), \A i \in DOMAIN c.queue : EntryOK(c, i), SBOrder(c)
  PROVE  (\A i \in DOMAIN d.queue : EntryOK(d, i)) /\ SBOrder(d)
<1>1. DOMAIN d.queue = DOMAIN c.queue /\ \A j \in DOMAIN c.queue : Keeps(c.queue[j], d.queue[j])
  BY DEF Loading, Frame
<1>2. \A i : Least(d, i) <=> Least(c, i)
  BY <1>1 DEF Least
<1>3. ASSUME NEW i \in DOMAIN c.queue PROVE EntryOK(d, i)
  <2> DEFINE e == c.queue[i]
             f == d.queue[i]
  <2>1. EntryOK(c, i) /\ Keeps(e, f)
    BY <1>1
  <2>2. /\ \/ f.loaded = e.loaded
           \/ e.op = "Load" /\ (f.loaded = None \/ f.loaded \in [e.access -> Values])
        /\ e.op # "Load" => f.partial = e.partial
        /\ f.mshr => e.mshr /\ f.loaded = e.loaded
        /\ IsStore(e) /\ Engaged(d, i) => Engaged(c, i)
        /\ f.issued => e.issued \/ e.access # {}
    BY DEF Loading
  <2>3. (IsStore(f) <=> IsStore(e)) /\ (IsAtomic(f) <=> IsAtomic(e))
    BY <2>1 DEF Keeps, IsStore, IsAtomic
  <2>4. IsAtomic(e) => e.op # "Load"
    BY DEF IsAtomic
  <2> HIDE DEF e, f
  <2>5. EntryOK(c, i) <=>
          /\ e.queue = "SB" => e.op = "Store" /\ e.access # {} /\ e.data # 0
          /\ IsStore(e) /\ Engaged(c, i) => e.data # 0 /\ Least(c, i) /\ (e.op = "Store" => e.queue = "SB")
          /\ e.storeComplete <=> IsAtomic(e) /\ e.loaded # None
          /\ e.storeComplete => Least(c, i) /\ e.data # 0
          /\ e.failed => e.storeComplete
          /\ e.op = program[i].op
          /\ e.op = "MEMBAR" => e.access = {}
          /\ e.op = "Store" => e.loaded = None
          /\ e.access = {} \/ \E v \in 1 .. 2 : e.access = program[i].access[v]
          /\ e.loaded # None => e.loaded \in [e.access -> Values]
          /\ e.annulled => e.op \notin {"Load", "MEMBAR"}
          /\ e.partial => e.op = "Load"
          /\ e.issued => e.access # {}
          /\ e.mshr => e.op # "MEMBAR" /\ e.access # {} /\ e.loaded = None
    BY DEF EntryOK, e
  <2>6. EntryOK(d, i) <=>
          /\ f.queue = "SB" => f.op = "Store" /\ f.access # {} /\ f.data # 0
          /\ IsStore(f) /\ Engaged(d, i) => f.data # 0 /\ Least(d, i) /\ (f.op = "Store" => f.queue = "SB")
          /\ f.storeComplete <=> IsAtomic(f) /\ f.loaded # None
          /\ f.storeComplete => Least(d, i) /\ f.data # 0
          /\ f.failed => f.storeComplete
          /\ f.op = program[i].op
          /\ f.op = "MEMBAR" => f.access = {}
          /\ f.op = "Store" => f.loaded = None
          /\ f.access = {} \/ \E v \in 1 .. 2 : f.access = program[i].access[v]
          /\ f.loaded # None => f.loaded \in [f.access -> Values]
          /\ f.annulled => f.op \notin {"Load", "MEMBAR"}
          /\ f.partial => f.op = "Load"
          /\ f.issued => f.access # {}
          /\ f.mshr => f.op # "MEMBAR" /\ f.access # {} /\ f.loaded = None
    BY DEF EntryOK, f
  <2> QED BY <1>2, <2>1, <2>2, <2>3, <2>4, <2>5, <2>6 DEF Keeps
<1>4. SBOrder(d)
  <2>1. \A q : InQueue(d, q) = InQueue(c, q)
    BY <1>1 DEF Keeps, InQueue
  <2> QED BY <2>1 DEF SBOrder
<1> QED BY <1>1, <1>3, <1>4

(* breakMSHRLink keeps the invariant of the core.                          *)
LEMMA BreakKeeps ==
  ASSUME NEW c, NEW X, CoreInvBut(c, X), NEW i \in DOMAIN c.queue, NEW d, d = breakMSHRLink(c, i)
  PROVE  /\ Loading(c, d) /\ CoreInvBut(d, X)
         /\ \A j \in DOMAIN c.queue \ {i} : KeepsLoad(c.queue[j], d.queue[j])
         /\ d.queue[i].loaded = c.queue[i].loaded /\ d.queue[i].partial = c.queue[i].partial
         /\ ~d.queue[i].mshr /\ ~d.queue[i].issued
<1>1. c \in CoreType /\ EntryOK(c, i) /\ Linked(c)
  BY DEF CoreInvBut
<1>2. c.queue[i].mshr => c.queue[i].access # {}
  BY <1>1 DEF EntryOK
<1> DEFINE k == paddr(c.queue[i])
           W == Woken(c, i)
<1>3. /\ Frame(c, d)
      /\ \A j \in DOMAIN c.queue \ {i} :
           /\ KeepsLoad(c.queue[j], d.queue[j])
           /\ d.queue[j].issued = (c.queue[j].issued \/ j \in W)
      /\ d.queue[i].loaded = c.queue[i].loaded /\ d.queue[i].partial = c.queue[i].partial
      /\ ~d.queue[i].mshr /\ ~d.queue[i].issued
      /\ d.requests = c.requests \cup W
      /\ d.prefetches \subseteq c.prefetches \cup DOMAIN c.queue
      /\ ~c.queue[i].mshr => d.mshrs = c.mshrs
      /\ c.queue[i].mshr =>
           /\ \A x \in Bytes : x # k => d.mshrs[x] = c.mshrs[x]
           /\ d.mshrs[k] = IF Freed(c, i) THEN NoMSHR ELSE [c.mshrs[k] EXCEPT !.waiting = @ \ {i}]
  BY <1>1, <1>2, BreakFacts
<1>4. c.queue[i].mshr => k \in Bytes /\ c.mshrs[k] \in MSHR
  BY <1>1, <1>2, EntryTyped, PaddrByte DEF CoreType
<1>5. /\ W \subseteq DOMAIN c.queue \ {i}
      /\ W # {} => c.queue[i].mshr /\ Freed(c, i)
      /\ Freed(c, i) => c.queue[i].mshr /\ W \subseteq c.mshrs[k].blocked
      /\ Freed(c, i) => \A j \in c.mshrs[k].blocked \ {i} :
           j \in DOMAIN c.queue /\ status(c.queue[j]) = "AwaitingPort" /\ ~c.queue[j].partial => j \in W
  BY DEF Woken, Granted, Freed
<1> HIDE DEF W, k
<1>6. \A x \in Bytes : /\ d.mshrs[x].blocked \subseteq c.mshrs[x].blocked
                       /\ ~(Freed(c, i) /\ x = k) => d.mshrs[x].blocked = c.mshrs[x].blocked
  <2>1. NoMSHR.blocked = {}
    BY DEF NoMSHR
  <2>2. c.queue[i].mshr => [c.mshrs[k] EXCEPT !.waiting = @ \ {i}].blocked = c.mshrs[k].blocked
    BY <1>4 DEF MSHR
  <2> QED BY <1>3, <2>1, <2>2
<1>7. \A j \in DOMAIN c.queue : Engaged(d, j) => Engaged(c, j)
  <2> SUFFICES ASSUME NEW j \in DOMAIN c.queue, Engaged(d, j) PROVE Engaged(c, j)
    OBVIOUS
  <2>1. j \in W => \E x \in Bytes : j \in c.mshrs[x].blocked
    BY <1>4, <1>5
  <2>2. d.queue[j].issued => c.queue[j].issued \/ j \in W
    BY <1>3
  <2>3. d.queue[j].mshr => c.queue[j].mshr
    BY <1>3 DEF KeepsLoad
  <2>4. j \in d.requests => j \in c.requests \/ j \in W
    BY <1>3
  <2> QED BY <1>6, <2>1, <2>2, <2>3, <2>4 DEF Engaged
<1>8. Loading(c, d)
  <2>1. d.requests \subseteq DOMAIN c.queue /\ d.prefetches \subseteq DOMAIN c.queue
    BY <1>3, <1>5 DEF CoreInvBut
  <2>2. \A j \in W : c.queue[j].access # {}
    BY StatusFacts DEF W, Woken, Granted
  <2>3. \A j \in DOMAIN c.queue : d.queue[j].issued => c.queue[j].issued \/ c.queue[j].access # {}
    BY <1>3, <2>2
  <2> QED BY <1>3, <1>7, <2>1, <2>3 DEF Loading, KeepsLoad
<1>9. (\A j \in DOMAIN d.queue : EntryOK(d, j)) /\ SBOrder(d)
  BY <1>8, LoadingEntries DEF CoreInvBut
<1>10. \A x \in Bytes : d.mshrs[x].waiting = c.mshrs[x].waiting \ {i}
  <2>1. NoMSHR.waiting = {}
    BY DEF NoMSHR
  <2>2. c.queue[i].mshr => [c.mshrs[k] EXCEPT !.waiting = @ \ {i}].waiting = c.mshrs[k].waiting \ {i}
    BY <1>4 DEF MSHR
  <2>3. \A x \in Bytes : i \in c.mshrs[x].waiting => c.queue[i].mshr /\ x = k
    BY <1>1 DEF Linked, k
  <2>4. Freed(c, i) => c.mshrs[k].waiting \ {i} = {}
    BY DEF Freed, k
  <2> QED BY <1>3, <2>1, <2>2, <2>3, <2>4
<1>11. Linked(d)
  <2>1. ASSUME NEW x \in Bytes
        PROVE  LET m == d.mshrs[x]
               IN  /\ m = NoMSHR \/ m.waiting # {}
                   /\ m.blocked \subseteq DOMAIN d.queue
                   /\ m.op # "Load" => \A a, j \in m.waiting : a = j
                   /\ \A a \in m.waiting : /\ a \in DOMAIN d.queue /\ d.queue[a].mshr
                                           /\ d.queue[a].access = m.access /\ d.queue[a].op = m.op
                                           /\ paddr(d.queue[a]) = x
    <3> DEFINE m == d.mshrs[x]
               n == c.mshrs[x]
    <3>1. DOMAIN d.queue = DOMAIN c.queue
      BY <1>3 DEF Frame
    <3>2. /\ n = NoMSHR \/ n.waiting # {}
          /\ n.blocked \subseteq DOMAIN c.queue
          /\ n.op # "Load" => \A a, j \in n.waiting : a = j
          /\ \A a \in n.waiting : /\ a \in DOMAIN c.queue /\ c.queue[a].mshr
                                  /\ c.queue[a].access = n.access /\ c.queue[a].op = n.op
                                  /\ paddr(c.queue[a]) = x
      BY <1>1 DEF Linked
    <3>3. m.waiting = n.waiting \ {i} /\ m.blocked \subseteq n.blocked
      BY <1>6, <1>10
    <3>4. m = NoMSHR \/ (m.op = n.op /\ m.access = n.access)
      <4>1. c.queue[i].mshr => /\ [c.mshrs[k] EXCEPT !.waiting = @ \ {i}].op = c.mshrs[k].op
                               /\ [c.mshrs[k] EXCEPT !.waiting = @ \ {i}].access = c.mshrs[k].access
        BY <1>4 DEF MSHR
      <4> QED BY <1>3, <4>1
    <3>5. m = NoMSHR \/ m.waiting # {}
      <4>1. CASE c.queue[i].mshr /\ x = k
        BY <1>3, <3>3, <4>1 DEF Freed, k
      <4>2. CASE ~(c.queue[i].mshr /\ x = k)
        BY <1>3, <3>2, <4>2
      <4> QED BY <4>1, <4>2
    <3>6. NoMSHR.waiting = {}
      BY DEF NoMSHR
    <3>7. \A a \in m.waiting : a \in DOMAIN c.queue \ {i} /\ KeepsLoad(c.queue[a], d.queue[a])
      BY <1>3, <3>2, <3>3
    <3> HIDE DEF m, n
    <3>8. \A a \in m.waiting : m.op = n.op /\ m.access = n.access
      BY <3>4, <3>6
    <3>9. \A a \in m.waiting : paddr(d.queue[a]) = paddr(c.queue[a])
      BY <3>7 DEF KeepsLoad, Keeps, paddr
    <3>10. \A a \in m.waiting : d.queue[a].mshr /\ d.queue[a].access = m.access /\ d.queue[a].op = m.op
      BY <3>2, <3>3, <3>7, <3>8 DEF KeepsLoad, Keeps
    <3>11. m.op # "Load" => \A a, j \in m.waiting : a = j
      BY <3>2, <3>3, <3>4, <3>6
    <3> QED BY <3>1, <3>2, <3>3, <3>5, <3>7, <3>9, <3>10, <3>11 DEF m
  <2>2. ASSUME NEW j \in DOMAIN d.queue, d.queue[j].mshr PROVE j \in d.mshrs[paddr(d.queue[j])].waiting
    <3>1. j \in DOMAIN c.queue \ {i} /\ KeepsLoad(c.queue[j], d.queue[j])
      BY <1>3, <2>2 DEF Frame
    <3>2. c.queue[j].mshr /\ paddr(d.queue[j]) = paddr(c.queue[j])
      BY <2>2, <3>1 DEF KeepsLoad, Keeps, paddr
    <3>3. c.queue[j].access # {} /\ c.queue[j] \in EntryType
      BY <1>1, <3>1, <3>2, EntryTyped DEF CoreInvBut, EntryOK
    <3>4. paddr(c.queue[j]) \in Bytes /\ j \in c.mshrs[paddr(c.queue[j])].waiting
      BY <1>1, <3>1, <3>2, <3>3, PaddrByte DEF Linked
    <3> QED BY <1>10, <3>1, <3>2, <3>4
  <2> QED BY <2>1, <2>2 DEF Linked
<1>12. SameSize => NoPartial(d) /\ PortsKnown(d, X)
  <2> SUFFICES ASSUME SameSize PROVE NoPartial(d) /\ PortsKnown(d, X)
    OBVIOUS
  <2>1. NoPartial(c) /\ PortsKnown(c, X)
    BY DEF CoreInvBut
  <2>2. NoPartial(d)
    BY <1>3, <2>1 DEF NoPartial, Frame, KeepsLoad
  <2>3. ASSUME NEW j \in DOMAIN d.queue \ X, status(d.queue[j]) = "AwaitingPort"
        PROVE  j \in d.requests \/ j \in d.mshrs[paddr(d.queue[j])].blocked
    <3>1. d.queue[j].issued
      BY <2>3, StatusFacts
    <3>2. j \in DOMAIN c.queue \ {i} /\ KeepsLoad(c.queue[j], d.queue[j])
      BY <1>3, <3>1 DEF Frame
    <3>3. CASE j \in W
      BY <1>3, <3>3
    <3>4. CASE j \notin W
      <4>1. c.queue[j].issued
        BY <1>3, <3>1, <3>2, <3>4
      <4>2. status(c.queue[j]) = "AwaitingPort"
        BY <2>3, <3>2, <4>1, StatusFacts DEF KeepsLoad, Keeps, IsLoad, IsAtomic
      <4>3. j \in c.requests \/ j \in c.mshrs[paddr(c.queue[j])].blocked
        BY <2>1, <3>2, <4>2 DEF PortsKnown
      <4>4. c.queue[j].access # {} /\ c.queue[j] \in EntryType
        BY <1>1, <3>2, <4>2, EntryTyped, StatusFacts
      <4>5. paddr(d.queue[j]) = paddr(c.queue[j]) /\ paddr(c.queue[j]) \in Bytes
        BY <3>2, <4>4, PaddrByte DEF KeepsLoad, Keeps, paddr
      <4>6. ~c.queue[j].partial
        BY <2>1, <3>2 DEF NoPartial
      <4>7. ~(Freed(c, i) /\ paddr(c.queue[j]) = k /\ j \in c.mshrs[paddr(c.queue[j])].blocked)
        BY <1>5, <3>2, <3>4, <4>2, <4>6
      <4> QED BY <1>3, <1>6, <4>3, <4>5, <4>7
    <3> QED BY <3>3, <3>4
  <2> QED BY <2>2, <2>3 DEF PortsKnown
<1> QED
  <2>1. DOMAIN d.queue = DOMAIN c.queue /\ d \in CoreType
    BY <1>3 DEF Frame
  <2>2. d.requests \subseteq DOMAIN d.queue /\ d.prefetches \subseteq DOMAIN d.queue
    BY <1>8, <2>1 DEF Loading
  <2>3. CoreInvBut(d, X)
    BY <1>8, <1>9, <1>11, <1>12, <2>1, <2>2 DEF CoreInvBut
  <2> QED BY <1>3, <1>8, <2>3

(* One entry changes, and it keeps its link. *)
LEMMA SetKeeps ==
  ASSUME NEW c, NEW X, CoreInvBut(c, X), NEW i \in DOMAIN c.queue, NEW f \in EntryType,
         NEW d, d = [c EXCEPT !.queue[i] = f],
         f.mshr = c.queue[i].mshr, f.op = c.queue[i].op,
         f.queue # c.queue[i].queue => SBOrder(d),
         f.mshr => f.access = c.queue[i].access,
         EntryOK(d, i),
         SameSize => /\ ~f.partial
                     /\ i \notin X /\ status(f) = "AwaitingPort" => i \in c.requests \/ i \in c.mshrs[paddr(f)].blocked
  PROVE  CoreInvBut(d, X)
<1>1. c \in CoreType /\ Linked(c) /\ SBOrder(c)
  BY DEF CoreInvBut
<1>2. /\ d \in CoreType /\ DOMAIN d.queue = DOMAIN c.queue /\ d.queue[i] = f
      /\ \A j \in DOMAIN c.queue : j # i => d.queue[j] = c.queue[j]
      /\ d.mshrs = c.mshrs /\ d.requests = c.requests
      /\ d.prefetches = c.prefetches
  BY <1>1, SetEntry
<1>3. \A j \in DOMAIN d.queue : EntryOK(d, j)
  <2> SUFFICES ASSUME NEW j \in DOMAIN d.queue, j # i PROVE EntryOK(d, j)
    OBVIOUS
  <2>1. EntryOK(c, j) /\ d.queue[j] = c.queue[j]
    BY <1>2 DEF CoreInvBut
  <2>2. (Engaged(d, j) <=> Engaged(c, j)) /\ (Least(d, j) <=> Least(c, j))
    BY <1>2, <2>1 DEF Engaged, Least
  <2> QED BY <2>1, <2>2 DEF EntryOK
<1>4. Linked(d)
  <2>1. \A j \in DOMAIN c.queue : /\ d.queue[j].mshr = c.queue[j].mshr /\ d.queue[j].op = c.queue[j].op
                                  /\ c.queue[j].mshr => d.queue[j].access = c.queue[j].access
    BY <1>2
  <2>2. \A j \in DOMAIN c.queue : c.queue[j].mshr => paddr(d.queue[j]) = paddr(c.queue[j])
    BY <2>1 DEF paddr
  <2> QED BY <1>1, <1>2, <2>1, <2>2 DEF Linked
<1>5. SBOrder(d)
  <2> SUFFICES ASSUME f.queue = c.queue[i].queue PROVE SBOrder(d)
    OBVIOUS
  <2>1. \A q : InQueue(d, q) = InQueue(c, q)
    BY <1>2 DEF InQueue
  <2> QED BY <1>1, <2>1 DEF SBOrder
<1>6. SameSize => NoPartial(d) /\ PortsKnown(d, X)
  BY <1>2 DEF CoreInvBut, NoPartial, PortsKnown
<1> QED BY <1>2, <1>3, <1>4, <1>5, <1>6 DEF CoreInvBut

(* A load, or the issued bit of an entry, changes as doLoad may do. *)
LEMMA SetLoading ==
  ASSUME NEW c, NEW X, CoreInvBut(c, X), NEW i \in DOMAIN c.queue, NEW f \in EntryType,
         NEW d, d = [c EXCEPT !.queue[i] = f], Keeps(c.queue[i], f), f.mshr = c.queue[i].mshr,
         \/ f.loaded = c.queue[i].loaded
         \/ /\ c.queue[i].op = "Load" /\ ~f.mshr
            /\ f.loaded = None \/ f.loaded \in [f.access -> Values],
         c.queue[i].op # "Load" => f.partial = c.queue[i].partial,
         IsStore(c.queue[i]) /\ f.issued => c.queue[i].issued,
         f.issued => c.queue[i].issued \/ f.access # {}
  PROVE  Loading(c, d) /\ ((\A j \in DOMAIN d.queue : EntryOK(d, j)) /\ SBOrder(d))
<1>1. c \in CoreType /\ Linked(c) /\ SBOrder(c)
      /\ c.requests \subseteq DOMAIN c.queue /\ c.prefetches \subseteq DOMAIN c.queue
  BY DEF CoreInvBut
<1>2. /\ d \in CoreType /\ DOMAIN d.queue = DOMAIN c.queue /\ d.queue[i] = f
      /\ \A j \in DOMAIN c.queue : j # i => d.queue[j] = c.queue[j]
      /\ d.mshrs = c.mshrs /\ d.requests = c.requests
      /\ d.prefetches = c.prefetches /\ d.outstanding = c.outstanding
      /\ d.permission = c.permission /\ d.ports = c.ports
  BY <1>1, SetEntry
<1>3. Frame(c, d)
  BY <1>1, <1>2 DEF Frame, Keeps
<1>4. \A j \in DOMAIN c.queue : IsStore(c.queue[j]) /\ Engaged(d, j) => Engaged(c, j)
  BY <1>2 DEF Engaged
<1>5. Loading(c, d)
  <2>1. f.access = c.queue[i].access
    BY DEF Keeps
  <2> QED BY <1>1, <1>2, <1>3, <1>4, <2>1 DEF Loading
<1> QED BY <1>5, LoadingEntries DEF CoreInvBut

(* The arbiter takes requests. *)
LEMMA RequestKeeps ==
  ASSUME NEW c, NEW X, CoreInvBut(c, X), NEW S, NEW d, d = requestPorts(c, S),
         \A i \in Granted(c, S) : IsStore(c.queue[i]) =>
           c.queue[i].data # 0 /\ Least(c, i) /\ (c.queue[i].op = "Store" => c.queue[i].queue = "SB")
  PROVE  /\ CoreInvBut(d, X) /\ CoreInvBut(d, X \ S)
         /\ (\A i \in Granted(c, S) : c.queue[i].op = "Load") => Loading(c, d)
<1>1. /\ c \in CoreType /\ Linked(c) /\ SBOrder(c)
      /\ c.requests \subseteq DOMAIN c.queue /\ c.prefetches \subseteq DOMAIN c.queue
  BY DEF CoreInvBut
<1> DEFINE G == Granted(c, S)
<1>2. /\ Frame(c, d) /\ d.mshrs = c.mshrs
      /\ d.requests = c.requests \cup G
      /\ d.prefetches = c.prefetches \ G
      /\ \A i \in DOMAIN c.queue :
           /\ KeepsLoad(c.queue[i], d.queue[i])
           /\ d.queue[i].issued = (c.queue[i].issued \/ i \in G)
  BY <1>1, RequestFacts
<1>3. G \subseteq DOMAIN c.queue
  BY DEF Granted
<1>4. DOMAIN d.queue = DOMAIN c.queue /\ d \in CoreType
  BY <1>2 DEF Frame
<1> HIDE DEF G
<1>5. ASSUME NEW j \in DOMAIN c.queue PROVE EntryOK(d, j)
  <2> DEFINE e == c.queue[j]
             f == d.queue[j]
  <2>1. EntryOK(c, j) /\ KeepsLoad(e, f)
    BY <1>2 DEF CoreInvBut
  <2>2. Engaged(d, j) => Engaged(c, j) \/ j \in G
    <3>1. d.queue[j].mshr = c.queue[j].mshr
      BY <2>1 DEF KeepsLoad
    <3> QED BY <1>2, <3>1 DEF Engaged
  <2>3. Least(d, j) <=> Least(c, j)
    BY <1>4 DEF Least
  <2>4. IsStore(e) /\ Engaged(d, j) => e.data # 0 /\ Least(c, j) /\ (e.op = "Store" => e.queue = "SB")
    BY <2>1, <2>2 DEF EntryOK, G
  <2>5. (IsStore(f) <=> IsStore(e)) /\ (IsAtomic(f) <=> IsAtomic(e))
    BY <2>1 DEF KeepsLoad, Keeps, IsStore, IsAtomic
  <2>6. f.issued => e.issued \/ e.access # {}
    <3>1. j \in G => e.access # {}
      BY StatusFacts DEF G, Granted
    <3> QED BY <1>2, <3>1
  <2> QED BY <2>1, <2>3, <2>4, <2>5, <2>6 DEF EntryOK, KeepsLoad, Keeps
<1>6. Linked(d)
  <2>1. \A j \in DOMAIN c.queue : /\ d.queue[j].mshr = c.queue[j].mshr /\ d.queue[j].op = c.queue[j].op
                                  /\ d.queue[j].access = c.queue[j].access /\ paddr(d.queue[j]) = paddr(c.queue[j])
    BY <1>2 DEF KeepsLoad, Keeps, paddr
  <2> QED BY <1>1, <1>2, <1>4, <2>1 DEF Linked
<1>7. SBOrder(d)
  <2>1. \A q : InQueue(d, q) = InQueue(c, q)
    BY <1>2, FrameQueues
  <2> QED BY <1>1, <2>1 DEF SBOrder
<1>8. SameSize => NoPartial(d) /\ PortsKnown(d, X) /\ PortsKnown(d, X \ S)
  <2> SUFFICES ASSUME SameSize PROVE NoPartial(d) /\ PortsKnown(d, X) /\ PortsKnown(d, X \ S)
    OBVIOUS
  <2>1. NoPartial(c) /\ PortsKnown(c, X)
    BY DEF CoreInvBut
  <2>2. NoPartial(d)
    BY <1>2, <1>4, <2>1 DEF NoPartial, KeepsLoad
  <2>3. ASSUME NEW j \in DOMAIN c.queue \ (X \ S), status(d.queue[j]) = "AwaitingPort", j \notin G
        PROVE  j \in d.requests \/ j \in d.mshrs[paddr(d.queue[j])].blocked
    <3>1. KeepsLoad(c.queue[j], d.queue[j]) /\ d.queue[j].issued = (c.queue[j].issued \/ j \in G)
      BY <1>2
    <3>2. d.queue[j].issued
      BY <2>3, StatusFacts
    <3>3. c.queue[j].issued
      BY <2>3, <3>1, <3>2
    <3>4. status(c.queue[j]) = "AwaitingPort"
      BY <2>3, <3>1, <3>3, StatusFacts DEF KeepsLoad, Keeps, IsLoad, IsAtomic
    <3>5. paddr(d.queue[j]) = paddr(c.queue[j])
      BY <3>1 DEF KeepsLoad, Keeps, paddr
    <3>6. j \notin X
      BY <2>1, <2>3, <3>4 DEF G, Granted, NoPartial
    <3> QED BY <1>2, <2>1, <3>4, <3>5, <3>6 DEF PortsKnown
  <2> QED BY <1>2, <1>4, <2>2, <2>3 DEF PortsKnown
<1>9. (\A i \in G : c.queue[i].op = "Load") => Loading(c, d)
  <2> SUFFICES ASSUME \A i \in G : c.queue[i].op = "Load" PROVE Loading(c, d)
    OBVIOUS
  <2>1. \A j \in DOMAIN c.queue : IsStore(c.queue[j]) /\ Engaged(d, j) => Engaged(c, j)
    <3>1. \A j \in G : ~IsStore(c.queue[j])
      BY DEF IsStore, IsAtomic
    <3> QED BY <1>2, <3>1 DEF Engaged, KeepsLoad
  <2>2. \A j \in G : c.queue[j].access # {}
    BY StatusFacts DEF G, Granted
  <2>3. \A j \in DOMAIN c.queue : d.queue[j].issued => c.queue[j].issued \/ c.queue[j].access # {}
    BY <1>2, <2>2
  <2> QED BY <1>1, <1>2, <1>3, <2>1, <2>3 DEF Loading, KeepsLoad
<1> QED BY <1>1, <1>2, <1>3, <1>4, <1>5, <1>6, <1>7, <1>8, <1>9 DEF CoreInvBut, G

(* The store a search finds, and the value it hands to the load. *)
Found(c, l, x) == IF x # Unknown THEN x ELSE IF OlderStores(c, l) = {} THEN NoStore ELSE Max(OlderStores(c, l))
Forwarded(c, s, l) ==
  IF s # NoStore /\ covers(c.queue[s], c.queue[l]) /\ c.queue[s].data # 0
  THEN [b \in c.queue[l].access |-> StoreValue(c.queue[s], b)] ELSE None

(* A search that may be handed on to l. *)
CacheOK(c, x, l) ==
  \/ x \in {Unknown, NoStore}
  \/ /\ x \in DOMAIN c.queue /\ IsStore(c.queue[x])
     /\ SameSize => covers(c.queue[x], c.queue[l])

(* Two accesses of the program. *)
LEMMA Overlap ==
  ASSUME Prog, SameSize, NEW c, NEW d, NEW i \in Ids, NEW j \in Ids, EntryOK(c, i), EntryOK(d, j),
         intersects(c.queue[i], d.queue[j])
  PROVE  c.queue[i].access = d.queue[j].access
<1>1. c.queue[i].access # {} /\ d.queue[j].access # {} /\ c.queue[i].access \cap d.queue[j].access # {}
  BY DEF intersects
<1>2. /\ \E v \in 1 .. 2 : c.queue[i].access = program[i].access[v]
      /\ \E v \in 1 .. 2 : d.queue[j].access = program[j].access[v]
  BY <1>1 DEF EntryOK
<1> QED BY <1>1, <1>2 DEF SameSize

(* The youngest of the older stores.                                       *)
LEMMA OlderFacts ==
  ASSUME Prog, NEW c, NEW X, CoreInvBut(c, X), NEW l \in DOMAIN c.queue, OlderStores(c, l) # {}
  PROVE  /\ Max(OlderStores(c, l)) \in OlderStores(c, l)
         /\ \A s \in OlderStores(c, l) : s <= Max(OlderStores(c, l))
         /\ OlderStores(c, l) \subseteq DOMAIN c.queue
<1>1. Len(program) \in Nat /\ OlderStores(c, l) \subseteq 1 .. Len(program)
  BY ProgFacts, EntryTyped DEF CoreInvBut, OlderStores
<1> QED BY <1>1, MaxFacts DEF OlderStores

(* What a search finds is a store of the queue.                            *)
LEMMA FoundFacts ==
  ASSUME Prog, NEW c, NEW X, CoreInvBut(c, X), NEW l \in DOMAIN c.queue, NEW x, CacheOK(c, x, l),
         Found(c, l, x) # NoStore
  PROVE  /\ Found(c, l, x) \in DOMAIN c.queue /\ IsStore(c.queue[Found(c, l, x)])
         /\ SameSize => covers(c.queue[Found(c, l, x)], c.queue[l])
<1>1. CASE x # Unknown
  BY <1>1 DEF Found, CacheOK
<1>2. CASE x = Unknown
  <2>1. OlderStores(c, l) # {} /\ Found(c, l, x) = Max(OlderStores(c, l))
    BY <1>2 DEF Found
  <2> DEFINE s == Max(OlderStores(c, l))
  <2>2. s \in OlderStores(c, l)
    BY <2>1, OlderFacts
  <2> HIDE DEF s
  <2>3. s \in DOMAIN c.queue /\ IsStore(c.queue[s]) /\ intersects(c.queue[s], c.queue[l])
    BY <2>2 DEF OlderStores
  <2>4. s \in Ids /\ l \in Ids
    BY <2>3, EntryTyped DEF CoreInvBut
  <2>5. SameSize => covers(c.queue[s], c.queue[l])
    <3>1. EntryOK(c, s) /\ EntryOK(c, l)
      BY <2>3 DEF CoreInvBut
    <3>2. SameSize => c.queue[s].access = c.queue[l].access
      BY <2>3, <2>4, <3>1, Overlap
    <3> QED BY <3>2 DEF covers
  <2> QED BY <2>1, <2>3, <2>5 DEF s
<1> QED BY <1>1, <1>2

(* A forwarded value is a value of the load. *)
LEMMA ForwardedTyped ==
  ASSUME Prog, NEW c, NEW X, CoreInvBut(c, X), NEW l \in DOMAIN c.queue, NEW s,
         s = NoStore \/ (s \in DOMAIN c.queue /\ IsStore(c.queue[s]))
  PROVE  Forwarded(c, s, l) = None \/ Forwarded(c, s, l) \in [c.queue[l].access -> Values]
<1> SUFFICES ASSUME s # NoStore, covers(c.queue[s], c.queue[l]), c.queue[s].data # 0
             PROVE  [b \in c.queue[l].access |-> StoreValue(c.queue[s], b)] \in [c.queue[l].access -> Values]
  BY DEF Forwarded
<1>1. s \in DOMAIN c.queue /\ c.queue[s] \in EntryType /\ EntryOK(c, s)
  BY EntryTyped DEF CoreInvBut
<1>2. c.queue[s].data \in Values
  BY <1>1 DEF EntryType
<1>3. c.queue[s].failed => c.queue[s].loaded \in [c.queue[s].access -> Values]
  BY <1>1 DEF EntryOK
<1>4. c.queue[l].access \subseteq c.queue[s].access
  BY DEF covers
<1> QED BY <1>2, <1>3, <1>4 DEF StoreValue

(* What doLoad does first. *)
Cleaned(c, l) ==
  LET e == c.queue[l]
  IN  IF status(e) = "IssuedToMemory" THEN breakMSHRLink(c, l)
      ELSE IF status(e) = "Complete" \/ IsAtomic(e) THEN [c EXCEPT !.queue[l].issued = FALSE]
      ELSE c

(* The first part of doLoad keeps the invariant of the core.               *)
LEMMA CleanedFacts ==
  ASSUME Prog, NEW c, NEW X, CoreInvBut(c, X), NEW l \in DOMAIN c.queue, IsLoad(c.queue[l]), c.queue[l].access # {},
         NEW d, d = Cleaned(c, l)
  PROVE  /\ Loading(c, d) /\ CoreInvBut(d, X)
         /\ \A j \in DOMAIN c.queue \ {l} : KeepsLoad(c.queue[j], d.queue[j])
         /\ d.queue[l].loaded = c.queue[l].loaded /\ d.queue[l].partial = c.queue[l].partial
         /\ c.queue[l].op = "Load" =>
              /\ ~d.queue[l].mshr
              /\ d.queue[l].issued => status(d.queue[l]) = "AwaitingPort"
<1> DEFINE e == c.queue[l]
<1>1. c \in CoreType /\ e \in EntryType /\ EntryOK(c, l)
  BY EntryTyped DEF CoreInvBut
<1>2. e.op = "Load" => e.op # "MEMBAR" /\ ~e.annulled /\ ~IsAtomic(e) /\ e.op # "Store"
  BY <1>1 DEF EntryOK, IsAtomic
<1>3. CASE status(e) = "IssuedToMemory"
  <2>1. d = breakMSHRLink(c, l)
    BY <1>3 DEF Cleaned
  <2> QED BY <2>1, BreakKeeps
<1>4. CASE status(e) # "IssuedToMemory" /\ (status(e) = "Complete" \/ IsAtomic(e))
  <2> DEFINE f == [e EXCEPT !.issued = FALSE]
  <2>1. d = [c EXCEPT !.queue[l] = f]
    BY <1>1, <1>4 DEF Cleaned, CoreType
  <2>2. f \in EntryType /\ KeepsLoad(e, f) /\ ~f.issued
    BY <1>1 DEF EntryType, KeepsLoad, Keeps
  <2> HIDE DEF f
  <2>3. Keeps(e, f) /\ f.mshr = e.mshr /\ f.loaded = e.loaded /\ f.partial = e.partial /\ f.op = e.op
        /\ f.queue = e.queue /\ f.access = e.access
    BY <2>2 DEF KeepsLoad, Keeps
  <2>4. Loading(c, d) /\ \A j \in DOMAIN d.queue : EntryOK(d, j)
    BY <2>1, <2>2, <2>3, SetLoading
  <2>5. DOMAIN d.queue = DOMAIN c.queue /\ d.queue[l] = f /\ \A j \in DOMAIN c.queue : j # l => d.queue[j] = c.queue[j]
    BY <1>1, <2>1, <2>2, SetEntry
  <2>6. CoreInvBut(d, X)
    <3>1. status(f) # "AwaitingPort"
      BY <2>2, StatusFacts
    <3>2. SameSize => ~f.partial
      BY <2>3 DEF CoreInvBut, NoPartial
    <3>3. EntryOK(d, l)
      BY <2>4, <2>5
    <3> QED BY <2>1, <2>2, <2>3, <3>1, <3>2, <3>3, SetKeeps
  <2>7. e.op = "Load" => ~f.mshr
    <3>1. e.op = "Load" => status(e) = "Complete"
      BY <1>2, <1>4
    <3>2. e.op = "Load" => e.loaded # None
      BY <3>1, StatusFacts
    <3> QED BY <1>1, <2>3, <3>2 DEF EntryOK
  <2> QED BY <2>2, <2>3, <2>4, <2>5, <2>6, <2>7 DEF KeepsLoad, Keeps
<1>5. CASE status(e) # "IssuedToMemory" /\ ~(status(e) = "Complete" \/ IsAtomic(e))
  <2>1. d = c
    BY <1>5 DEF Cleaned
  <2>2. e.op = "Load"
    BY <1>5 DEF IsLoad
  <2>3. ~e.mshr /\ (e.issued => status(e) = "AwaitingPort")
    <3>1. ~(IsLoad(e) /\ e.loaded # None /\ (IsAtomic(e) => e.data # 0))
      BY <1>2, <1>5, <2>2, StatusFacts
    <3>2. ~e.mshr
      BY <1>2, <1>5, <2>2, <3>1, StatusFacts
    <3> QED BY <1>2, <2>2, <3>1, <3>2, StatusFacts
  <2>4. Loading(c, c)
    BY <1>1 DEF Loading, Frame, Keeps, CoreInvBut
  <2> QED BY <2>1, <2>3, <2>4 DEF KeepsLoad, Keeps
<1> QED BY <1>3, <1>4, <1>5

(* doLoad keeps the invariant of the core; a load gets the value of the    *)
(* store that was found.                                                   *)
LEMMA DoLoadFacts ==
  ASSUME Prog, NEW c, NEW X, CoreInvBut(c, X), NEW l \in DOMAIN c.queue, IsLoad(c.queue[l]), c.queue[l].access # {},
         NEW x, CacheOK(c, x, l), NEW r, r = doLoad(c, l, x)
  PROVE  /\ Loading(c, r.core) /\ CoreInvBut(r.core, X)
         /\ \A j \in DOMAIN c.queue \ {l} : KeepsLoad(c.queue[j], r.core.queue[j])
         /\ c.queue[l].op # "Load" => r.core.queue[l].loaded = c.queue[l].loaded /\ r.cached = x
         /\ c.queue[l].op = "Load" => /\ r.core.queue[l].loaded = Forwarded(c, Found(c, l, x), l)
                                      /\ r.cached = Found(c, l, x)
<1> DEFINE e == c.queue[l]
           a == Cleaned(c, l)
           s == snoopStores(a, l, x)
<1>1. c \in CoreType /\ e \in EntryType /\ EntryOK(c, l)
  BY EntryTyped DEF CoreInvBut
<1>2. status(e) # "AwaitingAddress"
  BY StatusFacts
<1>3. /\ Loading(c, a) /\ CoreInvBut(a, X)
      /\ \A j \in DOMAIN c.queue \ {l} : KeepsLoad(c.queue[j], a.queue[j])
      /\ a.queue[l].loaded = c.queue[l].loaded /\ a.queue[l].partial = c.queue[l].partial
      /\ c.queue[l].op = "Load" =>
           /\ ~a.queue[l].mshr
           /\ a.queue[l].issued => status(a.queue[l]) = "AwaitingPort"
  BY CleanedFacts
<1>4. r = IF IsAtomic(e) THEN [core |-> a, cached |-> x]
          ELSE [s EXCEPT !.core =
              CASE status(@.queue[l]) = "AwaitingIssue" -> requestPort(@, l)
                [] status(@.queue[l]) = "Complete" -> [@ EXCEPT !.queue[l].issued = FALSE]
                [] OTHER -> @]
  BY <1>2 DEF doLoad, Cleaned
<1>5. CASE IsAtomic(e)
  <2>1. r.core = a /\ r.cached = x
    BY <1>4, <1>5
  <2>2. e.op # "Load"
    BY <1>5 DEF IsAtomic
  <2> HIDE DEF a
  <2> QED BY <1>3, <2>1, <2>2
<1>6. CASE ~IsAtomic(e)
  <2>1. e.op = "Load" /\ ~IsStore(e)
    BY <1>6 DEF IsLoad, IsStore
  <2>2. a \in CoreType /\ DOMAIN a.queue = DOMAIN c.queue /\ \A j \in DOMAIN c.queue : Keeps(c.queue[j], a.queue[j])
    BY <1>3 DEF Loading, Frame
  <2> DEFINE g == a.queue[l]
             found == Found(c, l, x)
             v == Forwarded(c, found, l)
             p == IF found = NoStore THEN g.partial ELSE ~covers(c.queue[found], e)
             f == [g EXCEPT !.loaded = v, !.partial = p]
             b == [a EXCEPT !.queue[l] = f]
  <2>3. g \in EntryType /\ EntryOK(a, l)
    BY <1>3, <2>2, EntryTyped DEF CoreInvBut
  <2>4. OlderStores(a, l) = OlderStores(c, l)
    BY <2>2 DEF OlderStores, Keeps, IsStore, IsAtomic, intersects
  <2>5. \/ found = NoStore
        \/ found \in DOMAIN c.queue /\ IsStore(c.queue[found]) /\ (SameSize => covers(c.queue[found], e))
    BY FoundFacts
  <2>6. s.cached = found /\ s.core = b
    <3> DEFINE h == [a EXCEPT !.queue[l].loaded = None]
               k == [g EXCEPT !.loaded = None]
    <3>1. h = [a EXCEPT !.queue[l] = k]
      BY <2>2 DEF CoreType
    <3>2. k \in EntryType
      BY <2>3 DEF EntryType, Loaded
    <3> HIDE DEF k, h, a
    <3>3. /\ h \in CoreType /\ DOMAIN h.queue = DOMAIN a.queue /\ h.queue[l] = k
          /\ \A j \in DOMAIN a.queue : j # l => h.queue[j] = a.queue[j]
      BY <2>2, <3>1, <3>2, SetEntry
    <3>4. s.cached = found
      BY <2>4 DEF snoopStores, Found
    <3>5. s.core = IF found = NoStore THEN h ELSE forwardValue(h, found, l)
      BY <2>4 DEF snoopStores, Found, h
    <3>6. CASE found = NoStore
      <4>1. f = k
        BY <3>6, <2>3 DEF f, v, p, k, Forwarded, EntryType
      <4> QED BY <3>1, <3>4, <3>5, <3>6, <4>1
    <3>7. CASE found # NoStore
      <4>1. found \in DOMAIN c.queue /\ IsStore(c.queue[found]) /\ found # l
        BY <2>1, <2>5, <3>7
      <4>2. Keeps(c.queue[found], h.queue[found]) /\ KeepsLoad(c.queue[found], h.queue[found]) /\ Keeps(e, h.queue[l])
        BY <1>3, <2>2, <3>3, <4>1 DEF k, KeepsLoad, Keeps, EntryType
      <4> DEFINE st == c.queue[found]
                 su == h.queue[found]
      <4>3. (covers(su, h.queue[l]) <=> covers(st, e)) /\ su.data = st.data /\ h.queue[l].access = e.access
        BY <4>2 DEF Keeps, covers
      <4>4. \A y \in e.access : StoreValue(su, y) = StoreValue(st, y)
        BY <4>2 DEF KeepsLoad, Keeps, StoreValue
      <4> DEFINE w == IF st.data = 0 THEN None ELSE [y \in e.access |-> StoreValue(st, y)]
      <4>5. w = IF su.data = 0 THEN None ELSE [y \in h.queue[l].access |-> StoreValue(su, y)]
        BY <4>3, <4>4
      <4>6. forwardValue(h, found, l) =
              IF covers(st, e) THEN [h EXCEPT !.queue[l].partial = FALSE, !.queue[l].loaded = w]
              ELSE [h EXCEPT !.queue[l].partial = TRUE, !.queue[l].loaded = None]
        BY <4>3, <4>5 DEF forwardValue
      <4> HIDE DEF w
      <4>7. CASE covers(st, e)
        <5>1. v = w /\ p = FALSE
          BY <3>7, <4>7 DEF v, p, Forwarded, w
        <5> HIDE DEF v, p
        <5>2. f = [[k EXCEPT !.partial = FALSE] EXCEPT !.loaded = w]
          BY <2>3, <5>1 DEF f, k, EntryType
        <5>3. forwardValue(h, found, l) = [h EXCEPT !.queue[l] = f]
          BY <2>2, <3>3, <4>6, <4>7, <5>2 DEF CoreType
        <5>4. [h EXCEPT !.queue[l] = f] = [a EXCEPT !.queue[l] = f]
          BY <2>2, <3>1 DEF CoreType
        <5> QED BY <3>4, <3>5, <3>7, <5>3, <5>4
      <4>8. CASE ~covers(st, e)
        <5>1. v = None /\ p = TRUE
          BY <3>7, <4>8 DEF v, p, Forwarded
        <5> HIDE DEF v, p
        <5>2. f = [[k EXCEPT !.partial = TRUE] EXCEPT !.loaded = None]
          BY <2>3, <5>1 DEF f, k, EntryType
        <5>3. forwardValue(h, found, l) = [h EXCEPT !.queue[l] = f]
          BY <2>2, <3>3, <4>6, <4>8, <5>2 DEF CoreType
        <5>4. [h EXCEPT !.queue[l] = f] = [a EXCEPT !.queue[l] = f]
          BY <2>2, <3>1 DEF CoreType
        <5> QED BY <3>4, <3>5, <3>7, <5>3, <5>4
      <4> QED BY <4>7, <4>8
    <3> QED BY <3>6, <3>7
  <2>7. v = None \/ v \in [e.access -> Values]
    BY <2>5, ForwardedTyped
  <2>8. f \in EntryType /\ Keeps(g, f) /\ f.mshr = g.mshr /\ f.issued = g.issued /\ f.loaded = v /\ f.partial = p
    <3>1. v \in Loaded
      <4>1. e.access \in SUBSET Bytes
        BY <1>1 DEF EntryType
      <4> QED BY <2>7, <4>1 DEF Loaded
    <3>2. p \in BOOLEAN
      BY <2>3 DEF EntryType
    <3> HIDE DEF v, p, g
    <3> QED BY <2>3, <3>1, <3>2 DEF EntryType, Keeps
  <2>9. SameSize => ~p
    BY <1>3, <2>2, <2>5 DEF CoreInvBut, NoPartial
  <2>10. Keeps(e, g) /\ g.op = "Load" /\ g.access = e.access /\ ~g.mshr /\ ~IsStore(g)
    BY <1>3, <2>1, <2>2 DEF Keeps, IsStore, IsAtomic
  <2> HIDE DEF a, v, p, f, found
  <2>11. Loading(a, b) /\ \A j \in DOMAIN b.queue : EntryOK(b, j)
    <3>1. f.access = e.access
      BY <2>8, <2>10 DEF Keeps
    <3> QED BY <1>3, <2>2, <2>7, <2>8, <2>10, <3>1, SetLoading
  <2>12. DOMAIN b.queue = DOMAIN c.queue /\ b.queue[l] = f /\ \A j \in DOMAIN c.queue : j # l => b.queue[j] = a.queue[j]
         /\ b.requests = a.requests /\ b.mshrs = a.mshrs
    BY <2>2, <2>8, SetEntry
  <2>13. CoreInvBut(b, X)
    <3>1. SameSize => (l \notin X /\ status(f) = "AwaitingPort" => l \in a.requests \/ l \in a.mshrs[paddr(f)].blocked)
      <4> SUFFICES ASSUME SameSize, l \notin X, status(f) = "AwaitingPort"
                   PROVE  l \in a.requests \/ l \in a.mshrs[paddr(f)].blocked
        OBVIOUS
      <4>1. g.issued
        BY <2>8, StatusFacts
      <4>2. status(g) = "AwaitingPort"
        BY <1>3, <2>1, <4>1
      <4>3. paddr(f) = paddr(g)
        BY <2>8 DEF Keeps, paddr
      <4> QED BY <1>3, <2>2, <4>2, <4>3 DEF CoreInvBut, PortsKnown
    <3>2. EntryOK(b, l) /\ f.op = g.op /\ f.queue = g.queue /\ f.access = g.access
      BY <2>8, <2>11, <2>12 DEF Keeps
    <3> QED BY <1>3, <2>2, <2>8, <2>9, <2>10, <3>1, <3>2, SetKeeps
  <2>14. /\ Loading(c, b)
         /\ \A j \in DOMAIN c.queue \ {l} : KeepsLoad(c.queue[j], b.queue[j])
    BY <1>3, <2>11, <2>12, LoadingTransitive
  <2> DEFINE d == r.core
  <2>15. r.cached = found /\ d = CASE status(f) = "AwaitingIssue" -> requestPort(b, l)
                               [] status(f) = "Complete" -> [b EXCEPT !.queue[l].issued = FALSE]
                               [] OTHER -> b
    <3>1. DOMAIN s = {"core", "cached"}
      BY DEF snoopStores
    <3> HIDE DEF s, b
    <3> QED BY <1>4, <1>6, <2>6, <2>12, <3>1
  <2> HIDE DEF b
  <2>16. f.op = "Load" /\ ~f.mshr
    BY <2>8, <2>10 DEF Keeps
  <2>17. CASE status(f) = "AwaitingIssue"
    <3>1. d = requestPorts(b, {l})
      BY <2>15, <2>17 DEF requestPort
    <3>2. \A i \in Granted(b, {l}) : b.queue[i].op = "Load" /\ ~IsStore(b.queue[i])
      BY <2>12, <2>16 DEF Granted, IsStore, IsAtomic
    <3>3. CoreInvBut(d, X) /\ Loading(b, d)
      BY <2>13, <3>1, <3>2, RequestKeeps
    <3>4. \A i \in DOMAIN b.queue : KeepsLoad(b.queue[i], d.queue[i])
      BY <2>13, <3>1, RequestFacts DEF CoreInvBut
    <3>5. Loading(c, d)
      BY <2>14, <3>3, LoadingTransitive
    <3>6. \A j \in DOMAIN c.queue \ {l} : KeepsLoad(c.queue[j], d.queue[j])
      BY <2>12, <2>14, <3>4 DEF KeepsLoad, Keeps
    <3>7. d.queue[l].loaded = v
      BY <2>8, <2>12, <3>4 DEF KeepsLoad
    <3> QED BY <2>1, <2>15, <3>3, <3>5, <3>6, <3>7 DEF v, found
  <2>18. CASE status(f) = "Complete"
    <3> DEFINE h == [f EXCEPT !.issued = FALSE]
    <3>0. b \in CoreType
      BY <2>13 DEF CoreInvBut
    <3>1. d = [b EXCEPT !.queue[l] = h]
      BY <2>12, <2>15, <2>18, <3>0 DEF CoreType
    <3>2. h \in EntryType /\ KeepsLoad(f, h) /\ ~h.issued
      BY <2>8 DEF EntryType, KeepsLoad, Keeps
    <3> HIDE DEF h
    <3>3. Keeps(f, h) /\ h.mshr = f.mshr /\ h.loaded = f.loaded /\ h.partial = f.partial /\ h.op = f.op
          /\ h.queue = f.queue /\ h.access = f.access
      BY <3>2 DEF KeepsLoad, Keeps
    <3>4. Loading(b, d) /\ \A j \in DOMAIN d.queue : EntryOK(d, j)
      BY <2>12, <2>13, <3>1, <3>2, <3>3, SetLoading
    <3>5. DOMAIN d.queue = DOMAIN b.queue /\ d.queue[l] = h /\ \A j \in DOMAIN b.queue : j # l => d.queue[j] = b.queue[j]
      BY <2>12, <3>0, <3>1, <3>2, SetEntry
    <3>6. CoreInvBut(d, X)
      <4>1. status(h) # "AwaitingPort"
        BY <3>2, StatusFacts
      <4>2. SameSize => ~h.partial
        BY <2>8, <2>9, <3>3
      <4>3. EntryOK(d, l)
        BY <2>12, <3>4, <3>5
      <4> QED BY <2>12, <2>13, <3>1, <3>2, <3>3, <4>1, <4>2, <4>3, SetKeeps
    <3>7. Loading(c, d)
      BY <2>14, <3>4, LoadingTransitive
    <3>8. \A j \in DOMAIN c.queue \ {l} : KeepsLoad(c.queue[j], d.queue[j])
      BY <2>12, <2>14, <3>5
    <3>9. d.queue[l].loaded = v
      BY <2>8, <3>3, <3>5
    <3> QED BY <2>1, <2>15, <3>6, <3>7, <3>8, <3>9 DEF v, found
  <2>19. CASE status(f) \notin {"AwaitingIssue", "Complete"}
    <3>1. d = b
      BY <2>15, <2>19
    <3>2. d.queue[l].loaded = v
      BY <2>8, <2>12, <3>1
    <3> QED BY <2>1, <2>13, <2>14, <2>15, <3>1, <3>2 DEF v, found
  <2> QED BY <2>17, <2>18, <2>19
<1> QED BY <1>5, <1>6

(* Induction up to N.                                                      *)
LEMMA Climb ==
  ASSUME NEW N \in Nat, NEW T, 0 \in T, \A n \in 0 .. N - 1 : n \in T => n + 1 \in T
  PROVE  \A n \in 0 .. N : n \in T
<1> SUFFICES ASSUME {n \in 0 .. N : n \notin T} # {} PROVE FALSE
  OBVIOUS
<1> DEFINE B == {n \in 0 .. N : n \notin T}
<1>0. B \subseteq Nat /\ B # {}
  OBVIOUS
<1> HIDE DEF B
<1>1. PICK m \in B : \A k \in B : m <= k
  BY <1>0, FirstOf
<1> USE DEF B
<1>2. m # 0 /\ m - 1 \in 0 .. N - 1
  BY <1>1
<1>3. m - 1 \in T
  BY <1>1, <1>2
<1> QED BY <1>1, <1>2, <1>3

Step(a, n, S, handOn) == IF n \in S THEN doLoad(a.core, n, IF handOn THEN a.cached ELSE Unknown) ELSE a

(* The recursion of doLoads.                                               *)
LEMMA Loads ==
  ASSUME Len(program) \in Nat, NEW c, NEW S, NEW handOn
  PROVE  \E f : /\ f[0] = [core |-> c, cached |-> Unknown]
                /\ \A n \in 1 .. Len(program) : f[n] = Step(f[n - 1], n, S, handOn)
                /\ doLoads(c, S, handOn) = f[Len(program)].core
<1> DEFINE N == Len(program)
           F(g, n) == IF n = 0 THEN [core |-> c, cached |-> Unknown] ELSE Step(g[n - 1], n, S, handOn)
           T == {m \in 0 .. N : \E g : g = [n \in 0 .. m |-> F(g, n)]}
<1>1. 0 \in T
  <2> DEFINE g == [n \in 0 .. 0 |-> [core |-> c, cached |-> Unknown]]
  <2>1. g = [n \in 0 .. 0 |-> F(g, n)]
    OBVIOUS
  <2> HIDE DEF g, F
  <2>2. \E x : x = [n \in 0 .. 0 |-> F(x, n)]
    BY <2>1
  <2> QED BY <2>2
<1>2. ASSUME NEW m \in 0 .. N - 1, m \in T PROVE m + 1 \in T
  <2>1. PICK g : g = [n \in 0 .. m |-> F(g, n)]
    BY <1>2
  <2> DEFINE h == [n \in 0 .. m + 1 |-> IF n <= m THEN g[n] ELSE F(g, n)]
  <2>2. \A n \in 0 .. m + 1 : F(h, n) = F(g, n)
    BY DEF Step
  <2>3. \A n \in 0 .. m + 1 : h[n] = F(g, n)
    BY <2>1
  <2> HIDE DEF F
  <2>4. h = [n \in 0 .. m + 1 |-> F(h, n)]
    BY <2>2, <2>3
  <2> HIDE DEF h
  <2>5. \E x : x = [n \in 0 .. m + 1 |-> F(x, n)]
    BY <2>4
  <2> QED BY <2>5
<1>3. N \in T
  <2>1. N \in Nat
    OBVIOUS
  <2> HIDE DEF T, N
  <2>2. \A n \in 0 .. N - 1 : n \in T => n + 1 \in T
    BY <1>2
  <2>3. \A n \in 0 .. N : n \in T
    BY <1>1, <2>1, <2>2, Climb
  <2> QED BY <2>1, <2>3
<1> DEFINE G == CHOOSE g : g = [n \in 0 .. N |-> F(g, n)]
<1>4. G = [n \in 0 .. N |-> F(G, n)]
  BY <1>3
<1>5. doLoads(c, S, handOn) = G[N].core
  BY DEF doLoads, Step
<1> HIDE DEF G
<1>6. \A n \in 0 .. N : G[n] = F(G, n)
  BY <1>4
<1> QED BY <1>5, <1>6

(* Repeating loads changes nothing for the searches of others.             *)
LEMMA LoadingForwards ==
  ASSUME NEW c, NEW X, CoreInvBut(c, X), NEW d, Loading(c, d), NEW l \in DOMAIN c.queue
  PROVE  /\ OlderStores(d, l) = OlderStores(c, l)
         /\ \A x : Found(d, l, x) = Found(c, l, x)
         /\ \A s : s = NoStore \/ (s \in DOMAIN c.queue /\ IsStore(c.queue[s])) =>
              Forwarded(d, s, l) = Forwarded(c, s, l)
<1>1. DOMAIN d.queue = DOMAIN c.queue /\ \A j \in DOMAIN c.queue : Keeps(c.queue[j], d.queue[j])
  BY DEF Loading, Frame
<1>2. OlderStores(d, l) = OlderStores(c, l)
  BY <1>1 DEF OlderStores, Keeps, IsStore, IsAtomic, intersects
<1>3. \A x : Found(d, l, x) = Found(c, l, x)
  BY <1>2 DEF Found
<1>4. ASSUME NEW s \in DOMAIN c.queue, IsStore(c.queue[s]) PROVE Forwarded(d, s, l) = Forwarded(c, s, l)
  <2>1. Keeps(c.queue[s], d.queue[s]) /\ Keeps(c.queue[l], d.queue[l])
    BY <1>1
  <2>2. d.queue[s].loaded = c.queue[s].loaded
    BY <1>4 DEF Loading, IsStore, IsAtomic
  <2>3. (covers(d.queue[s], d.queue[l]) <=> covers(c.queue[s], c.queue[l])) /\ d.queue[s].data = c.queue[s].data
        /\ d.queue[l].access = c.queue[l].access
    BY <2>1 DEF Keeps, covers
  <2>4. \A b : StoreValue(d.queue[s], b) = StoreValue(c.queue[s], b)
    BY <2>1, <2>2 DEF StoreValue, Keeps
  <2>5. [b \in d.queue[l].access |-> StoreValue(d.queue[s], b)] = [b \in c.queue[l].access |-> StoreValue(c.queue[s], b)]
    BY <2>3, <2>4
  <2> QED BY <2>3, <2>5 DEF Forwarded
<1> QED BY <1>2, <1>3, <1>4 DEF Forwarded

(* What doLoads asks of the loads it repeats. *)
Loadable(c, S, handOn) ==
  /\ S \subseteq DOMAIN c.queue
  /\ \A l \in S : IsLoad(c.queue[l]) /\ c.queue[l].access # {}
  /\ handOn \in BOOLEAN
  /\ handOn /\ SameSize => \A l, m \in S : c.queue[l].access = c.queue[m].access
(* One search answers for all of them, and each has the value of its store. *)
Agree(c, S) == \A l, m \in S : Found(c, l, Unknown) = Found(c, m, Unknown)
Filled(c, S, d) ==
  \A l \in S : c.queue[l].op = "Load" => d.queue[l].loaded = Forwarded(c, Found(c, l, Unknown), l)
Untouched(c, S, d) == \A j \in DOMAIN c.queue \ S : KeepsLoad(c.queue[j], d.queue[j])

(* doLoads keeps the invariant of the core and repeats the loads of S      *)
(* only.                                                                   *)
LEMMA LoadsFacts ==
  ASSUME Prog, NEW c, NEW X, CoreInvBut(c, X), NEW S, NEW handOn, Loadable(c, S, handOn),
         NEW d, d = doLoads(c, S, handOn)
  PROVE  /\ Loading(c, d) /\ CoreInvBut(d, X) /\ Untouched(c, S, d)
         /\ handOn => (Agree(c, S) => Filled(c, S, d))
         /\ ~handOn => Filled(c, S, d)
<1>0. /\ S \subseteq DOMAIN c.queue
      /\ \A l \in S : IsLoad(c.queue[l]) /\ c.queue[l].access # {}
      /\ handOn \in BOOLEAN
      /\ handOn /\ SameSize => \A l, m \in S : c.queue[l].access = c.queue[m].access
  BY DEF Loadable
<1> DEFINE N == Len(program)
           H == handOn => \A l, m \in S : Found(c, l, Unknown) = Found(c, m, Unknown)
           OK(a, n) ==
             /\ Loading(c, a.core) /\ CoreInvBut(a.core, X)
             /\ \A j \in DOMAIN c.queue : j \notin S \/ j > n => KeepsLoad(c.queue[j], a.core.queue[j])
             /\ a.cached = Unknown \/ \E l \in S : a.cached = Found(c, l, Unknown)
             /\ H => \A l \in S : l <= n /\ c.queue[l].op = "Load" =>
                       a.core.queue[l].loaded = Forwarded(c, Found(c, l, Unknown), l)
<1>1. N \in Nat /\ DOMAIN c.queue \subseteq 1 .. N /\ c \in CoreType
  BY ProgFacts, EntryTyped DEF CoreInvBut
<1>2. PICK f : /\ f[0] = [core |-> c, cached |-> Unknown]
               /\ \A n \in 1 .. N : f[n] = Step(f[n - 1], n, S, handOn)
               /\ d = f[N].core
  BY <1>1, Loads
<1> USE <1>0
<1> DEFINE T == {n \in 0 .. N : OK(f[n], n)}
<1>3. 0 \in T
  <2>1. f[0].core = c /\ f[0].cached = Unknown
    BY <1>2
  <2>2. Loading(c, c)
    BY <1>1 DEF Loading, Frame, Keeps, CoreInvBut
  <2>3. \A l \in S : ~(l <= 0)
    BY <1>1
  <2>4. \A j \in DOMAIN c.queue : KeepsLoad(c.queue[j], c.queue[j])
    BY DEF KeepsLoad, Keeps
  <2>5. OK(f[0], 0)
    <3> HIDE DEF H
    <3> QED BY <2>1, <2>2, <2>3, <2>4
  <2> HIDE DEF OK
  <2> QED BY <1>1, <2>5
<1>4. ASSUME NEW p \in 0 .. N - 1, p \in T PROVE p + 1 \in T
  <2> DEFINE n == p + 1
             a == f[p]
             r == f[n]
             k == a.core
  <2>0. n \in 1 .. N /\ n - 1 = p /\ n \in 0 .. N
    BY <1>1
  <2>1. /\ Loading(c, k) /\ CoreInvBut(k, X)
        /\ \A j \in DOMAIN c.queue : j \notin S \/ j > p => KeepsLoad(c.queue[j], k.queue[j])
        /\ a.cached = Unknown \/ \E l \in S : a.cached = Found(c, l, Unknown)
        /\ H => \A l \in S : l <= p /\ c.queue[l].op = "Load" =>
                  k.queue[l].loaded = Forwarded(c, Found(c, l, Unknown), l)
    BY <1>4
  <2>2. r = Step(a, n, S, handOn)
    BY <1>2, <2>0
  <2> SUFFICES OK(r, n)
    BY <2>0
  <2>3. CASE n \notin S
    <3>1. r = a
      BY <2>2, <2>3 DEF Step
    <3>2. \A l \in S : l <= n => l <= p
      BY <1>1, <2>3
    <3>3. \A j \in DOMAIN c.queue : j > n => j > p
      BY <1>1
    <3> HIDE DEF H, n, r, a
    <3> QED BY <2>1, <3>1, <3>2, <3>3
  <2>4. CASE n \in S
    <3> DEFINE x == IF handOn THEN a.cached ELSE Unknown
    <3>1. r = doLoad(k, n, x)
      BY <2>2, <2>4 DEF Step
    <3>2. n \in DOMAIN c.queue /\ DOMAIN k.queue = DOMAIN c.queue /\ \A j \in DOMAIN c.queue : Keeps(c.queue[j], k.queue[j])
      BY <2>1, <2>4 DEF Loading, Frame
    <3>3. IsLoad(k.queue[n]) /\ k.queue[n].access # {} /\ k.queue[n].op = c.queue[n].op
      BY <2>4, <3>2 DEF Keeps, IsLoad, IsAtomic
    <3>4. x = Unknown \/ (handOn /\ \E m \in S : x = Found(c, m, Unknown))
      BY <2>1
    <3> HIDE DEF x, n, a, k, r, H
    <3>5. CacheOK(k, x, n)
      <4> SUFFICES ASSUME x # Unknown, x # NoStore
                   PROVE /\ x \in DOMAIN k.queue /\ IsStore(k.queue[x])
                         /\ SameSize => covers(k.queue[x], k.queue[n])
        BY DEF CacheOK
      <4>1. PICK m \in S : handOn /\ x = Found(c, m, Unknown)
        BY <3>4
      <4>2. m \in DOMAIN c.queue /\ CacheOK(c, Unknown, m)
        BY DEF CacheOK
      <4>3. x \in DOMAIN c.queue /\ IsStore(c.queue[x]) /\ (SameSize => covers(c.queue[x], c.queue[m]))
        BY <4>1, <4>2, FoundFacts
      <4>4. SameSize => c.queue[m].access = c.queue[n].access
        BY <2>4, <4>1
      <4>5. Keeps(c.queue[x], k.queue[x]) /\ Keeps(c.queue[n], k.queue[n])
        BY <3>2, <4>3
      <4> QED BY <3>2, <4>3, <4>4, <4>5 DEF Keeps, covers, IsStore, IsAtomic
    <3>6. /\ Loading(k, r.core) /\ CoreInvBut(r.core, X)
          /\ \A j \in DOMAIN k.queue \ {n} : KeepsLoad(k.queue[j], r.core.queue[j])
          /\ k.queue[n].op # "Load" => r.core.queue[n].loaded = k.queue[n].loaded /\ r.cached = x
          /\ k.queue[n].op = "Load" => /\ r.core.queue[n].loaded = Forwarded(k, Found(k, n, x), n)
                                       /\ r.cached = Found(k, n, x)
      BY <2>1, <3>1, <3>2, <3>3, <3>5, DoLoadFacts
    <3>7. /\ \A y : Found(k, n, y) = Found(c, n, y)
          /\ \A s : s = NoStore \/ (s \in DOMAIN c.queue /\ IsStore(c.queue[s])) =>
               Forwarded(k, s, n) = Forwarded(c, s, n)
      BY <2>1, <3>2, LoadingForwards
    <3>8. r.cached = Unknown \/ \E l \in S : r.cached = Found(c, l, Unknown)
      <4>1. r.cached = x \/ r.cached = Found(c, n, x)
        BY <3>6, <3>7
      <4>2. Found(c, n, x) = IF x # Unknown THEN x ELSE Found(c, n, Unknown)
        BY DEF Found
      <4> QED BY <2>4, <3>4, <4>1, <4>2
    <3>9. Loading(c, r.core)
      BY <2>1, <3>6, LoadingTransitive
    <3>10. \A j \in DOMAIN c.queue : j # n /\ (j \notin S \/ j > n) => KeepsLoad(c.queue[j], r.core.queue[j])
      <4>1. \A j \in DOMAIN c.queue : j > n => j > p
        BY <1>1 DEF n
      <4> QED BY <2>1, <3>2, <3>6, <4>1 DEF KeepsLoad, Keeps
    <3>11. ASSUME H, NEW l \in S, l <= n, c.queue[l].op = "Load"
           PROVE  r.core.queue[l].loaded = Forwarded(c, Found(c, l, Unknown), l)
      <4>1. CASE l = n
        <5>1. Found(c, n, x) = Found(c, n, Unknown)
          <6>1. CASE x = Unknown
            BY <6>1
          <6>2. CASE x # Unknown
            <7>1. PICK m \in S : handOn /\ x = Found(c, m, Unknown)
              BY <3>4, <6>2
            <7>2. x = Found(c, n, Unknown)
              BY <2>4, <3>11, <7>1 DEF H
            <7> QED BY <6>2, <7>2 DEF Found
          <6> QED BY <6>1, <6>2
        <5> DEFINE s == Found(c, n, Unknown)
        <5>2. s = NoStore \/ (s \in DOMAIN c.queue /\ IsStore(c.queue[s]))
          <6>1. CacheOK(c, Unknown, n)
            BY DEF CacheOK
          <6> QED BY <3>2, <6>1, FoundFacts
        <5> HIDE DEF s
        <5>3. Forwarded(k, s, n) = Forwarded(c, s, n)
          BY <3>7, <5>2
        <5> QED BY <3>3, <3>6, <3>7, <3>11, <4>1, <5>1, <5>3 DEF s
      <4>2. CASE l # n
        <5>1. l <= p /\ l \in DOMAIN c.queue \ {n}
          BY <1>1, <3>11, <4>2 DEF n
        <5>2. k.queue[l].loaded = Forwarded(c, Found(c, l, Unknown), l)
          BY <2>1, <3>11, <5>1
        <5>3. r.core.queue[l].loaded = k.queue[l].loaded
          BY <3>2, <3>6, <5>1 DEF KeepsLoad
        <5> QED BY <5>2, <5>3
      <4> QED BY <4>1, <4>2
    <3>12. ~(n > n)
      BY <2>0 DEF n
    <3> QED BY <2>4, <3>6, <3>8, <3>9, <3>10, <3>11, <3>12
  <2> QED BY <2>3, <2>4
<1>6. N \in T
  <2> HIDE DEF T, N
  <2>1. \A n \in 0 .. N - 1 : n \in T => n + 1 \in T
    BY <1>4
  <2>2. \A n \in 0 .. N : n \in T
    BY <1>1, <1>3, <2>1, Climb
  <2> QED BY <1>1, <2>2
<1>7. OK(f[N], N)
  <2> HIDE DEF OK
  <2> QED BY <1>6
<1>8. \A l \in S : l <= N
  BY <1>1
<1> HIDE DEF H
<1>9. H => \A l \in S : c.queue[l].op = "Load" => d.queue[l].loaded = Forwarded(c, Found(c, l, Unknown), l)
  BY <1>2, <1>7, <1>8
<1>10. /\ Loading(c, d) /\ CoreInvBut(d, X) /\ Untouched(c, S, d)
  BY <1>2, <1>7 DEF Untouched
<1>11. H => Filled(c, S, d)
  BY <1>9 DEF Filled
<1> QED BY <1>10, <1>11 DEF H, Agree

(* updateDependantLoads does.                                              *)
LEMMA UpdateFacts ==
  ASSUME Prog, NEW c, NEW X, CoreInvBut(c, X), NEW s \in DOMAIN c.queue, NEW d, d = updateDependantLoads(c, s)
  PROVE  /\ Loading(c, d) /\ CoreInvBut(d, X)
         /\ Untouched(c, DependantLoads(c, s), d)
         /\ Agree(c, DependantLoads(c, s)) => Filled(c, DependantLoads(c, s), d)
<1> DEFINE S == DependantLoads(c, s)
<1>1. S \subseteq DOMAIN c.queue /\ \A l \in S : IsLoad(c.queue[l]) /\ intersects(c.queue[s], c.queue[l])
  BY DEF DependantLoads
<1>2. \A l \in S : c.queue[l].access # {}
  BY <1>1 DEF intersects
<1>3. SameSize => \A l \in S : c.queue[l].access = c.queue[s].access
  <2> SUFFICES ASSUME SameSize, NEW l \in S PROVE c.queue[l].access = c.queue[s].access
    OBVIOUS
  <2>1. s \in Ids /\ l \in Ids /\ EntryOK(c, s) /\ EntryOK(c, l)
    BY <1>1, EntryTyped DEF CoreInvBut
  <2> QED BY <1>1, <2>1, Overlap
<1>4. Loadable(c, S, TRUE)
  BY <1>1, <1>2, <1>3 DEF Loadable
<1> QED BY <1>4, LoadsFacts DEF updateDependantLoads

(* A store that is searched for as if it were annulled. *)
Hidden(c, s) == [c EXCEPT !.queue[s].annulled = TRUE]

(* Hiding a store keeps the invariant of the core.                         *)
LEMMA HiddenFacts ==
  ASSUME Prog, NEW c, NEW X, CoreInvBut(c, X), NEW s \in DOMAIN c.queue, IsStore(c.queue[s])
  PROVE  /\ CoreInvBut(Hidden(c, s), X) /\ DOMAIN Hidden(c, s).queue = DOMAIN c.queue
         /\ \A j \in DOMAIN c.queue : j # s => Hidden(c, s).queue[j] = c.queue[j]
         /\ Hidden(c, s).queue[s] = [c.queue[s] EXCEPT !.annulled = TRUE]
         /\ Hidden(c, s).mshrs = c.mshrs /\ Hidden(c, s).requests = c.requests
         /\ Hidden(c, s).prefetches = c.prefetches /\ Hidden(c, s).outstanding = c.outstanding
         /\ Hidden(c, s).permission = c.permission /\ Hidden(c, s).ports = c.ports
         /\ DependantLoads(Hidden(c, s), s) = DependantLoads(c, s)
<1> DEFINE e == c.queue[s]
           f == [e EXCEPT !.annulled = TRUE]
           d == Hidden(c, s)
<1>1. c \in CoreType /\ e \in EntryType /\ EntryOK(c, s) /\ s \in Ids /\ DOMAIN c.queue \subseteq Ids
  BY EntryTyped DEF CoreInvBut
<1>2. d = [c EXCEPT !.queue[s] = f]
  BY <1>1 DEF Hidden, CoreType
<1>3. f \in EntryType /\ f.annulled /\ f.op = e.op /\ f.queue = e.queue /\ f.access = e.access /\ f.data = e.data
      /\ f.failed = e.failed /\ f.storeComplete = e.storeComplete /\ f.loaded = e.loaded /\ f.partial = e.partial
      /\ f.mshr = e.mshr /\ f.issued = e.issued
  BY <1>1 DEF EntryType
<1> HIDE DEF f, d
<1>4. /\ d \in CoreType /\ DOMAIN d.queue = DOMAIN c.queue /\ d.queue[s] = f
      /\ \A j \in DOMAIN c.queue : j # s => d.queue[j] = c.queue[j]
      /\ d.mshrs = c.mshrs /\ d.requests = c.requests
      /\ d.prefetches = c.prefetches /\ d.outstanding = c.outstanding
      /\ d.permission = c.permission /\ d.ports = c.ports
  BY <1>1, <1>2, <1>3, SetEntry
<1>5. EntryOK(d, s)
  <2>1. (Engaged(d, s) <=> Engaged(c, s)) /\ (Least(d, s) <=> Least(c, s))
    BY <1>3, <1>4 DEF Engaged, Least
  <2>2. (IsStore(f) <=> IsStore(e)) /\ (IsAtomic(f) <=> IsAtomic(e)) /\ e.op \notin {"Load", "MEMBAR"}
    BY <1>3 DEF IsStore, IsAtomic
  <2> QED BY <1>1, <1>3, <1>4, <2>1, <2>2 DEF EntryOK
<1>6. CoreInvBut(d, X)
  <2>1. status(f) # "AwaitingPort"
    BY <1>3, StatusFacts
  <2>2. SameSize => ~f.partial
    BY <1>3 DEF CoreInvBut, NoPartial
  <2> QED BY <1>2, <1>3, <1>5, <2>1, <2>2, SetKeeps
<1>7. DependantLoads(d, s) = DependantLoads(c, s)
  <2>1. \A j \in DOMAIN c.queue : j > s => j # s
    BY <1>1, ProgFacts
  <2>2. \A l \in DOMAIN c.queue : \A t \in s + 1 .. l - 1 : t # s
    BY <1>1, ProgFacts
  <2>3. \A j \in DOMAIN c.queue : j # s => (IsLoad(d.queue[j]) <=> IsLoad(c.queue[j])) /\ (intersects(d.queue[s], d.queue[j]) <=> intersects(c.queue[s], c.queue[j]))
    BY <1>3, <1>4 DEF intersects
  <2> QED BY <1>4, <2>1, <2>2, <2>3 DEF DependantLoads
<1> QED BY <1>4, <1>6, <1>7 DEF d, f

(* resnoopDependantLoads keeps it.                                         *)
LEMMA ResnoopFacts ==
  ASSUME Prog, NEW c, NEW X, CoreInvBut(c, X), NEW s \in DOMAIN c.queue, IsStore(c.queue[s]), ~Engaged(c, s),
         NEW d, d = resnoopDependantLoads(c, s)
  PROVE  /\ Loading(c, d) /\ CoreInvBut(d, X)
         /\ Untouched(c, DependantLoads(c, s), d)
         /\ Agree(Hidden(c, s), DependantLoads(c, s)) => Filled(Hidden(c, s), DependantLoads(c, s), d)
<1> DEFINE a == Hidden(c, s)
           b == updateDependantLoads(a, s)
           D == DependantLoads(c, s)
           e == c.queue[s]
           f == [b.queue[s] EXCEPT !.annulled = e.annulled]
<1>1. /\ CoreInvBut(a, X) /\ DOMAIN a.queue = DOMAIN c.queue
      /\ \A j \in DOMAIN c.queue : j # s => a.queue[j] = c.queue[j]
      /\ a.queue[s] = [e EXCEPT !.annulled = TRUE]
      /\ a.mshrs = c.mshrs /\ a.requests = c.requests /\ a.prefetches = c.prefetches
      /\ a.outstanding = c.outstanding /\ a.permission = c.permission /\ a.ports = c.ports
      /\ DependantLoads(a, s) = D
  BY HiddenFacts
<1>2. d = [b EXCEPT !.queue[s].annulled = e.annulled]
  BY DEF resnoopDependantLoads, Hidden
<1> HIDE DEF a
<1>3. /\ Loading(a, b) /\ CoreInvBut(b, X) /\ Untouched(a, D, b) /\ (Agree(a, D) => Filled(a, D, b))
  BY <1>1, UpdateFacts
<1>4. /\ c \in CoreType /\ e \in EntryType /\ EntryOK(c, s) /\ s \in Ids /\ DOMAIN c.queue \subseteq Ids
      /\ c.requests \subseteq DOMAIN c.queue /\ c.prefetches \subseteq DOMAIN c.queue
  BY EntryTyped DEF CoreInvBut
<1>5. s \notin D
  <2>1. ~(s > s)
    BY <1>4, ProgFacts
  <2> QED BY <2>1 DEF DependantLoads
<1> HIDE DEF b, D
<1>6. b \in CoreType /\ DOMAIN b.queue = DOMAIN c.queue /\ b.queue[s] \in EntryType /\ KeepsLoad(a.queue[s], b.queue[s])
      /\ b.outstanding = c.outstanding /\ b.permission = c.permission /\ b.ports = c.ports
      /\ b.requests \subseteq DOMAIN c.queue /\ b.prefetches \subseteq DOMAIN c.queue
  BY <1>1, <1>3, <1>5, EntryTyped DEF Loading, Frame, CoreInvBut, Untouched
<1>7. d = [b EXCEPT !.queue[s] = f]
  BY <1>2, <1>6 DEF CoreType
<1>8. /\ f \in EntryType /\ KeepsLoad(e, f) /\ f.issued = b.queue[s].issued /\ f.mshr = b.queue[s].mshr
      /\ f.op = b.queue[s].op /\ f.queue = b.queue[s].queue /\ f.access = b.queue[s].access
      /\ f.partial = b.queue[s].partial
  BY <1>1, <1>4, <1>6 DEF EntryType, KeepsLoad, Keeps
<1> HIDE DEF f
<1>9. /\ d \in CoreType /\ DOMAIN d.queue = DOMAIN b.queue /\ d.queue[s] = f
      /\ \A j \in DOMAIN b.queue : j # s => d.queue[j] = b.queue[j]
      /\ d.mshrs = b.mshrs /\ d.requests = b.requests
      /\ d.prefetches = b.prefetches /\ d.outstanding = b.outstanding
      /\ d.permission = b.permission /\ d.ports = b.ports
  BY <1>6, <1>7, <1>8, SetEntry
<1>10. \A j \in DOMAIN c.queue : /\ Engaged(d, j) <=> Engaged(b, j)
                                 /\ Engaged(a, j) <=> Engaged(c, j)
                                 /\ IsStore(a.queue[j]) <=> IsStore(c.queue[j])
  <2>1. a.queue[s].issued = e.issued /\ a.queue[s].mshr = e.mshr /\ a.queue[s].op = e.op
    BY <1>1, <1>4 DEF EntryType
  <2> QED BY <1>1, <1>6, <1>8, <1>9, <2>1 DEF Engaged, IsStore, IsAtomic
<1>11. ~Engaged(b, s) /\ ~Engaged(d, s)
  BY <1>3, <1>1, <1>10 DEF Loading
<1>12. EntryOK(d, s)
  <2>1. IsAtomic(f) <=> IsAtomic(e)
    BY <1>8 DEF KeepsLoad, Keeps, IsAtomic
  <2>2. Least(d, s) <=> Least(c, s)
    BY <1>6, <1>9 DEF Least
  <2>3. ~f.issued
    BY <1>9, <1>11 DEF Engaged
  <2> QED BY <1>4, <1>8, <1>9, <1>11, <2>1, <2>2, <2>3 DEF EntryOK, KeepsLoad, Keeps
<1>13. CoreInvBut(d, X)
  <2>1. ~f.issued
    BY <1>8, <1>11 DEF Engaged
  <2>2. status(f) # "AwaitingPort"
    BY <2>1, StatusFacts
  <2>3. SameSize => ~f.partial
    BY <1>3, <1>6, <1>8 DEF CoreInvBut, NoPartial
  <2> QED BY <1>3, <1>6, <1>7, <1>8, <1>12, <2>2, <2>3, SetKeeps
<1>14. Loading(c, d)
  <2>1. Frame(c, d)
    <3>1. \A j \in DOMAIN c.queue : Keeps(c.queue[j], d.queue[j])
      BY <1>1, <1>3, <1>6, <1>8, <1>9 DEF Loading, Frame, KeepsLoad, Keeps
    <3> QED BY <1>4, <1>6, <1>9, <3>1 DEF Frame
  <2>2. ASSUME NEW j \in DOMAIN c.queue, j # s
        PROVE  /\ \/ d.queue[j].loaded = c.queue[j].loaded
                  \/ /\ c.queue[j].op = "Load"
                     /\ d.queue[j].loaded = None \/ d.queue[j].loaded \in [c.queue[j].access -> Values]
               /\ c.queue[j].op # "Load" => d.queue[j].partial = c.queue[j].partial
               /\ d.queue[j].mshr => c.queue[j].mshr /\ d.queue[j].loaded = c.queue[j].loaded
               /\ d.queue[j].issued => c.queue[j].issued \/ c.queue[j].access # {}
    <3>1. a.queue[j] = c.queue[j] /\ d.queue[j] = b.queue[j] /\ j \in DOMAIN a.queue
      BY <1>1, <1>6, <1>9, <2>2
    <3> QED BY <1>3, <3>1 DEF Loading
  <2>3. \A j \in DOMAIN c.queue : IsStore(c.queue[j]) /\ Engaged(d, j) => Engaged(c, j)
    BY <1>1, <1>3, <1>10 DEF Loading
  <2>4. d.queue[s].loaded = e.loaded /\ d.queue[s].partial = e.partial /\ d.queue[s].mshr = e.mshr /\ ~d.queue[s].issued
    BY <1>8, <1>9, <1>11 DEF KeepsLoad, Engaged
  <2>5. d.requests \subseteq DOMAIN c.queue /\ d.prefetches \subseteq DOMAIN c.queue
    BY <1>6, <1>9
  <2> QED BY <2>1, <2>2, <2>3, <2>4, <2>5 DEF Loading
<1>15. Untouched(c, D, d)
  BY <1>1, <1>3, <1>6, <1>8, <1>9 DEF Untouched
<1>16. \A l \in D : d.queue[l] = b.queue[l]
  BY <1>5, <1>6, <1>9 DEF D, DependantLoads
<1>17. Agree(a, D) => Filled(a, D, d)
  BY <1>3, <1>16 DEF Filled
<1> QED BY <1>13, <1>14, <1>15, <1>17 DEF a, D

(* Entries S leave the queue; permission is what it became. *)
Without(c, S, d, X) ==
  /\ CoreInvBut(d, X)
  /\ DOMAIN d.queue = DOMAIN c.queue \ S
  /\ \A j \in DOMAIN d.queue : KeepsLoad(c.queue[j], d.queue[j])
  /\ d.outstanding = c.outstanding /\ d.ports = c.ports

(* eraseLSQ: one entry leaves, with its permission when it is of the store *)
(* buffer.                                                                 *)
LEMMA EraseFacts ==
  ASSUME NEW c, NEW X, CoreInvBut(c, X), NEW i \in DOMAIN c.queue, NEW d, d = eraseLSQ(c, i)
  PROVE  /\ Without(c, {i}, d, X)
         /\ d.permission = IF c.queue[i].queue = "SB"
                           THEN unrequireWritePermission(c, BlockOf[paddr(c.queue[i])]).permission
                           ELSE c.permission
<1> DEFINE e == c.queue[i]
           a == breakMSHRLink(c, i)
           b == BlockOf[paddr(e)]
           u == IF e.queue = "SB" THEN unrequireWritePermission(a, b) ELSE a
           q == [j \in DOMAIN c.queue \ {i} |-> a.queue[j]]
           m == [k \in Bytes |-> [a.mshrs[k] EXCEPT !.blocked = @ \ {i}, !.prefetches = @ \ {i}]]
<1>1. /\ Loading(c, a) /\ CoreInvBut(a, X)
      /\ \A j \in DOMAIN c.queue \ {i} : KeepsLoad(c.queue[j], a.queue[j])
      /\ ~a.queue[i].mshr /\ ~a.queue[i].issued
  BY BreakKeeps
<1>2. c \in CoreType /\ e \in EntryType /\ EntryOK(c, i)
  BY EntryTyped DEF CoreInvBut
<1>3. /\ a \in CoreType /\ DOMAIN a.queue = DOMAIN c.queue /\ a.permission = c.permission
      /\ a.outstanding = c.outstanding /\ a.ports = c.ports
  BY <1>1 DEF Loading, Frame
<1> DEFINE p == IF e.queue = "SB" THEN unrequireWritePermission(c, b).permission ELSE c.permission
<1>4. e.queue = "SB" => b \in Blocks
  <2>1. e.queue = "SB" => paddr(e) \in Bytes
    BY <1>2, PaddrByte DEF EntryOK
  <2> QED BY <2>1 DEF Blocks
<1>5. p \in [Blocks -> [count : Int, held : BOOLEAN]]
  <2>1. CASE e.queue # "SB"
    BY <1>2, <2>1 DEF CoreType
  <2>2. CASE e.queue = "SB"
    <3> DEFINE n == c.permission[b].count - 1
               h == [count |-> n, held |-> n > 0 /\ c.permission[b].held]
    <3>1. c.permission \in [Blocks -> [count : Int, held : BOOLEAN]]
      BY <1>2 DEF CoreType
    <3>2. p = [c.permission EXCEPT ![b] = h]
      BY <1>2, <1>4, <2>2, <3>1 DEF unrequireWritePermission, CoreType
    <3>3. h \in [count : Int, held : BOOLEAN]
      BY <1>4, <2>2, <3>1
    <3> HIDE DEF h
    <3> QED BY <1>4, <2>2, <3>1, <3>2, <3>3
  <2> QED BY <2>1, <2>2
<1>6. u = [a EXCEPT !.permission = p]
  <2>1. CASE e.queue # "SB"
    BY <1>3, <2>1 DEF CoreType
  <2>2. CASE e.queue = "SB"
    <3> HIDE DEF a, b
    <3> QED BY <1>2, <1>3, <1>4, <2>2 DEF unrequireWritePermission, CoreType
  <2> QED BY <2>1, <2>2
<1> HIDE DEF p
<1>7. /\ q \in Queues /\ DOMAIN q = DOMAIN c.queue \ {i} /\ \A j \in DOMAIN q : q[j] = a.queue[j]
  <2>1. DOMAIN q \subseteq Ids /\ \A j \in DOMAIN q : q[j] \in EntryType
    BY <1>3, EntryTyped
  <2>2. q = [j \in DOMAIN q |-> q[j]] /\ DOMAIN q = DOMAIN c.queue \ {i}
    OBVIOUS
  <2>3. \A j \in DOMAIN q : q[j] = a.queue[j]
    OBVIOUS
  <2> HIDE DEF q
  <2> QED BY <2>1, <2>2, <2>3, QueueType
<1>8. /\ m \in [Bytes -> MSHR]
      /\ \A k \in Bytes : /\ m[k].op = a.mshrs[k].op /\ m[k].access = a.mshrs[k].access
                          /\ m[k].waiting = a.mshrs[k].waiting
                          /\ m[k].blocked = a.mshrs[k].blocked \ {i}
                          /\ a.mshrs[k] = NoMSHR => m[k] = NoMSHR
  <2>1. a.mshrs \in [Bytes -> MSHR]
    BY <1>3 DEF CoreType
  <2>2. ASSUME NEW k \in Bytes
        PROVE  /\ m[k] \in MSHR /\ m[k].op = a.mshrs[k].op /\ m[k].access = a.mshrs[k].access
               /\ m[k].waiting = a.mshrs[k].waiting
               /\ m[k].blocked = a.mshrs[k].blocked \ {i}
               /\ a.mshrs[k] = NoMSHR => m[k] = NoMSHR
    <3>1. a.mshrs[k] \in MSHR
      BY <2>1
    <3>2. m[k] = [a.mshrs[k] EXCEPT !.blocked = @ \ {i}, !.prefetches = @ \ {i}]
      OBVIOUS
    <3> HIDE DEF m, a
    <3>3. /\ m[k] \in MSHR /\ m[k].op = a.mshrs[k].op /\ m[k].access = a.mshrs[k].access
          /\ m[k].waiting = a.mshrs[k].waiting /\ m[k].blocked = a.mshrs[k].blocked \ {i}
      BY <3>1, <3>2 DEF MSHR
    <3>4. [NoMSHR EXCEPT !.blocked = @ \ {i}, !.prefetches = @ \ {i}] = NoMSHR
      <4>1. NoMSHR.blocked \ {i} = NoMSHR.blocked /\ NoMSHR.prefetches \ {i} = NoMSHR.prefetches
        BY DEF NoMSHR
      <4> QED BY <4>1, NoMSHRType DEF MSHR
    <3>5. a.mshrs[k] = NoMSHR => m[k] = NoMSHR
      BY <3>2, <3>4
    <3> QED BY <3>3, <3>5
  <2>3. m = [k \in Bytes |-> m[k]]
    OBVIOUS
  <2> HIDE DEF m
  <2> QED BY <2>2, <2>3
<1>9. d = [a EXCEPT !.permission = p, !.queue = q, !.requests = @ \ {i}, !.prefetches = @ \ {i}, !.mshrs = m]
  <2>1. u.queue = a.queue /\ u.mshrs = a.mshrs /\ u.requests = a.requests /\ u.prefetches = a.prefetches
    BY <1>3, <1>6 DEF CoreType
  <2>2. d = [u EXCEPT !.queue = [j \in DOMAIN u.queue \ {i} |-> u.queue[j]],
                !.requests = @ \ {i}, !.prefetches = @ \ {i},
                !.mshrs = [k \in Bytes |-> [u.mshrs[k] EXCEPT !.blocked = @ \ {i}, !.prefetches = @ \ {i}]]]
    BY DEF eraseLSQ
  <2>3. d = [u EXCEPT !.queue = q, !.requests = @ \ {i}, !.prefetches = @ \ {i}, !.mshrs = m]
    <3>1. q = [j \in DOMAIN u.queue \ {i} |-> u.queue[j]]
      BY <1>3, <2>1
    <3>2. m = [k \in Bytes |-> [u.mshrs[k] EXCEPT !.blocked = @ \ {i}, !.prefetches = @ \ {i}]]
      BY <2>1
    <3> HIDE DEF u, q, m
    <3> QED BY <2>2, <3>1, <3>2
  <2> HIDE DEF u, q, m, a
  <2> QED BY <1>3, <1>6, <2>1, <2>3 DEF CoreType
<1> HIDE DEF q, m, u, a
<1>10. /\ d \in CoreType /\ d.queue = q /\ d.mshrs = m /\ d.permission = p
       /\ d.requests = a.requests \ {i} /\ d.prefetches = a.prefetches \ {i}
       /\ d.outstanding = a.outstanding /\ d.ports = a.ports
  <2>1. a \in CoreType /\ q \in Queues /\ m \in [Bytes -> MSHR]
        /\ p \in [Blocks -> [count : Int, held : BOOLEAN]]
    BY <1>3, <1>5, <1>7, <1>8
  <2>2. a.requests \ {i} \subseteq Ids /\ a.prefetches \ {i} \subseteq Ids
    BY ONLY <2>1 DEF CoreType
  <2>3. /\ d.queue = q /\ d.mshrs = m /\ d.permission = p
        /\ d.requests = a.requests \ {i} /\ d.prefetches = a.prefetches \ {i}
        /\ d.outstanding = a.outstanding /\ d.ports = a.ports
    BY ONLY <1>9, <2>1 DEF CoreType
  <2>4. d \in CoreType
    BY ONLY <1>9, <2>1, <2>2 DEF CoreType
  <2> QED BY <2>3, <2>4
<1>11. \A j \in DOMAIN d.queue : j \in DOMAIN a.queue /\ j # i /\ d.queue[j] = a.queue[j]
  BY <1>3, <1>7, <1>10
<1>12. \A j \in DOMAIN d.queue : EntryOK(d, j)
  <2> TAKE j \in DOMAIN d.queue
  <2>1. EntryOK(a, j) /\ d.queue[j] = a.queue[j]
    BY <1>1, <1>11 DEF CoreInvBut
  <2>2. Engaged(d, j) => Engaged(a, j)
    BY <1>8, <1>10, <2>1 DEF Engaged
  <2>3. Least(a, j) => Least(d, j)
    BY <1>11 DEF Least
  <2> QED BY <2>1, <2>2, <2>3 DEF EntryOK
<1>13. Linked(d)
  <2>0. Linked(a)
    BY <1>1 DEF CoreInvBut
  <2>1. \A k \in Bytes : i \notin a.mshrs[k].waiting
    BY <1>1, <2>0 DEF Linked
  <2>2. DOMAIN d.queue = DOMAIN a.queue \ {i}
    BY <1>3, <1>7, <1>10
  <2>3. \A k \in Bytes :
       LET n == d.mshrs[k]
       IN  /\ n = NoMSHR \/ n.waiting # {}
           /\ n.blocked \subseteq DOMAIN d.queue
           /\ n.op # "Load" => \A x, j \in n.waiting : x = j
           /\ \A x \in n.waiting : /\ x \in DOMAIN d.queue /\ d.queue[x].mshr
                                   /\ d.queue[x].access = n.access /\ d.queue[x].op = n.op
                                   /\ paddr(d.queue[x]) = k
    <3> TAKE k \in Bytes
    <3> DEFINE n == d.mshrs[k]
               o == a.mshrs[k]
    <3>1. /\ o = NoMSHR \/ o.waiting # {}
          /\ o.blocked \subseteq DOMAIN a.queue
          /\ o.op # "Load" => \A x, j \in o.waiting : x = j
          /\ \A x \in o.waiting : /\ x \in DOMAIN a.queue /\ a.queue[x].mshr
                                   /\ a.queue[x].access = o.access /\ a.queue[x].op = o.op
                                   /\ paddr(a.queue[x]) = k
      BY <2>0 DEF Linked
    <3>2. /\ n.op = o.op /\ n.access = o.access /\ n.waiting = o.waiting
          /\ n.blocked = o.blocked \ {i} /\ (o = NoMSHR => n = NoMSHR) /\ i \notin o.waiting
      BY <1>8, <1>10, <2>1
    <3> HIDE DEF n, o
    <3>3. \A x \in o.waiting : x \in DOMAIN d.queue /\ d.queue[x] = a.queue[x]
      BY <1>11, <2>2, <3>1, <3>2
    <3>4. n.op # "Load" => \A x, j \in n.waiting : x = j
      BY <3>1, <3>2
    <3>5. \A x \in n.waiting : /\ x \in DOMAIN d.queue /\ d.queue[x].mshr
                                   /\ d.queue[x].access = n.access /\ d.queue[x].op = n.op
                                   /\ paddr(d.queue[x]) = k
      BY <3>1, <3>2, <3>3
    <3> QED BY <2>2, <3>1, <3>2, <3>4, <3>5 DEF n
  <2>4. ASSUME NEW j \in DOMAIN d.queue, d.queue[j].mshr PROVE j \in d.mshrs[paddr(d.queue[j])].waiting
    <3>1. j \in DOMAIN a.queue /\ d.queue[j] = a.queue[j] /\ EntryOK(a, j) /\ a.queue[j] \in EntryType
      BY <1>1, <1>3, <1>11, EntryTyped DEF CoreInvBut
    <3>2. paddr(a.queue[j]) \in Bytes
      BY <2>4, <3>1, PaddrByte DEF EntryOK
    <3>3. j \in a.mshrs[paddr(a.queue[j])].waiting
      BY <2>0, <2>4, <3>1 DEF Linked
    <3> QED BY <1>8, <1>10, <3>1, <3>2, <3>3
  <2> QED BY <2>3, <2>4 DEF Linked
<1>14. SBOrder(d)
  <2>1. \A x : InQueue(d, x) \subseteq InQueue(a, x)
    BY <1>11 DEF InQueue
  <2> QED BY <1>1, <2>1 DEF CoreInvBut, SBOrder
<1>15. SameSize => NoPartial(d) /\ PortsKnown(d, X)
  <2> SUFFICES ASSUME SameSize PROVE NoPartial(d) /\ PortsKnown(d, X)
    OBVIOUS
  <2>1. NoPartial(a) /\ PortsKnown(a, X)
    BY <1>1 DEF CoreInvBut
  <2>2. NoPartial(d)
    BY <1>11, <2>1 DEF NoPartial
  <2>3. ASSUME NEW j \in DOMAIN d.queue \ X, status(d.queue[j]) = "AwaitingPort"
        PROVE  j \in d.requests \/ j \in d.mshrs[paddr(d.queue[j])].blocked
    <3>1. j \in DOMAIN a.queue /\ j # i /\ d.queue[j] = a.queue[j] /\ a.queue[j] \in EntryType
      BY <1>3, <1>11, EntryTyped
    <3>2. j \in a.requests \/ j \in a.mshrs[paddr(a.queue[j])].blocked
      BY <2>1, <2>3, <3>1 DEF PortsKnown
    <3>3. paddr(a.queue[j]) \in Bytes
      BY <2>3, <3>1, StatusFacts, PaddrByte
    <3> QED BY <1>8, <1>10, <3>1, <3>2, <3>3
  <2> QED BY <2>2, <2>3 DEF PortsKnown
<1>16. CoreInvBut(d, X)
  <2>1. a.requests \subseteq DOMAIN a.queue /\ a.prefetches \subseteq DOMAIN a.queue
    BY <1>1 DEF CoreInvBut
  <2>2. d.requests \subseteq DOMAIN d.queue /\ d.prefetches \subseteq DOMAIN d.queue
    BY <1>3, <1>7, <1>10, <2>1
  <2> QED BY <1>10, <1>12, <1>13, <1>14, <1>15, <2>2 DEF CoreInvBut
<1>17. Without(c, {i}, d, X)
  BY <1>1, <1>3, <1>7, <1>10, <1>11, <1>16 DEF Without
<1> QED BY <1>10, <1>17 DEF p

(* The recursion of eraseFrom. *)
Younger(g, c, n) == IF n \in DOMAIN c.queue THEN eraseLSQ(g[n + 1], n) ELSE g[n + 1]

(* The recursion of eraseFrom.                                             *)
LEMMA Erasing ==
  ASSUME Len(program) \in Nat, NEW c, NEW i \in 1 .. Len(program)
  PROVE  \E f : /\ f[Len(program) + 1] = c
                /\ \A n \in i .. Len(program) : f[n] = Younger(f, c, n)
                /\ eraseFrom(c, i) = f[i]
<1> DEFINE N == Len(program)
           F(g, n) == IF n > N THEN c ELSE Younger(g, c, n)
           Dom(k) == N + 1 - k .. N + 1
           T == {k \in 0 .. N + 1 - i : \E g : g = [n \in Dom(k) |-> F(g, n)]}
<1>1. 0 \in T
  <2> DEFINE g == [n \in Dom(0) |-> c]
  <2>1. g = [n \in Dom(0) |-> F(g, n)]
    OBVIOUS
  <2> HIDE DEF g, F, Dom
  <2>2. \E x : x = [n \in Dom(0) |-> F(x, n)]
    BY <2>1
  <2> QED BY <2>2
<1>2. ASSUME NEW k \in 0 .. N + 1 - i - 1, k \in T PROVE k + 1 \in T
  <2>1. PICK g : g = [n \in Dom(k) |-> F(g, n)]
    BY <1>2
  <2> DEFINE h == [n \in Dom(k + 1) |-> IF n >= N + 1 - k THEN g[n] ELSE F(g, n)]
  <2>2. \A n \in Dom(k + 1) : F(h, n) = F(g, n)
    BY DEF Younger
  <2>3. \A n \in Dom(k + 1) : h[n] = F(g, n)
    BY <2>1
  <2> HIDE DEF F
  <2>4. h = [n \in Dom(k + 1) |-> F(h, n)]
    BY <2>2, <2>3
  <2> HIDE DEF h, Dom
  <2>5. \E x : x = [n \in Dom(k + 1) |-> F(x, n)]
    BY <2>4
  <2> QED BY <2>5
<1>3. N + 1 - i \in T
  <2> HIDE DEF T, F, Dom
  <2> DEFINE M == N + 1 - i
  <2>1. M \in Nat /\ 0 \in T
    BY <1>1
  <2>2. \A n \in 0 .. M - 1 : n \in T => n + 1 \in T
    BY <1>2
  <2> HIDE DEF M
  <2>3. \A n \in 0 .. M : n \in T
    BY <2>1, <2>2, Climb
  <2>4. M \in T
    BY <2>1, <2>3
  <2> QED BY <2>4 DEF M
<1>4. Dom(N + 1 - i) = i .. N + 1
  OBVIOUS
<1> DEFINE G == CHOOSE g : g = [n \in i .. N + 1 |-> F(g, n)]
<1>5. G = [n \in i .. N + 1 |-> F(G, n)]
  BY <1>3, <1>4
<1>6. eraseFrom(c, i) = G[i]
  BY DEF eraseFrom, Younger
<1> HIDE DEF G
<1>7. \A n \in i .. N + 1 : G[n] = F(G, n)
  BY <1>5
<1> QED BY <1>6, <1>7

(* eraseFrom: the entries from i on leave.                                 *)
LEMMA EraseFromFacts ==
  ASSUME Prog, NEW c, NEW X, CoreInvBut(c, X), NEW i \in InQueue(c, "LSQ"), NEW d, d = eraseFrom(c, i)
  PROVE  Without(c, {j \in DOMAIN c.queue : j >= i}, d, X) /\ d.permission = c.permission
<1> DEFINE N == Len(program)
           Gone(n) == {j \in DOMAIN c.queue : j >= n}
           OK(x, n) == Without(c, Gone(n), x, X) /\ x.permission = c.permission
<1>1. N \in Nat /\ DOMAIN c.queue \subseteq 1 .. N /\ i \in DOMAIN c.queue /\ i \in 1 .. N /\ c \in CoreType
  BY ProgFacts, EntryTyped DEF CoreInvBut, InQueue
<1>2. PICK f : /\ f[N + 1] = c
               /\ \A n \in i .. N : f[n] = Younger(f, c, n)
               /\ d = f[i]
  BY <1>1, Erasing
<1>3. \A n \in Gone(i) : c.queue[n].queue = "LSQ"
  <2> TAKE n \in Gone(i)
  <2>1. c.queue[n] \in EntryType
    BY EntryTyped DEF CoreInvBut
  <2>2. c.queue[n].queue = "LSQ" \/ n \in InQueue(c, "SB")
    BY <2>1 DEF EntryType, InQueue
  <2>3. n \in InQueue(c, "SB") => n < i
    BY DEF CoreInvBut, SBOrder
  <2> QED BY <1>1, <2>2, <2>3
<1> DEFINE T == {k \in 0 .. N + 1 - i : OK(f[N + 1 - k], N + 1 - k)}
<1>4. 0 \in T
  <2>1. Gone(N + 1) = {}
    BY <1>1
  <2>2. DOMAIN c.queue \ {} = DOMAIN c.queue /\ \A j \in DOMAIN c.queue : KeepsLoad(c.queue[j], c.queue[j])
    BY DEF KeepsLoad, Keeps
  <2>3. Without(c, {}, c, X)
    BY <2>2 DEF Without
  <2>4. OK(f[N + 1], N + 1)
    BY <1>2, <2>1, <2>3
  <2>5. N + 1 - 0 = N + 1 /\ 0 \in 0 .. N + 1 - i
    BY <1>1
  <2> HIDE DEF OK
  <2> QED BY <2>4, <2>5
<1>5. ASSUME NEW k \in 0 .. N + 1 - i - 1, k \in T PROVE k + 1 \in T
  <2> DEFINE n == N - k
             x == f[n + 1]
             y == f[n]
  <2>1. n \in i .. N /\ n + 1 = N + 1 - k /\ n = N + 1 - (k + 1) /\ k + 1 \in 0 .. N + 1 - i
    BY <1>1
  <2>2. OK(x, n + 1)
    <3> HIDE DEF OK
    <3> QED BY <1>5, <2>1
  <2>3. y = Younger(f, c, n)
    BY <1>2, <2>1
  <2> SUFFICES OK(y, n)
    <3> HIDE DEF OK
    <3> QED BY <2>1
  <2>4. CASE n \notin DOMAIN c.queue
    <3>1. y = x
      BY <2>3, <2>4 DEF Younger
    <3>2. Gone(n) = Gone(n + 1)
      BY <1>1, <2>1, <2>4
    <3> HIDE DEF Gone, n
    <3> QED BY <2>2, <3>1, <3>2
  <2>5. CASE n \in DOMAIN c.queue
    <3>1. y = eraseLSQ(x, n)
      BY <2>3, <2>5 DEF Younger
    <3>2. Gone(n) = Gone(n + 1) \cup {n} /\ n \notin Gone(n + 1) /\ n \in Gone(i)
      <4> HIDE DEF n
      <4>1. n \in Int /\ n >= i /\ \A j \in DOMAIN c.queue : j \in Int
        BY <1>1, <2>1
      <4>2. \A j \in DOMAIN c.queue : j >= n <=> j >= n + 1 \/ j = n
        BY <4>1
      <4> QED BY <2>5, <4>1, <4>2
    <3> HIDE DEF n, x, y
    <3>3. CoreInvBut(x, X) /\ n \in DOMAIN x.queue /\ KeepsLoad(c.queue[n], x.queue[n])
      BY <2>2, <2>5, <3>2 DEF Without
    <3>4. x.queue[n].queue = "LSQ"
      BY <1>3, <3>2, <3>3 DEF KeepsLoad, Keeps
    <3>5. Without(x, {n}, y, X) /\ y.permission = x.permission
      BY <3>1, <3>3, <3>4, EraseFacts
    <3> HIDE DEF Gone
    <3>6. DOMAIN y.queue = DOMAIN c.queue \ Gone(n)
      BY <2>2, <3>2, <3>5 DEF Without
    <3>7. \A j \in DOMAIN y.queue : KeepsLoad(c.queue[j], y.queue[j])
      BY <2>2, <3>5 DEF Without, KeepsLoad, Keeps
    <3> QED BY <2>2, <3>5, <3>6, <3>7 DEF Without
  <2> QED BY <2>4, <2>5
<1>6. N + 1 - i \in T
  <2> HIDE DEF T, OK
  <2> DEFINE M == N + 1 - i
  <2>1. M \in Nat
    BY <1>1
  <2>2. \A n \in 0 .. M - 1 : n \in T => n + 1 \in T
    <3> TAKE n \in 0 .. M - 1
    <3>1. n \in 0 .. N + 1 - i - 1
      BY <1>1
    <3> HIDE DEF M, N
    <3> QED BY <1>5, <3>1
  <2> HIDE DEF M
  <2>3. \A n \in 0 .. M : n \in T
    BY <1>4, <2>1, <2>2, Climb
  <2>4. M \in T
    BY <2>1, <2>3
  <2> QED BY <2>4 DEF M
<1>7. N + 1 - (N + 1 - i) = i
  BY <1>1
<1>8. OK(f[i], i)
  <2> HIDE DEF OK
  <2> QED BY <1>6, <1>7
<1> QED BY <1>2, <1>8

(* There is one function on nothing.                                       *)
LEMMA EmptyFunction ==
  ASSUME NEW V, NEW f \in [{} -> V]
  PROVE  f = <<>>
<1>1. f = [x \in {} |-> f[x]]
  OBVIOUS
<1>2. <<>> = [x \in {} |-> f[x]]
  <2>1. <<>> \in Seq(V)
    OBVIOUS
  <2>2. DOMAIN <<>> = {}
    OBVIOUS
  <2> QED BY <2>1, <2>2
<1> QED BY <1>1, <1>2

(* Only stores of the LSQ are annulled. *)
Annulled(c) == \A i \in DOMAIN c.queue : c.queue[i].annulled => c.queue[i].op = "Store" /\ c.queue[i].queue = "LSQ"

(* A step that leaves the store buffer alone and changes no address outside E. *)
Stays(c, d, E) ==
  /\ CoreInv(d) /\ Annulled(d)
  /\ DOMAIN d.queue = DOMAIN c.queue
  /\ \A j \in DOMAIN c.queue : /\ d.queue[j].queue = c.queue[j].queue
                               /\ j \notin E => d.queue[j].access = c.queue[j].access
  /\ \A j \in InQueue(c, "SB") : /\ d.queue[j].access = c.queue[j].access /\ d.queue[j].data = c.queue[j].data
                                 /\ c.queue[j].mshr => d.queue[j].mshr
  /\ d.permission = c.permission

(* Two such steps are one.                                                 *)
LEMMA StaysTransitive ==
  ASSUME NEW a, NEW b, NEW c, NEW E, NEW F, Stays(a, b, E), Stays(b, c, F)
  PROVE  Stays(a, c, E \cup F)
<1>1. InQueue(b, "SB") = InQueue(a, "SB")
  BY DEF Stays, InQueue
<1> QED BY <1>1 DEF Stays

(* Repeating loads is such a step.                                         *)
LEMMA LoadsStay ==
  ASSUME NEW c, CoreInv(c), Annulled(c), NEW d, CoreInv(d), Loading(c, d), NEW S, Untouched(c, S, d),
         \A l \in S \cap DOMAIN c.queue : c.queue[l].op # "Store"
  PROVE  Stays(c, d, {}) /\ d.ports = c.ports
<1>1. /\ DOMAIN d.queue = DOMAIN c.queue /\ d.permission = c.permission /\ d.ports = c.ports
      /\ \A j \in DOMAIN c.queue : Keeps(c.queue[j], d.queue[j])
  BY DEF Loading, Frame
<1>2. \A j \in InQueue(c, "SB") : j \in DOMAIN c.queue \ S
  BY DEF CoreInv, CoreInvBut, EntryOK, InQueue
<1>3. \A j \in InQueue(c, "SB") : d.queue[j].mshr = c.queue[j].mshr
  BY <1>2 DEF Untouched, KeepsLoad
<1>4. Annulled(d)
  BY <1>1 DEF Annulled, Keeps
<1>5. \A j \in InQueue(c, "SB") : j \in DOMAIN c.queue
  BY DEF InQueue
<1> QED BY <1>1, <1>3, <1>4, <1>5 DEF Stays, Keeps

(* So is changing an entry of the LSQ.                                     *)
LEMMA SetStays ==
  ASSUME NEW c, CoreInv(c), Annulled(c), NEW i \in InQueue(c, "LSQ"), NEW f \in EntryType,
         f.queue = c.queue[i].queue, f.op = c.queue[i].op,
         f.annulled => f.op = "Store", NEW d, d = [c EXCEPT !.queue[i] = f], CoreInv(d)
  PROVE  Stays(c, d, {i}) /\ d.ports = c.ports
<1>1. c \in CoreType /\ i \in DOMAIN c.queue /\ i \notin InQueue(c, "SB") /\ f.queue = "LSQ"
  BY DEF CoreInv, CoreInvBut, InQueue
<1>2. /\ DOMAIN d.queue = DOMAIN c.queue /\ d.queue[i] = f
      /\ \A j \in DOMAIN c.queue : j # i => d.queue[j] = c.queue[j]
      /\ d.permission = c.permission /\ d.ports = c.ports
  BY <1>1, SetEntry
<1>3. Annulled(d)
  BY <1>1, <1>2 DEF Annulled
<1>4. \A j \in InQueue(c, "SB") : j \in DOMAIN c.queue /\ j # i
  BY <1>1 DEF InQueue
<1> QED BY <1>2, <1>3, <1>4 DEF Stays

(* So is updateDependantLoads.                                             *)
LEMMA UpdateStays ==
  ASSUME Prog, NEW c, CoreInv(c), Annulled(c), NEW s \in DOMAIN c.queue, NEW d, d = updateDependantLoads(c, s)
  PROVE  Stays(c, d, {}) /\ d.ports = c.ports /\ Loading(c, d)
<1>1. Loading(c, d) /\ CoreInv(d) /\ Untouched(c, DependantLoads(c, s), d)
  BY UpdateFacts DEF CoreInv
<1>2. \A l \in DependantLoads(c, s) : c.queue[l].op # "Store"
  BY DEF DependantLoads, IsLoad, IsAtomic
<1> QED BY <1>1, <1>2, LoadsStay

(* So is resnoopDependantLoads.                                            *)
LEMMA ResnoopStays ==
  ASSUME Prog, NEW c, CoreInv(c), Annulled(c), NEW s \in DOMAIN c.queue, IsStore(c.queue[s]), ~Engaged(c, s),
         NEW d, d = resnoopDependantLoads(c, s)
  PROVE  Stays(c, d, {}) /\ d.ports = c.ports /\ Loading(c, d)
<1>1. Loading(c, d) /\ CoreInv(d) /\ Untouched(c, DependantLoads(c, s), d)
  BY ResnoopFacts DEF CoreInv
<1>2. \A l \in DependantLoads(c, s) : c.queue[l].op # "Store"
  BY DEF DependantLoads, IsLoad, IsAtomic
<1> QED BY <1>1, <1>2, LoadsStay

(* Entry i of c becomes f. *)
Becoming(c, i, f, a) ==
  /\ CoreInv(a) /\ Annulled(a) /\ Stays(c, a, {i}) /\ a.ports = c.ports
  /\ DOMAIN a.queue = DOMAIN c.queue /\ a.queue[i] = f
  /\ \A j \in DOMAIN c.queue : j # i => a.queue[j] = c.queue[j]

(* An address is resolved. *)
LEMMA ResolveSet ==
  ASSUME Prog, NEW c, CoreInv(c), Annulled(c), NEW i \in InQueue(c, "LSQ"), c.queue[i].op # "MEMBAR",
         c.queue[i].access = {}, NEW v \in 1 .. 2, NEW A, A = program[i].access[v]
  PROVE  Becoming(c, i, [c.queue[i] EXCEPT !.access = A], [c EXCEPT !.queue[i].access = A]) /\ A # {}
<1> DEFINE e == c.queue[i]
           f == [e EXCEPT !.access = A]
           a == [c EXCEPT !.queue[i].access = A]
<1>1. c \in CoreType /\ i \in DOMAIN c.queue /\ i \in Ids /\ e \in EntryType /\ EntryOK(c, i) /\ CoreInvBut(c, {})
  BY EntryTyped DEF CoreInv, CoreInvBut, InQueue
<1>2. A \subseteq Bytes /\ A # {}
  <2>1. program[i].access \in [1 .. 2 -> SUBSET Bytes]
    BY <1>1, ProgFacts
  <2>2. program[i].op # "MEMBAR"
    BY <1>1 DEF EntryOK
  <2>3. A # {}
    BY <1>1, <2>2, ProgFacts
  <2> QED BY <2>1, <2>3
<1>3. a = [c EXCEPT !.queue[i] = f]
  BY <1>1 DEF CoreType
<1>4. /\ f \in EntryType /\ f.op = e.op /\ f.queue = e.queue /\ f.access = A /\ f.data = e.data
      /\ f.failed = e.failed /\ f.storeComplete = e.storeComplete /\ f.loaded = e.loaded /\ f.partial = e.partial
      /\ f.mshr = e.mshr /\ f.issued = e.issued /\ f.annulled = e.annulled /\ f.override = e.override
  BY <1>1, <1>2 DEF EntryType
<1>5. e.loaded = None /\ ~e.mshr /\ ~e.issued
  BY <1>1, EmptyFunction DEF EntryOK, None
<1> HIDE DEF a, f
<1>6. /\ a \in CoreType /\ DOMAIN a.queue = DOMAIN c.queue /\ a.queue[i] = f
      /\ \A j \in DOMAIN c.queue : j # i => a.queue[j] = c.queue[j]
      /\ a.mshrs = c.mshrs /\ a.requests = c.requests
  BY <1>1, <1>3, <1>4, SetEntry
<1>7. EntryOK(a, i)
  <2>1. (Engaged(a, i) <=> Engaged(c, i)) /\ (Least(a, i) <=> Least(c, i))
    BY <1>4, <1>6 DEF Engaged, Least
  <2>2. (IsStore(f) <=> IsStore(e)) /\ (IsAtomic(f) <=> IsAtomic(e))
    BY <1>4 DEF IsStore, IsAtomic
  <2> QED BY <1>1, <1>2, <1>4, <1>5, <1>6, <2>1, <2>2 DEF EntryOK
<1>8. CoreInvBut(a, {})
  <2>1. status(f) # "AwaitingPort"
    BY <1>4, <1>5, StatusFacts
  <2>2. SameSize => ~f.partial
    BY <1>1, <1>4 DEF CoreInvBut, NoPartial
  <2> QED BY <1>1, <1>3, <1>4, <1>5, <1>7, <2>1, <2>2, SetKeeps
<1>9. CoreInv(a) /\ Annulled(a) /\ Stays(c, a, {i}) /\ a.ports = c.ports
  <2>1. CoreInv(a)
    BY <1>8 DEF CoreInv
  <2>2. f.annulled => f.op = "Store"
    BY <1>1, <1>4 DEF Annulled
  <2>3. Stays(c, a, {i}) /\ a.ports = c.ports
    BY <1>3, <1>4, <2>1, <2>2, SetStays
  <2> QED BY <2>1, <2>3 DEF Stays
<1> QED BY <1>2, <1>6, <1>9 DEF Becoming, a, f

(* resolveVAddr keeps the invariant and all other addresses.               *)
LEMMA ResolveFacts ==
  ASSUME Prog, NEW c, CoreInv(c), Annulled(c), NEW i \in InQueue(c, "LSQ"), c.queue[i].op # "MEMBAR",
         c.queue[i].access = {}, NEW v \in 1 .. 2, NEW A, A = program[i].access[v],
         NEW d, d = resolveVAddr(c, i, A)
  PROVE  Stays(c, d, {i}) /\ d.queue[i].access = A /\ d.ports = c.ports
<1> DEFINE e == c.queue[i]
           f == [e EXCEPT !.access = A]
           a == [c EXCEPT !.queue[i].access = A]
<1>1. i \in DOMAIN c.queue /\ e \in EntryType
  BY EntryTyped DEF CoreInv, CoreInvBut, InQueue
<1>2. Becoming(c, i, f, a) /\ A # {}
  BY ResolveSet
<1>4. f.op = e.op /\ f.access = A
  BY <1>1 DEF EntryType
<1> HIDE DEF a, f
<1>6. /\ DOMAIN a.queue = DOMAIN c.queue /\ a.queue[i] = f
      /\ \A j \in DOMAIN c.queue : j # i => a.queue[j] = c.queue[j]
  BY <1>2 DEF Becoming
<1>9. CoreInv(a) /\ Annulled(a) /\ Stays(c, a, {i}) /\ a.ports = c.ports
  BY <1>2 DEF Becoming
<1>8. CoreInvBut(a, {})
  BY <1>9 DEF CoreInv
<1>10. d = IF f.annulled THEN a
           ELSE IF f.op = "Load" THEN doLoad(a, i, Unknown).core
           ELSE IF status(f) = "AwaitingValue" THEN a ELSE updateDependantLoads(a, i)
  <2>1. a = [c EXCEPT !.queue[i].access = A]
    BY DEF a
  <2> QED BY <1>6, <2>1, Zenon DEF resolveVAddr
<1>11. CASE d = a
  BY <1>4, <1>6, <1>9, <1>11
<1>12. CASE f.op = "Load" /\ d = doLoad(a, i, Unknown).core
  <2>1. IsLoad(a.queue[i]) /\ a.queue[i].access # {} /\ CacheOK(a, Unknown, i) /\ i \in DOMAIN a.queue
    BY <1>1, <1>2, <1>4, <1>6, <1>12 DEF IsLoad, CacheOK
  <2>2. /\ Loading(a, d) /\ CoreInvBut(d, {})
        /\ \A j \in DOMAIN a.queue \ {i} : KeepsLoad(a.queue[j], d.queue[j])
    BY <1>8, <1>12, <2>1, DoLoadFacts
  <2>3. Untouched(a, {i}, d) /\ CoreInv(d)
    BY <2>2 DEF Untouched, CoreInv
  <2>4. \A l \in {i} \cap DOMAIN a.queue : a.queue[l].op # "Store"
    BY <1>6, <1>12
  <2>5. Stays(a, d, {}) /\ d.ports = a.ports
    BY <1>9, <2>2, <2>3, <2>4, LoadsStay
  <2>6. Stays(c, d, {i} \cup {})
    BY <1>9, <2>5, StaysTransitive
  <2>7. {i} \cup {} = {i}
    OBVIOUS
  <2>8. d.queue[i].access = A
    BY <1>4, <1>6, <2>1, <2>5 DEF Stays
  <2> QED BY <1>9, <2>5, <2>6, <2>7, <2>8
<1>13. CASE d = updateDependantLoads(a, i)
  <2>1. Stays(a, d, {}) /\ d.ports = a.ports
    BY <1>1, <1>6, <1>9, <1>13, UpdateStays
  <2>2. Stays(c, d, {i} \cup {})
    BY <1>9, <2>1, StaysTransitive
  <2>3. {i} \cup {} = {i}
    OBVIOUS
  <2>4. d.queue[i].access = A
    BY <1>1, <1>4, <1>6, <2>1 DEF Stays
  <2> QED BY <1>9, <2>1, <2>2, <2>3, <2>4
<1> QED BY <1>10, <1>11, <1>12, <1>13

(* A store of the LSQ is not issued, and an atomic only as the oldest. *)
LEMMA NotEngaged ==
  ASSUME NEW c, CoreInv(c), NEW i \in InQueue(c, "LSQ"), IsStore(c.queue[i]),
         c.queue[i].op = "Store" \/ ~Least(c, i)
  PROVE  ~Engaged(c, i) /\ ~c.queue[i].storeComplete
<1>1. EntryOK(c, i) /\ c.queue[i].queue = "LSQ"
  BY DEF CoreInv, CoreInvBut, InQueue
<1>2. c.queue[i].op = "Store" => ~IsAtomic(c.queue[i])
  BY DEF IsAtomic
<1> QED BY <1>1, <1>2 DEF EntryOK

(* A value is set, and an annulled store is reinstated.                    *)
LEMMA ValueSet ==
  ASSUME Prog, NEW c, CoreInv(c), Annulled(c), NEW i \in InQueue(c, "LSQ"), IsStore(c.queue[i]),
         ~c.queue[i].storeComplete, NEW v \in Values \ {0}
  PROVE  Becoming(c, i, [c.queue[i] EXCEPT !.data = v, !.annulled = FALSE],
                  [c EXCEPT !.queue[i].data = v, !.queue[i].annulled = FALSE])
<1> DEFINE e == c.queue[i]
           f == [e EXCEPT !.data = v, !.annulled = FALSE]
           a == [c EXCEPT !.queue[i].data = v, !.queue[i].annulled = FALSE]
<1>1. c \in CoreType /\ i \in DOMAIN c.queue /\ i \in Ids /\ e \in EntryType /\ EntryOK(c, i) /\ CoreInvBut(c, {})
  BY EntryTyped DEF CoreInv, CoreInvBut, InQueue
<1>3. a = [c EXCEPT !.queue[i] = f]
  BY <1>1 DEF CoreType
<1>4. /\ f \in EntryType /\ f.op = e.op /\ f.queue = e.queue /\ f.access = e.access /\ f.data = v
      /\ f.failed = e.failed /\ f.storeComplete = e.storeComplete /\ f.loaded = e.loaded /\ f.partial = e.partial
      /\ f.mshr = e.mshr /\ f.issued = e.issued /\ ~f.annulled /\ f.override = e.override
  BY <1>1 DEF EntryType
<1> HIDE DEF a, f
<1>6. /\ a \in CoreType /\ DOMAIN a.queue = DOMAIN c.queue /\ a.queue[i] = f
      /\ \A j \in DOMAIN c.queue : j # i => a.queue[j] = c.queue[j]
      /\ a.mshrs = c.mshrs /\ a.requests = c.requests
  BY <1>1, <1>3, <1>4, SetEntry
<1>7. EntryOK(a, i)
  <2>1. (Engaged(a, i) <=> Engaged(c, i)) /\ (Least(a, i) <=> Least(c, i))
    BY <1>4, <1>6 DEF Engaged, Least
  <2>2. (IsStore(f) <=> IsStore(e)) /\ (IsAtomic(f) <=> IsAtomic(e)) /\ v # 0
    BY <1>4 DEF IsStore, IsAtomic
  <2> QED BY <1>1, <1>4, <1>6, <2>1, <2>2 DEF EntryOK
<1>8. CoreInvBut(a, {})
  <2>1. SameSize /\ status(f) = "AwaitingPort" => i \in c.requests \/ i \in c.mshrs[paddr(f)].blocked
    <3> SUFFICES ASSUME SameSize, status(f) = "AwaitingPort"
                 PROVE  i \in c.requests \/ i \in c.mshrs[paddr(f)].blocked
      OBVIOUS
    <3>1. e.issued /\ ~e.mshr
      BY <1>4, StatusFacts
    <3>2. e.data # 0 /\ ~e.annulled
      <4>1. Engaged(c, i)
        BY <3>1 DEF Engaged
      <4>2. e.annulled => e.op = "Store"
        BY <1>1 DEF Annulled
      <4> QED BY <1>1, <4>1, <4>2, NotEngaged DEF EntryOK
    <3>3. status(e) = "AwaitingPort"
      <4>1. v # 0
        OBVIOUS
      <4>2. (IsLoad(f) <=> IsLoad(e)) /\ (IsAtomic(f) <=> IsAtomic(e))
        BY <1>4 DEF IsLoad, IsAtomic
      <4> QED BY <1>4, <3>2, <4>1, <4>2, StatusFacts
    <3>4. paddr(f) = paddr(e)
      BY <1>4 DEF paddr
    <3> QED BY <1>1, <3>3, <3>4 DEF CoreInvBut, PortsKnown
  <2>2. SameSize => ~f.partial
    BY <1>1, <1>4 DEF CoreInvBut, NoPartial
  <2> QED BY <1>1, <1>3, <1>4, <1>7, <2>1, <2>2, SetKeeps
<1>9. CoreInv(a) /\ Annulled(a) /\ Stays(c, a, {i}) /\ a.ports = c.ports
  <2>1. CoreInv(a)
    BY <1>8 DEF CoreInv
  <2>2. f.annulled => f.op = "Store"
    BY <1>4
  <2>3. Stays(c, a, {i}) /\ a.ports = c.ports
    BY <1>3, <1>4, <2>1, <2>2, SetStays
  <2> QED BY <2>1, <2>3 DEF Stays
<1> QED BY <1>6, <1>9 DEF Becoming, a, f

(* updateStoreValue keeps the invariant and all addresses.                 *)
LEMMA ValueFacts ==
  ASSUME Prog, NEW c, CoreInv(c), Annulled(c), NEW i \in InQueue(c, "LSQ"), IsStore(c.queue[i]),
         ~c.queue[i].storeComplete, NEW v \in Values \ {0}, NEW d, d = updateStoreValue(c, i, v)
  PROVE  Stays(c, d, {}) /\ d.ports = c.ports
<1> DEFINE e == c.queue[i]
           f == [e EXCEPT !.data = v, !.annulled = FALSE]
           a == [c EXCEPT !.queue[i].data = v, !.queue[i].annulled = FALSE]
<1>1. i \in DOMAIN c.queue /\ e \in EntryType
  BY EntryTyped DEF CoreInv, CoreInvBut, InQueue
<1>2. Becoming(c, i, f, a)
  BY ValueSet, Zenon
<1>4. f.queue = e.queue /\ f.access = e.access
  BY <1>1 DEF EntryType
<1>5. d \in {a, updateDependantLoads(a, i)}
  BY DEF updateStoreValue
<1> HIDE DEF a, f
<1>6. /\ DOMAIN a.queue = DOMAIN c.queue /\ a.queue[i] = f
      /\ \A j \in DOMAIN c.queue : j # i => a.queue[j] = c.queue[j]
  BY <1>2 DEF Becoming
<1>9. CoreInv(a) /\ Annulled(a) /\ Stays(c, a, {i}) /\ a.ports = c.ports
  BY <1>2 DEF Becoming
<1>10. Stays(c, a, {})
  BY <1>4, <1>6, <1>9 DEF Stays
<1>11. CASE d = a
  BY <1>9, <1>10, <1>11
<1>12. CASE d = updateDependantLoads(a, i)
  <2>1. Stays(a, d, {}) /\ d.ports = a.ports
    BY <1>1, <1>6, <1>9, <1>12, UpdateStays
  <2>2. Stays(c, d, {} \cup {})
    BY <1>10, <2>1, StaysTransitive
  <2>3. {} \cup {} = {}
    OBVIOUS
  <2> QED BY <1>9, <2>1, <2>2, <2>3
<1> QED BY <1>5, <1>11, <1>12

(* annulStoreValue changes one entry, which is not issued then.            *)
LEMMA AnnulSet ==
  ASSUME Prog, NEW c, CoreInv(c), Annulled(c), NEW i \in InQueue(c, "LSQ"), c.queue[i].op = "Store"
  PROVE  LET a == [c EXCEPT !.queue[i].annulled = TRUE, !.queue[i].issued = FALSE]
         IN  /\ Becoming(c, i, [c.queue[i] EXCEPT !.annulled = TRUE, !.issued = FALSE], a)
             /\ ~Engaged(a, i) /\ IsStore(a.queue[i])
<1> DEFINE e == c.queue[i]
           f == [e EXCEPT !.annulled = TRUE, !.issued = FALSE]
           a == [c EXCEPT !.queue[i].annulled = TRUE, !.queue[i].issued = FALSE]
<1>1. c \in CoreType /\ i \in DOMAIN c.queue /\ i \in Ids /\ e \in EntryType /\ EntryOK(c, i) /\ CoreInvBut(c, {})
  BY EntryTyped DEF CoreInv, CoreInvBut, InQueue
<1>2. IsStore(e) /\ ~Engaged(c, i)
  <2>1. IsStore(e)
    BY DEF IsStore
  <2> QED BY <2>1, NotEngaged
<1>3. a = [c EXCEPT !.queue[i] = f]
  BY <1>1 DEF CoreType
<1>4. /\ f \in EntryType /\ f.op = e.op /\ f.queue = e.queue /\ f.access = e.access /\ f.data = e.data
      /\ f.failed = e.failed /\ f.storeComplete = e.storeComplete /\ f.loaded = e.loaded /\ f.partial = e.partial
      /\ f.mshr = e.mshr /\ ~f.issued /\ f.annulled /\ f.override = e.override
  BY <1>1 DEF EntryType
<1> HIDE DEF a, f
<1>6. /\ a \in CoreType /\ DOMAIN a.queue = DOMAIN c.queue /\ a.queue[i] = f
      /\ \A j \in DOMAIN c.queue : j # i => a.queue[j] = c.queue[j]
      /\ a.mshrs = c.mshrs /\ a.requests = c.requests
  BY <1>1, <1>3, <1>4, SetEntry
<1>7. EntryOK(a, i) /\ ~Engaged(a, i) /\ IsStore(a.queue[i])
  <2>1. ~Engaged(a, i) /\ (Least(a, i) <=> Least(c, i))
    BY <1>2, <1>4, <1>6 DEF Engaged, Least
  <2>2. (IsStore(f) <=> IsStore(e)) /\ (IsAtomic(f) <=> IsAtomic(e))
    BY <1>4 DEF IsStore, IsAtomic
  <2> QED BY <1>1, <1>2, <1>4, <1>6, <2>1, <2>2 DEF EntryOK
<1>8. CoreInvBut(a, {})
  <2>1. status(f) # "AwaitingPort"
    BY <1>4, StatusFacts
  <2>2. SameSize => ~f.partial
    BY <1>1, <1>4 DEF CoreInvBut, NoPartial
  <2> QED BY <1>1, <1>3, <1>4, <1>7, <2>1, <2>2, SetKeeps
<1>9. CoreInv(a) /\ Annulled(a) /\ Stays(c, a, {i}) /\ a.ports = c.ports
  <2>1. CoreInv(a)
    BY <1>8 DEF CoreInv
  <2>2. f.annulled => f.op = "Store"
    BY <1>4
  <2>3. Stays(c, a, {i}) /\ a.ports = c.ports
    BY <1>3, <1>4, <2>1, <2>2, SetStays
  <2> QED BY <2>1, <2>3 DEF Stays
<1>10. Becoming(c, i, f, a)
  BY <1>6, <1>9 DEF Becoming
<1> QED BY <1>7, <1>10 DEF a, f

(* annulStoreValue keeps the invariant and all addresses.                  *)
LEMMA AnnulFacts ==
  ASSUME Prog, NEW c, CoreInv(c), Annulled(c), NEW i \in InQueue(c, "LSQ"), c.queue[i].op = "Store",
         NEW d, d = annulStoreValue(c, i)
  PROVE  Stays(c, d, {}) /\ d.ports = c.ports
<1> DEFINE e == c.queue[i]
           f == [e EXCEPT !.annulled = TRUE, !.issued = FALSE]
           a == [c EXCEPT !.queue[i].annulled = TRUE, !.queue[i].issued = FALSE]
<1>1. i \in DOMAIN c.queue /\ e \in EntryType
  BY EntryTyped DEF CoreInv, CoreInvBut, InQueue
<1>2. Becoming(c, i, f, a) /\ ~Engaged(a, i) /\ IsStore(a.queue[i])
  BY AnnulSet
<1>4. f.queue = e.queue /\ f.access = e.access
  BY <1>1 DEF EntryType
<1>5. d = resnoopDependantLoads(a, i)
  BY DEF annulStoreValue
<1> HIDE DEF a, f
<1>6. /\ DOMAIN a.queue = DOMAIN c.queue /\ a.queue[i] = f
      /\ \A j \in DOMAIN c.queue : j # i => a.queue[j] = c.queue[j]
  BY <1>2 DEF Becoming
<1>7. ~Engaged(a, i) /\ IsStore(a.queue[i])
  BY <1>2
<1>9. CoreInv(a) /\ Annulled(a) /\ Stays(c, a, {i}) /\ a.ports = c.ports
  BY <1>2 DEF Becoming
<1>10. Stays(c, a, {})
  BY <1>4, <1>6, <1>9 DEF Stays
<1>11. Stays(a, d, {}) /\ d.ports = a.ports
  BY <1>1, <1>5, <1>6, <1>7, <1>9, ResnoopStays
<1>12. Stays(c, d, {} \cup {})
  BY <1>10, <1>11, StaysTransitive
<1>13. {} \cup {} = {}
  OBVIOUS
<1> QED BY <1>9, <1>11, <1>12, <1>13

(* breakMSHRLink begins with issued. *)
Broken(d, linked, k, m, i) ==
  LET unlinked == [d EXCEPT !.mshrs[k].waiting = @ \ {i}]
      woken == IF unlinked.mshrs[k].waiting = {} THEN Wake([d EXCEPT !.mshrs[k] = NoMSHR], m) ELSE unlinked
  IN  IF linked THEN [woken EXCEPT !.queue[i].mshr = FALSE] ELSE d

(* Clearing issued before breakMSHRLink makes no difference.               *)
LEMMA BreakIssued ==
  ASSUME NEW c \in CoreType, NEW i \in DOMAIN c.queue, NEW a, a = [c EXCEPT !.queue[i].issued = FALSE]
  PROVE  breakMSHRLink(a, i) = breakMSHRLink(c, i)
<1> DEFINE e == c.queue[i]
           f == [e EXCEPT !.issued = FALSE]
<1>1. e \in EntryType
  BY EntryTyped
<1>2. a = [c EXCEPT !.queue[i] = f]
  BY DEF CoreType
<1>3. f \in EntryType /\ f.mshr = e.mshr /\ f.access = e.access /\ f.issued = FALSE
  BY <1>1 DEF EntryType
<1>4. [f EXCEPT !.issued = FALSE] = f
  BY <1>3 DEF EntryType
<1> HIDE DEF f
<1>5. /\ a \in CoreType /\ DOMAIN a.queue = DOMAIN c.queue /\ a.queue[i] = f
      /\ \A j \in DOMAIN c.queue : j # i => a.queue[j] = c.queue[j]
      /\ a.mshrs = c.mshrs /\ a.requests = c.requests
      /\ a.prefetches = c.prefetches /\ a.outstanding = c.outstanding
      /\ a.permission = c.permission /\ a.ports = c.ports
  <2> DEFINE g == f
             n == [c EXCEPT !.queue[i] = g]
  <2>1. g \in EntryType /\ a = n
    BY <1>2, <1>3
  <2> HIDE DEF g
  <2>2. /\ n \in CoreType /\ DOMAIN n.queue = DOMAIN c.queue /\ n.queue[i] = g
        /\ \A j \in DOMAIN c.queue : j # i => n.queue[j] = c.queue[j]
        /\ n.mshrs = c.mshrs /\ n.requests = c.requests
        /\ n.prefetches = c.prefetches /\ n.outstanding = c.outstanding
        /\ n.permission = c.permission /\ n.ports = c.ports
    BY <2>1, SetEntry
  <2>3. g = f
    BY DEF g
  <2> HIDE DEF n
  <2> QED BY <2>1, <2>2, <2>3, Zenon
<1>6. [a EXCEPT !.queue[i].issued = FALSE] = [a EXCEPT !.queue[i] = f]
  BY <1>4, <1>5 DEF CoreType
<1>7. [a EXCEPT !.queue[i] = f] = a
  <2>1. a.queue = [j \in DOMAIN a.queue |-> a.queue[j]]
    BY <1>5, EntryTyped
  <2>2. [a.queue EXCEPT ![i] = f] = a.queue
    BY <1>5, <2>1
  <2>3. [a EXCEPT !.queue[i] = f] = [a EXCEPT !.queue = a.queue]
    BY <1>5, <2>2 DEF CoreType
  <2> QED BY <1>5, <2>3 DEF CoreType
<1>8. paddr(a.queue[i]) = paddr(c.queue[i]) /\ a.queue[i].mshr = c.queue[i].mshr
  BY <1>3, <1>5 DEF paddr
<1>9. [a EXCEPT !.queue[i].issued = FALSE] = [c EXCEPT !.queue[i].issued = FALSE]
  BY <1>6, <1>7
<1>10. breakMSHRLink(a, i) =
         Broken([a EXCEPT !.queue[i].issued = FALSE], a.queue[i].mshr, paddr(a.queue[i]),
                a.mshrs[paddr(a.queue[i])], i)
  BY SMT DEF breakMSHRLink, Broken
<1>11. breakMSHRLink(c, i) =
         Broken([c EXCEPT !.queue[i].issued = FALSE], c.queue[i].mshr, paddr(c.queue[i]),
                c.mshrs[paddr(c.queue[i])], i)
  BY SMT DEF breakMSHRLink, Broken
<1> QED BY <1>5, <1>8, <1>9, <1>10, <1>11, Zenon

(* The address of an entry that is not the oldest is taken back. *)
LEMMA UnresolveFacts ==
  ASSUME Prog, NEW c, CoreInv(c), Annulled(c), NEW i \in InQueue(c, "LSQ"), ~Least(c, i),
         NEW d, d = unresolveVAddr(c, i)
  PROVE  /\ Stays(c, d, {i}) /\ d.queue[i].access = {} /\ d.ports = c.ports
         /\ ~IsStore(c.queue[i]) => \A j \in DOMAIN c.queue \ {i} : SameLoad(c.queue[j], d.queue[j])
<1> DEFINE b == IF IsStore(c.queue[i]) /\ c.queue[i].data # 0 THEN resnoopDependantLoads(c, i) ELSE c
           l == [b EXCEPT !.queue[i].loaded = None]
           e == b.queue[i]
           f == [e EXCEPT !.loaded = None]
           h == [f EXCEPT !.issued = FALSE]
           n == [b EXCEPT !.queue[i] = h]
           u == breakMSHRLink(l, i)
           w == [u.queue[i] EXCEPT !.access = {}]
<1>0. c \in CoreType /\ i \in DOMAIN c.queue /\ CoreInvBut(c, {}) /\ EntryOK(c, i)
  BY DEF CoreInv, CoreInvBut, InQueue
<1>1. Stays(c, b, {}) /\ b.ports = c.ports /\ Loading(c, b)
  <2>1. CASE IsStore(c.queue[i]) /\ c.queue[i].data # 0
    <3>1. ~Engaged(c, i)
      BY <2>1, NotEngaged
    <3> QED BY <1>0, <2>1, <3>1, ResnoopStays
  <2>2. CASE ~(IsStore(c.queue[i]) /\ c.queue[i].data # 0)
    <3>1. b = c
      BY <2>2
    <3>2. Stays(c, c, {})
      BY DEF Stays
    <3>3. Loading(c, c)
      BY <1>0 DEF Loading, Frame, Keeps, CoreInvBut
    <3> QED BY <3>1, <3>2, <3>3
  <2> QED BY <2>1, <2>2
<1>2. d = [u EXCEPT !.queue[i].access = {}] /\ (~IsStore(c.queue[i]) => b = c)
  BY DEF unresolveVAddr, Unresolved
<1> HIDE DEF b
<1>3. /\ CoreInv(b) /\ Annulled(b) /\ CoreInvBut(b, {}) /\ b \in CoreType /\ DOMAIN b.queue = DOMAIN c.queue
      /\ i \in DOMAIN b.queue /\ i \in InQueue(b, "LSQ") /\ ~Least(b, i)
      /\ EntryOK(b, i) /\ e \in EntryType
  <2>1. CoreInv(b) /\ Annulled(b) /\ DOMAIN b.queue = DOMAIN c.queue /\ i \in InQueue(b, "LSQ")
    BY <1>0, <1>1 DEF Stays, InQueue
  <2>2. ~Least(b, i)
    BY <2>1 DEF Least
  <2>3. CoreInvBut(b, {}) /\ b \in CoreType
    BY <2>1 DEF CoreInv, CoreInvBut
  <2>4. EntryOK(b, i)
    BY <1>0, <2>1, <2>3 DEF CoreInvBut
  <2> QED BY <1>0, <2>1, <2>2, <2>3, <2>4, EntryTyped
<1>4. /\ f \in EntryType /\ h \in EntryType /\ h.op = e.op /\ h.queue = e.queue /\ h.access = e.access /\ h.data = e.data
      /\ h.failed = e.failed /\ h.storeComplete = e.storeComplete /\ h.loaded = None /\ h.partial = e.partial
      /\ h.mshr = e.mshr /\ ~h.issued /\ h.annulled = e.annulled
  BY <1>3 DEF EntryType, Loaded
<1>5. l = [b EXCEPT !.queue[i] = f]
  BY <1>3 DEF CoreType
<1>6. u = breakMSHRLink(n, i)
  <2>1. l \in CoreType /\ l.queue[i] = f /\ DOMAIN l.queue = DOMAIN b.queue
    BY <1>3, <1>4, <1>5, SetEntry
  <2> DEFINE m == [l EXCEPT !.queue[i].issued = FALSE]
  <2>2. m = [l EXCEPT !.queue[i] = h]
    BY <1>3, <2>1 DEF CoreType
  <2>3. [l EXCEPT !.queue[i] = h] = n
    <3> HIDE DEF h, f
    <3> QED BY <1>3, <1>5 DEF CoreType
  <2>4. breakMSHRLink(m, i) = breakMSHRLink(l, i)
    BY <1>3, <2>1, BreakIssued
  <2> HIDE DEF m, l, n
  <2> QED BY <2>2, <2>3, <2>4
<1> HIDE DEF f, h, l, u
<1>7. /\ n \in CoreType /\ DOMAIN n.queue = DOMAIN b.queue /\ n.queue[i] = h
      /\ \A j \in DOMAIN b.queue : j # i => n.queue[j] = b.queue[j]
      /\ n.mshrs = b.mshrs /\ n.requests = b.requests
  BY <1>3, <1>4, SetEntry
<1>8. EntryOK(n, i)
  <2>1. (Engaged(n, i) => Engaged(b, i)) /\ (Least(n, i) <=> Least(b, i))
    BY <1>4, <1>7 DEF Engaged, Least
  <2>2. (IsStore(h) <=> IsStore(e)) /\ (IsAtomic(h) <=> IsAtomic(e))
    BY <1>4 DEF IsStore, IsAtomic
  <2>3. ~e.storeComplete
    BY <1>3 DEF EntryOK
  <2> QED BY <1>3, <1>4, <1>7, <2>1, <2>2, <2>3 DEF EntryOK
<1>9. CoreInvBut(n, {})
  <2>1. status(h) # "AwaitingPort"
    BY <1>4, StatusFacts
  <2>2. SameSize => ~h.partial
    BY <1>3, <1>4 DEF CoreInvBut, NoPartial
  <2> QED BY <1>3, <1>4, <1>8, <2>1, <2>2, SetKeeps
<1>10. CoreInv(n) /\ Annulled(n) /\ Stays(b, n, {i}) /\ n.ports = b.ports
  <2>1. CoreInv(n)
    BY <1>9 DEF CoreInv
  <2>2. h.annulled => h.op = "Store"
    BY <1>3, <1>4 DEF Annulled
  <2>3. Stays(b, n, {i}) /\ n.ports = b.ports
    BY <1>3, <1>4, <2>1, <2>2, SetStays
  <2> QED BY <2>1, <2>3 DEF Stays
<1>11. /\ Loading(n, u) /\ CoreInvBut(u, {})
       /\ \A j \in DOMAIN n.queue \ {i} : KeepsLoad(n.queue[j], u.queue[j])
       /\ u.queue[i].loaded = None /\ ~u.queue[i].mshr /\ ~u.queue[i].issued
  <2>1. i \in DOMAIN n.queue /\ n.queue[i].loaded = None
    BY <1>3, <1>4, <1>7
  <2> HIDE DEF n
  <2>2. /\ Loading(n, u) /\ CoreInvBut(u, {})
        /\ \A j \in DOMAIN n.queue \ {i} : KeepsLoad(n.queue[j], u.queue[j])
        /\ u.queue[i].loaded = n.queue[i].loaded /\ ~u.queue[i].mshr /\ ~u.queue[i].issued
    BY <1>6, <1>9, <2>1, BreakKeeps
  <2> QED BY <2>1, <2>2
<1>12. u \in CoreType /\ DOMAIN u.queue = DOMAIN n.queue /\ u.queue[i] \in EntryType /\ Keeps(h, u.queue[i])
       /\ EntryOK(u, i)
  <2>1. u \in CoreType /\ DOMAIN u.queue = DOMAIN n.queue /\ Keeps(h, u.queue[i])
    BY <1>3, <1>7, <1>11 DEF Loading, Frame
  <2> QED BY <1>3, <1>7, <1>11, <2>1, EntryTyped DEF CoreInvBut
<1>13. Stays(n, u, {}) /\ u.ports = n.ports
  <2>1. InQueue(n, "SB") \subseteq DOMAIN n.queue \ {i}
    BY <1>3, <1>4, <1>7 DEF InQueue
  <2>2. \A j \in DOMAIN n.queue : Keeps(n.queue[j], u.queue[j])
    BY <1>11 DEF Loading, Frame
  <2>3. Annulled(u)
    BY <1>10, <1>12, <2>2 DEF Annulled, Keeps
  <2>4. CoreInv(u)
    BY <1>11 DEF CoreInv
  <2>5. u.permission = n.permission /\ u.ports = n.ports
    BY <1>11 DEF Loading, Frame
  <2>6. \A j \in DOMAIN n.queue : u.queue[j].queue = n.queue[j].queue /\ u.queue[j].access = n.queue[j].access
    BY <2>2 DEF Keeps
  <2>7. \A j \in InQueue(n, "SB") : /\ u.queue[j].access = n.queue[j].access /\ u.queue[j].data = n.queue[j].data
                                    /\ u.queue[j].mshr = n.queue[j].mshr
    BY <1>11, <2>1 DEF KeepsLoad, Keeps
  <2> QED BY <1>12, <2>3, <2>4, <2>5, <2>6, <2>7 DEF Stays
<1>14. /\ w \in EntryType /\ w.op = u.queue[i].op /\ w.queue = u.queue[i].queue /\ w.access = {} /\ w.data = u.queue[i].data
       /\ w.failed = u.queue[i].failed /\ w.storeComplete = u.queue[i].storeComplete /\ w.loaded = None
       /\ w.partial = u.queue[i].partial
       /\ w.mshr = u.queue[i].mshr /\ ~w.issued /\ w.annulled = u.queue[i].annulled
  BY <1>11, <1>12 DEF EntryType
<1>15. d = [u EXCEPT !.queue[i] = w]
  BY <1>2, <1>12 DEF CoreType
<1> HIDE DEF w
<1>16. /\ d \in CoreType /\ DOMAIN d.queue = DOMAIN u.queue /\ d.queue[i] = w
       /\ \A j \in DOMAIN u.queue : j # i => d.queue[j] = u.queue[j]
       /\ d.mshrs = u.mshrs /\ d.requests = u.requests
  BY <1>3, <1>7, <1>12, <1>14, <1>15, SetEntry
<1>17. i \in InQueue(u, "LSQ") /\ i \in DOMAIN u.queue
  BY <1>3, <1>4, <1>7, <1>12 DEF Keeps, InQueue
<1>18. EntryOK(d, i)
  <2>1. (Engaged(d, i) => Engaged(u, i)) /\ (Least(d, i) <=> Least(u, i))
    BY <1>14, <1>16 DEF Engaged, Least
  <2>2. (IsStore(w) <=> IsStore(u.queue[i])) /\ (IsAtomic(w) <=> IsAtomic(u.queue[i]))
    BY <1>14 DEF IsStore, IsAtomic
  <2>3. u.queue[i].queue = "LSQ"
    BY <1>17 DEF InQueue
  <2> QED BY <1>11, <1>12, <1>14, <1>16, <2>1, <2>2, <2>3 DEF EntryOK
<1>19. CoreInvBut(d, {})
  <2>1. status(w) # "AwaitingPort"
    BY <1>14, StatusFacts
  <2>2. SameSize => ~w.partial
    BY <1>11, <1>14, <1>17 DEF CoreInvBut, NoPartial
  <2> QED BY <1>11, <1>14, <1>15, <1>17, <1>18, <2>1, <2>2, SetKeeps
<1>20. Stays(u, d, {i}) /\ d.ports = u.ports
  <2>1. CoreInv(d) /\ CoreInv(u) /\ Annulled(u)
    BY <1>13, <1>19 DEF CoreInv, Stays
  <2>2. w.annulled => w.op = "Store"
    BY <1>14, <1>17, <2>1 DEF Annulled
  <2> QED BY <1>14, <1>15, <1>17, <2>1, <2>2, SetStays
<1>21. Stays(c, d, {i})
  <2>1. Stays(c, n, {} \cup {i})
    BY <1>1, <1>10, StaysTransitive
  <2>2. Stays(c, u, ({} \cup {i}) \cup {})
    BY <1>13, <2>1, StaysTransitive
  <2>3. Stays(c, d, (({} \cup {i}) \cup {}) \cup {i})
    BY <1>20, <2>2, StaysTransitive
  <2>4. (({} \cup {i}) \cup {}) \cup {i} = {i}
    OBVIOUS
  <2> QED BY <2>3, <2>4
<1>22. ASSUME ~IsStore(c.queue[i]), NEW j \in DOMAIN c.queue \ {i} PROVE SameLoad(c.queue[j], d.queue[j])
  <2>1. b.queue[j] = c.queue[j]
    BY <1>2, <1>22
  <2>2. n.queue[j] = b.queue[j] /\ d.queue[j] = u.queue[j] /\ KeepsLoad(n.queue[j], u.queue[j])
    BY <1>3, <1>7, <1>11, <1>12, <1>16, <1>22
  <2> QED BY <2>1, <2>2 DEF SameLoad, Alike, KeepsLoad, Keeps
<1> QED BY <1>1, <1>10, <1>13, <1>14, <1>16, <1>20, <1>21, <1>22

(* Nothing but prefetches, permissions and ports changes. *)
LEMMA SameParts ==
  ASSUME NEW c, NEW X, CoreInvBut(c, X), NEW d \in CoreType, d.queue = c.queue, d.mshrs = c.mshrs,
         d.requests = c.requests, d.prefetches \subseteq DOMAIN c.queue
  PROVE  CoreInvBut(d, X) /\ (Annulled(c) => Annulled(d))
<1>1. \A i : (Engaged(d, i) <=> Engaged(c, i)) /\ (Least(d, i) <=> Least(c, i))
  BY DEF Engaged, Least
<1>2. \A i \in DOMAIN d.queue : EntryOK(d, i)
  <2> TAKE i \in DOMAIN d.queue
  <2> QED BY <1>1 DEF CoreInvBut, EntryOK
<1>3. Linked(d)
  BY DEF CoreInvBut, Linked
<1>4. SBOrder(d)
  BY DEF CoreInvBut, SBOrder, InQueue
<1>5. SameSize => NoPartial(d) /\ PortsKnown(d, X)
  BY DEF CoreInvBut, NoPartial, PortsKnown
<1>6. Annulled(c) => Annulled(d)
  BY DEF Annulled
<1>7. d.requests \subseteq DOMAIN d.queue /\ d.prefetches \subseteq DOMAIN d.queue
  BY DEF CoreInvBut
<1> QED BY <1>2, <1>3, <1>4, <1>5, <1>6, <1>7 DEF CoreInvBut

(* The same core with nothing in the ports. *)
LEMMA PortsTaken ==
  ASSUME NEW c, CoreInv(c), Annulled(c), NEW d, d = [c EXCEPT !.ports = None]
  PROVE  /\ CoreInv(d) /\ Annulled(d) /\ d.ports = None
         /\ d.queue = c.queue /\ d.permission = c.permission /\ d.mshrs = c.mshrs
<1>1. c \in CoreType /\ CoreInvBut(c, {})
  BY DEF CoreInv, CoreInvBut
<1>2. /\ d \in CoreType /\ d.queue = c.queue /\ d.mshrs = c.mshrs /\ d.requests = c.requests
      /\ d.prefetches = c.prefetches /\ d.permission = c.permission /\ d.ports = None
  BY <1>1 DEF CoreType
<1>3. d.prefetches \subseteq DOMAIN c.queue
  BY <1>1, <1>2 DEF CoreInvBut
<1>4. CoreInvBut(d, {}) /\ (Annulled(c) => Annulled(d))
  BY <1>1, <1>2, <1>3, SameParts
<1> QED BY <1>2, <1>4 DEF CoreInv

(* A new entry at the end of the queue. *)
LEMMA InsertFacts ==
  ASSUME Prog, NEW c, CoreInv(c), Annulled(c), NEW n \in Ids, \A j \in DOMAIN c.queue : j < n,
         NEW d, d = insertLSQ(c, n)
  PROVE  /\ CoreInv(d) /\ Annulled(d) /\ DOMAIN d.queue = DOMAIN c.queue \cup {n}
         /\ \A j \in DOMAIN c.queue : d.queue[j] = c.queue[j]
         /\ d.queue[n] = NewEntry(program[n].op)
         /\ d.permission = c.permission /\ d.ports = c.ports
<1> DEFINE new == NewEntry(program[n].op)
           q == [j \in DOMAIN c.queue \cup {n} |-> IF j = n THEN new ELSE c.queue[j]]
<1>1. /\ c \in CoreType /\ CoreInvBut(c, {}) /\ DOMAIN c.queue \subseteq Ids /\ n \notin DOMAIN c.queue
      /\ Ids \subseteq Nat /\ program[n].op \in Operations
  <2>1. c \in CoreType /\ CoreInvBut(c, {})
    BY DEF CoreInv, CoreInvBut
  <2>2. Ids \subseteq Nat /\ program[n].op \in Operations /\ n \in Nat
    BY ProgFacts
  <2>3. n \notin DOMAIN c.queue
    BY <2>2
  <2> QED BY <2>1, <2>2, <2>3, EntryTyped
<1>2. /\ new \in EntryType /\ new.access = {} /\ new.loaded = None /\ ~new.mshr /\ ~new.issued /\ ~new.annulled
      /\ ~new.partial /\ ~new.failed /\ ~new.storeComplete /\ new.queue = "LSQ" /\ new.op = program[n].op
  <2>1. 0 \in Values
    BY ProgFacts, BoundsAssumption DEF Values
  <2>2. {} \in SUBSET Bytes /\ None \in Loaded /\ "LSQ" \in {"LSQ", "SB"}
    BY DEF Loaded
  <2> QED BY <1>1, <2>1, <2>2 DEF NewEntry, EntryType, Unresolved
<1>3. /\ DOMAIN q = DOMAIN c.queue \cup {n} /\ q[n] = new
      /\ \A j \in DOMAIN c.queue : q[j] = c.queue[j]
  BY <1>1
<1>4. DOMAIN q \subseteq Ids /\ q = [i \in DOMAIN q |-> q[i]]
  BY <1>1
<1>5. \A i \in DOMAIN q : q[i] \in EntryType
  <2> HIDE DEF new, q
  <2> QED BY <1>1, <1>2, <1>3, EntryTyped
<1>6. d = [c EXCEPT !.queue = q]
  BY DEF insertLSQ
<1> HIDE DEF new, q
<1>7. /\ d \in CoreType /\ d.queue = q /\ d.mshrs = c.mshrs /\ d.requests = c.requests
      /\ d.prefetches = c.prefetches /\ d.permission = c.permission /\ d.ports = c.ports
  BY <1>1, <1>4, <1>5, <1>6, NewQueue
<1>8. \A i \in DOMAIN c.queue : (Engaged(d, i) <=> Engaged(c, i)) /\ (Least(d, i) <=> Least(c, i))
  <2> TAKE i \in DOMAIN c.queue
  <2>1. i < n /\ i \in Nat /\ n \in Nat
    BY <1>1
  <2> QED BY <1>3, <1>7, <2>1 DEF Engaged, Least
<1>9. ~Engaged(d, n)
  BY <1>1, <1>2, <1>3, <1>7 DEF Engaged, CoreInvBut, Linked
<1>10. \A i \in DOMAIN d.queue : EntryOK(d, i)
  <2> TAKE i \in DOMAIN d.queue
  <2>1. CASE i \in DOMAIN c.queue
    <3>1. EntryOK(c, i) /\ d.queue[i] = c.queue[i]
      BY <1>1, <1>3, <1>7, <2>1 DEF CoreInvBut
    <3>2. (Engaged(d, i) <=> Engaged(c, i)) /\ (Least(d, i) <=> Least(c, i))
      BY <1>8, <2>1
    <3> QED BY <3>1, <3>2 DEF EntryOK
  <2>2. CASE i = n
    <3>1. d.queue[i] = new
      BY <1>3, <1>7, <2>2
    <3> QED BY <1>2, <1>9, <2>2, <3>1 DEF EntryOK
  <2> QED BY <1>3, <1>7, <2>1, <2>2
<1>11. Linked(d)
  BY <1>1, <1>2, <1>3, <1>7 DEF CoreInvBut, Linked
<1>12. SBOrder(d)
  <2>1. InQueue(d, "SB") = InQueue(c, "SB") /\ InQueue(d, "LSQ") = InQueue(c, "LSQ") \cup {n}
    BY <1>1, <1>2, <1>3, <1>7 DEF InQueue
  <2>2. InQueue(c, "SB") \subseteq DOMAIN c.queue
    BY DEF InQueue
  <2> QED BY <1>1, <2>1, <2>2 DEF CoreInvBut, SBOrder
<1>13. SameSize => NoPartial(d) /\ PortsKnown(d, {})
  <2>1. status(new) # "AwaitingPort"
    BY <1>2, StatusFacts
  <2> QED BY <1>1, <1>2, <1>3, <1>7, <2>1 DEF CoreInvBut, NoPartial, PortsKnown
<1>14. d.requests \subseteq DOMAIN d.queue /\ d.prefetches \subseteq DOMAIN d.queue
  BY <1>1, <1>3, <1>7 DEF CoreInvBut
<1>15. CoreInv(d)
  BY <1>7, <1>10, <1>11, <1>12, <1>13, <1>14 DEF CoreInv, CoreInvBut
<1>16. Annulled(d)
  BY <1>2, <1>3, <1>7 DEF Annulled
<1>17. new = NewEntry(program[n].op)
  BY DEF new
<1> QED BY <1>3, <1>7, <1>15, <1>16, <1>17

(* A store or atomic at the head, or a load, asks for a port. *)
LEMMA RequestStays ==
  ASSUME NEW c, CoreInv(c), Annulled(c), NEW i \in DOMAIN c.queue,
         IsStore(c.queue[i]) =>
           c.queue[i].data # 0 /\ Least(c, i) /\ (c.queue[i].op = "Store" => c.queue[i].queue = "SB"),
         NEW d, d = requestPort(c, i)
  PROVE  Stays(c, d, {}) /\ d.ports = c.ports
<1>1. d = requestPorts(c, {i}) /\ CoreInvBut(c, {}) /\ c \in CoreType
  BY DEF requestPort, CoreInv, CoreInvBut
<1>2. Granted(c, {i}) \subseteq {i}
  BY DEF Granted
<1>3. \A j \in Granted(c, {i}) : IsStore(c.queue[j]) =>
        c.queue[j].data # 0 /\ Least(c, j) /\ (c.queue[j].op = "Store" => c.queue[j].queue = "SB")
  BY <1>2
<1>4. CoreInv(d)
  BY <1>1, <1>3, RequestKeeps DEF CoreInv
<1>5. /\ Frame(c, d)
      /\ \A j \in DOMAIN c.queue : KeepsLoad(c.queue[j], d.queue[j])
  BY <1>1, RequestFacts
<1>6. DOMAIN d.queue = DOMAIN c.queue /\ d.permission = c.permission /\ d.ports = c.ports
  BY <1>5 DEF Frame
<1>7. Annulled(d)
  BY <1>5, <1>6 DEF Annulled, KeepsLoad, Keeps
<1>8. \A j \in DOMAIN c.queue : d.queue[j].queue = c.queue[j].queue /\ d.queue[j].access = c.queue[j].access
  BY <1>5 DEF KeepsLoad, Keeps
<1>9. \A j \in InQueue(c, "SB") : /\ d.queue[j].access = c.queue[j].access /\ d.queue[j].data = c.queue[j].data
                                  /\ c.queue[j].mshr => d.queue[j].mshr
  BY <1>5 DEF KeepsLoad, Keeps, InQueue
<1> QED BY <1>4, <1>6, <1>7, <1>8, <1>9 DEF Stays

(* The store at the head of the store buffer is with the L1. *)
Storing(c, A) == \E h \in InQueue(c, "SB") : Least(c, h) /\ c.queue[h].mshr /\ c.queue[h].access = A

(* What waits for a port has no value. *)
LEMMA WaitingEmpty ==
  ASSUME NEW c, NEW X, CoreInvBut(c, X), NEW i \in DOMAIN c.queue, status(c.queue[i]) = "AwaitingPort"
  PROVE  /\ c.queue[i].loaded = None /\ ~c.queue[i].mshr /\ c.queue[i].access # {} /\ c.queue[i].op # "MEMBAR"
         /\ c.queue[i].issued /\ ~c.queue[i].annulled /\ c.queue[i] \in EntryType
<1>1. EntryOK(c, i) /\ c.queue[i] \in EntryType
  BY EntryTyped DEF CoreInvBut
<1>2. /\ ~c.queue[i].annulled /\ c.queue[i].access # {} /\ c.queue[i].op # "MEMBAR"
      /\ ~(IsLoad(c.queue[i]) /\ c.queue[i].loaded # None /\ (IsAtomic(c.queue[i]) => c.queue[i].data # 0))
      /\ ~c.queue[i].mshr /\ c.queue[i].issued
  BY StatusFacts
<1>3. c.queue[i].loaded # None => IsLoad(c.queue[i]) /\ (IsAtomic(c.queue[i]) => c.queue[i].data # 0)
  <2>1. c.queue[i].op \in Operations
    BY <1>1 DEF EntryType
  <2> QED BY <1>1, <1>2, <2>1 DEF EntryOK, IsLoad, IsAtomic, Operations
<1> QED BY <1>1, <1>2, <1>3

(* An entry is linked to an MSHR. *)
LEMMA LinkKeeps ==
  ASSUME NEW c, CoreInv(c), NEW i \in c.requests, status(c.queue[i]) = "AwaitingPort",
         NEW d \in CoreType, DOMAIN d.queue = DOMAIN c.queue, d.queue[i] = [c.queue[i] EXCEPT !.mshr = TRUE],
         \A j \in DOMAIN c.queue : j # i => d.queue[j] = c.queue[j],
         d.requests = c.requests \ {i}, d.prefetches = c.prefetches,
         NEW k, k = paddr(c.queue[i]), \A j \in Bytes : j # k => d.mshrs[j] = c.mshrs[j],
         d.mshrs[k].access = c.queue[i].access, d.mshrs[k].op = c.queue[i].op,
         d.mshrs[k].waiting = c.mshrs[k].waiting \cup {i}, d.mshrs[k].blocked = c.mshrs[k].blocked,
         c.queue[i].op # "Load" => c.mshrs[k].waiting = {},
         c.mshrs[k].waiting # {} => c.mshrs[k].op = c.queue[i].op /\ c.mshrs[k].access = c.queue[i].access
  PROVE  CoreInv(d)
<1> DEFINE e == c.queue[i]
           f == d.queue[i]
<1>1. /\ CoreInvBut(c, {}) /\ c \in CoreType /\ i \in DOMAIN c.queue /\ EntryOK(c, i)
      /\ e \in EntryType /\ e.access # {} /\ e.loaded = None /\ ~e.mshr /\ e.op # "MEMBAR"
  <2>1. CoreInvBut(c, {}) /\ c \in CoreType /\ i \in DOMAIN c.queue
    BY DEF CoreInv, CoreInvBut
  <2>2. EntryOK(c, i)
    BY <2>1 DEF CoreInvBut
  <2> QED BY <2>1, <2>2, WaitingEmpty
<1>2. k \in Bytes
  BY <1>1, PaddrByte
<1>3. /\ f.op = e.op /\ f.queue = e.queue /\ f.access = e.access /\ f.data = e.data /\ f.loaded = e.loaded
      /\ f.failed = e.failed /\ f.storeComplete = e.storeComplete /\ f.partial = e.partial
      /\ f.issued = e.issued /\ f.annulled = e.annulled /\ f.mshr
  BY <1>1 DEF EntryType
<1> HIDE DEF e, f
<1>4. \A j \in DOMAIN c.queue : (Engaged(d, j) => Engaged(c, j)) /\ (Least(d, j) <=> Least(c, j))
  <2> TAKE j \in DOMAIN c.queue
  <2>1. Least(d, j) <=> Least(c, j)
    BY DEF Least
  <2>2. CASE j = i
    BY <1>1, <2>1, <2>2 DEF Engaged
  <2>3. CASE j # i
    <3>1. \A n \in Bytes : d.mshrs[n].blocked = c.mshrs[n].blocked
      BY <1>2
    <3>2. d.queue[j] = c.queue[j]
      BY <2>3
    <3> QED BY <2>1, <3>1, <3>2 DEF Engaged
  <2> QED BY <2>2, <2>3
<1>5. \A j \in DOMAIN d.queue : EntryOK(d, j)
  <2> TAKE j \in DOMAIN d.queue
  <2>1. EntryOK(c, j) /\ (Engaged(d, j) => Engaged(c, j)) /\ (Least(d, j) <=> Least(c, j))
    BY <1>1, <1>4 DEF CoreInvBut
  <2>2. CASE j = i
    <3>1. (IsStore(f) <=> IsStore(e)) /\ (IsAtomic(f) <=> IsAtomic(e))
      BY <1>3 DEF IsStore, IsAtomic
    <3>2. Engaged(d, i) => Engaged(c, i)
      BY <2>1, <2>2
    <3>3. Least(d, i) <=> Least(c, i)
      BY <2>1, <2>2
    <3>4. EntryOK(d, i)
      BY <1>1, <1>3, <3>1, <3>2, <3>3 DEF EntryOK, e, f
    <3> QED BY <2>2, <3>4
  <2>3. CASE j # i
    <3>1. d.queue[j] = c.queue[j]
      BY <2>3
    <3> QED BY <2>1, <3>1 DEF EntryOK
  <2> QED BY <2>2, <2>3
<1>6. Linked(d)
  <2>1. \A n \in Bytes : n # k => d.mshrs[n] = c.mshrs[n]
    OBVIOUS
  <2>2. ASSUME NEW n \in Bytes, n # k
        PROVE  LET m == d.mshrs[n]
               IN  /\ m = NoMSHR \/ m.waiting # {}
                   /\ m.blocked \subseteq DOMAIN d.queue
                   /\ m.op # "Load" => \A a, b \in m.waiting : a = b
                   /\ \A j \in m.waiting : /\ j \in DOMAIN d.queue /\ d.queue[j].mshr
                                           /\ d.queue[j].access = m.access /\ d.queue[j].op = m.op
                                           /\ paddr(d.queue[j]) = n
    <3>1. d.mshrs[n] = c.mshrs[n] /\ i \notin c.mshrs[n].waiting
      BY <1>1, <2>2 DEF CoreInvBut, Linked, e
    <3> QED BY <1>1, <3>1 DEF CoreInvBut, Linked
  <2>3. LET m == d.mshrs[k]
        IN  /\ m = NoMSHR \/ m.waiting # {}
            /\ m.blocked \subseteq DOMAIN d.queue
            /\ m.op # "Load" => \A a, b \in m.waiting : a = b
            /\ \A j \in m.waiting : /\ j \in DOMAIN d.queue /\ d.queue[j].mshr
                                    /\ d.queue[j].access = m.access /\ d.queue[j].op = m.op
                                    /\ paddr(d.queue[j]) = k
    <3>1. paddr(f) = k
      BY <1>3 DEF paddr, e
    <3>2. \A j \in c.mshrs[k].waiting : /\ j \in DOMAIN c.queue /\ c.queue[j].mshr /\ j # i
                                        /\ c.queue[j].access = c.mshrs[k].access /\ c.queue[j].op = c.mshrs[k].op
                                        /\ paddr(c.queue[j]) = k
      BY <1>1, <1>2 DEF CoreInvBut, Linked, e
    <3>3. c.mshrs[k].blocked \subseteq DOMAIN c.queue
      BY <1>1, <1>2 DEF CoreInvBut, Linked
    <3>4. d.mshrs[k].waiting # {} /\ d.mshrs[k].blocked \subseteq DOMAIN d.queue
      BY <3>3
    <3>5. d.mshrs[k].op # "Load" => \A a, b \in d.mshrs[k].waiting : a = b
      OBVIOUS
    <3>6. ASSUME NEW j \in d.mshrs[k].waiting
          PROVE  /\ j \in DOMAIN d.queue /\ d.queue[j].mshr
                 /\ d.queue[j].access = d.mshrs[k].access /\ d.queue[j].op = d.mshrs[k].op
                 /\ paddr(d.queue[j]) = k
      <4>1. CASE j = i
        BY <1>1, <1>3, <3>1, <4>1 DEF e, f
      <4>2. CASE j # i
        <5>1. j \in c.mshrs[k].waiting
          BY <4>2
        <5>2. d.queue[j] = c.queue[j] /\ c.mshrs[k].op = c.queue[i].op /\ c.mshrs[k].access = c.queue[i].access
          BY <3>2, <5>1
        <5> QED BY <3>2, <5>1, <5>2
      <4> QED BY <4>1, <4>2
    <3> QED BY <3>4, <3>5, <3>6
  <2>4. \A j \in DOMAIN d.queue : d.queue[j].mshr => j \in d.mshrs[paddr(d.queue[j])].waiting
    <3> TAKE j \in DOMAIN d.queue
    <3>1. CASE j = i
      <4>1. paddr(f) = k
        BY <1>3 DEF paddr, e
      <4> QED BY <3>1, <4>1 DEF f
    <3>2. CASE j # i
      <4>1. SUFFICES ASSUME c.queue[j].mshr PROVE j \in d.mshrs[paddr(d.queue[j])].waiting
        BY <3>2
      <4>2. j \in c.mshrs[paddr(c.queue[j])].waiting /\ EntryOK(c, j) /\ c.queue[j] \in EntryType
        BY <1>1, <4>1, EntryTyped DEF CoreInvBut, Linked
      <4>3. paddr(c.queue[j]) \in Bytes
        BY <4>1, <4>2, PaddrByte DEF EntryOK
      <4> QED BY <3>2, <4>2, <4>3
    <3> QED BY <3>1, <3>2
  <2>5. \A n \in Bytes :
          LET m == d.mshrs[n]
          IN  /\ m = NoMSHR \/ m.waiting # {}
              /\ m.blocked \subseteq DOMAIN d.queue
              /\ m.op # "Load" => \A a, b \in m.waiting : a = b
              /\ \A j \in m.waiting : /\ j \in DOMAIN d.queue /\ d.queue[j].mshr
                                      /\ d.queue[j].access = m.access /\ d.queue[j].op = m.op
                                      /\ paddr(d.queue[j]) = n
    <3> TAKE n \in Bytes
    <3>1. CASE n = k
      BY ONLY <2>3, <3>1
    <3>2. CASE n # k
      BY ONLY <2>2, <3>2, n \in Bytes
    <3> QED BY ONLY <3>1, <3>2
  <2> QED BY ONLY <2>4, <2>5 DEF Linked
<1>7. SBOrder(d)
  <2>1. \A j \in DOMAIN c.queue : d.queue[j].queue = c.queue[j].queue
    BY <1>3 DEF e, f
  <2> QED BY <1>1, <2>1 DEF CoreInvBut, SBOrder, InQueue
<1>8. SameSize => NoPartial(d) /\ PortsKnown(d, {})
  <2> SUFFICES ASSUME SameSize PROVE NoPartial(d) /\ PortsKnown(d, {})
    OBVIOUS
  <2>1. NoPartial(d)
    BY <1>1, <1>3 DEF CoreInvBut, NoPartial, e, f
  <2>2. status(f) # "AwaitingPort"
    BY <1>3, StatusFacts
  <2>3. ASSUME NEW j \in DOMAIN d.queue, status(d.queue[j]) = "AwaitingPort"
        PROVE  j \in d.requests \/ j \in d.mshrs[paddr(d.queue[j])].blocked
    <3>1. j # i /\ d.queue[j] = c.queue[j]
      BY <2>2, <2>3 DEF f
    <3>2. j \in c.requests \/ j \in c.mshrs[paddr(c.queue[j])].blocked
      BY <1>1, <2>3, <3>1 DEF CoreInvBut, PortsKnown
    <3>3. paddr(c.queue[j]) \in Bytes
      <4>1. c.queue[j].access # {} /\ c.queue[j] \in EntryType
        BY <1>1, <2>3, <3>1, WaitingEmpty
      <4> QED BY <4>1, PaddrByte
    <3>4. d.mshrs[paddr(c.queue[j])].blocked = c.mshrs[paddr(c.queue[j])].blocked
      BY <3>3
    <3> QED BY <3>1, <3>2, <3>4
  <2> QED BY <2>1, <2>3 DEF PortsKnown
<1>9. d.requests \subseteq DOMAIN d.queue /\ d.prefetches \subseteq DOMAIN d.queue
  BY <1>1 DEF CoreInvBut
<1> QED BY <1>5, <1>6, <1>7, <1>8, <1>9 DEF CoreInv, CoreInvBut

(* An operation goes to the L1. *)
Ordered(c, i, d) ==
  /\ c.queue[i].op \in {"Load", "Store", "RMW", "CAS"} /\ c.queue[i].access # {}
  /\ d.ports = <<c.queue[i].op, c.queue[i].access>>
  /\ c.queue[i].op = "Store" => Least(c, i) /\ ~c.queue[i].mshr /\ Storing(d, c.queue[i].access)

(* A request is taken from the arbiter. *)
Taken(c, i, b) ==
  /\ b \in CoreType /\ b.queue = c.queue /\ b.mshrs = c.mshrs /\ b.requests = c.requests \ {i}
  /\ b.prefetches = c.prefetches /\ b.outstanding = c.outstanding
  /\ b.permission = c.permission /\ b.ports = c.ports
  /\ CoreInvBut(b, {i}) /\ Annulled(b)

(* Taking a request keeps the invariant except for the port of i.          *)
LEMMA Unrequested ==
  ASSUME NEW c, CoreInv(c), Annulled(c), NEW i \in c.requests,
         NEW b, b = [c EXCEPT !.requests = @ \ {i}]
  PROVE  /\ Taken(c, i, b)
         /\ status(c.queue[i]) # "AwaitingPort" => CoreInv(b)
<1>1. c \in CoreType /\ CoreInvBut(c, {})
  BY DEF CoreInv, CoreInvBut
<1>2. /\ b \in CoreType /\ b.queue = c.queue /\ b.mshrs = c.mshrs /\ b.requests = c.requests \ {i}
      /\ b.prefetches = c.prefetches /\ b.outstanding = c.outstanding
      /\ b.permission = c.permission /\ b.ports = c.ports
  BY <1>1 DEF CoreType
<1>3. \A j : (Engaged(b, j) => Engaged(c, j)) /\ (Least(b, j) <=> Least(c, j))
  BY <1>2 DEF Engaged, Least
<1>4. \A j \in DOMAIN b.queue : EntryOK(b, j)
  <2> TAKE j \in DOMAIN b.queue
  <2>1. EntryOK(c, j) /\ b.queue[j] = c.queue[j]
    BY <1>1, <1>2 DEF CoreInvBut
  <2> QED BY <1>3, <2>1 DEF EntryOK
<1>5. Linked(b) /\ SBOrder(b)
  BY <1>1, <1>2 DEF CoreInvBut, Linked, SBOrder, InQueue
<1>6. b.requests \subseteq DOMAIN b.queue /\ b.prefetches \subseteq DOMAIN b.queue
  BY <1>1, <1>2 DEF CoreInvBut
<1>7. SameSize => NoPartial(b) /\ PortsKnown(b, {i})
  BY <1>1, <1>2 DEF CoreInvBut, NoPartial, PortsKnown
<1>8. status(c.queue[i]) # "AwaitingPort" => (SameSize => PortsKnown(b, {}))
  BY <1>1, <1>2 DEF CoreInvBut, PortsKnown
<1>9. Annulled(b)
  BY <1>2 DEF Annulled
<1> QED BY <1>2, <1>4, <1>5, <1>6, <1>7, <1>8, <1>9 DEF CoreInv, CoreInvBut, Taken

(* What issue does with a request. *)
Share(b, k, i) == [b EXCEPT !.mshrs[k].waiting = @ \cup {i}, !.queue[i].mshr = TRUE]
Block(b, k, i) == [b EXCEPT !.mshrs[k].blocked = @ \cup {i}]
Allocated(b, i) == [NoMSHR EXCEPT !.op = b.queue[i].op, !.access = b.queue[i].access, !.waiting = {i}]
Start(b, k, i) ==
  Send([b EXCEPT !.mshrs[k] = Allocated(b, i), !.queue[i].mshr = TRUE], b.queue[i].op, b.queue[i].access)

(* The entry i of a core is given to an MSHR. *)
Linking(c, i, d) ==
  /\ d \in CoreType /\ DOMAIN d.queue = DOMAIN c.queue /\ d.queue[i] = [c.queue[i] EXCEPT !.mshr = TRUE]
  /\ \A j \in DOMAIN c.queue : j # i => d.queue[j] = c.queue[j]
  /\ d.requests = c.requests \ {i} /\ d.prefetches = c.prefetches
  /\ d.permission = c.permission

(* Linking an entry changes no address and no permission.                  *)
LEMMA LinkingStays ==
  ASSUME NEW c \in CoreType, Annulled(c), NEW i \in DOMAIN c.queue, NEW d, Linking(c, i, d), CoreInv(d)
  PROVE  Stays(c, d, {})
<1>1. c.queue[i] \in EntryType
  BY EntryTyped
<1>2. /\ d.queue[i].queue = c.queue[i].queue /\ d.queue[i].access = c.queue[i].access
      /\ d.queue[i].data = c.queue[i].data /\ d.queue[i].mshr /\ d.queue[i].annulled = c.queue[i].annulled
      /\ d.queue[i].op = c.queue[i].op
  BY <1>1 DEF EntryType, Linking
<1>3. Annulled(d)
  BY <1>2 DEF Annulled, Linking
<1>4. \A j \in DOMAIN c.queue : d.queue[j].queue = c.queue[j].queue /\ d.queue[j].access = c.queue[j].access
  BY <1>2 DEF Linking
<1>5. \A j \in InQueue(c, "SB") : /\ d.queue[j].access = c.queue[j].access /\ d.queue[j].data = c.queue[j].data
                                  /\ c.queue[j].mshr => d.queue[j].mshr
  <2> TAKE j \in InQueue(c, "SB")
  <2>1. CASE j = i
    BY <1>2, <2>1
  <2>2. CASE j # i
    BY <2>2 DEF Linking, InQueue
  <2> QED BY <2>1, <2>2
<1> QED BY <1>3, <1>4, <1>5 DEF Stays, Linking

(* What the operand of issue is known to be. *)
LEMMA AskedFacts ==
  ASSUME NEW c, CoreInv(c), NEW i \in c.requests, status(c.queue[i]) = "AwaitingPort"
  PROVE  /\ c \in CoreType /\ i \in DOMAIN c.queue /\ i \in Ids /\ EntryOK(c, i) /\ CoreInvBut(c, {})
         /\ c.queue[i] \in EntryType /\ c.queue[i].access # {}
         /\ c.queue[i].op \in {"Load", "Store", "RMW", "CAS"} /\ ~c.queue[i].mshr
         /\ paddr(c.queue[i]) \in Bytes /\ c.mshrs[paddr(c.queue[i])] \in MSHR
         /\ [c.queue[i] EXCEPT !.mshr = TRUE] \in EntryType
<1>1. c \in CoreType /\ i \in DOMAIN c.queue /\ CoreInvBut(c, {})
  BY DEF CoreInv, CoreInvBut
<1>2. i \in Ids /\ EntryOK(c, i)
  BY <1>1, EntryTyped DEF CoreInvBut
<1>3. c.queue[i] \in EntryType /\ c.queue[i].access # {} /\ c.queue[i].op # "MEMBAR" /\ ~c.queue[i].mshr
  BY <1>1, WaitingEmpty
<1>4. c.queue[i].op \in {"Load", "Store", "RMW", "CAS"} /\ [c.queue[i] EXCEPT !.mshr = TRUE] \in EntryType
  BY <1>3 DEF EntryType, Operations
<1>5. paddr(c.queue[i]) \in Bytes
  BY <1>3, PaddrByte
<1>6. c.mshrs[paddr(c.queue[i])] \in MSHR
  BY <1>1, <1>5 DEF CoreType
<1> QED BY <1>1, <1>2, <1>3, <1>4, <1>5, <1>6

(* A load shares the MSHR of another. *)
LEMMA ShareFacts ==
  ASSUME NEW c, CoreInv(c), Annulled(c), c.ports = None, NEW i \in c.requests, status(c.queue[i]) = "AwaitingPort",
         NEW b, Taken(c, i, b), NEW k, k = paddr(c.queue[i]),
         c.queue[i].op = "Load", c.mshrs[k].op = "Load", c.mshrs[k].access = c.queue[i].access,
         NEW d, d = Share(b, k, i)
  PROVE  Stays(c, d, {}) /\ d.ports = None
<1> DEFINE f == [c.queue[i] EXCEPT !.mshr = TRUE]
           m == [c.mshrs[k] EXCEPT !.waiting = @ \cup {i}]
           s == [b EXCEPT !.mshrs[k] = m]
<1>1. /\ c \in CoreType /\ i \in DOMAIN c.queue /\ i \in Ids /\ c.queue[i] \in EntryType
      /\ k \in Bytes /\ c.mshrs[k] \in MSHR /\ f \in EntryType
  BY AskedFacts
<1>2. /\ m \in MSHR /\ m.waiting = c.mshrs[k].waiting \cup {i} /\ m.blocked = c.mshrs[k].blocked
      /\ m.op = c.mshrs[k].op /\ m.access = c.mshrs[k].access
  BY <1>1 DEF MSHR
<1>3. /\ b \in CoreType /\ b.queue = c.queue /\ b.mshrs = c.mshrs /\ b.requests = c.requests \ {i}
      /\ b.prefetches = c.prefetches /\ b.permission = c.permission /\ b.ports = c.ports
  BY DEF Taken
<1>4. d = [s EXCEPT !.queue[i] = f]
  BY <1>1, <1>3 DEF CoreType, Share
<1>5. f = [c.queue[i] EXCEPT !.mshr = TRUE]
  OBVIOUS
<1> HIDE DEF f, m
<1>6. /\ s \in CoreType /\ s.mshrs[k] = m
      /\ \A j \in Bytes : j # k => s.mshrs[j] = b.mshrs[j]
      /\ s.queue = b.queue /\ s.requests = b.requests
      /\ s.prefetches = b.prefetches /\ s.permission = b.permission /\ s.ports = b.ports
  BY <1>1, <1>2, <1>3, SetMSHR
<1> HIDE DEF s
<1>7. i \in DOMAIN s.queue
  BY <1>1, <1>3, <1>6
<1>8. /\ d \in CoreType /\ DOMAIN d.queue = DOMAIN s.queue /\ d.queue[i] = f
      /\ \A j \in DOMAIN s.queue : j # i => d.queue[j] = s.queue[j]
      /\ d.mshrs = s.mshrs /\ d.requests = s.requests
      /\ d.prefetches = s.prefetches /\ d.permission = s.permission /\ d.ports = s.ports
  BY <1>1, <1>4, <1>6, <1>7, SetEntry
<1>9. Linking(c, i, d) /\ d.ports = None
  BY <1>3, <1>5, <1>6, <1>8 DEF Linking
<1>10. /\ \A j \in Bytes : j # k => d.mshrs[j] = c.mshrs[j]
       /\ d.mshrs[k].access = c.queue[i].access /\ d.mshrs[k].op = c.queue[i].op
       /\ d.mshrs[k].waiting = c.mshrs[k].waiting \cup {i} /\ d.mshrs[k].blocked = c.mshrs[k].blocked
  BY <1>2, <1>3, <1>6, <1>8
<1>11. /\ d \in CoreType /\ DOMAIN d.queue = DOMAIN c.queue /\ d.queue[i] = [c.queue[i] EXCEPT !.mshr = TRUE]
       /\ \A j \in DOMAIN c.queue : j # i => d.queue[j] = c.queue[j]
       /\ d.requests = c.requests \ {i} /\ d.prefetches = c.prefetches
  BY <1>9 DEF Linking
<1>12. CoreInv(d)
  BY <1>10, <1>11, LinkKeeps
<1> QED BY <1>1, <1>9, <1>12, LinkingStays

(* An entry is blocked by the MSHR of its address. *)
LEMMA BlockFacts ==
  ASSUME NEW c, CoreInv(c), Annulled(c), c.ports = None, NEW i \in c.requests, status(c.queue[i]) = "AwaitingPort",
         NEW b, Taken(c, i, b), NEW k, k = paddr(c.queue[i]), c.mshrs[k] # NoMSHR,
         NEW d, d = Block(b, k, i)
  PROVE  Stays(c, d, {}) /\ d.ports = None
<1> DEFINE m == [c.mshrs[k] EXCEPT !.blocked = @ \cup {i}]
<1>1. /\ c \in CoreType /\ i \in DOMAIN c.queue /\ i \in Ids /\ c.queue[i] \in EntryType
      /\ k \in Bytes /\ c.mshrs[k] \in MSHR /\ CoreInvBut(c, {})
  BY AskedFacts
<1>2. /\ b \in CoreType /\ b.queue = c.queue /\ b.mshrs = c.mshrs /\ b.requests = c.requests \ {i}
      /\ b.prefetches = c.prefetches /\ b.permission = c.permission /\ b.ports = c.ports
      /\ CoreInvBut(b, {i})
  BY DEF Taken
<1>3. /\ m \in MSHR /\ m.blocked = c.mshrs[k].blocked \cup {i} /\ m.waiting = c.mshrs[k].waiting
      /\ m.op = c.mshrs[k].op /\ m.access = c.mshrs[k].access
  BY <1>1 DEF MSHR
<1>4. d = [b EXCEPT !.mshrs[k] = m]
  BY <1>1, <1>2 DEF CoreType, Block
<1> HIDE DEF m
<1>5. /\ d \in CoreType /\ d.mshrs[k] = m
      /\ \A j \in Bytes : j # k => d.mshrs[j] = c.mshrs[j]
      /\ d.queue = c.queue /\ d.requests = c.requests \ {i}
      /\ d.prefetches = c.prefetches /\ d.permission = c.permission /\ d.ports = c.ports
  BY <1>1, <1>2, <1>3, <1>4, SetMSHR
<1>6. \A x \in Bytes : /\ d.mshrs[x].waiting = c.mshrs[x].waiting /\ d.mshrs[x].op = c.mshrs[x].op
                        /\ d.mshrs[x].access = c.mshrs[x].access
                        /\ c.mshrs[x].blocked \subseteq d.mshrs[x].blocked
                        /\ d.mshrs[x].blocked \subseteq c.mshrs[x].blocked \cup {i}
  <2> TAKE x \in Bytes
  <2>1. CASE x = k
    BY <1>3, <1>5, <2>1
  <2>2. CASE x # k
    BY <1>5, <2>2
  <2> QED BY <2>1, <2>2
<1>7. \A j \in DOMAIN c.queue : (Engaged(d, j) => Engaged(c, j)) /\ (Least(d, j) <=> Least(c, j))
  <2> TAKE j \in DOMAIN c.queue
  <2>1. Least(d, j) <=> Least(c, j)
    BY <1>5 DEF Least
  <2>2. CASE j = i
    BY <2>1, <2>2 DEF Engaged
  <2>3. CASE j # i
    BY <1>5, <1>6, <2>1, <2>3 DEF Engaged
  <2> QED BY <2>2, <2>3
<1>8. \A j \in DOMAIN d.queue : EntryOK(d, j)
  <2> TAKE j \in DOMAIN d.queue
  <2>1. EntryOK(c, j) /\ d.queue[j] = c.queue[j] /\ (Engaged(d, j) => Engaged(c, j)) /\ (Least(d, j) <=> Least(c, j))
    BY <1>1, <1>5, <1>7 DEF CoreInvBut
  <2> QED BY <2>1 DEF EntryOK
<1>9. Linked(d)
  <2>1. Linked(c)
    BY <1>1 DEF CoreInvBut
  <2>2. ASSUME NEW x \in Bytes
        PROVE  d.mshrs[x] = NoMSHR \/ d.mshrs[x].waiting # {}
    <3>1. CASE x = k
      BY <1>1, <1>3, <1>5, <2>1, <3>1 DEF Linked
    <3>2. CASE x # k
      BY <1>5, <2>1, <3>2 DEF Linked
    <3> QED BY <3>1, <3>2
  <2>3. \A j \in DOMAIN c.queue : c.queue[j].mshr => paddr(c.queue[j]) \in Bytes
    <3> TAKE j \in DOMAIN c.queue
    <3>1. EntryOK(c, j) /\ c.queue[j] \in EntryType
      BY <1>1, EntryTyped DEF CoreInvBut
    <3> QED BY <3>1, PaddrByte DEF EntryOK
  <2>4. \A x \in Bytes : d.mshrs[x].blocked \subseteq DOMAIN d.queue
    BY <1>1, <1>5, <1>6, <2>1 DEF Linked
  <2>5. ASSUME NEW x \in Bytes
        PROVE  /\ d.mshrs[x].op # "Load" => \A p, q \in d.mshrs[x].waiting : p = q
               /\ \A j \in d.mshrs[x].waiting : /\ j \in DOMAIN d.queue /\ d.queue[j].mshr
                                                 /\ d.queue[j].access = d.mshrs[x].access /\ d.queue[j].op = d.mshrs[x].op
                                                 /\ paddr(d.queue[j]) = x
    BY <1>5, <1>6, <2>1 DEF Linked
  <2>6. \A j \in DOMAIN d.queue : d.queue[j].mshr => j \in d.mshrs[paddr(d.queue[j])].waiting
    BY <1>5, <1>6, <2>1, <2>3 DEF Linked
  <2> QED BY <2>2, <2>4, <2>5, <2>6 DEF Linked
<1>10. SBOrder(d) /\ d.requests \subseteq DOMAIN d.queue /\ d.prefetches \subseteq DOMAIN d.queue
  <2>1. \A q : InQueue(d, q) = InQueue(c, q)
    BY <1>5 DEF InQueue
  <2> QED BY <1>1, <1>5, <2>1 DEF CoreInvBut, SBOrder
<1>11. SameSize => NoPartial(d)
  BY <1>1, <1>5 DEF CoreInvBut, NoPartial
<1>12. ASSUME SameSize, NEW j \in DOMAIN d.queue, status(d.queue[j]) = "AwaitingPort"
       PROVE  j \in d.requests \/ j \in d.mshrs[paddr(d.queue[j])].blocked
  <2>1. CASE j = i
    BY <1>3, <1>5, <2>1
  <2>2. CASE j # i
    <3>1. j \in DOMAIN c.queue /\ status(c.queue[j]) = "AwaitingPort"
      BY <1>5, <1>12
    <3>2. j \in c.requests \/ j \in c.mshrs[paddr(c.queue[j])].blocked
      BY <1>1, <1>12, <3>1 DEF CoreInvBut, PortsKnown
    <3>3. c.queue[j].access # {} /\ c.queue[j] \in EntryType
      BY <1>1, <3>1, WaitingEmpty
    <3>4. paddr(c.queue[j]) \in Bytes
      BY <3>3, PaddrByte
    <3> QED BY <1>5, <1>6, <2>2, <3>2, <3>4
  <2> QED BY <2>1, <2>2
<1>13. CoreInv(d)
  BY <1>5, <1>8, <1>9, <1>10, <1>11, <1>12 DEF CoreInv, CoreInvBut, PortsKnown
<1>14. Annulled(d)
  BY <1>5 DEF Annulled
<1> QED BY <1>5, <1>13, <1>14 DEF Stays

(* An MSHR is allocated and the operation sent. *)
LEMMA SendFacts ==
  ASSUME NEW c, CoreInv(c), Annulled(c), NEW i \in c.requests, status(c.queue[i]) = "AwaitingPort",
         NEW b, Taken(c, i, b), NEW k, k = paddr(c.queue[i]), c.mshrs[k] = NoMSHR,
         NEW d, d = Start(b, k, i)
  PROVE  Stays(c, d, {}) /\ Ordered(c, i, d)
<1> DEFINE e == c.queue[i]
           f == [e EXCEPT !.mshr = TRUE]
           n == Allocated(b, i)
           s == [b EXCEPT !.mshrs[k] = n]
           g == [s EXCEPT !.queue[i] = f]
<1>1. /\ c \in CoreType /\ i \in DOMAIN c.queue /\ i \in Ids /\ e \in EntryType
      /\ k \in Bytes /\ c.mshrs[k] \in MSHR /\ f \in EntryType /\ EntryOK(c, i)
      /\ e.op \in {"Load", "Store", "RMW", "CAS"} /\ e.access # {} /\ ~e.mshr
  BY AskedFacts
<1>2. e.access \in SUBSET Bytes /\ {} \in SUBSET Ids /\ {i} \in SUBSET Ids
  BY <1>1 DEF EntryType
<1>3. n = [op |-> e.op, access |-> e.access, waiting |-> {i}, blocked |-> {}, prefetches |-> {}]
  <2>1. b.queue[i] = e
    BY DEF Taken
  <2>2. n = [NoMSHR EXCEPT !.op = e.op, !.access = e.access, !.waiting = {i}]
    BY <2>1 DEF Allocated
  <2> HIDE DEF n, e
  <2> QED BY <2>2 DEF NoMSHR
<1>4. /\ n \in MSHR /\ n.waiting = {i} /\ n.blocked = {} /\ n.op = e.op /\ n.access = e.access
  BY <1>1, <1>2, <1>3 DEF MSHR
<1>5. c.mshrs[k].waiting = {} /\ c.mshrs[k].blocked = {}
  BY DEF NoMSHR
<1>6. /\ b \in CoreType /\ b.queue = c.queue /\ b.mshrs = c.mshrs /\ b.requests = c.requests \ {i}
      /\ b.prefetches = c.prefetches /\ b.permission = c.permission /\ b.ports = c.ports
  BY DEF Taken
<1>7. d = [g EXCEPT !.ports = <<e.op, e.access>>]
  <2> HIDE DEF n
  <2>1. d = Send([b EXCEPT !.mshrs[k] = n, !.queue[i].mshr = TRUE], e.op, e.access)
    BY <1>6 DEF Start, n
  <2> QED BY <1>1, <1>4, <1>6, <2>1 DEF CoreType, Send
<1>8. f = [c.queue[i] EXCEPT !.mshr = TRUE] /\ f.access = e.access /\ f.mshr /\ f.queue = e.queue
  BY <1>1 DEF EntryType
<1>9. e = c.queue[i]
  OBVIOUS
<1> HIDE DEF f, e, n
<1>10. /\ s \in CoreType /\ s.mshrs[k] = n
       /\ \A j \in Bytes : j # k => s.mshrs[j] = b.mshrs[j]
       /\ s.queue = b.queue /\ s.requests = b.requests
       /\ s.prefetches = b.prefetches /\ s.permission = b.permission /\ s.ports = b.ports
  BY <1>1, <1>4, <1>6, SetMSHR
<1> HIDE DEF s
<1>11. i \in DOMAIN s.queue
  BY <1>1, <1>6, <1>10
<1>12. /\ g \in CoreType /\ DOMAIN g.queue = DOMAIN s.queue /\ g.queue[i] = f
       /\ \A j \in DOMAIN s.queue : j # i => g.queue[j] = s.queue[j]
       /\ g.mshrs = s.mshrs /\ g.requests = s.requests
       /\ g.prefetches = s.prefetches /\ g.permission = s.permission /\ g.ports = s.ports
  BY <1>1, <1>10, <1>11, SetEntry
<1> HIDE DEF g
<1>13. /\ d \in CoreType /\ d.queue = g.queue /\ d.mshrs = g.mshrs /\ d.requests = g.requests
       /\ d.prefetches = g.prefetches /\ d.permission = g.permission /\ d.ports = <<e.op, e.access>>
  <2>1. <<e.op, e.access>> \in Messages
    BY <1>1, <1>2 DEF Messages
  <2> QED BY <1>7, <1>12, <2>1 DEF CoreType
<1>14. Linking(c, i, d)
  BY <1>6, <1>8, <1>10, <1>12, <1>13 DEF Linking
<1>15. /\ \A j \in Bytes : j # k => d.mshrs[j] = c.mshrs[j]
       /\ d.mshrs[k].access = c.queue[i].access /\ d.mshrs[k].op = c.queue[i].op
       /\ d.mshrs[k].waiting = c.mshrs[k].waiting \cup {i} /\ d.mshrs[k].blocked = c.mshrs[k].blocked
  <2>1. d.mshrs[k] = n
    BY <1>10, <1>12, <1>13
  <2> QED BY <1>4, <1>5, <1>6, <1>9, <1>10, <1>12, <1>13, <2>1
<1>16. /\ d \in CoreType /\ DOMAIN d.queue = DOMAIN c.queue /\ d.queue[i] = [c.queue[i] EXCEPT !.mshr = TRUE]
       /\ \A j \in DOMAIN c.queue : j # i => d.queue[j] = c.queue[j]
       /\ d.requests = c.requests \ {i} /\ d.prefetches = c.prefetches
  BY <1>14 DEF Linking
<1>17. CoreInv(d)
  <2>1. /\ c.queue[i].op # "Load" => c.mshrs[k].waiting = {}
        /\ c.mshrs[k].waiting # {} => c.mshrs[k].op = c.queue[i].op /\ c.mshrs[k].access = c.queue[i].access
    BY <1>5
  <2> QED BY <1>15, <1>16, <2>1, LinkKeeps
<1>18. Stays(c, d, {})
  BY <1>1, <1>14, <1>17, LinkingStays
<1>19. e.op = "Store" => Least(c, i) /\ ~e.mshr /\ Storing(d, e.access)
  <2> SUFFICES ASSUME e.op = "Store" PROVE Least(c, i) /\ ~e.mshr /\ Storing(d, e.access)
    OBVIOUS
  <2>1. Engaged(c, i) /\ IsStore(e)
    BY DEF Engaged, IsStore
  <2>2. Least(c, i) /\ e.queue = "SB"
    BY <1>1, <1>9, <2>1 DEF EntryOK
  <2>3. d.queue[i] = f /\ DOMAIN d.queue = DOMAIN c.queue
    BY <1>8, <1>16
  <2>4. Least(d, i) /\ i \in InQueue(d, "SB") /\ d.queue[i].mshr /\ d.queue[i].access = e.access
    BY <1>1, <1>8, <2>2, <2>3 DEF Least, InQueue
  <2> QED BY <1>1, <2>2, <2>4 DEF Storing
<1> QED BY <1>1, <1>9, <1>13, <1>18, <1>19 DEF Ordered

(* issue keeps the invariant; a store that is sent is the oldest entry and *)
(* was not sent before.                                                    *)
LEMMA IssueFacts ==
  ASSUME NEW c, CoreInv(c), Annulled(c), c.ports = None, NEW i \in c.requests,
         NEW b, b = [c EXCEPT !.requests = @ \ {i}], NEW d, d = issue(b, i)
  PROVE  Stays(c, d, {}) /\ (d.ports = None \/ Ordered(c, i, d))
<1> DEFINE e == c.queue[i]
           k == paddr(e)
           m == c.mshrs[k]
<1>1. i \in DOMAIN c.queue
  BY DEF CoreInv, CoreInvBut
<1>2. Taken(c, i, b) /\ (status(c.queue[i]) # "AwaitingPort" => CoreInv(b))
  BY Unrequested
<1>3. b.queue = c.queue /\ b.mshrs = c.mshrs /\ b.ports = c.ports /\ b.permission = c.permission /\ Annulled(b)
  BY <1>2 DEF Taken
<1>4. CASE status(e) # "AwaitingPort"
  <2>1. d = b
    BY <1>1, <1>3, <1>4 DEF issue
  <2>2. Stays(c, b, {})
    BY <1>2, <1>3, <1>4 DEF Stays
  <2> QED BY <1>3, <2>1, <2>2
<1>5. CASE status(e) = "AwaitingPort"
  <2>1. \/ /\ e.op = "Load" /\ m.op = "Load" /\ m.access = e.access /\ d = Share(b, k, i)
        \/ m # NoMSHR /\ d = Block(b, k, i)
        \/ m = NoMSHR /\ d = Start(b, k, i)
    BY <1>1, <1>3, <1>5 DEF issue, Share, Block, Start, Allocated
  <2>2. ASSUME e.op = "Load", m.op = "Load", m.access = e.access, d = Share(b, k, i)
        PROVE  Stays(c, d, {}) /\ d.ports = None
    BY <1>2, <1>5, <2>2, ShareFacts
  <2>3. ASSUME m # NoMSHR, d = Block(b, k, i)
        PROVE  Stays(c, d, {}) /\ d.ports = None
    BY <1>2, <1>5, <2>3, BlockFacts
  <2>4. ASSUME m = NoMSHR, d = Start(b, k, i)
        PROVE  Stays(c, d, {}) /\ Ordered(c, i, d)
    BY <1>2, <1>5, <2>4, SendFacts
  <2> HIDE DEF m, e
  <2> QED BY <2>1, <2>2, <2>3, <2>4
<1> QED BY <1>4, <1>5

(* Only the prefetches that wait for an MSHR change. *)
LEMMA SameLinks ==
  ASSUME NEW c, CoreInv(c), Annulled(c), NEW d \in CoreType, d.queue = c.queue, d.requests = c.requests,
         d.prefetches \subseteq DOMAIN c.queue, d.permission = c.permission,
         \A x \in Bytes : /\ d.mshrs[x].waiting = c.mshrs[x].waiting /\ d.mshrs[x].op = c.mshrs[x].op
                          /\ d.mshrs[x].access = c.mshrs[x].access /\ d.mshrs[x].blocked = c.mshrs[x].blocked
                          /\ d.mshrs[x] = c.mshrs[x] \/ c.mshrs[x] # NoMSHR
  PROVE  Stays(c, d, {})
<1>1. CoreInvBut(c, {}) /\ c \in CoreType
  BY DEF CoreInv, CoreInvBut
<1>2. \A i : (Engaged(d, i) <=> Engaged(c, i)) /\ (Least(d, i) <=> Least(c, i))
  BY DEF Engaged, Least
<1>3. \A i \in DOMAIN d.queue : EntryOK(d, i)
  <2> TAKE i \in DOMAIN d.queue
  <2> QED BY <1>1, <1>2 DEF CoreInvBut, EntryOK
<1>4. \A j \in DOMAIN c.queue : c.queue[j].access # {} => paddr(c.queue[j]) \in Bytes
  BY <1>1, EntryTyped, PaddrByte
<1>5. Linked(d)
  <2>1. Linked(c) /\ \A j \in DOMAIN c.queue : c.queue[j].mshr => paddr(c.queue[j]) \in Bytes
    BY <1>1, <1>4 DEF CoreInvBut, EntryOK
  <2>2. ASSUME NEW x \in Bytes
        PROVE  LET m == d.mshrs[x]
               IN  /\ m = NoMSHR \/ m.waiting # {}
                   /\ m.blocked \subseteq DOMAIN d.queue
                   /\ m.op # "Load" => \A i, j \in m.waiting : i = j
                   /\ \A i \in m.waiting : /\ i \in DOMAIN d.queue /\ d.queue[i].mshr
                                           /\ d.queue[i].access = m.access /\ d.queue[i].op = m.op
                                           /\ paddr(d.queue[i]) = x
    BY <2>1 DEF Linked
  <2>3. \A j \in DOMAIN d.queue : d.queue[j].mshr => j \in d.mshrs[paddr(d.queue[j])].waiting
    BY <2>1 DEF Linked
  <2> QED BY <2>2, <2>3 DEF Linked
<1>6. SBOrder(d)
  BY <1>1 DEF CoreInvBut, SBOrder, InQueue
<1>7. SameSize => NoPartial(d) /\ PortsKnown(d, {})
  <2>1. \A j \in DOMAIN c.queue : status(c.queue[j]) = "AwaitingPort" => c.queue[j].access # {}
    BY <1>1, WaitingEmpty
  <2> QED BY <1>1, <1>4, <2>1 DEF CoreInvBut, NoPartial, PortsKnown
<1>8. Annulled(d)
  BY DEF Annulled
<1>9. d.requests \subseteq DOMAIN d.queue
  BY <1>1 DEF CoreInvBut
<1>10. CoreInv(d)
  BY <1>3, <1>5, <1>6, <1>7, <1>9 DEF CoreInv, CoreInvBut
<1> QED BY <1>8, <1>10 DEF Stays

Hold(b, k, i) == [b EXCEPT !.mshrs[k].prefetches = @ \cup {i}]
Fetch(b, x, A) == Send([b EXCEPT !.outstanding = @ \cup {x}], "StorePrefetch", A)

(* A prefetch is taken from the arbiter. *)
Dropped(c, i, b) ==
  /\ b \in CoreType /\ b.queue = c.queue /\ b.mshrs = c.mshrs /\ b.requests = c.requests
  /\ b.prefetches = c.prefetches \ {i} /\ b.outstanding = c.outstanding
  /\ b.permission = c.permission /\ b.ports = c.ports

(* Taking a prefetch changes nothing else.                                 *)
LEMMA DroppedFacts ==
  ASSUME NEW c, CoreInv(c), NEW i \in c.prefetches, NEW b, b = [c EXCEPT !.prefetches = @ \ {i}]
  PROVE  Dropped(c, i, b)
<1>1. c \in CoreType
  BY DEF CoreInv, CoreInvBut
<1> QED BY <1>1 DEF CoreType, Dropped

(* issueStorePrefetch keeps the invariant and sends a prefetch or nothing. *)
LEMMA PrefetchFacts ==
  ASSUME NEW c, CoreInv(c), Annulled(c), c.ports = None, NEW i \in c.prefetches,
         NEW b, Dropped(c, i, b), NEW d, d = issueStorePrefetch(b, i)
  PROVE  /\ Stays(c, d, {})
         /\ \/ d.ports = None
            \/ d.ports = <<"StorePrefetch", c.queue[i].access>> /\ c.queue[i].access # {}
<1> DEFINE e == c.queue[i]
           k == paddr(e)
           x == BlockOf[k]
<1>1. c \in CoreType /\ i \in DOMAIN c.queue /\ CoreInvBut(c, {})
  BY DEF CoreInv, CoreInvBut
<1>2. /\ b \in CoreType /\ b.queue = c.queue /\ b.mshrs = c.mshrs /\ b.requests = c.requests
      /\ b.prefetches = c.prefetches \ {i} /\ b.outstanding = c.outstanding
      /\ b.permission = c.permission /\ b.ports = c.ports
  BY DEF Dropped
<1>3. c.prefetches \subseteq DOMAIN c.queue
  BY <1>1 DEF CoreInvBut
<1>4. \/ d = b
      \/ e.access # {} /\ c.mshrs[k] # NoMSHR /\ d = Hold(b, k, i)
      \/ e.access # {} /\ d = Fetch(b, x, e.access)
  BY <1>1, <1>2 DEF issueStorePrefetch, Hold, Fetch, Unresolved
<1>5. e \in EntryType /\ i \in Ids /\ (e.access # {} => k \in Bytes)
  BY <1>1, EntryTyped, PaddrByte
<1> HIDE DEF e, k, x
<1>6. ASSUME d = b
      PROVE  Stays(c, d, {}) /\ d.ports = None
  <2>1. \A y \in Bytes : d.mshrs[y] = c.mshrs[y]
    BY <1>2, <1>6
  <2> QED BY <1>2, <1>3, <1>6, <2>1, SameLinks
<1>7. ASSUME e.access # {}, c.mshrs[k] # NoMSHR, d = Hold(b, k, i)
      PROVE  Stays(c, d, {}) /\ d.ports = None
  <2> DEFINE m == [c.mshrs[k] EXCEPT !.prefetches = @ \cup {i}]
  <2>1. k \in Bytes /\ c.mshrs[k] \in MSHR
    BY <1>1, <1>5, <1>7 DEF CoreType
  <2>2. /\ m \in MSHR /\ m.waiting = c.mshrs[k].waiting /\ m.op = c.mshrs[k].op
        /\ m.access = c.mshrs[k].access /\ m.blocked = c.mshrs[k].blocked
    BY <1>5, <2>1 DEF MSHR
  <2>3. d = [b EXCEPT !.mshrs[k] = m]
    BY <1>2, <1>7, <2>1 DEF CoreType, Hold
  <2> HIDE DEF m
  <2>4. /\ d \in CoreType /\ d.mshrs[k] = m
        /\ \A j \in Bytes : j # k => d.mshrs[j] = b.mshrs[j]
        /\ d.queue = b.queue /\ d.requests = b.requests
        /\ d.prefetches = b.prefetches /\ d.permission = b.permission /\ d.ports = b.ports
    BY <1>2, <2>1, <2>2, <2>3, SetMSHR
  <2>5. \A y \in Bytes : /\ d.mshrs[y].waiting = c.mshrs[y].waiting /\ d.mshrs[y].op = c.mshrs[y].op
                         /\ d.mshrs[y].access = c.mshrs[y].access /\ d.mshrs[y].blocked = c.mshrs[y].blocked
                         /\ d.mshrs[y] = c.mshrs[y] \/ c.mshrs[y] # NoMSHR
    <3> TAKE y \in Bytes
    <3>1. CASE y = k
      BY <1>7, <2>2, <2>4, <3>1
    <3>2. CASE y # k
      BY <1>2, <2>4, <3>2
    <3> QED BY <3>1, <3>2
  <2> QED BY <1>2, <1>3, <2>4, <2>5, SameLinks
<1>8. ASSUME e.access # {}, d = Fetch(b, x, e.access)
      PROVE  Stays(c, d, {}) /\ d.ports = <<"StorePrefetch", e.access>>
  <2>1. x \in Blocks
    BY <1>5, <1>8 DEF Blocks, x
  <2>2. <<"StorePrefetch", e.access>> \in Messages
    BY <1>5 DEF Messages, EntryType
  <2>3. d = [[b EXCEPT !.outstanding = @ \cup {x}] EXCEPT !.ports = <<"StorePrefetch", e.access>>]
    BY <1>8 DEF Fetch, Send
  <2>4. /\ d \in CoreType /\ d.queue = b.queue /\ d.requests = b.requests /\ d.mshrs = b.mshrs
        /\ d.prefetches = b.prefetches /\ d.permission = b.permission /\ d.ports = <<"StorePrefetch", e.access>>
    <3> DEFINE o == b.outstanding \cup {x}
               p == <<"StorePrefetch", e.access>>
    <3>1. o \in SUBSET Blocks
      BY <1>2, <2>1 DEF CoreType
    <3>2. d = [[b EXCEPT !.outstanding = o] EXCEPT !.ports = p]
      BY <2>3
    <3>3. p \in {None} \cup Messages
      BY <2>2
    <3>4. p = <<"StorePrefetch", e.access>>
      OBVIOUS
    <3> HIDE DEF o, p
    <3> QED BY <1>2, <3>1, <3>2, <3>3, <3>4 DEF CoreType
  <2>5. \A y \in Bytes : d.mshrs[y] = c.mshrs[y]
    BY <1>2, <2>4
  <2> QED BY <1>2, <1>3, <2>4, <2>5, SameLinks
<1> QED BY <1>4, <1>6, <1>7, <1>8 DEF e

(* The permission of one block becomes p. *)
LEMMA SetPermission ==
  ASSUME NEW c \in CoreType, NEW b \in Blocks, NEW p \in [count : Int, held : BOOLEAN],
         NEW d, d = [c EXCEPT !.permission[b] = p]
  PROVE  /\ d \in CoreType /\ d.queue = c.queue /\ d.mshrs = c.mshrs /\ d.requests = c.requests
         /\ d.prefetches = c.prefetches /\ d.outstanding = c.outstanding /\ d.ports = c.ports
         /\ d.permission[b] = p /\ \A x \in Blocks : x # b => d.permission[x] = c.permission[x]
  BY DEF CoreType

(* What happens to the permission of a block outside of the store buffer. *)
Permit(c, d, b, held) ==
  /\ d \in CoreType /\ d.queue = c.queue /\ d.mshrs = c.mshrs /\ d.requests = c.requests
  /\ d.prefetches = c.prefetches /\ d.outstanding = c.outstanding /\ d.ports = c.ports
  /\ \A x \in Blocks : d.permission[x].count = c.permission[x].count
  /\ \A x \in Blocks : d.permission[x].held => IF x = b THEN held ELSE c.permission[x].held

(* acquireWritePermission and loseWritePermission are of that kind.        *)
LEMMA AcquireFacts ==
  ASSUME NEW c \in CoreType, NEW b \in Blocks
  PROVE  /\ Permit(c, acquireWritePermission(c, b), b, TRUE)
         /\ Permit(c, loseWritePermission(c, b), b, FALSE)
<1> DEFINE p == [c.permission[b] EXCEPT !.held = @ \/ c.permission[b].count > 0]
           q == [c.permission[b] EXCEPT !.held = FALSE]
           dp == [c EXCEPT !.permission[b] = p]
           dq == [c EXCEPT !.permission[b] = q]
<1>1. c.permission[b] \in [count : Int, held : BOOLEAN]
  BY DEF CoreType
<1>2. /\ p \in [count : Int, held : BOOLEAN] /\ q \in [count : Int, held : BOOLEAN]
      /\ p.count = c.permission[b].count /\ q.count = c.permission[b].count /\ ~q.held
  BY <1>1
<1>3. acquireWritePermission(c, b) = dp /\ loseWritePermission(c, b) = dq
  BY DEF acquireWritePermission, loseWritePermission, CoreType
<1> HIDE DEF p, q
<1>4. /\ dp \in CoreType /\ dp.queue = c.queue /\ dp.mshrs = c.mshrs /\ dp.requests = c.requests
      /\ dp.prefetches = c.prefetches /\ dp.outstanding = c.outstanding /\ dp.ports = c.ports
      /\ dp.permission[b] = p /\ \A x \in Blocks : x # b => dp.permission[x] = c.permission[x]
  BY <1>2 DEF CoreType
<1>5. /\ dq \in CoreType /\ dq.queue = c.queue /\ dq.mshrs = c.mshrs /\ dq.requests = c.requests
      /\ dq.prefetches = c.prefetches /\ dq.outstanding = c.outstanding /\ dq.ports = c.ports
      /\ dq.permission[b] = q /\ \A x \in Blocks : x # b => dq.permission[x] = c.permission[x]
  BY <1>2 DEF CoreType
<1> HIDE DEF dp, dq
<1> QED BY <1>2, <1>3, <1>4, <1>5 DEF Permit

(* Permissions are no part of the invariant of the core.                   *)
LEMMA PermitKeeps ==
  ASSUME NEW c, CoreInv(c), Annulled(c), NEW d, NEW b, NEW held, Permit(c, d, b, held)
  PROVE  CoreInv(d) /\ Annulled(d)
<1>1. CoreInvBut(c, {}) /\ d.prefetches \subseteq DOMAIN c.queue
  BY DEF CoreInv, CoreInvBut, Permit
<1>2. CoreInvBut(d, {}) /\ (Annulled(c) => Annulled(d))
  BY <1>1, SameParts DEF Permit
<1> QED BY <1>2 DEF CoreInv

(* The loads of S are repeated. *)
Repeats(c, x, S, d) ==
  /\ CoreInv(x) /\ DOMAIN x.queue = DOMAIN c.queue
  /\ \A j \in DOMAIN c.queue : SameLoad(c.queue[j], x.queue[j])
  /\ Loading(x, d) /\ Untouched(x, S, d) /\ Filled(x, S, d)

(* An invalidation changes loads only. *)
LEMMA InvalidateFacts ==
  ASSUME Prog, NEW c, CoreInv(c), Annulled(c), NEW b, NEW d, d = invalidate(c, b)
  PROVE  /\ Stays(c, d, {}) /\ d.ports = c.ports
         /\ \E x, S : Repeats(c, x, S, d)
<1> DEFINE hit == {l \in CompleteLoads(c) : BlockOf[paddr(c.queue[l])] = b}
           T == hit \ Unordered(c)
           S == hit \cap Unordered(c)
           q == [i \in DOMAIN c.queue |-> [c.queue[i] EXCEPT !.override = @ \/ i \in T]]
           x == [c EXCEPT !.queue = q]
<1>1. CoreInvBut(c, {}) /\ c \in CoreType /\ DOMAIN c.queue \subseteq Ids
      /\ \A i \in DOMAIN c.queue : c.queue[i] \in EntryType
  BY EntryTyped DEF CoreInv, CoreInvBut
<1>2. \A i \in DOMAIN c.queue :
        /\ q[i] \in EntryType /\ q[i].op = c.queue[i].op /\ q[i].queue = c.queue[i].queue
        /\ q[i].access = c.queue[i].access /\ q[i].data = c.queue[i].data /\ q[i].loaded = c.queue[i].loaded
        /\ q[i].failed = c.queue[i].failed /\ q[i].issued = c.queue[i].issued
        /\ q[i].partial = c.queue[i].partial /\ q[i].annulled = c.queue[i].annulled
        /\ q[i].mshr = c.queue[i].mshr /\ q[i].storeComplete = c.queue[i].storeComplete
  <2> HIDE DEF T
  <2> TAKE i \in DOMAIN c.queue
  <2>1. c.queue[i] \in EntryType
    BY <1>1
  <2> QED BY <2>1 DEF EntryType
<1>3. DOMAIN q = DOMAIN c.queue /\ q = [i \in DOMAIN q |-> q[i]]
  <2> HIDE DEF T
  <2> QED OBVIOUS
<1>4. d = doLoads(x, S, FALSE)
  BY DEF invalidate
<1>5. S \subseteq DOMAIN c.queue /\ \A l \in S : IsLoad(c.queue[l]) /\ c.queue[l].access # {}
  BY StatusFacts DEF CompleteLoads, InQueue
<1> HIDE DEF q, S
<1>6. /\ x \in CoreType /\ x.queue = q /\ x.mshrs = c.mshrs /\ x.requests = c.requests
      /\ x.prefetches = c.prefetches /\ x.permission = c.permission /\ x.ports = c.ports
  BY <1>1, <1>2, <1>3, NewQueue
<1> HIDE DEF x
<1>7. \A i \in DOMAIN c.queue : /\ (Engaged(x, i) <=> Engaged(c, i)) /\ (Least(x, i) <=> Least(c, i))
                                /\ (IsStore(x.queue[i]) <=> IsStore(c.queue[i]))
                                /\ (IsAtomic(x.queue[i]) <=> IsAtomic(c.queue[i]))
                                /\ (IsLoad(x.queue[i]) <=> IsLoad(c.queue[i]))
                                /\ paddr(x.queue[i]) = paddr(c.queue[i])
  BY <1>2, <1>3, <1>6 DEF Engaged, Least, IsStore, IsAtomic, IsLoad, paddr
<1>8. \A i \in DOMAIN x.queue : EntryOK(x, i)
  <2> TAKE i \in DOMAIN x.queue
  <2>1. i \in DOMAIN c.queue /\ EntryOK(c, i) /\ x.queue[i] = q[i]
    BY <1>1, <1>3, <1>6 DEF CoreInvBut
  <2> QED BY <1>2, <1>7, <2>1 DEF EntryOK
<1>9. Linked(x)
  <2>1. Linked(c)
    BY <1>1 DEF CoreInvBut
  <2> QED BY <1>2, <1>3, <1>6, <1>7, <2>1 DEF Linked
<1>10. SBOrder(x)
  <2>1. \A y : InQueue(x, y) = InQueue(c, y)
    BY <1>2, <1>3, <1>6 DEF InQueue
  <2> QED BY <1>1, <2>1 DEF CoreInvBut, SBOrder
<1>11. SameSize => NoPartial(x) /\ PortsKnown(x, {})
  <2>1. \A i \in DOMAIN c.queue : status(x.queue[i]) = "AwaitingPort" => status(c.queue[i]) = "AwaitingPort"
    <3> TAKE i \in DOMAIN c.queue
    <3>1. status(x.queue[i]) = "AwaitingPort" <=>
              /\ ~x.queue[i].annulled /\ x.queue[i].access # {} /\ x.queue[i].op # "MEMBAR"
              /\ ~(IsLoad(x.queue[i]) /\ x.queue[i].loaded # None /\ (IsAtomic(x.queue[i]) => x.queue[i].data # 0))
              /\ ~(x.queue[i].op = "Store" /\ x.queue[i].data = 0) /\ ~x.queue[i].mshr /\ x.queue[i].issued
      BY StatusFacts
    <3>2. status(c.queue[i]) = "AwaitingPort" <=>
              /\ ~c.queue[i].annulled /\ c.queue[i].access # {} /\ c.queue[i].op # "MEMBAR"
              /\ ~(IsLoad(c.queue[i]) /\ c.queue[i].loaded # None /\ (IsAtomic(c.queue[i]) => c.queue[i].data # 0))
              /\ ~(c.queue[i].op = "Store" /\ c.queue[i].data = 0) /\ ~c.queue[i].mshr /\ c.queue[i].issued
      BY StatusFacts
    <3> QED BY <1>2, <1>6, <1>7, <3>1, <3>2
  <2> QED BY <1>1, <1>2, <1>3, <1>6, <1>7, <2>1 DEF CoreInvBut, NoPartial, PortsKnown
<1>12. x.requests \subseteq DOMAIN x.queue /\ x.prefetches \subseteq DOMAIN x.queue
  BY <1>1, <1>3, <1>6 DEF CoreInvBut
<1>13. CoreInv(x) /\ Annulled(x) /\ CoreInvBut(x, {})
  <2>1. Annulled(x)
    BY <1>2, <1>3, <1>6 DEF Annulled
  <2> QED BY <1>6, <1>8, <1>9, <1>10, <1>11, <1>12, <2>1 DEF CoreInv, CoreInvBut
<1>14. Stays(c, x, {})
  BY <1>2, <1>3, <1>6, <1>13 DEF Stays, InQueue
<1>15. Loadable(x, S, FALSE)
  BY <1>2, <1>3, <1>5, <1>6, <1>7 DEF Loadable
<1>16. Loading(x, d) /\ CoreInv(d) /\ Untouched(x, S, d) /\ Filled(x, S, d)
  BY <1>4, <1>13, <1>15, LoadsFacts DEF CoreInv
<1>17. \A l \in S \cap DOMAIN x.queue : x.queue[l].op # "Store"
  <2>1. \A l \in S \cap DOMAIN x.queue : IsLoad(x.queue[l])
    BY <1>15 DEF Loadable
  <2> QED BY <2>1 DEF IsLoad, IsAtomic
<1>18. Stays(x, d, {}) /\ d.ports = x.ports
  BY <1>13, <1>16, <1>17, LoadsStay
<1>19. Stays(c, d, {} \cup {})
  BY <1>14, <1>18, StaysTransitive
<1>20. {} \cup {} = {}
  OBVIOUS
<1>21. \A j \in DOMAIN c.queue : SameLoad(c.queue[j], x.queue[j])
  BY <1>2, <1>6 DEF SameLoad, Alike
<1>22. Repeats(c, x, S, d)
  BY <1>3, <1>6, <1>13, <1>16, <1>21 DEF Repeats
<1> QED BY <1>6, <1>18, <1>19, <1>20, <1>22

(* A store enters the store buffer. *)
Commits(c, i, d) ==
  /\ CoreInv(d) /\ Annulled(d)
  /\ DOMAIN d.queue = DOMAIN c.queue
  /\ \A j \in DOMAIN c.queue : /\ d.queue[j].access = c.queue[j].access /\ d.queue[j].data = c.queue[j].data
                               /\ d.queue[j].mshr = c.queue[j].mshr
                               /\ j # i => d.queue[j].queue = c.queue[j].queue
                               /\ SameLoad(c.queue[j], d.queue[j])
  /\ d.queue[i].queue = "SB" /\ c.queue[i].access # {}
  /\ LET b == BlockOf[paddr(c.queue[i])]
     IN  /\ b \in Blocks
         /\ d.permission[b].count = c.permission[b].count + 1 /\ d.permission[b].held = c.permission[b].held
         /\ \A x \in Blocks : x # b => d.permission[x] = c.permission[x]
  /\ d.ports = c.ports

(* retireMem of a store moves it to the store buffer.                      *)
LEMMA CommitFacts ==
  ASSUME Prog, NEW c, CoreInv(c), Annulled(c), NEW i \in InQueue(c, "LSQ"), \A j \in InQueue(c, "LSQ") : i <= j,
         c.queue[i].op = "Store", ~c.queue[i].annulled, c.queue[i].access # {}, c.queue[i].data # 0,
         NEW d, d = retireMem(c, i)
  PROVE  Commits(c, i, d)
<1> DEFINE e == c.queue[i]
           f == [e EXCEPT !.queue = "SB"]
           s == [c EXCEPT !.queue[i] = f]
           b == BlockOf[paddr(e)]
<1>1. c \in CoreType /\ i \in DOMAIN c.queue /\ CoreInvBut(c, {}) /\ e \in EntryType /\ EntryOK(c, i) /\ i \in Nat
  <2>1. c \in CoreType /\ i \in DOMAIN c.queue /\ CoreInvBut(c, {})
    BY DEF CoreInv, CoreInvBut, InQueue
  <2>2. i \in Ids
    BY <2>1, EntryTyped
  <2>3. i \in Nat
    BY <2>2, ProgFacts
  <2> QED BY <2>1, <2>3, EntryTyped DEF CoreInvBut
<1>2. ~Engaged(c, i) /\ IsStore(e)
  <2>1. IsStore(e)
    BY DEF IsStore
  <2> QED BY <2>1, NotEngaged
<1>3. /\ f \in EntryType /\ f.op = e.op /\ f.queue = "SB" /\ f.access = e.access /\ f.data = e.data
      /\ f.failed = e.failed /\ f.storeComplete = e.storeComplete /\ f.loaded = e.loaded /\ f.partial = e.partial
      /\ f.mshr = e.mshr /\ f.issued = e.issued /\ f.annulled = e.annulled
  BY <1>1 DEF EntryType
<1>4. [c EXCEPT !.queue[i].queue = "SB"] = s
  BY <1>1 DEF CoreType
<1>5. b \in Blocks
  BY <1>1, PaddrByte DEF Blocks
<1>6. d = requireWritePermission(s, i)
  BY <1>4 DEF retireMem
<1>7. e = c.queue[i] /\ b = BlockOf[paddr(e)]
  OBVIOUS
<1> HIDE DEF f, b, e
<1>8. /\ s \in CoreType /\ DOMAIN s.queue = DOMAIN c.queue /\ s.queue[i] = f
      /\ \A j \in DOMAIN c.queue : j # i => s.queue[j] = c.queue[j]
      /\ s.mshrs = c.mshrs /\ s.requests = c.requests
      /\ s.prefetches = c.prefetches /\ s.outstanding = c.outstanding
      /\ s.permission = c.permission /\ s.ports = c.ports
  BY <1>1, <1>3, SetEntry
<1>9. SBOrder(s)
  <2>1. InQueue(s, "SB") = InQueue(c, "SB") \cup {i} /\ InQueue(s, "LSQ") = InQueue(c, "LSQ") \ {i}
    BY <1>1, <1>3, <1>8 DEF InQueue
  <2>2. \A j \in InQueue(c, "LSQ") \ {i} : i < j
    <3>1. InQueue(c, "LSQ") \subseteq Nat
      <4>1. Ids \subseteq Nat
        BY ProgFacts
      <4>2. InQueue(c, "LSQ") \subseteq Ids
        BY <1>1, EntryTyped DEF InQueue
      <4> QED BY <4>1, <4>2
    <3> QED BY <1>1, <3>1
  <2> QED BY <1>1, <2>1, <2>2 DEF SBOrder, CoreInvBut
<1>10. EntryOK(s, i)
  <2>1. ~Engaged(s, i) /\ (Least(s, i) <=> Least(c, i))
    BY <1>2, <1>3, <1>7, <1>8 DEF Engaged, Least
  <2>2. (IsStore(f) <=> IsStore(e)) /\ (IsAtomic(f) <=> IsAtomic(e))
    BY <1>3 DEF IsStore, IsAtomic
  <2> QED BY <1>1, <1>2, <1>3, <1>7, <1>8, <2>1, <2>2 DEF EntryOK
<1>11. CoreInvBut(s, {})
  <2>1. status(f) # "AwaitingPort"
    BY <1>2, <1>3, <1>7, StatusFacts DEF Engaged
  <2>2. SameSize => ~f.partial
    BY <1>1, <1>3, <1>7 DEF CoreInvBut, NoPartial
  <2> QED BY <1>1, <1>3, <1>7, <1>9, <1>10, <2>1, <2>2, SetKeeps
<1>12. Annulled(s)
  BY <1>1, <1>3, <1>7, <1>8 DEF Annulled
<1> HIDE DEF s
<1>13. d = [s EXCEPT !.permission[b].count = @ + 1,
                     !.prefetches = IF s.permission[b].held THEN @ ELSE @ \cup {i}]
  <2>1. paddr(s.queue[i]) = paddr(e)
    BY <1>3, <1>8 DEF paddr
  <2> QED BY <1>6, <1>7, <2>1 DEF requireWritePermission
<1>14. /\ d \in CoreType /\ d.queue = s.queue /\ d.mshrs = s.mshrs /\ d.requests = s.requests
       /\ d.prefetches \subseteq DOMAIN s.queue /\ d.ports = s.ports
       /\ d.permission[b].count = s.permission[b].count + 1 /\ d.permission[b].held = s.permission[b].held
       /\ \A x \in Blocks : x # b => d.permission[x] = s.permission[x]
  <2> DEFINE p == [s.permission[b] EXCEPT !.count = @ + 1]
             t == IF s.permission[b].held THEN s.prefetches ELSE s.prefetches \cup {i}
  <2>1. s.permission[b] \in [count : Int, held : BOOLEAN] /\ DOMAIN s.queue \subseteq Ids
    BY <1>5, <1>8, EntryTyped DEF CoreType
  <2>2. /\ p \in [count : Int, held : BOOLEAN] /\ p.count = s.permission[b].count + 1
        /\ p.held = s.permission[b].held
    BY <2>1
  <2>3. t \subseteq DOMAIN s.queue /\ t \in SUBSET Ids
    BY <1>1, <1>8, <2>1 DEF CoreInvBut
  <2>4. d = [[s EXCEPT !.permission[b] = p] EXCEPT !.prefetches = t]
    BY <1>8, <1>13 DEF CoreType
  <2> DEFINE u == [s EXCEPT !.permission[b] = p]
  <2> HIDE DEF p, t
  <2>5. /\ u \in CoreType /\ u.queue = s.queue /\ u.mshrs = s.mshrs /\ u.requests = s.requests /\ u.ports = s.ports
        /\ u.permission[b] = p /\ \A x \in Blocks : x # b => u.permission[x] = s.permission[x]
    <3>1. s \in CoreType
      BY <1>8
    <3> QED BY <1>5, <2>2, <3>1 DEF CoreType
  <2> HIDE DEF u
  <2>6. /\ d \in CoreType /\ d.queue = u.queue /\ d.mshrs = u.mshrs /\ d.requests = u.requests /\ d.ports = u.ports
        /\ d.permission = u.permission /\ d.prefetches = t
    <3>1. d = [u EXCEPT !.prefetches = t]
      BY <2>4 DEF u
    <3> QED BY <2>3, <2>5, <3>1 DEF CoreType
  <2> QED BY <2>2, <2>3, <2>5, <2>6
<1>15. CoreInvBut(d, {}) /\ Annulled(d)
  BY <1>11, <1>12, <1>14, SameParts
<1>16. \A j \in DOMAIN c.queue : /\ d.queue[j].access = c.queue[j].access /\ d.queue[j].data = c.queue[j].data
                                 /\ d.queue[j].mshr = c.queue[j].mshr
                                 /\ j # i => d.queue[j].queue = c.queue[j].queue
                                 /\ SameLoad(c.queue[j], d.queue[j])
  BY <1>3, <1>7, <1>8, <1>14 DEF SameLoad, Alike
<1>17. DOMAIN d.queue = DOMAIN c.queue /\ d.queue[i].queue = "SB" /\ c.queue[i].access # {} /\ d.ports = c.ports
  BY <1>3, <1>8, <1>14
<1>18. /\ b \in Blocks
       /\ d.permission[b].count = c.permission[b].count + 1 /\ d.permission[b].held = c.permission[b].held
       /\ \A x \in Blocks : x # b => d.permission[x] = c.permission[x]
  BY <1>5, <1>8, <1>14
<1> QED BY <1>7, <1>15, <1>16, <1>17, <1>18 DEF Commits, CoreInv

(* Anything else leaves the queue. *)
LEMMA LeaveFacts ==
  ASSUME NEW c, CoreInv(c), Annulled(c), NEW i \in InQueue(c, "LSQ"), c.queue[i].op # "Store" \/ c.queue[i].annulled,
         NEW d, d = retireMem(c, i)
  PROVE  Without(c, {i}, d, {}) /\ d.permission = c.permission /\ Annulled(d)
<1>1. d = eraseLSQ(c, i)
  BY DEF retireMem
<1>2. CoreInvBut(c, {}) /\ i \in DOMAIN c.queue /\ c.queue[i].queue = "LSQ"
  BY DEF CoreInv, InQueue
<1>3. Without(c, {i}, d, {}) /\ d.permission = c.permission
  BY <1>1, <1>2, EraseFacts
<1>4. Annulled(d)
  BY <1>3 DEF Without, Annulled, KeepsLoad, Keeps
<1> QED BY <1>3, <1>4

(* The entries an MSHR blocked ask for their ports. *)
LEMMA WakeKeeps ==
  ASSUME NEW c, NEW X, CoreInvBut(c, X), Annulled(c), NEW m \in MSHR, NEW d, d = Wake(c, m),
         \A i \in m.blocked \cap DOMAIN c.queue : IsStore(c.queue[i]) =>
           c.queue[i].data # 0 /\ Least(c, i) /\ (c.queue[i].op = "Store" => c.queue[i].queue = "SB")
  PROVE  /\ CoreInvBut(d, X \ m.blocked) /\ Annulled(d) /\ Frame(c, d)
         /\ \A j \in DOMAIN c.queue : KeepsLoad(c.queue[j], d.queue[j])
<1> DEFINE p == c.prefetches \cup (m.prefetches \cap DOMAIN c.queue)
           a == [c EXCEPT !.prefetches = p]
<1>1. d = requestPorts(a, m.blocked)
  BY DEF Wake
<1>2. c \in CoreType /\ p \subseteq DOMAIN c.queue /\ DOMAIN c.queue \subseteq Ids
  BY EntryTyped DEF CoreInvBut
<1> HIDE DEF p
<1>3. /\ a \in CoreType /\ a.queue = c.queue /\ a.mshrs = c.mshrs /\ a.requests = c.requests
      /\ a.prefetches = p
  BY <1>2 DEF CoreType
<1> HIDE DEF a
<1>4. CoreInvBut(a, X)
  BY <1>2, <1>3, SameParts
<1>5. \A i \in Granted(a, m.blocked) : IsStore(a.queue[i]) =>
        a.queue[i].data # 0 /\ Least(a, i) /\ (a.queue[i].op = "Store" => a.queue[i].queue = "SB")
  <2>1. Granted(a, m.blocked) \subseteq m.blocked \cap DOMAIN c.queue
    BY <1>3 DEF Granted
  <2>2. \A i : Least(c, i) => Least(a, i)
    BY <1>3 DEF Least
  <2> QED BY <1>3, <2>1, <2>2
<1>6. CoreInvBut(d, X \ m.blocked)
  BY <1>1, <1>4, <1>5, RequestKeeps
<1>7. /\ Frame(c, d)
      /\ \A j \in DOMAIN c.queue : KeepsLoad(c.queue[j], d.queue[j])
  BY <1>2, WakeFacts
<1>8. Annulled(d)
  BY <1>7 DEF Annulled, Frame, Keeps
<1> QED BY <1>6, <1>7, <1>8

(* An MSHR is freed and the entries that waited for it are changed. *)
Released(c, k, x) ==
  /\ x \in CoreType /\ DOMAIN x.queue = DOMAIN c.queue
  /\ x.mshrs[k] = NoMSHR /\ \A y \in Bytes : y # k => x.mshrs[y] = c.mshrs[y]
  /\ x.requests = c.requests /\ x.prefetches = c.prefetches
  /\ \A j \in DOMAIN c.queue : j \notin c.mshrs[k].waiting => x.queue[j] = c.queue[j]
  /\ \A j \in c.mshrs[k].waiting : ~x.queue[j].mshr /\ x.queue[j].queue = c.queue[j].queue

(* Freeing an MSHR keeps the invariant except for what it blocked.         *)
LEMMA ReleaseKeeps ==
  ASSUME NEW c, CoreInv(c), NEW k \in Bytes, NEW x, Released(c, k, x), NEW Y,
         \A j \in c.mshrs[k].waiting :
           /\ EntryOK(x, j) /\ (SameSize => ~x.queue[j].partial)
           /\ j \notin Y => status(x.queue[j]) # "AwaitingPort"
  PROVE  CoreInvBut(x, c.mshrs[k].blocked \cup Y)
<1> DEFINE m == c.mshrs[k]
<1>1. CoreInvBut(c, {}) /\ c \in CoreType /\ Linked(c)
  BY DEF CoreInv, CoreInvBut
<1>2. /\ m.waiting \subseteq DOMAIN c.queue
      /\ \A y \in Bytes : y # k => c.mshrs[y].waiting \cap m.waiting = {}
      /\ \A y \in Bytes : c.mshrs[y].waiting \subseteq DOMAIN c.queue
  BY <1>1 DEF Linked
<1>3. \A j \in DOMAIN c.queue : (Least(x, j) <=> Least(c, j))
  BY DEF Least, Released
<1>4. \A j \in DOMAIN c.queue \ m.waiting : Engaged(x, j) => Engaged(c, j)
  <2>1. \A y \in Bytes : x.mshrs[y].blocked \subseteq c.mshrs[y].blocked
    <3> TAKE y \in Bytes
    <3>1. CASE y = k
      BY <3>1 DEF Released, NoMSHR
    <3>2. CASE y # k
      BY <3>2 DEF Released
    <3> QED BY <3>1, <3>2
  <2> QED BY <2>1 DEF Engaged, Released
<1>5. \A j \in DOMAIN x.queue : EntryOK(x, j)
  <2> TAKE j \in DOMAIN x.queue
  <2>1. CASE j \in m.waiting
    BY <2>1
  <2>2. CASE j \notin m.waiting
    <3>1. j \in DOMAIN c.queue /\ EntryOK(c, j) /\ x.queue[j] = c.queue[j]
      BY <1>1, <2>2 DEF Released, CoreInvBut
    <3>2. (Least(x, j) <=> Least(c, j)) /\ (Engaged(x, j) => Engaged(c, j))
      BY <1>3, <1>4, <2>2, <3>1
    <3> QED BY <3>1, <3>2 DEF EntryOK
  <2> QED BY <2>1, <2>2
<1>6. Linked(x)
  <2>1. ASSUME NEW y \in Bytes
        PROVE  LET n == x.mshrs[y]
               IN  /\ n = NoMSHR \/ n.waiting # {}
                   /\ n.blocked \subseteq DOMAIN x.queue
                   /\ n.op # "Load" => \A i, j \in n.waiting : i = j
                   /\ \A i \in n.waiting : /\ i \in DOMAIN x.queue /\ x.queue[i].mshr
                                           /\ x.queue[i].access = n.access /\ x.queue[i].op = n.op
                                           /\ paddr(x.queue[i]) = y
    <3>1. CASE y = k
      <4>1. x.mshrs[y] = NoMSHR /\ NoMSHR.waiting = {} /\ NoMSHR.blocked = {}
        BY <3>1 DEF Released, NoMSHR
      <4> QED BY <4>1
    <3>2. CASE y # k
      <4>1. x.mshrs[y] = c.mshrs[y] /\ DOMAIN x.queue = DOMAIN c.queue
        BY <3>2 DEF Released
      <4>2. \A i \in c.mshrs[y].waiting : x.queue[i] = c.queue[i]
        BY <1>2, <3>2 DEF Released
      <4> QED BY <1>1, <4>1, <4>2 DEF Linked
    <3> QED BY <3>1, <3>2
  <2>2. ASSUME NEW j \in DOMAIN x.queue, x.queue[j].mshr
        PROVE  j \in x.mshrs[paddr(x.queue[j])].waiting
    <3>1. j \notin m.waiting /\ j \in DOMAIN c.queue /\ x.queue[j] = c.queue[j]
      BY <2>2 DEF Released
    <3>2. j \in c.mshrs[paddr(c.queue[j])].waiting /\ EntryOK(c, j) /\ c.queue[j] \in EntryType
      BY <1>1, <2>2, <3>1, EntryTyped DEF Linked, CoreInvBut
    <3>3. paddr(c.queue[j]) \in Bytes /\ paddr(c.queue[j]) # k
      BY <2>2, <3>1, <3>2, PaddrByte DEF EntryOK
    <3> QED BY <3>1, <3>2, <3>3 DEF Released
  <2> QED BY <2>1, <2>2 DEF Linked
<1>7. SBOrder(x)
  <2>1. \A q : InQueue(x, q) = InQueue(c, q)
    BY DEF InQueue, Released
  <2> QED BY <1>1, <2>1 DEF CoreInvBut, SBOrder
<1>8. ASSUME SameSize
      PROVE  NoPartial(x) /\ PortsKnown(x, m.blocked \cup Y)
  <2>1. NoPartial(x)
    BY <1>1, <1>8 DEF CoreInvBut, NoPartial, Released
  <2>2. ASSUME NEW j \in DOMAIN x.queue \ (m.blocked \cup Y), status(x.queue[j]) = "AwaitingPort"
        PROVE  j \in x.requests \/ j \in x.mshrs[paddr(x.queue[j])].blocked
    <3>1. j \notin m.waiting /\ j \in DOMAIN c.queue /\ x.queue[j] = c.queue[j]
      BY <2>2 DEF Released
    <3>2. j \in c.requests \/ j \in c.mshrs[paddr(c.queue[j])].blocked
      BY <1>1, <1>8, <2>2, <3>1 DEF CoreInvBut, PortsKnown
    <3>3. c.queue[j].access # {} /\ c.queue[j] \in EntryType
      BY <1>1, <2>2, <3>1, WaitingEmpty
    <3>4. paddr(c.queue[j]) \in Bytes
      BY <3>3, PaddrByte
    <3> QED BY <2>2, <3>1, <3>2, <3>4 DEF Released
  <2> QED BY <2>1, <2>2 DEF PortsKnown
<1>9. x.requests \subseteq DOMAIN x.queue /\ x.prefetches \subseteq DOMAIN x.queue /\ x \in CoreType
  BY <1>1 DEF CoreInvBut, Released
<1> QED BY <1>5, <1>6, <1>7, <1>8, <1>9 DEF CoreInvBut

(* The value of a load with the stores laid over it is a value. *)
LEMMA AppliedTyped ==
  ASSUME Prog, NEW c, CoreInv(c), NEW l \in DOMAIN c.queue, NEW value \in [c.queue[l].access -> Values]
  PROVE  applyAllStores(c, l, value) \in [c.queue[l].access -> Values]
<1> DEFINE S(b) == {s \in OlderStores(c, l) : c.queue[s].data # 0 /\ b \in c.queue[s].access}
<1>1. c \in CoreType /\ CoreInvBut(c, {}) /\ \A s \in DOMAIN c.queue : EntryOK(c, s) /\ c.queue[s] \in EntryType
  BY EntryTyped DEF CoreInv, CoreInvBut
<1>2. ASSUME NEW b \in c.queue[l].access, S(b) # {}
      PROVE  StoreValue(c.queue[Max(S(b))], b) \in Values
  <2>1. S(b) \subseteq DOMAIN c.queue /\ DOMAIN c.queue \subseteq 1 .. Len(program) /\ Len(program) \in Nat
    BY <1>1, EntryTyped, ProgFacts DEF OlderStores
  <2>2. Max(S(b)) \in S(b)
    <3> HIDE DEF S
    <3>1. S(b) \subseteq 1 .. Len(program)
      BY <2>1
    <3> QED BY <1>2, <2>1, <3>1, MaxFacts
  <2> DEFINE s == Max(S(b))
  <2>3. s \in DOMAIN c.queue /\ b \in c.queue[s].access
    BY <2>2 DEF OlderStores
  <2> HIDE DEF s, S
  <2>4. EntryOK(c, s) /\ c.queue[s] \in EntryType
    BY <1>1, <2>3
  <2>5. c.queue[s].data \in Values
    BY <2>4 DEF EntryType
  <2>6. c.queue[s].failed => c.queue[s].loaded[b] \in Values
    <3>1. c.queue[s].failed => c.queue[s].loaded \in [c.queue[s].access -> Values]
      BY <2>4 DEF EntryOK
    <3> QED BY <2>3, <3>1
  <2>7. StoreValue(c.queue[s], b) \in Values
    BY <2>5, <2>6 DEF StoreValue
  <2> QED BY <2>7 DEF s
<1>3. applyAllStores(c, l, value) =
        [b \in c.queue[l].access |-> IF S(b) = {} THEN value[b] ELSE StoreValue(c.queue[Max(S(b))], b)]
  BY DEF applyAllStores
<1> HIDE DEF S
<1> QED BY <1>2, <1>3

(* What waits for an MSHR. *)
LEMMA WaitersFacts ==
  ASSUME NEW c, CoreInv(c), NEW k \in Bytes, NEW i \in c.mshrs[k].waiting
  PROVE  /\ i \in DOMAIN c.queue /\ c.queue[i] \in EntryType /\ EntryOK(c, i) /\ c.queue[i].mshr
         /\ c.queue[i].access = c.mshrs[k].access /\ c.queue[i].op = c.mshrs[k].op
         /\ c.queue[i].access # {} /\ c.queue[i].loaded = None
         /\ IsStore(c.queue[i]) => c.queue[i].data # 0 /\ Least(c, i)
         /\ c.queue[i].op = "Store" => c.queue[i].queue = "SB"
<1>1. c \in CoreType /\ CoreInvBut(c, {}) /\ Linked(c)
  BY DEF CoreInv, CoreInvBut
<1>2. /\ i \in DOMAIN c.queue /\ c.queue[i].mshr
      /\ c.queue[i].access = c.mshrs[k].access /\ c.queue[i].op = c.mshrs[k].op
  BY <1>1 DEF Linked
<1>3. c.queue[i] \in EntryType /\ EntryOK(c, i)
  BY <1>1, <1>2, EntryTyped DEF CoreInvBut
<1>4. Engaged(c, i)
  BY <1>2 DEF Engaged
<1>5. c.queue[i].op = "Store" => IsStore(c.queue[i])
  BY DEF IsStore
<1> QED BY <1>2, <1>3, <1>4, <1>5 DEF EntryOK

(* What an MSHR blocks may ask for a port when nothing older is left. *)
LEMMA BlockedFacts ==
  ASSUME NEW c, CoreInv(c), NEW k \in Bytes, NEW i \in c.mshrs[k].blocked, IsStore(c.queue[i])
  PROVE  /\ i \in DOMAIN c.queue /\ c.queue[i].data # 0 /\ Least(c, i)
         /\ c.queue[i].op = "Store" => c.queue[i].queue = "SB"
<1>1. CoreInvBut(c, {}) /\ Linked(c)
  BY DEF CoreInv, CoreInvBut
<1>2. i \in DOMAIN c.queue /\ Engaged(c, i)
  BY <1>1 DEF Linked, Engaged
<1>3. EntryOK(c, i)
  BY <1>1, <1>2 DEF CoreInvBut
<1> QED BY <1>2, <1>3 DEF EntryOK

(* The loads and atomics of an MSHR have their value, those it blocks have no port. *)
Completed(c, x, X) ==
  /\ CoreInvBut(x, X) /\ Annulled(x) /\ DOMAIN x.queue = DOMAIN c.queue
  /\ \A j \in DOMAIN c.queue : /\ x.queue[j].op = c.queue[j].op /\ x.queue[j].queue = c.queue[j].queue
                               /\ x.queue[j].access = c.queue[j].access /\ x.queue[j].data = c.queue[j].data
                               /\ c.queue[j].queue = "SB" /\ c.queue[j].mshr => x.queue[j].mshr
  /\ x.permission = c.permission /\ x.ports = c.ports

(* Waking what was blocked completes the step.                             *)
LEMMA CompletedWake ==
  ASSUME NEW c, CoreInv(c), NEW k \in Bytes, NEW x, Completed(c, x, c.mshrs[k].blocked),
         NEW d, d = Wake(x, c.mshrs[k])
  PROVE  Stays(c, d, {}) /\ d.ports = c.ports
<1> DEFINE m == c.mshrs[k]
<1>1. m \in MSHR /\ CoreInvBut(x, m.blocked) /\ Annulled(x) /\ DOMAIN x.queue = DOMAIN c.queue
  BY DEF CoreInv, CoreInvBut, CoreType, Completed
<1>2. \A i \in m.blocked \cap DOMAIN x.queue : IsStore(x.queue[i]) =>
        x.queue[i].data # 0 /\ Least(x, i) /\ (x.queue[i].op = "Store" => x.queue[i].queue = "SB")
  <2> TAKE i \in m.blocked \cap DOMAIN x.queue
  <2> HAVE IsStore(x.queue[i])
  <2>1. /\ x.queue[i].op = c.queue[i].op /\ x.queue[i].queue = c.queue[i].queue
        /\ x.queue[i].data = c.queue[i].data
    BY <1>1 DEF Completed
  <2>2. IsStore(c.queue[i])
    BY <2>1 DEF IsStore, IsAtomic
  <2>3. /\ c.queue[i].data # 0 /\ Least(c, i)
        /\ c.queue[i].op = "Store" => c.queue[i].queue = "SB"
    BY <2>2, BlockedFacts
  <2>4. Least(x, i)
    BY <1>1, <2>3 DEF Least
  <2> QED BY <2>1, <2>3, <2>4
<1> HIDE DEF m
<1>3. /\ CoreInvBut(d, m.blocked \ m.blocked) /\ Annulled(d) /\ Frame(x, d)
      /\ \A j \in DOMAIN x.queue : KeepsLoad(x.queue[j], d.queue[j])
  BY <1>1, <1>2, WakeKeeps DEF m
<1>4. m.blocked \ m.blocked = {}
  OBVIOUS
<1>5. CoreInv(d)
  BY <1>3, <1>4 DEF CoreInv
<1>6. DOMAIN d.queue = DOMAIN c.queue /\ d.permission = c.permission /\ d.ports = c.ports
  BY <1>1, <1>3 DEF Frame, Completed
<1>7. \A j \in DOMAIN c.queue : /\ d.queue[j].queue = c.queue[j].queue /\ d.queue[j].access = c.queue[j].access
                                /\ d.queue[j].data = c.queue[j].data
                                /\ c.queue[j].queue = "SB" /\ c.queue[j].mshr => d.queue[j].mshr
  BY <1>1, <1>3 DEF KeepsLoad, Keeps, Completed
<1> QED BY <1>3, <1>5, <1>6, <1>7 DEF Stays, InQueue

Freeing(c, k) == [c EXCEPT !.mshrs[k] = NoMSHR]
LoadsDone(c, k, value) ==
  [Freeing(c, k) EXCEPT !.queue = [i \in DOMAIN c.queue |->
     IF i \in c.mshrs[k].waiting THEN completeLoad(c, i, value) ELSE c.queue[i]]]

(* Freeing an MSHR changes nothing else.                                   *)
LEMMA FreeingFacts ==
  ASSUME NEW c \in CoreType, NEW k \in Bytes, NEW d, d = Freeing(c, k)
  PROVE  /\ d \in CoreType /\ d.mshrs[k] = NoMSHR
         /\ \A j \in Bytes : j # k => d.mshrs[j] = c.mshrs[j]
         /\ d.queue = c.queue /\ d.requests = c.requests
         /\ d.prefetches = c.prefetches /\ d.outstanding = c.outstanding
         /\ d.permission = c.permission /\ d.ports = c.ports
<1>1. d = [c EXCEPT !.mshrs[k] = NoMSHR]
  BY DEF Freeing
<1> QED BY <1>1, NoMSHRType DEF CoreType

(* Loads are complete.                                                     *)
LEMMA LoadsDoneFacts ==
  ASSUME Prog, NEW c, CoreInv(c), Annulled(c), NEW k \in Bytes, c.mshrs[k].op = "Load",
         NEW value \in [c.mshrs[k].access -> Values], NEW x, x = LoadsDone(c, k, value)
  PROVE  /\ Completed(c, x, c.mshrs[k].blocked)
         /\ \A j \in DOMAIN c.queue : /\ Alike(c.queue[j], x.queue[j])
                                      /\ c.queue[j].loaded # None => x.queue[j].loaded = c.queue[j].loaded
<1> DEFINE m == c.mshrs[k]
           F == Freeing(c, k)
           q == [i \in DOMAIN c.queue |-> IF i \in m.waiting THEN completeLoad(c, i, value) ELSE c.queue[i]]
<1>1. c \in CoreType /\ CoreInvBut(c, {}) /\ DOMAIN c.queue \subseteq Ids
  BY EntryTyped DEF CoreInv, CoreInvBut
<1>2. /\ F \in CoreType /\ F.mshrs[k] = NoMSHR
      /\ \A j \in Bytes : j # k => F.mshrs[j] = c.mshrs[j]
      /\ F.queue = c.queue /\ F.requests = c.requests
      /\ F.prefetches = c.prefetches /\ F.outstanding = c.outstanding
      /\ F.permission = c.permission /\ F.ports = c.ports
  BY <1>1, FreeingFacts
<1>3. ASSUME NEW i \in m.waiting
      PROVE  LET e == c.queue[i]
                 f == completeLoad(c, i, value)
             IN  /\ i \in DOMAIN c.queue /\ EntryOK(c, i) /\ f \in EntryType /\ f.op = "Load" /\ e.op = "Load" /\ f.queue = e.queue
                 /\ f.access = e.access /\ f.data = e.data /\ f.failed = e.failed /\ f.storeComplete = e.storeComplete
                 /\ f.issued = e.issued /\ f.annulled = e.annulled /\ ~f.mshr /\ ~f.partial
                 /\ f.loaded \in [f.access -> Values] /\ f.access # {}
  <2> DEFINE e == c.queue[i]
             v == IF e.partial THEN applyAllStores(c, i, value) ELSE value
  <2>1. i \in DOMAIN c.queue /\ e \in EntryType /\ EntryOK(c, i) /\ e.access = m.access /\ e.op = "Load" /\ e.access # {}
    BY <1>3, WaitersFacts
  <2>2. v \in [e.access -> Values]
    BY <2>1, AppliedTyped
  <2>3. v \in Loaded
    BY <2>1, <2>2 DEF Loaded, EntryType
  <2>4. completeLoad(c, i, value) = [e EXCEPT !.mshr = FALSE, !.partial = FALSE, !.loaded = v]
    BY DEF completeLoad
  <2> HIDE DEF v
  <2> QED BY <2>1, <2>2, <2>3, <2>4 DEF EntryType
<1>4. \A i \in DOMAIN c.queue : /\ q[i] = IF i \in m.waiting THEN completeLoad(c, i, value) ELSE c.queue[i]
                                /\ q[i] \in EntryType
  <2>1. \A i \in DOMAIN c.queue : c.queue[i] \in EntryType
    BY <1>1, EntryTyped
  <2> QED BY <1>3, <2>1
<1>5. DOMAIN q = DOMAIN c.queue /\ q = [i \in DOMAIN q |-> q[i]]
  OBVIOUS
<1>6. x = [F EXCEPT !.queue = q]
  BY DEF LoadsDone
<1> HIDE DEF F, q
<1>7. /\ x \in CoreType /\ x.queue = q /\ x.mshrs = F.mshrs /\ x.requests = F.requests
      /\ x.prefetches = F.prefetches /\ x.permission = F.permission /\ x.ports = F.ports
  BY <1>1, <1>2, <1>4, <1>5, <1>6, NewQueue
<1>8. Released(c, k, x)
  <2>1. m.waiting \subseteq DOMAIN c.queue
    BY <1>3
  <2>2. \A j \in m.waiting : ~x.queue[j].mshr /\ x.queue[j].queue = c.queue[j].queue
    BY <1>3, <1>4, <1>7, <2>1
  <2> QED BY <1>2, <1>4, <1>5, <1>7, <2>1, <2>2 DEF Released
<1>9. ASSUME NEW j \in m.waiting
      PROVE  /\ EntryOK(x, j) /\ ~x.queue[j].partial
             /\ status(x.queue[j]) # "AwaitingPort"
  <2> DEFINE e == c.queue[j]
             f == x.queue[j]
  <2>1. /\ j \in DOMAIN c.queue /\ EntryOK(c, j) /\ f \in EntryType /\ f.op = "Load" /\ e.op = "Load" /\ f.queue = e.queue
        /\ f.access = e.access /\ f.data = e.data /\ f.failed = e.failed /\ f.storeComplete = e.storeComplete
        /\ f.issued = e.issued /\ f.annulled = e.annulled /\ ~f.mshr /\ ~f.partial
        /\ f.loaded \in [f.access -> Values] /\ f.access # {}
    BY <1>3, <1>4, <1>7, <1>9
  <2>2. f.loaded # None
    BY <2>1 DEF None
  <2>3. ~IsStore(f) /\ ~IsAtomic(f) /\ IsLoad(f) /\ ~IsStore(e) /\ ~IsAtomic(e)
    BY <2>1 DEF IsStore, IsAtomic, IsLoad
  <2>4. status(f) # "AwaitingPort"
    BY <2>2, <2>3, StatusFacts
  <2>5. EntryOK(x, j)
    <3> HIDE DEF f
    <3>1. x.queue[j] = f
      BY DEF f
    <3> QED BY <2>1, <2>2, <2>3, <3>1 DEF EntryOK
  <2> QED BY <2>1, <2>4, <2>5
<1>10. CoreInvBut(x, m.blocked \cup {})
  BY <1>8, <1>9, ReleaseKeeps
<1>11. m.blocked \cup {} = m.blocked
  OBVIOUS
<1>12. \A j \in DOMAIN c.queue : /\ x.queue[j].op = c.queue[j].op /\ x.queue[j].queue = c.queue[j].queue
                                 /\ x.queue[j].access = c.queue[j].access /\ x.queue[j].data = c.queue[j].data
                                 /\ x.queue[j].annulled = c.queue[j].annulled
                                 /\ c.queue[j].queue = "SB" /\ c.queue[j].mshr => x.queue[j].mshr
  <2> TAKE j \in DOMAIN c.queue
  <2>1. CASE j \in m.waiting
    <3>1. c.queue[j].queue # "SB"
      BY <1>3, <2>1 DEF EntryOK
    <3> QED BY <1>3, <1>4, <1>7, <2>1, <3>1
  <2>2. CASE j \notin m.waiting
    BY <1>4, <1>7, <2>2
  <2> QED BY <2>1, <2>2
<1>13. DOMAIN x.queue = DOMAIN c.queue /\ x.permission = c.permission /\ x.ports = c.ports
  BY <1>2, <1>5, <1>7
<1>14. Annulled(x)
  BY <1>12, <1>13 DEF Annulled
<1>15. Completed(c, x, m.blocked)
  BY <1>10, <1>11, <1>12, <1>13, <1>14 DEF Completed
<1>16. \A j \in DOMAIN c.queue : Alike(c.queue[j], x.queue[j])
  BY <1>12 DEF Alike
<1>17. ASSUME NEW j \in DOMAIN c.queue, c.queue[j].loaded # None PROVE x.queue[j] = c.queue[j]
  <2>1. j \notin m.waiting
    BY <1>17, WaitersFacts
  <2> QED BY <1>4, <1>7, <2>1
<1> QED BY <1>15, <1>16, <1>17

(* A store or atomic waits alone. *)
LEMMA SoleWaiter ==
  ASSUME Prog, NEW c, CoreInv(c), NEW k \in Bytes, c.mshrs[k].op \notin {"None", "Load"}
  PROVE  c.mshrs[k].waiting = {Min(c.mshrs[k].waiting)}
<1> DEFINE w == c.mshrs[k].waiting
<1>1. Linked(c) /\ c \in CoreType
  BY DEF CoreInv, CoreInvBut
<1>2. c.mshrs[k] # NoMSHR
  BY DEF NoMSHR
<1>3. w # {} /\ \A i, j \in w : i = j
  BY <1>1, <1>2 DEF Linked
<1>4. w \subseteq Nat
  <2>1. w \subseteq Ids
    BY <1>1 DEF CoreType, MSHR
  <2> QED BY <2>1, ProgFacts
<1>5. Min(w) \in w
  BY <1>3, <1>4, MinFacts
<1> QED BY <1>3, <1>5

(* An atomic is complete. *)
LEMMA AtomicDoneFacts ==
  ASSUME Prog, NEW c, CoreInv(c), Annulled(c), NEW k \in Bytes, c.mshrs[k].op \in {"RMW", "CAS"},
         NEW value \in [c.mshrs[k].access -> Values], NEW d,
         d = completeLSQ(Freeing(c, k), Min(c.mshrs[k].waiting), value)
  PROVE  Completed(c, d, c.mshrs[k].blocked)
<1> DEFINE m == c.mshrs[k]
           i == Min(m.waiting)
           F == Freeing(c, k)
           e == c.queue[i]
           failed == e.op = "CAS" /\ ~Initial(value)
           f == [e EXCEPT !.mshr = FALSE, !.loaded = value, !.storeComplete = TRUE, !.failed = failed]
           x == [F EXCEPT !.queue[i] = f]
<1>1. c \in CoreType /\ CoreInvBut(c, {}) /\ DOMAIN c.queue \subseteq Ids /\ m.waiting = {i}
  BY EntryTyped, SoleWaiter DEF CoreInv, CoreInvBut
<1>2. /\ F \in CoreType /\ F.mshrs[k] = NoMSHR
      /\ \A j \in Bytes : j # k => F.mshrs[j] = c.mshrs[j]
      /\ F.queue = c.queue /\ F.requests = c.requests
      /\ F.prefetches = c.prefetches /\ F.outstanding = c.outstanding
      /\ F.permission = c.permission /\ F.ports = c.ports
  BY <1>1, FreeingFacts
<1>3. /\ i \in DOMAIN c.queue /\ e \in EntryType /\ EntryOK(c, i) /\ e.mshr /\ e.access = m.access /\ e.op = m.op
      /\ e.access # {} /\ IsStore(e) /\ IsAtomic(e) /\ IsLoad(e) /\ e.data # 0 /\ Least(c, i)
  <2>1. i \in m.waiting
    BY <1>1
  <2> HIDE DEF i
  <2>2. /\ i \in DOMAIN c.queue /\ e \in EntryType /\ EntryOK(c, i) /\ e.mshr /\ e.access = m.access /\ e.op = m.op
        /\ e.access # {} /\ (IsStore(e) => e.data # 0 /\ Least(c, i))
    BY <2>1, WaitersFacts
  <2>3. IsStore(e) /\ IsAtomic(e) /\ IsLoad(e)
    BY <2>2 DEF IsStore, IsAtomic, IsLoad
  <2> QED BY <2>2, <2>3
<1>4. failed \in BOOLEAN /\ value \in [e.access -> Values] /\ value \in Loaded /\ value # None
  <2>1. value \in [e.access -> Values]
    BY <1>3
  <2>2. value \in Loaded
    BY <1>3, <2>1 DEF Loaded, EntryType
  <2>3. value # None
    BY <1>3, <2>1 DEF None
  <2> QED BY <2>1, <2>2, <2>3
<1>5. d = IF failed THEN updateDependantLoads(x, i) ELSE x
  <2> HIDE DEF i
  <2>1. F.queue[i] = e /\ e.op # "Store"
    BY <1>2, <1>3
  <2>2. [F EXCEPT !.queue[i].mshr = FALSE, !.queue[i].loaded = value,
                  !.queue[i].storeComplete = TRUE, !.queue[i].failed = failed] = x
    <3> HIDE DEF failed
    <3> QED BY <1>2, <1>3 DEF CoreType
  <2> QED BY <2>1, <2>2 DEF completeLSQ, i
<1> HIDE DEF i, failed
<1>6. /\ f \in EntryType /\ f.op = e.op /\ f.queue = e.queue
      /\ f.access = e.access /\ f.data = e.data /\ f.failed = failed /\ f.storeComplete
      /\ f.issued = e.issued /\ f.annulled = e.annulled /\ ~f.mshr /\ f.partial = e.partial
      /\ f.loaded = value
  BY <1>3, <1>4 DEF EntryType
<1>7. e = c.queue[i]
  OBVIOUS
<1> HIDE DEF f, F, e
<1>8. /\ x \in CoreType /\ DOMAIN x.queue = DOMAIN F.queue /\ x.queue[i] = f
      /\ \A j \in DOMAIN F.queue : j # i => x.queue[j] = F.queue[j]
      /\ x.mshrs = F.mshrs /\ x.requests = F.requests
      /\ x.prefetches = F.prefetches /\ x.outstanding = F.outstanding
      /\ x.permission = F.permission /\ x.ports = F.ports
  <2>1. i \in DOMAIN F.queue
    BY <1>2, <1>3
  <2> QED BY <1>2, <1>6, <2>1, SetEntry
<1> HIDE DEF x
<1>9. Released(c, k, x)
  <2>1. \A j \in m.waiting : ~x.queue[j].mshr /\ x.queue[j].queue = c.queue[j].queue
    BY <1>1, <1>6, <1>7, <1>8
  <2> QED BY <1>1, <1>2, <1>8, <2>1 DEF Released
<1>10. EntryOK(x, i)
  <2>1. Least(x, i)
    BY <1>2, <1>3, <1>8 DEF Least
  <2>2. IsStore(f) /\ IsAtomic(f) /\ f.op # "Store" /\ f.op # "MEMBAR" /\ f.op # "Load"
    BY <1>3, <1>6 DEF IsStore, IsAtomic
  <2>3. e.queue # "SB" /\ (e.partial => e.op = "Load") /\ e.op = program[i].op
        /\ (\E v \in 1 .. 2 : e.access = program[i].access[v])
    BY <1>3, <1>6, <1>7, <2>2 DEF EntryOK
  <2> QED BY <1>3, <1>4, <1>6, <1>8, <2>1, <2>2, <2>3 DEF EntryOK
<1>11. status(f) # "AwaitingPort"
  <2>1. IsLoad(f)
    BY <1>3, <1>6 DEF IsLoad, IsAtomic
  <2> QED BY <1>3, <1>4, <1>6, <2>1, StatusFacts
<1>12. CoreInvBut(x, m.blocked \cup {})
  <2>1. \A j \in m.waiting : /\ EntryOK(x, j) /\ (SameSize => ~x.queue[j].partial)
                             /\ j \notin {} => status(x.queue[j]) # "AwaitingPort"
    <3>1. SameSize => ~f.partial
      BY <1>1, <1>3, <1>6, <1>7 DEF CoreInvBut, NoPartial
    <3> QED BY <1>1, <1>8, <1>10, <1>11, <3>1
  <2> QED BY <1>9, <2>1, ReleaseKeeps
<1>13. m.blocked \cup {} = m.blocked
  OBVIOUS
<1>14. CoreInvBut(x, m.blocked) /\ DOMAIN x.queue = DOMAIN c.queue /\ i \in DOMAIN x.queue
  BY <1>2, <1>3, <1>8, <1>12, <1>13
<1>15. \A j \in DOMAIN c.queue : /\ x.queue[j].op = c.queue[j].op /\ x.queue[j].queue = c.queue[j].queue
                                 /\ x.queue[j].access = c.queue[j].access /\ x.queue[j].data = c.queue[j].data
                                 /\ x.queue[j].annulled = c.queue[j].annulled
                                 /\ c.queue[j].queue = "SB" => x.queue[j].mshr = c.queue[j].mshr
  <2> TAKE j \in DOMAIN c.queue
  <2>1. CASE j = i
    <3>1. e.queue # "SB"
      BY <1>3, <1>7 DEF EntryOK, IsAtomic
    <3> QED BY <1>6, <1>7, <1>8, <2>1, <3>1
  <2>2. CASE j # i
    BY <1>2, <1>8, <2>2
  <2> QED BY <2>1, <2>2
<1>16. Annulled(x)
  BY <1>14, <1>15 DEF Annulled
<1>17. x.permission = c.permission /\ x.ports = c.ports
  BY <1>2, <1>8
<1>18. CASE ~failed
  BY <1>5, <1>14, <1>15, <1>16, <1>17, <1>18 DEF Completed
<1>19. CASE failed
  <2>1. d = updateDependantLoads(x, i)
    BY <1>5, <1>19
  <2>2. Loading(x, d) /\ CoreInvBut(d, m.blocked) /\ Untouched(x, DependantLoads(x, i), d)
    BY <1>14, <2>1, UpdateFacts
  <2>3. DOMAIN d.queue = DOMAIN x.queue /\ d.permission = x.permission /\ d.ports = x.ports
        /\ \A j \in DOMAIN x.queue : Keeps(x.queue[j], d.queue[j])
    BY <2>2 DEF Loading, Frame
  <2>4. Annulled(d)
    BY <1>16, <2>3 DEF Annulled, Keeps
  <2>5. \A j \in DOMAIN x.queue : x.queue[j].queue = "SB" => d.queue[j].mshr = x.queue[j].mshr
    <3> TAKE j \in DOMAIN x.queue
    <3> HAVE x.queue[j].queue = "SB"
    <3>1. EntryOK(x, j)
      BY <1>14 DEF CoreInvBut
    <3>2. ~IsLoad(x.queue[j])
      BY <3>1 DEF EntryOK, IsLoad, IsAtomic
    <3>3. j \notin DependantLoads(x, i)
      BY <3>2 DEF DependantLoads
    <3> QED BY <2>2, <3>3 DEF Untouched, KeepsLoad
  <2>6. \A j \in DOMAIN c.queue : /\ d.queue[j].op = c.queue[j].op /\ d.queue[j].queue = c.queue[j].queue
                                  /\ d.queue[j].access = c.queue[j].access /\ d.queue[j].data = c.queue[j].data
                                  /\ c.queue[j].queue = "SB" => d.queue[j].mshr = c.queue[j].mshr
    BY <1>14, <1>15, <2>3, <2>5 DEF Keeps
  <2> QED BY <1>14, <1>17, <2>2, <2>3, <2>4, <2>6 DEF Completed
<1> QED BY <1>18, <1>19

(* The store at the head is done and leaves the store buffer. *)
Stored(c, i, d) ==
  /\ CoreInv(d) /\ Annulled(d)
  /\ i \in InQueue(c, "SB") /\ Least(c, i) /\ DOMAIN d.queue = DOMAIN c.queue \ {i}
  /\ \A j \in DOMAIN d.queue : /\ d.queue[j].queue = c.queue[j].queue /\ d.queue[j].access = c.queue[j].access
                               /\ d.queue[j].data = c.queue[j].data /\ d.queue[j].mshr = c.queue[j].mshr
                               /\ SameLoad(c.queue[j], d.queue[j])
  /\ c.queue[i].op = "Store" /\ c.queue[i].access # {}
  /\ LET b == BlockOf[paddr(c.queue[i])]
     IN  /\ b \in Blocks
         /\ d.permission[b].count = c.permission[b].count - 1
         /\ d.permission[b].held => c.permission[b].held
         /\ \A x \in Blocks : x # b => d.permission[x] = c.permission[x]
  /\ d.ports = c.ports

(* unrequireWritePermission counts down and keeps no permission that was   *)
(* not held.                                                               *)
LEMMA UnrequireFacts ==
  ASSUME NEW c \in CoreType, NEW b \in Blocks, NEW p, p = unrequireWritePermission(c, b).permission
  PROVE  /\ p[b].count = c.permission[b].count - 1 /\ (p[b].held => c.permission[b].held)
         /\ \A x \in Blocks : x # b => p[x] = c.permission[x]
<1>1. c.permission \in [Blocks -> [count : Int, held : BOOLEAN]]
  BY DEF CoreType
<1>2. p = [c.permission EXCEPT ![b] = [count |-> c.permission[b].count - 1,
                                       held |-> c.permission[b].count - 1 > 0 /\ c.permission[b].held]]
  BY DEF unrequireWritePermission, CoreType
<1> QED BY <1>1, <1>2

(* completeLSQ and Wake for a store.                                       *)
LEMMA StoreDoneFacts ==
  ASSUME Prog, NEW c, CoreInv(c), Annulled(c), NEW k \in Bytes, c.mshrs[k].op = "Store",
         NEW value, NEW i, i = Min(c.mshrs[k].waiting),
         NEW d, d = Wake(completeLSQ(Freeing(c, k), i, value), c.mshrs[k])
  PROVE  Stored(c, i, d) /\ c.queue[i].access = c.mshrs[k].access
<1> DEFINE m == c.mshrs[k]
           F == Freeing(c, k)
           e == c.queue[i]
           f == [e EXCEPT !.mshr = FALSE]
           x == [F EXCEPT !.queue[i] = f]
           y == eraseLSQ(x, i)
           b == BlockOf[paddr(e)]
<1>1. c \in CoreType /\ CoreInvBut(c, {}) /\ DOMAIN c.queue \subseteq Ids /\ m.waiting = {i} /\ m \in MSHR
  <2>1. c \in CoreType /\ CoreInvBut(c, {})
    BY DEF CoreInv, CoreInvBut
  <2>2. m.waiting = {i}
    BY SoleWaiter
  <2> QED BY <2>1, <2>2, EntryTyped DEF CoreType
<1>2. /\ F \in CoreType /\ F.mshrs[k] = NoMSHR
      /\ \A j \in Bytes : j # k => F.mshrs[j] = c.mshrs[j]
      /\ F.queue = c.queue /\ F.requests = c.requests
      /\ F.prefetches = c.prefetches /\ F.outstanding = c.outstanding
      /\ F.permission = c.permission /\ F.ports = c.ports
  BY <1>1, FreeingFacts
<1>3. /\ i \in DOMAIN c.queue /\ e \in EntryType /\ EntryOK(c, i) /\ e.mshr /\ e.access = m.access /\ e.op = "Store"
      /\ e.access # {} /\ IsStore(e) /\ e.data # 0 /\ Least(c, i) /\ e.queue = "SB"
  <2>1. i \in m.waiting
    BY <1>1
  <2>2. /\ i \in DOMAIN c.queue /\ e \in EntryType /\ EntryOK(c, i) /\ e.mshr /\ e.access = m.access /\ e.op = "Store"
        /\ e.access # {} /\ (IsStore(e) => e.data # 0 /\ Least(c, i)) /\ e.queue = "SB"
    BY <2>1, WaitersFacts
  <2>3. IsStore(e)
    BY <2>2 DEF IsStore
  <2> QED BY <2>2, <2>3
<1>4. completeLSQ(F, i, value) = y
  <2>1. F.queue[i] = e
    BY <1>2
  <2>2. [F EXCEPT !.queue[i].mshr = FALSE] = x
    BY <1>2, <1>3 DEF CoreType
  <2> HIDE DEF F, x
  <2> QED BY <1>3, <2>1, <2>2 DEF completeLSQ
<1>5. /\ f \in EntryType /\ f.op = e.op /\ f.queue = e.queue
      /\ f.access = e.access /\ f.data = e.data /\ f.failed = e.failed /\ f.storeComplete = e.storeComplete
      /\ f.issued = e.issued /\ f.annulled = e.annulled /\ ~f.mshr /\ f.partial = e.partial
      /\ f.loaded = e.loaded
  BY <1>3 DEF EntryType
<1>6. e = c.queue[i] /\ b \in Blocks
  BY <1>3, PaddrByte DEF Blocks
<1>7. d = Wake(y, m)
  BY <1>4
<1> HIDE DEF f, F, y
<1>8. /\ x \in CoreType /\ DOMAIN x.queue = DOMAIN F.queue /\ x.queue[i] = f
      /\ \A j \in DOMAIN F.queue : j # i => x.queue[j] = F.queue[j]
      /\ x.mshrs = F.mshrs /\ x.requests = F.requests
      /\ x.prefetches = F.prefetches /\ x.outstanding = F.outstanding
      /\ x.permission = F.permission /\ x.ports = F.ports
  <2> HIDE DEF e
  <2>1. i \in DOMAIN F.queue
    BY <1>2, <1>3
  <2> QED BY <1>2, <1>5, <2>1, SetEntry
<1> HIDE DEF x
<1>9. Released(c, k, x)
  <2>1. \A j \in m.waiting : ~x.queue[j].mshr /\ x.queue[j].queue = c.queue[j].queue
    BY <1>1, <1>5, <1>6, <1>8
  <2> QED BY <1>1, <1>2, <1>8, <2>1 DEF Released
<1>10. EntryOK(x, i)
  <2>1. Least(x, i)
    BY <1>2, <1>3, <1>8 DEF Least
  <2>2. IsStore(f) /\ ~IsAtomic(f) /\ ~IsAtomic(e)
    BY <1>3, <1>5 DEF IsStore, IsAtomic
  <2>3. /\ e.storeComplete = FALSE /\ e.failed = FALSE /\ e.op = program[i].op /\ e.loaded = None
        /\ ~e.partial /\ \E v \in 1 .. 2 : e.access = program[i].access[v]
    BY <1>3, <2>2 DEF EntryOK, EntryType
  <2> HIDE DEF e
  <2>4. /\ f.op = "Store" /\ f.queue = "SB" /\ f.access # {} /\ f.data # 0 /\ ~f.storeComplete /\ ~f.failed
        /\ f.op = program[i].op /\ f.loaded = None /\ ~f.partial /\ ~f.mshr
        /\ \E v \in 1 .. 2 : f.access = program[i].access[v]
    BY <1>3, <1>5, <2>3
  <2> QED BY <1>8, <2>1, <2>2, <2>4 DEF EntryOK
<1>11. CoreInvBut(x, m.blocked \cup {i})
  <2>1. \A j \in m.waiting : /\ EntryOK(x, j) /\ (SameSize => ~x.queue[j].partial)
                             /\ j \notin {i} => status(x.queue[j]) # "AwaitingPort"
    <3>1. SameSize => ~f.partial
      BY <1>1, <1>3, <1>5, <1>6 DEF CoreInvBut, NoPartial
    <3> QED BY <1>1, <1>8, <1>10, <3>1
  <2> QED BY <1>9, <2>1, ReleaseKeeps
<1>12. /\ Without(x, {i}, y, m.blocked \cup {i})
       /\ y.permission = unrequireWritePermission(x, b).permission
  <2>1. i \in DOMAIN x.queue /\ x.queue[i].queue = "SB" /\ BlockOf[paddr(x.queue[i])] = b
    BY <1>2, <1>3, <1>5, <1>8 DEF paddr
  <2> QED BY <1>11, <2>1, EraseFacts DEF y
<1>13. /\ DOMAIN y.queue = DOMAIN c.queue \ {i} /\ y.ports = c.ports /\ CoreInvBut(y, m.blocked \cup {i})
       /\ \A j \in DOMAIN y.queue : KeepsLoad(c.queue[j], y.queue[j])
  BY <1>2, <1>8, <1>12 DEF Without
<1>14. Annulled(y)
  BY <1>13 DEF Annulled, KeepsLoad, Keeps
<1>15. m.blocked \cap DOMAIN y.queue \subseteq {j \in DOMAIN y.queue : ~IsStore(y.queue[j])}
  <2> SUFFICES ASSUME NEW j \in m.blocked, j \in DOMAIN y.queue, IsStore(y.queue[j]) PROVE FALSE
    OBVIOUS
  <2>1. IsStore(c.queue[j]) /\ j \in DOMAIN c.queue /\ j # i
    BY <1>13 DEF IsStore, IsAtomic, KeepsLoad, Keeps
  <2>2. Least(c, j)
    BY <2>1, BlockedFacts
  <2>3. i <= j /\ j <= i /\ i \in Nat /\ j \in Nat
    <3>1. i \in Ids /\ j \in Ids
      BY <1>1, <1>3, <2>1
    <3> QED BY <1>3, <2>1, <2>2, <3>1, ProgFacts DEF Least
  <2> QED BY <2>1, <2>3
<1>16. /\ CoreInvBut(d, (m.blocked \cup {i}) \ m.blocked) /\ Annulled(d) /\ Frame(y, d)
       /\ \A j \in DOMAIN y.queue : KeepsLoad(y.queue[j], d.queue[j])
  <2>1. \A j \in m.blocked \cap DOMAIN y.queue : IsStore(y.queue[j]) =>
          y.queue[j].data # 0 /\ Least(y, j) /\ (y.queue[j].op = "Store" => y.queue[j].queue = "SB")
    BY <1>15
  <2> HIDE DEF m
  <2> QED BY <1>1, <1>7, <1>13, <1>14, <2>1, WakeKeeps
<1>17. DOMAIN d.queue = DOMAIN c.queue \ {i} /\ d.ports = c.ports /\ d.permission = y.permission
  BY <1>13, <1>16 DEF Frame
<1>18. CoreInv(d)
  <2>1. \A X : DOMAIN d.queue \ X = DOMAIN d.queue \ (X \cup {i})
    BY <1>17
  <2>2. DOMAIN d.queue \ ((m.blocked \cup {i}) \ m.blocked) = DOMAIN d.queue \ {}
    BY <1>17
  <2>3. PortsKnown(d, (m.blocked \cup {i}) \ m.blocked) <=> PortsKnown(d, {})
    BY <2>2 DEF PortsKnown
  <2> QED BY <1>16, <2>3 DEF CoreInv, CoreInvBut
<1>19. \A j \in DOMAIN d.queue : /\ d.queue[j].queue = c.queue[j].queue /\ d.queue[j].access = c.queue[j].access
                                 /\ d.queue[j].data = c.queue[j].data /\ d.queue[j].mshr = c.queue[j].mshr
                                 /\ SameLoad(c.queue[j], d.queue[j])
  <2> TAKE j \in DOMAIN d.queue
  <2>1. KeepsLoad(c.queue[j], y.queue[j]) /\ KeepsLoad(y.queue[j], d.queue[j])
    BY <1>13, <1>16, <1>17
  <2> QED BY <2>1 DEF KeepsLoad, Keeps, SameLoad, Alike
<1>20. /\ d.permission[b].count = c.permission[b].count - 1
       /\ d.permission[b].held => c.permission[b].held
       /\ \A z \in Blocks : z # b => d.permission[z] = c.permission[z]
  <2>1. x.permission = c.permission /\ x \in CoreType
    BY <1>2, <1>8
  <2>2. /\ y.permission[b].count = x.permission[b].count - 1 /\ (y.permission[b].held => x.permission[b].held)
        /\ \A z \in Blocks : z # b => y.permission[z] = x.permission[z]
    <3> HIDE DEF b
    <3> QED BY <1>6, <1>12, <2>1, UnrequireFacts
  <2> QED BY <1>17, <2>1, <2>2
<1>21. i \in InQueue(c, "SB") /\ Least(c, i) /\ c.queue[i].op = "Store" /\ c.queue[i].access # {}
  BY <1>3 DEF InQueue
<1>22. Stored(c, i, d)
  BY <1>6, <1>16, <1>17, <1>18, <1>19, <1>20, <1>21 DEF Stored
<1> QED BY <1>3, <1>22

(* What completing an operation comes to. *)
LEMMA CompleteFacts ==
  ASSUME Prog, NEW c, CoreInv(c), Annulled(c), NEW r, r.access \subseteq Bytes, r.access # {},
         r.op \in {"Load", "RMW", "CAS"}, r.value \in [r.access -> Values], NEW d, d = complete(c, r)
  PROVE  Stays(c, d, {}) /\ d.ports = c.ports
<1> DEFINE k == Min(r.access)
           m == c.mshrs[k]
           x == LoadsDone(c, k, r.value)
           a == completeLSQ(Freeing(c, k), Min(m.waiting), r.value)
<1>1. k \in Bytes
  BY MinByte
<1>2. CASE ~(m.op = r.op /\ m.access = r.access)
  <2>1. d = c
    BY <1>2 DEF complete
  <2> QED BY <2>1 DEF Stays
<1>3. CASE m.op = "Load" /\ r.op = "Load" /\ m.access = r.access
  <2>1. d = Wake(x, m)
    BY <1>3 DEF complete, LoadsDone, Freeing
  <2>2. r.value \in [m.access -> Values]
    BY <1>3
  <2>3. Completed(c, x, m.blocked)
    BY <1>1, <1>3, <2>2, LoadsDoneFacts
  <2> HIDE DEF k, x
  <2> QED BY <1>1, <2>1, <2>3, CompletedWake
<1>4. CASE m.op = r.op /\ r.op # "Load" /\ m.access = r.access
  <2>1. d = Wake(a, m)
    BY <1>4 DEF complete, Freeing
  <2>2. r.value \in [m.access -> Values] /\ m.op \in {"RMW", "CAS"}
    BY <1>4
  <2>3. Completed(c, a, m.blocked)
    BY <1>1, <2>2, AtomicDoneFacts
  <2> HIDE DEF k, a
  <2> QED BY <1>1, <2>1, <2>3, CompletedWake
<1> QED BY <1>2, <1>3, <1>4

(* complete for the store that is with the L1.                             *)
LEMMA CompleteStore ==
  ASSUME Prog, NEW c, CoreInv(c), Annulled(c), NEW r, r.access \subseteq Bytes, r.access # {},
         r.op = "Store", Storing(c, r.access), NEW d, d = complete(c, r)
  PROVE  \E i \in DOMAIN c.queue : Stored(c, i, d) /\ c.queue[i].access = r.access
<1> DEFINE k == Min(r.access)
           m == c.mshrs[k]
           i == Min(m.waiting)
<1>1. k \in Bytes
  BY MinByte
<1>2. m.op = "Store" /\ m.access = r.access
  <2>1. PICK h \in InQueue(c, "SB") : Least(c, h) /\ c.queue[h].mshr /\ c.queue[h].access = r.access
    BY DEF Storing
  <2>2. CoreInvBut(c, {}) /\ Linked(c) /\ h \in DOMAIN c.queue /\ c.queue[h].queue = "SB"
    BY DEF CoreInv, CoreInvBut, InQueue
  <2>3. EntryOK(c, h)
    BY <2>2 DEF CoreInvBut
  <2>4. c.queue[h].op = "Store" /\ paddr(c.queue[h]) = k
    BY <2>1, <2>2, <2>3 DEF EntryOK, paddr
  <2>5. h \in m.waiting
    BY <2>1, <2>2, <2>4 DEF Linked
  <2> QED BY <1>1, <2>1, <2>2, <2>4, <2>5 DEF Linked
<1>3. d = Wake(completeLSQ(Freeing(c, k), i, r.value), m)
  BY <1>2 DEF complete, Freeing
<1>4. Stored(c, i, d) /\ c.queue[i].access = m.access
  BY <1>1, <1>2, <1>3, StoreDoneFacts
<1> HIDE DEF i
<1>5. i \in DOMAIN c.queue
  BY <1>4 DEF Stored, InQueue
<1> QED BY <1>2, <1>4, <1>5

(* What a reply or a snoop that ends no store does: the permission of block b *)
(* is held afterwards only if G.                                              *)
Answered(c, d, b, G) ==
  /\ CoreInv(d) /\ Annulled(d)
  /\ DOMAIN d.queue = DOMAIN c.queue
  /\ \A j \in DOMAIN c.queue : d.queue[j].queue = c.queue[j].queue /\ d.queue[j].access = c.queue[j].access
  /\ \A j \in InQueue(c, "SB") : /\ d.queue[j].access = c.queue[j].access /\ d.queue[j].data = c.queue[j].data
                                 /\ c.queue[j].mshr => d.queue[j].mshr
  /\ \A x \in Blocks : /\ d.permission[x].count = c.permission[x].count
                       /\ d.permission[x].held => IF x = b THEN G ELSE c.permission[x].held
  /\ d.ports = c.ports

(* A change of permission and a step that keeps permissions.               *)
LEMMA PermitAnswered ==
  ASSUME NEW c, NEW p, NEW b, NEW G, Permit(c, p, b, G), NEW d, Stays(p, d, {}), d.ports = p.ports
  PROVE  Answered(c, d, b, G)
<1>1. p.queue = c.queue /\ p.ports = c.ports /\ d.permission = p.permission
  BY DEF Permit, Stays
<1>2. \A j \in DOMAIN c.queue : d.queue[j].queue = c.queue[j].queue /\ d.queue[j].access = c.queue[j].access
  BY <1>1 DEF Stays
<1>3. InQueue(p, "SB") = InQueue(c, "SB")
  BY <1>1 DEF InQueue
<1>4. \A j \in InQueue(c, "SB") : /\ d.queue[j].access = c.queue[j].access /\ d.queue[j].data = c.queue[j].data
                                  /\ c.queue[j].mshr => d.queue[j].mshr
  BY <1>1, <1>3 DEF Stays
<1>5. \A x \in Blocks : /\ d.permission[x].count = c.permission[x].count
                        /\ d.permission[x].held => IF x = b THEN G ELSE c.permission[x].held
  BY <1>1 DEF Permit
<1> QED BY <1>1, <1>2, <1>4, <1>5 DEF Answered, Stays

ReplyOps == {"Load", "Store", "RMW", "CAS", "StorePrefetch"}
WriteOps == {"Store", "RMW", "CAS", "StorePrefetch"}
SnoopOps == {"Invalidate", "Downgrade"}
InBlock(A) == A # {} /\ A \subseteq Bytes /\ \A a, b \in A : BlockOf[a] = BlockOf[b]

(* The bytes of such an access are of the block of its address.            *)
LEMMA BlockFact ==
  ASSUME NEW A, InBlock(A)
  PROVE  /\ Min(A) \in A /\ Min(A) \in Bytes /\ BlockOf[Min(A)] \in Blocks
         /\ \A a \in A : a \in Bytes /\ BlockOf[a] = BlockOf[Min(A)]
<1>1. Min(A) \in A /\ Min(A) \in Bytes
  BY MinByte DEF InBlock
<1> QED BY <1>1 DEF InBlock, Blocks

(* processReply of all replies but that to a store.                        *)
LEMMA ReplyFacts ==
  ASSUME Prog, NEW c, CoreInv(c), Annulled(c), NEW r, InBlock(r.access), r.op \in (ReplyOps \cup SnoopOps) \ {"Store"},
         r.op \in {"Load", "RMW", "CAS"} => r.value \in [r.access -> Values],
         NEW b, b = BlockOf[Min(r.access)], NEW d, d = processReply(c, r)
  PROVE  Answered(c, d, b, r.op \in WriteOps \/ (r.op = "Load" /\ c.permission[b].held))
<1> DEFINE G == r.op \in WriteOps \/ (r.op = "Load" /\ c.permission[b].held)
           up == acquireWritePermission(c, b)
           down == loseWritePermission(c, b)
<1>1. c \in CoreType /\ b \in Blocks /\ r.access # {} /\ r.access \subseteq Bytes
  BY BlockFact DEF CoreInv, CoreInvBut, InBlock
<1>2. Permit(c, up, b, TRUE) /\ Permit(c, down, b, FALSE)
  BY <1>1, AcquireFacts
<1>3. CoreInv(up) /\ Annulled(up) /\ CoreInv(down) /\ Annulled(down)
  BY <1>2, PermitKeeps
<1> HIDE DEF up, down
<1>4. CASE r.op = "Load"
  <2>1. d = complete(c, r)
    BY <1>4 DEF processReply
  <2>2. Stays(c, d, {}) /\ d.ports = c.ports
    BY <1>1, <1>4, <2>1, CompleteFacts
  <2>3. Permit(c, c, b, c.permission[b].held)
    BY <1>1 DEF Permit
  <2>4. G <=> c.permission[b].held
    BY <1>4 DEF WriteOps
  <2>5. Answered(c, d, b, c.permission[b].held)
    BY <2>2, <2>3, PermitAnswered
  <2> QED BY <2>4, <2>5 DEF Answered
<1>5. CASE r.op \in {"RMW", "CAS"}
  <2>1. d = complete(up, r)
    BY <1>5 DEF processReply, up
  <2>2. Stays(up, d, {}) /\ d.ports = up.ports
    BY <1>1, <1>3, <1>5, <2>1, CompleteFacts
  <2>3. Answered(c, d, b, TRUE) /\ G = TRUE
    BY <1>2, <1>5, <2>2, PermitAnswered DEF WriteOps
  <2> QED BY <2>3 DEF Answered
<1>6. CASE r.op = "StorePrefetch"
  <2>1. d = [up EXCEPT !.outstanding = @ \ {b}]
    BY <1>6 DEF processReply, up
  <2>2. /\ d \in CoreType /\ d.queue = up.queue /\ d.mshrs = up.mshrs /\ d.requests = up.requests
        /\ d.prefetches = up.prefetches /\ d.permission = up.permission /\ d.ports = up.ports
    BY <1>3, <2>1 DEF CoreInv, CoreInvBut, CoreType
  <2>3. Stays(up, d, {})
    <3>1. d.prefetches \subseteq DOMAIN up.queue
      BY <1>3, <2>2 DEF CoreInv, CoreInvBut
    <3> QED BY <1>3, <2>2, <3>1, SameLinks
  <2>4. Answered(c, d, b, TRUE) /\ G = TRUE
    BY <1>2, <1>6, <2>2, <2>3, PermitAnswered DEF WriteOps
  <2> QED BY <2>4 DEF Answered
<1>7. CASE r.op = "Invalidate"
  <2>1. d = invalidate(down, b)
    BY <1>7 DEF processReply, down
  <2>2. Stays(down, d, {}) /\ d.ports = down.ports
    BY <1>3, <2>1, InvalidateFacts
  <2>3. Answered(c, d, b, FALSE)
    BY <1>2, <2>2, PermitAnswered
  <2> QED BY <2>3 DEF Answered
<1>8. CASE r.op = "Downgrade"
  <2>1. d = down
    BY <1>8 DEF processReply, down
  <2>2. Stays(down, d, {}) /\ d.ports = down.ports
    BY <1>3, <2>1 DEF Stays
  <2>3. Answered(c, d, b, FALSE)
    BY <1>2, <2>2, PermitAnswered
  <2> QED BY <2>3 DEF Answered
<1> QED BY <1>4, <1>5, <1>6, <1>7, <1>8 DEF ReplyOps, SnoopOps

(* The reply to the store at the head ends it. *)
Ends(c, r, b, d) ==
  \E p : /\ Permit(c, p, b, TRUE)
         /\ \E i \in DOMAIN c.queue : Stored(p, i, d) /\ c.queue[i].access = r.access

(* processReply of the reply to a store.                                   *)
LEMMA StoreReplyFacts ==
  ASSUME Prog, NEW c, CoreInv(c), Annulled(c), NEW r, InBlock(r.access), r.op = "Store", Storing(c, r.access),
         NEW b, b = BlockOf[Min(r.access)], NEW d, d = processReply(c, r)
  PROVE  Ends(c, r, b, d)
<1> DEFINE up == acquireWritePermission(c, b)
<1>1. c \in CoreType /\ b \in Blocks /\ r.access # {} /\ r.access \subseteq Bytes
  BY BlockFact DEF CoreInv, CoreInvBut, InBlock
<1>2. Permit(c, up, b, TRUE)
  BY <1>1, AcquireFacts
<1>3. CoreInv(up) /\ Annulled(up) /\ up.queue = c.queue
  BY <1>2, PermitKeeps DEF Permit
<1>4. d = complete(up, r)
  BY DEF processReply
<1> HIDE DEF up
<1>5. Storing(up, r.access)
  BY <1>3 DEF Storing, InQueue, Least
<1>6. \E i \in DOMAIN up.queue : Stored(up, i, d) /\ up.queue[i].access = r.access
  BY <1>1, <1>3, <1>4, <1>5, CompleteStore
<1> QED BY <1>2, <1>3, <1>6 DEF Ends

(* The messages between the core and the L1. *)
ReplyType == [op : ReplyOps \cup SnoopOps, access : SUBSET Bytes, value : Loaded]
ReplyOK(r) == InBlock(r.access) /\ (r.op \in {"Load", "RMW", "CAS"} => r.value \in [r.access -> Values])
Bagged(s) == s = [x \in DOMAIN s |-> s[x]] /\ \A x \in DOMAIN s : s[x] \in Nat \ {0}
Mail(s, rs, ss) ==
  /\ Bagged(s) /\ \A x \in DOMAIN s : x \in Messages /\ InBlock(x[2])
  /\ rs \in Seq(ReplyType) /\ Len(rs) <= MaxReplies
  /\ \A n \in DOMAIN rs : ReplyOK(rs[n])
  /\ ss \in Seq(Blocks) /\ Len(ss) <= MaxSnoops

(* One more and one less of p. *)
Adds(s, p, t) ==
  /\ Bagged(t) /\ DOMAIN t = DOMAIN s \cup {p}
  /\ \A x \in DOMAIN s : x # p => t[x] = s[x]
  /\ p \notin DOMAIN s => t[p] = 1
Takes(s, p, t) ==
  /\ Bagged(t) /\ DOMAIN t \subseteq DOMAIN s
  /\ \A x \in DOMAIN s : x # p => x \in DOMAIN t /\ t[x] = s[x]
  /\ s[p] = 1 => p \notin DOMAIN t
  /\ p \in DOMAIN t => t[p] = s[p] - 1

(* Sending is Adds.                                                        *)
LEMMA BagPut ==
  ASSUME NEW s, Bagged(s), NEW p, NEW t, t = s (+) SetToBag({p})
  PROVE  Adds(s, p, t)
  BY DEF Bagged, (+), SetToBag, Adds

(* Answering is Takes.                                                     *)
LEMMA BagGet ==
  ASSUME NEW s, Bagged(s), NEW p \in DOMAIN s, NEW t, t = s (-) SetToBag({p})
  PROVE  Takes(s, p, t)
  BY DEF Bagged, (-), SetToBag, Takes

(* At most one store is with the L1, the oldest of the store buffer. *)
StoreOut(c, s, rs) ==
  /\ \A x \in DOMAIN s : x[1] = "Store" => Storing(c, x[2]) /\ s[x] = 1 /\ \A n \in DOMAIN rs : rs[n].op # "Store"
  /\ \A n \in DOMAIN rs : rs[n].op = "Store" =>
       Storing(c, rs[n].access) /\ \A m \in DOMAIN rs : rs[m].op = "Store" => m = n

(* The permissions count the stores of the store buffer. *)
SBOf(c, b) == {i \in InQueue(c, "SB") : BlockOf[paddr(c.queue[i])] = b}
Counted(c) ==
  /\ Cardinality(InQueue(c, "SB")) <= SBSize
  /\ \A b \in Blocks : c.permission[b].count = Cardinality(SBOf(c, b))

(* The L1 has given every permission that is held or on its way, or has    *)
(* sent the snoop that ends it.                                            *)
States == {"I", "S", "M", "Invalidating", "Downgrading"}
SnoopFor(r, b) == r.op \in SnoopOps /\ BlockOf[Min(r.access)] = b
Snooped(rs, n, b) == \E m \in DOMAIN rs : m > n /\ SnoopFor(rs[m], b)
Held(c, l, rs) == \A b \in Blocks : c.permission[b].held => l[b] = "M" \/ Snooped(rs, 0, b)
WriteCovered(l, rs) ==
  \A n \in DOMAIN rs : rs[n].op \in WriteOps =>
    l[BlockOf[Min(rs[n].access)]] = "M" \/ Snooped(rs, n, BlockOf[Min(rs[n].access)])
SnoopsOnce(l, rs, ss) ==
  \A b \in Blocks :
    /\ Snooped(rs, 0, b) \/ (\E n \in DOMAIN ss : ss[n] = b) => l[b] \in {"Invalidating", "Downgrading"}
    /\ \A n, m \in DOMAIN rs : SnoopFor(rs[n], b) /\ SnoopFor(rs[m], b) => n = m
    /\ \A n, m \in DOMAIN ss : ss[n] = b /\ ss[m] = b => n = m
    /\ \A n \in DOMAIN ss : ss[n] = b => ~Snooped(rs, 0, b)
Protocol(c, l, rs, ss) ==
  l \in [Blocks -> States] /\ Held(c, l, rs) /\ WriteCovered(l, rs) /\ SnoopsOnce(l, rs, ss)

(* What the queue holds with an address whose base has left it is fixed. *)
BaseFixed(c, res) ==
  \A i \in DOMAIN c.queue :
    LET d == program[i].base
    IN  c.queue[i].access # {} /\ d \notin DOMAIN c.queue =>
          /\ d # 0 => res[d] # None
          /\ c.queue[i].access = program[i].access[IF d = 0 \/ Initial(res[d]) THEN 1 ELSE 2]

Good(nx, c, res) ==
  /\ Prog /\ nx \in 1 .. Len(program) + 1
  /\ CoreInv(c) /\ Annulled(c) /\ c.ports = None /\ DOMAIN c.queue \subseteq 1 .. nx - 1
  /\ res = [i \in Ids |-> res[i]]
  /\ BaseFixed(c, res) /\ Counted(c)

CoreState(nx, c, s, rs, ss, l, mem, res, n) ==
  /\ Good(nx, c, res) /\ Mail(s, rs, ss) /\ StoreOut(c, s, rs) /\ Protocol(c, l, rs, ss)
  /\ mem \in [Bytes -> Values] /\ n \in 0 .. MaxDisturb
(* The inductive invariant. *)
CoreMemoryInv == CoreState(next, core, sent, replies, snoops, l1, memory, result, disturbed)

(* The types depend on the program only.                                   *)
LEMMA SameTypes ==
  ASSUME program' = program
  PROVE  Ids' = Ids /\ Values' = Values /\ MSHR' = MSHR /\ EntryType' = EntryType /\ CoreType' = CoreType /\ Prog' = Prog
         /\ Loaded' = Loaded /\ ReplyType' = ReplyType
<1>1. Ids' = Ids /\ Values' = Values
  BY DEF Ids, Values
<1>2. MSHR' = MSHR
  BY <1>1 DEF MSHR
<1>3. EntryType' = EntryType /\ Loaded' = Loaded
  BY <1>1 DEF EntryType, Loaded
<1>4. Queues' = Queues
  BY <1>1, <1>3 DEF Queues
<1>5. CoreType' = CoreType
  BY <1>1, <1>2, <1>4 DEF CoreType
<1>6. Prog' = Prog
  BY DEF Prog
<1>7. ReplyType' = ReplyType
  BY <1>3 DEF ReplyType
<1> QED BY <1>1, <1>2, <1>3, <1>5, <1>6, <1>7

(* The invariant of the new values is the invariant in the next state.     *)
LEMMA SameProgram ==
  ASSUME program' = program, CoreState(next', core', sent', replies', snoops', l1', memory', result', disturbed')
  PROVE  CoreMemoryInv'
<1>1. Ids' = Ids /\ Values' = Values /\ MSHR' = MSHR /\ EntryType' = EntryType /\ CoreType' = CoreType /\ Prog' = Prog
      /\ ReplyType' = ReplyType
  BY SameTypes
<1>2. (\A i \in DOMAIN core'.queue : EntryOK(core', i)) => (\A i \in DOMAIN core.queue : EntryOK(core, i))'
  BY <1>1 DEF EntryOK
<1>3. (Linked(core') => Linked(core)') /\ (SBOrder(core') => SBOrder(core)')
  OBVIOUS
<1>4. NoPartial(core') => NoPartial(core)'
  OBVIOUS
<1>5. PortsKnown(core', {}) => PortsKnown(core, {})'
  OBVIOUS
<1>11. SameSize' = SameSize
  BY <1>1 DEF SameSize
<1>6. CoreInv(core') => CoreInv(core)'
  BY <1>1, <1>2, <1>3, <1>4, <1>5, <1>11 DEF CoreInv, CoreInvBut
<1>7. BaseFixed(core', result') => BaseFixed(core, result)'
  BY DEF BaseFixed
<1>8. Good(next', core', result') => Good(next, core, result)'
  BY <1>1, <1>6, <1>7 DEF Good
<1>9. Mail(sent', replies', snoops') => Mail(sent, replies, snoops)'
  BY <1>1 DEF Mail, ReplyOK
<1>10. memory' \in [Bytes -> Values] => (memory \in [Bytes -> Values])'
  BY <1>1
<1> QED BY <1>8, <1>9, <1>10 DEF CoreState, CoreMemoryInv

-----------------------------------------------------------------------------
(* The store buffer. *)
LEMMA SBFinite ==
  ASSUME Prog, NEW c \in CoreType
  PROVE  /\ IsFiniteSet(InQueue(c, "SB")) /\ \A b : IsFiniteSet(SBOf(c, b))
         /\ \A b : Cardinality(SBOf(c, b)) <= Cardinality(InQueue(c, "SB"))
         /\ Cardinality(InQueue(c, "SB")) \in Nat /\ \A b : Cardinality(SBOf(c, b)) \in Nat
<1>1. InQueue(c, "SB") \subseteq 1 .. Len(program) /\ Len(program) \in Nat
  BY EntryTyped, ProgFacts DEF InQueue
<1>2. IsFiniteSet(1 .. Len(program))
  BY <1>1, FS_Interval
<1>3. IsFiniteSet(InQueue(c, "SB"))
  BY <1>1, <1>2, FS_Subset
<1>4. \A b : SBOf(c, b) \subseteq InQueue(c, "SB")
  BY DEF SBOf
<1>5. \A b : IsFiniteSet(SBOf(c, b)) /\ Cardinality(SBOf(c, b)) <= Cardinality(InQueue(c, "SB"))
  BY <1>3, <1>4, FS_Subset
<1> QED BY <1>3, <1>5, FS_CardinalityType

(* The same stores and counts. *)
LEMMA CountedSame ==
  ASSUME NEW c, NEW d, Counted(c), DOMAIN d.queue = DOMAIN c.queue,
         \A j \in DOMAIN c.queue : d.queue[j].queue = c.queue[j].queue,
         \A j \in InQueue(c, "SB") : d.queue[j].access = c.queue[j].access,
         \A b \in Blocks : d.permission[b].count = c.permission[b].count
  PROVE  Counted(d)
<1>1. InQueue(d, "SB") = InQueue(c, "SB")
  BY DEF InQueue
<1>2. \A b : SBOf(d, b) = SBOf(c, b)
  BY <1>1 DEF SBOf, paddr
<1> QED BY <1>1, <1>2 DEF Counted

(* A store comes. *)
LEMMA CountedCommit ==
  ASSUME Prog, NEW c, CoreInv(c), Counted(c), NEW i \in InQueue(c, "LSQ"), NEW d, Commits(c, i, d), ~sbFull(c)
  PROVE  Counted(d)
<1> DEFINE x == BlockOf[paddr(c.queue[i])]
<1>1. c \in CoreType /\ i \in DOMAIN c.queue /\ i \notin InQueue(c, "SB") /\ c.queue[i].queue = "LSQ"
  BY DEF CoreInv, CoreInvBut, InQueue
<1>2. InQueue(d, "SB") = InQueue(c, "SB") \cup {i}
  BY <1>1 DEF InQueue, Commits
<1>3. \A j \in DOMAIN c.queue : paddr(d.queue[j]) = paddr(c.queue[j])
  BY DEF Commits, paddr
<1>4. SBOf(d, x) = SBOf(c, x) \cup {i} /\ i \notin SBOf(c, x)
  <2>1. InQueue(c, "SB") \subseteq DOMAIN c.queue
    BY DEF InQueue
  <2> QED BY <1>1, <1>2, <1>3, <2>1 DEF SBOf
<1>5. \A b : b # x => SBOf(d, b) = SBOf(c, b)
  <2>1. InQueue(c, "SB") \subseteq DOMAIN c.queue
    BY DEF InQueue
  <2> QED BY <1>1, <1>2, <1>3, <2>1 DEF SBOf
<1> HIDE DEF x
<1>6. /\ Cardinality(SBOf(d, x)) = Cardinality(SBOf(c, x)) + 1
      /\ Cardinality(InQueue(d, "SB")) = Cardinality(InQueue(c, "SB")) + 1
  BY <1>1, <1>2, <1>4, SBFinite, FS_AddElement
<1>7. Cardinality(InQueue(c, "SB")) + 1 <= SBSize
  BY <1>1, SBFinite, BoundsAssumption DEF sbFull
<1>8. /\ x \in Blocks /\ d.permission[x].count = c.permission[x].count + 1
      /\ \A b \in Blocks : b # x => d.permission[b].count = c.permission[b].count
  BY DEF Commits, x
<1>9. \A b \in Blocks : d.permission[b].count = Cardinality(SBOf(d, b))
  BY <1>5, <1>6, <1>8 DEF Counted
<1> QED BY <1>6, <1>7, <1>9 DEF Counted

(* A store goes. *)
LEMMA CountedStored ==
  ASSUME Prog, NEW c, CoreInv(c), Counted(c), NEW i, NEW d, Stored(c, i, d)
  PROVE  Counted(d)
<1> DEFINE x == BlockOf[paddr(c.queue[i])]
<1>1. c \in CoreType /\ i \in InQueue(c, "SB")
  BY DEF CoreInv, CoreInvBut, Stored
<1>2. InQueue(d, "SB") = InQueue(c, "SB") \ {i}
  BY <1>1 DEF InQueue, Stored
<1>3. \A j \in DOMAIN d.queue : paddr(d.queue[j]) = paddr(c.queue[j])
  BY DEF Stored, paddr
<1>4. InQueue(d, "SB") \subseteq DOMAIN d.queue
  BY DEF InQueue
<1>5. SBOf(d, x) = SBOf(c, x) \ {i} /\ i \in SBOf(c, x)
  BY <1>1, <1>2, <1>3, <1>4 DEF SBOf
<1>6. \A b : b # x => SBOf(d, b) = SBOf(c, b)
  BY <1>1, <1>2, <1>3, <1>4 DEF SBOf
<1> HIDE DEF x
<1>7. /\ Cardinality(SBOf(d, x)) = Cardinality(SBOf(c, x)) - 1
      /\ Cardinality(InQueue(d, "SB")) = Cardinality(InQueue(c, "SB")) - 1
  BY <1>1, <1>2, <1>5, SBFinite, FS_RemoveElement
<1>8. /\ x \in Blocks /\ d.permission[x].count = c.permission[x].count - 1
      /\ \A b \in Blocks : b # x => d.permission[b].count = c.permission[b].count
  BY DEF Stored, x
<1>9. \A b \in Blocks : d.permission[b].count = Cardinality(SBOf(d, b))
  BY <1>6, <1>7, <1>8 DEF Counted
<1>10. Cardinality(InQueue(d, "SB")) <= SBSize
  BY <1>1, <1>7, SBFinite, BoundsAssumption DEF Counted
<1> QED BY <1>9, <1>10 DEF Counted

(* Entries of the LSQ go. *)
LEMMA CountedWithout ==
  ASSUME NEW c, Counted(c), NEW S, NEW d, Without(c, S, d, {}), S \cap InQueue(c, "SB") = {}, d.permission = c.permission
  PROVE  Counted(d)
<1>1. \A j \in DOMAIN d.queue : d.queue[j].queue = c.queue[j].queue /\ paddr(d.queue[j]) = paddr(c.queue[j])
  BY DEF Without, KeepsLoad, Keeps, paddr
<1>2. InQueue(d, "SB") = InQueue(c, "SB")
  BY <1>1 DEF InQueue, Without
<1>3. InQueue(d, "SB") \subseteq DOMAIN d.queue
  BY DEF InQueue
<1>4. \A b : SBOf(d, b) = SBOf(c, b)
  BY <1>1, <1>2, <1>3 DEF SBOf
<1> QED BY <1>2, <1>4 DEF Counted

-----------------------------------------------------------------------------
(* The messages of a step.                                                 *)

(* An operation is sent.                                                   *)
LEMMA MailSent ==
  ASSUME NEW s, NEW rs, NEW ss, Mail(s, rs, ss), NEW p \in Messages, InBlock(p[2]), NEW t, Adds(s, p, t)
  PROVE  Mail(t, rs, ss)
<1>1. Bagged(t) /\ DOMAIN t = DOMAIN s \cup {p}
  BY DEF Adds
<1> QED BY <1>1 DEF Mail

(* The L1 answers one.                                                     *)
LEMMA MailAnswered ==
  ASSUME NEW s, NEW rs, NEW ss, Mail(s, rs, ss), NEW p \in DOMAIN s, NEW t, Takes(s, p, t),
         NEW r \in ReplyType, ReplyOK(r), Len(rs) < MaxReplies
  PROVE  Mail(t, Append(rs, r), ss)
<1>1. Bagged(t) /\ DOMAIN t \subseteq DOMAIN s
  BY DEF Takes
<1>2. Append(rs, r) \in Seq(ReplyType) /\ Len(Append(rs, r)) = Len(rs) + 1
  BY DEF Mail
<1>3. \A n \in DOMAIN Append(rs, r) : ReplyOK(Append(rs, r)[n])
  <2> TAKE n \in DOMAIN Append(rs, r)
  <2>1. n \in 1 .. Len(rs) + 1 /\ Len(rs) \in Nat /\ DOMAIN rs = 1 .. Len(rs)
    BY DEF Mail
  <2>2. CASE n = Len(rs) + 1
    BY <2>1, <2>2 DEF Mail
  <2>3. CASE n # Len(rs) + 1
    <3>1. n \in DOMAIN rs /\ Append(rs, r)[n] = rs[n]
      BY <2>1, <2>3 DEF Mail
    <3> QED BY <3>1 DEF Mail
  <2> QED BY <2>2, <2>3
<1>4. Len(rs) + 1 <= MaxReplies
  BY BoundsAssumption DEF Mail
<1> QED BY <1>1, <1>2, <1>3, <1>4 DEF Mail

(* The L1 snoops.                                                          *)
LEMMA MailSnooped ==
  ASSUME NEW s, NEW rs, NEW ss, Mail(s, rs, ss), NEW r \in ReplyType, ReplyOK(r), Len(rs) < MaxReplies
  PROVE  Mail(s, Append(rs, r), ss)
<1>2. Append(rs, r) \in Seq(ReplyType) /\ Len(Append(rs, r)) = Len(rs) + 1
  BY DEF Mail
<1>3. \A n \in DOMAIN Append(rs, r) : ReplyOK(Append(rs, r)[n])
  <2> TAKE n \in DOMAIN Append(rs, r)
  <2>1. n \in 1 .. Len(rs) + 1 /\ Len(rs) \in Nat /\ DOMAIN rs = 1 .. Len(rs)
    BY DEF Mail
  <2>2. CASE n = Len(rs) + 1
    BY <2>1, <2>2 DEF Mail
  <2>3. CASE n # Len(rs) + 1
    <3>1. n \in DOMAIN rs /\ Append(rs, r)[n] = rs[n]
      BY <2>1, <2>3 DEF Mail
    <3> QED BY <3>1 DEF Mail
  <2> QED BY <2>2, <2>3
<1>4. Len(rs) + 1 <= MaxReplies
  BY BoundsAssumption DEF Mail
<1> QED BY <1>2, <1>3, <1>4 DEF Mail

(* Replies and snoops after the first are moved up by one. *)
LEMMA TailFacts ==
  ASSUME NEW T, NEW q \in Seq(T), q # <<>>
  PROVE  /\ Len(q) \in Nat /\ Len(q) > 0 /\ DOMAIN q = 1 .. Len(q) /\ Head(q) = q[1] /\ 1 \in DOMAIN q
         /\ Tail(q) \in Seq(T) /\ Len(Tail(q)) = Len(q) - 1 /\ DOMAIN Tail(q) = 1 .. Len(q) - 1
         /\ \A n \in DOMAIN Tail(q) : n + 1 \in DOMAIN q /\ Tail(q)[n] = q[n + 1]
         /\ \A n \in DOMAIN q : n # 1 => n - 1 \in DOMAIN Tail(q) /\ Tail(q)[n - 1] = q[n]
<1>1. Len(q) \in Nat /\ Len(q) > 0 /\ DOMAIN q = 1 .. Len(q) /\ Head(q) = q[1] /\ 1 \in DOMAIN q
  OBVIOUS
<1>2. Tail(q) \in Seq(T) /\ Len(Tail(q)) = Len(q) - 1
  BY HeadTailProperties
<1>3. \A n \in 1 .. Len(q) - 1 : Tail(q)[n] = q[n + 1]
  BY <1>1, HeadTailProperties
<1>4. DOMAIN Tail(q) = 1 .. Len(q) - 1
  BY <1>2
<1> QED BY <1>1, <1>2, <1>3, <1>4

(* The core takes the first reply, and may acknowledge it.                 *)
LEMMA MailProcessed ==
  ASSUME NEW s, NEW rs, NEW ss, Mail(s, rs, ss), rs # <<>>
  PROVE  /\ Mail(s, Tail(rs), ss)
         /\ \A b \in Blocks : Len(ss) < MaxSnoops => Mail(s, Tail(rs), Append(ss, b))
<1>1. /\ Tail(rs) \in Seq(ReplyType) /\ Len(Tail(rs)) <= MaxReplies
      /\ \A n \in DOMAIN Tail(rs) : ReplyOK(Tail(rs)[n])
  BY TailFacts, BoundsAssumption DEF Mail
<1>2. Mail(s, Tail(rs), ss)
  BY <1>1 DEF Mail
<1>3. ASSUME NEW b \in Blocks, Len(ss) < MaxSnoops
      PROVE  Append(ss, b) \in Seq(Blocks) /\ Len(Append(ss, b)) <= MaxSnoops
  BY <1>3, BoundsAssumption DEF Mail
<1> QED BY <1>1, <1>2, <1>3 DEF Mail

(* The L1 takes an acknowledgement.                                        *)
LEMMA MailPopped ==
  ASSUME NEW s, NEW rs, NEW ss, Mail(s, rs, ss), ss # <<>>
  PROVE  Mail(s, rs, Tail(ss))
<1>1. Tail(ss) \in Seq(Blocks) /\ Len(Tail(ss)) <= MaxSnoops
  BY TailFacts, BoundsAssumption DEF Mail
<1> QED BY <1>1 DEF Mail

-----------------------------------------------------------------------------
(* The store that is with the L1.                                          *)

(* The oldest store stays what it is.                                      *)
LEMMA StoringKept ==
  ASSUME NEW c, NEW d, NEW A, Storing(c, A),
         \A h \in InQueue(c, "SB") : Least(c, h) /\ c.queue[h].mshr =>
           h \in InQueue(d, "SB") /\ Least(d, h) /\ d.queue[h].mshr /\ d.queue[h].access = c.queue[h].access
  PROVE  Storing(d, A)
  BY DEF Storing

(* So does what is known of the store under way.                           *)
LEMMA StoreOutKept ==
  ASSUME NEW c, NEW d, NEW s, NEW rs, StoreOut(c, s, rs),
         \A h \in InQueue(c, "SB") : Least(c, h) /\ c.queue[h].mshr =>
           h \in InQueue(d, "SB") /\ Least(d, h) /\ d.queue[h].mshr /\ d.queue[h].access = c.queue[h].access
  PROVE  StoreOut(d, s, rs)
<1>1. \A A : Storing(c, A) => Storing(d, A)
  BY StoringKept
<1> QED BY <1>1 DEF StoreOut

(* Only one store can be with the L1. *)
LEMMA NoStoreOut ==
  ASSUME NEW c \in CoreType, Prog, NEW s, NEW rs, StoreOut(c, s, rs), NEW i \in DOMAIN c.queue, Least(c, i), ~c.queue[i].mshr
  PROVE  (\A x \in DOMAIN s : x[1] # "Store") /\ (\A n \in DOMAIN rs : rs[n].op # "Store")
<1>1. \A A : ~Storing(c, A)
  <2> SUFFICES ASSUME NEW h \in InQueue(c, "SB"), Least(c, h), c.queue[h].mshr PROVE FALSE
    BY DEF Storing
  <2>1. DOMAIN c.queue \subseteq Nat /\ h \in DOMAIN c.queue
    <3>1. DOMAIN c.queue \subseteq Ids
      BY EntryTyped
    <3>2. Ids \subseteq Nat
      BY ProgFacts
    <3> QED BY <3>1, <3>2 DEF InQueue
  <2>2. h <= i /\ i <= h
    BY <2>1 DEF Least
  <2> QED BY <2>1, <2>2
<1> QED BY <1>1 DEF StoreOut

(* A store is sent when none is under way.                                 *)
LEMMA StoreOutSent ==
  ASSUME NEW d, NEW s, NEW rs, NEW ss, Mail(s, rs, ss), StoreOut(d, s, rs), NEW p, NEW t, Adds(s, p, t),
         p[1] = "Store" => /\ Storing(d, p[2])
                           /\ (\A x \in DOMAIN s : x[1] # "Store") /\ (\A n \in DOMAIN rs : rs[n].op # "Store")
  PROVE  StoreOut(d, t, rs)
<1>1. /\ DOMAIN t = DOMAIN s \cup {p}
      /\ \A x \in DOMAIN s : x # p => t[x] = s[x]
      /\ p \notin DOMAIN s => t[p] = 1
  BY DEF Adds
<1>2. ASSUME NEW x \in DOMAIN t, x[1] = "Store"
      PROVE  Storing(d, x[2]) /\ t[x] = 1 /\ \A n \in DOMAIN rs : rs[n].op # "Store"
  <2>1. CASE p[1] = "Store"
    <3>1. x = p /\ p \notin DOMAIN s
      BY <1>1, <1>2, <2>1
    <3> QED BY <1>1, <2>1, <3>1
  <2>2. CASE p[1] # "Store"
    <3>1. x # p /\ x \in DOMAIN s /\ t[x] = s[x]
      BY <1>1, <1>2, <2>2
    <3> QED BY <1>2, <3>1 DEF StoreOut
  <2> QED BY <2>1, <2>2
<1> QED BY <1>2 DEF StoreOut

(* What a step may put in the ports. *)
Outgoing(c, d) ==
  \/ d.ports = None
  \/ /\ d.ports \in Messages /\ InBlock(d.ports[2])
     /\ d.ports[1] = "Store" =>
          Storing(d, d.ports[2]) /\ \E i \in DOMAIN c.queue : Least(c, i) /\ ~c.queue[i].mshr

(* The elements of a longer sequence.                                      *)
LEMMA AppendFacts ==
  ASSUME NEW T, NEW q \in Seq(T), NEW r \in T
  PROVE  /\ Len(q) \in Nat /\ DOMAIN q = 1 .. Len(q)
         /\ DOMAIN Append(q, r) = 1 .. Len(q) + 1
         /\ \A n \in DOMAIN q : n \in DOMAIN Append(q, r) /\ Append(q, r)[n] = q[n]
         /\ Append(q, r)[Len(q) + 1] = r
         /\ \A n \in DOMAIN Append(q, r) : n # Len(q) + 1 => n \in DOMAIN q
  OBVIOUS

(* The L1 answers. *)
LEMMA StoreOutAnswered ==
  ASSUME NEW c \in CoreType, Prog, NEW s, NEW rs, NEW ss, Mail(s, rs, ss), StoreOut(c, s, rs), NEW x \in DOMAIN s,
         NEW t, Takes(s, x, t), NEW r \in ReplyType, r.op = x[1], r.access = x[2]
  PROVE  StoreOut(c, t, Append(rs, r))
<1> DEFINE q == Append(rs, r)
<1>1. /\ Len(rs) \in Nat /\ DOMAIN rs = 1 .. Len(rs) /\ Len(rs) + 1 \notin DOMAIN rs
      /\ DOMAIN q = 1 .. Len(rs) + 1 /\ q[Len(rs) + 1] = r /\ Len(rs) + 1 \in DOMAIN q
      /\ \A n \in DOMAIN rs : q[n] = rs[n]
      /\ \A n \in DOMAIN q : n # Len(rs) + 1 => n \in DOMAIN rs
  <2>1. rs \in Seq(ReplyType)
    BY DEF Mail
  <2>2. /\ Len(rs) \in Nat /\ DOMAIN rs = 1 .. Len(rs) /\ DOMAIN q = 1 .. Len(rs) + 1 /\ q[Len(rs) + 1] = r
        /\ \A n \in DOMAIN rs : q[n] = rs[n]
        /\ \A n \in DOMAIN q : n # Len(rs) + 1 => n \in DOMAIN rs
    BY <2>1, AppendFacts
  <2> QED BY <2>2
<1> HIDE DEF q
<1>2. CASE x[1] # "Store"
  <2>1. \A y \in DOMAIN t : y[1] = "Store" => y \in DOMAIN s /\ t[y] = s[y]
    BY <1>2 DEF Takes
  <2>2. \A n \in DOMAIN q : q[n].op = "Store" => n \in DOMAIN rs /\ q[n] = rs[n]
    BY <1>1, <1>2
  <2>3. \A y \in DOMAIN t : y[1] = "Store" => Storing(c, y[2]) /\ t[y] = 1 /\ \A n \in DOMAIN q : q[n].op # "Store"
    BY <2>1, <2>2 DEF StoreOut
  <2>4. \A n \in DOMAIN q : q[n].op = "Store" =>
          Storing(c, q[n].access) /\ \A m \in DOMAIN q : q[m].op = "Store" => m = n
    BY <2>2 DEF StoreOut
  <2> QED BY <2>3, <2>4 DEF StoreOut, q
<1>3. CASE x[1] = "Store"
  <2>1. /\ Storing(c, x[2]) /\ s[x] = 1 /\ x \notin DOMAIN t
        /\ \A n \in DOMAIN rs : rs[n].op # "Store"
    BY <1>3 DEF StoreOut, Takes
  <2>2. \A A, B : Storing(c, A) /\ Storing(c, B) => A = B
    <3>1. DOMAIN c.queue \subseteq Ids
      BY EntryTyped
    <3>2. Ids \subseteq Nat
      BY ProgFacts
    <3>3. \A h, i \in DOMAIN c.queue : Least(c, h) /\ Least(c, i) => h = i
      <4> SUFFICES ASSUME NEW h \in DOMAIN c.queue, NEW i \in DOMAIN c.queue, Least(c, h), Least(c, i) PROVE h = i
        OBVIOUS
      <4>1. h <= i /\ i <= h /\ h \in Nat /\ i \in Nat
        BY <3>1, <3>2 DEF Least
      <4> QED BY <4>1
    <3> QED BY <3>3 DEF Storing, InQueue
  <2>3. \A y \in DOMAIN t : y[1] # "Store"
    <3> SUFFICES ASSUME NEW y \in DOMAIN t, y[1] = "Store" PROVE FALSE
      OBVIOUS
    <3>1. y \in DOMAIN s /\ y # x
      BY <2>1 DEF Takes
    <3>2. Storing(c, y[2])
      BY <3>1 DEF StoreOut
    <3>3. y[2] = x[2]
      BY <2>1, <2>2, <3>2
    <3>4. y \in Messages /\ x \in Messages
      BY <3>1 DEF Mail
    <3> QED BY <1>3, <3>1, <3>3, <3>4 DEF Messages
  <2>4. \A n \in DOMAIN q : q[n].op = "Store" => n = Len(rs) + 1
    BY <1>1, <2>1
  <2>5. \A n \in DOMAIN q : q[n].op = "Store" =>
          Storing(c, q[n].access) /\ \A m \in DOMAIN q : q[m].op = "Store" => m = n
    BY <1>1, <2>1, <2>4
  <2> QED BY <2>3, <2>5 DEF StoreOut, q
<1> QED BY <1>2, <1>3

(* A snoop is no store.                                                    *)
LEMMA StoreOutSnooped ==
  ASSUME NEW c, NEW s, NEW rs \in Seq(ReplyType), StoreOut(c, s, rs), NEW r \in ReplyType, r.op # "Store"
  PROVE  StoreOut(c, s, Append(rs, r))
<1> DEFINE q == Append(rs, r)
<1>1. /\ q[Len(rs) + 1] = r
      /\ \A n \in DOMAIN rs : q[n] = rs[n]
      /\ \A n \in DOMAIN q : n # Len(rs) + 1 => n \in DOMAIN rs
  BY AppendFacts
<1> HIDE DEF q
<1>2. \A n \in DOMAIN q : q[n].op = "Store" => n \in DOMAIN rs /\ q[n] = rs[n]
  BY <1>1
<1> QED BY <1>2 DEF StoreOut, q

(* The core takes a reply. *)
LEMMA StoreOutTail ==
  ASSUME NEW c, NEW s, NEW rs \in Seq(ReplyType), rs # <<>>, StoreOut(c, s, rs)
  PROVE  /\ Head(rs).op # "Store" => StoreOut(c, s, Tail(rs))
         /\ Head(rs).op = "Store" => Storing(c, Head(rs).access) /\ \A d : StoreOut(d, s, Tail(rs))
<1> DEFINE q == Tail(rs)
<1>1. /\ 1 \in DOMAIN rs /\ Head(rs) = rs[1] /\ DOMAIN q \subseteq Nat \ {0}
      /\ \A n \in DOMAIN q : n + 1 \in DOMAIN rs /\ q[n] = rs[n + 1]
  <2>1. Len(rs) \in Nat /\ DOMAIN q = 1 .. Len(rs) - 1
    BY TailFacts
  <2>2. DOMAIN q \subseteq Nat \ {0}
    BY <2>1
  <2> QED BY <2>2, TailFacts
<1> HIDE DEF q
<1>2. CASE Head(rs).op = "Store"
  <2>1. Storing(c, rs[1].access) /\ \A m \in DOMAIN rs : rs[m].op = "Store" => m = 1
    BY <1>1, <1>2 DEF StoreOut
  <2>2. \A n \in DOMAIN q : q[n].op # "Store"
    BY <1>1, <2>1
  <2>3. \A x \in DOMAIN s : x[1] # "Store"
    BY <1>1, <1>2 DEF StoreOut
  <2> QED BY <1>1, <1>2, <2>1, <2>2, <2>3 DEF StoreOut, q
<1>3. CASE Head(rs).op # "Store"
  <2>1. \A x \in DOMAIN s : x[1] = "Store" => Storing(c, x[2]) /\ s[x] = 1 /\ \A n \in DOMAIN q : q[n].op # "Store"
    BY <1>1 DEF StoreOut
  <2>2. \A n \in DOMAIN q : q[n].op = "Store" =>
          Storing(c, q[n].access) /\ \A m \in DOMAIN q : q[m].op = "Store" => m = n
    <3> SUFFICES ASSUME NEW n \in DOMAIN q, q[n].op = "Store"
                 PROVE  Storing(c, q[n].access) /\ \A m \in DOMAIN q : q[m].op = "Store" => m = n
      OBVIOUS
    <3>1. n + 1 \in DOMAIN rs /\ rs[n + 1].op = "Store" /\ q[n] = rs[n + 1]
      BY <1>1
    <3>2. Storing(c, q[n].access) /\ \A m \in DOMAIN rs : rs[m].op = "Store" => m = n + 1
      BY <3>1 DEF StoreOut
    <3>3. ASSUME NEW m \in DOMAIN q, q[m].op = "Store" PROVE m = n
      <4>1. m + 1 = n + 1
        BY <1>1, <3>2, <3>3
      <4> QED BY <1>1, <4>1
    <3> QED BY <3>2, <3>3
  <2> QED BY <1>3, <2>1, <2>2 DEF StoreOut, q
<1> QED BY <1>2, <1>3

-----------------------------------------------------------------------------
(* The permissions and the L1.                                             *)

(* Giving up permissions is always allowed.                                *)
LEMMA ProtocolKept ==
  ASSUME NEW c, NEW d, NEW l, NEW rs, NEW ss, Protocol(c, l, rs, ss),
         \A b \in Blocks : d.permission[b].held => c.permission[b].held
  PROVE  Protocol(d, l, rs, ss)
  BY DEF Protocol, Held

(* The snoops among the replies when one comes. *)
LEMMA SnoopedAppend ==
  ASSUME NEW rs \in Seq(ReplyType), NEW r \in ReplyType, NEW b
  PROVE  /\ \A n \in 0 .. Len(rs) : Snooped(Append(rs, r), n, b) <=> Snooped(rs, n, b) \/ SnoopFor(r, b)
         /\ ~Snooped(Append(rs, r), Len(rs) + 1, b)
<1> DEFINE q == Append(rs, r)
<1>1. /\ Len(rs) \in Nat /\ DOMAIN rs = 1 .. Len(rs)
      /\ DOMAIN q = 1 .. Len(rs) + 1
      /\ \A n \in DOMAIN rs : n \in DOMAIN q /\ q[n] = rs[n]
      /\ q[Len(rs) + 1] = r
      /\ \A n \in DOMAIN q : n # Len(rs) + 1 => n \in DOMAIN rs
  BY AppendFacts
<1> HIDE DEF q
<1>2. ~Snooped(q, Len(rs) + 1, b)
  BY <1>1 DEF Snooped
<1>3. ASSUME NEW n \in 0 .. Len(rs) PROVE Snooped(q, n, b) <=> Snooped(rs, n, b) \/ SnoopFor(r, b)
  <2>1. ASSUME Snooped(rs, n, b) PROVE Snooped(q, n, b)
    BY <1>1, <2>1 DEF Snooped
  <2>2. ASSUME SnoopFor(r, b) PROVE Snooped(q, n, b)
    <3>1. Len(rs) + 1 \in DOMAIN q /\ Len(rs) + 1 > n
      BY <1>1
    <3> QED BY <1>1, <2>2, <3>1 DEF Snooped
  <2>3. ASSUME Snooped(q, n, b), ~SnoopFor(r, b) PROVE Snooped(rs, n, b)
    <3>1. PICK m \in DOMAIN q : m > n /\ SnoopFor(q[m], b)
      BY <2>3 DEF Snooped
    <3>2. m # Len(rs) + 1
      BY <1>1, <2>3, <3>1
    <3> QED BY <1>1, <3>1, <3>2 DEF Snooped
  <2> QED BY <2>1, <2>2, <2>3
<1> QED BY <1>2, <1>3 DEF q

(* A reply that is not a snoop. *)
LEMMA ProtocolAnswered ==
  ASSUME NEW c, NEW l, NEW rs, NEW ss, NEW s, Mail(s, rs, ss), Protocol(c, l, rs, ss),
         NEW r \in ReplyType, r.op \in ReplyOps, NEW b \in Blocks, b = BlockOf[Min(r.access)],
         l[b] \in {"I", "S", "M"},
         NEW k, k = [l EXCEPT ![b] = IF r.op = "Load" /\ @ # "M" THEN "S" ELSE "M"]
  PROVE  Protocol(c, k, Append(rs, r), ss)
<1> DEFINE q == Append(rs, r)
<1>0. rs \in Seq(ReplyType)
  BY DEF Mail
<1>1. /\ Len(rs) \in Nat /\ DOMAIN rs = 1 .. Len(rs)
      /\ DOMAIN q = 1 .. Len(rs) + 1
      /\ \A n \in DOMAIN rs : n \in DOMAIN q /\ q[n] = rs[n]
      /\ q[Len(rs) + 1] = r
      /\ \A n \in DOMAIN q : n # Len(rs) + 1 => n \in DOMAIN rs
  BY <1>0, AppendFacts
<1>2. \A x : ~SnoopFor(r, x)
  BY DEF SnoopFor, ReplyOps, SnoopOps
<1>3. \A x : \A n \in 0 .. Len(rs) : Snooped(q, n, x) <=> Snooped(rs, n, x)
  BY <1>0, <1>2, SnoopedAppend
<1> HIDE DEF q
<1>4. /\ k \in [Blocks -> States] /\ \A x \in Blocks : x # b => k[x] = l[x]
      /\ l[b] = "M" \/ r.op # "Load" => k[b] = "M"
  BY DEF Protocol, States
<1>5. \A x \in Blocks : l[x] = "M" => k[x] = "M"
  BY <1>4
<1>6. Held(c, k, q)
  <2>1. 0 \in 0 .. Len(rs)
    BY <1>1
  <2> QED BY <1>3, <1>5, <2>1 DEF Held, Protocol
<1>7. WriteCovered(k, q)
  <2> SUFFICES ASSUME NEW n \in DOMAIN q, q[n].op \in WriteOps
               PROVE  k[BlockOf[Min(q[n].access)]] = "M" \/ Snooped(q, n, BlockOf[Min(q[n].access)])
    BY DEF WriteCovered
  <2>1. CASE n = Len(rs) + 1
    BY <1>1, <1>4, <2>1 DEF WriteOps
  <2>2. CASE n # Len(rs) + 1
    <3>1. n \in DOMAIN rs /\ q[n] = rs[n] /\ n \in 0 .. Len(rs)
      BY <1>1, <2>2
    <3>2. l[BlockOf[Min(rs[n].access)]] = "M" \/ Snooped(rs, n, BlockOf[Min(rs[n].access)])
      BY <3>1 DEF WriteCovered, Protocol
    <3>3. BlockOf[Min(rs[n].access)] \in Blocks
      BY <3>1, BlockFact DEF Mail, ReplyOK
    <3> QED BY <1>3, <1>5, <3>1, <3>2, <3>3
  <2> QED BY <2>1, <2>2
<1>8. SnoopsOnce(k, q, ss)
  <2> SUFFICES ASSUME NEW x \in Blocks
               PROVE  /\ Snooped(q, 0, x) \/ (\E n \in DOMAIN ss : ss[n] = x) => k[x] \in {"Invalidating", "Downgrading"}
                      /\ \A n, m \in DOMAIN q : SnoopFor(q[n], x) /\ SnoopFor(q[m], x) => n = m
                      /\ \A n, m \in DOMAIN ss : ss[n] = x /\ ss[m] = x => n = m
                      /\ \A n \in DOMAIN ss : ss[n] = x => ~Snooped(q, 0, x)
    BY DEF SnoopsOnce
  <2>1. /\ Snooped(rs, 0, x) \/ (\E n \in DOMAIN ss : ss[n] = x) => l[x] \in {"Invalidating", "Downgrading"}
        /\ \A n, m \in DOMAIN rs : SnoopFor(rs[n], x) /\ SnoopFor(rs[m], x) => n = m
        /\ \A n, m \in DOMAIN ss : ss[n] = x /\ ss[m] = x => n = m
        /\ \A n \in DOMAIN ss : ss[n] = x => ~Snooped(rs, 0, x)
    BY DEF Protocol, SnoopsOnce
  <2>2. Snooped(q, 0, x) <=> Snooped(rs, 0, x)
    BY <1>1, <1>3
  <2>3. l[x] \in {"Invalidating", "Downgrading"} => k[x] = l[x]
    BY <1>4
  <2>4. \A n \in DOMAIN q : SnoopFor(q[n], x) => n \in DOMAIN rs /\ q[n] = rs[n]
    BY <1>1, <1>2
  <2> QED BY <2>1, <2>2, <2>3, <2>4
<1> QED BY <1>4, <1>6, <1>7, <1>8 DEF Protocol, q

(* A snoop is sent. *)
LEMMA ProtocolSnoop ==
  ASSUME NEW c, NEW l, NEW rs, NEW ss, NEW s, Mail(s, rs, ss), Protocol(c, l, rs, ss),
         NEW r \in ReplyType, NEW b \in Blocks, SnoopFor(r, b),
         l[b] \in {"I", "S", "M"}, NEW v \in {"Invalidating", "Downgrading"}, NEW k, k = [l EXCEPT ![b] = v]
  PROVE  Protocol(c, k, Append(rs, r), ss)
<1> DEFINE q == Append(rs, r)
<1>0. rs \in Seq(ReplyType)
  BY DEF Mail
<1>1. /\ Len(rs) \in Nat /\ DOMAIN rs = 1 .. Len(rs)
      /\ DOMAIN q = 1 .. Len(rs) + 1
      /\ \A n \in DOMAIN rs : n \in DOMAIN q /\ q[n] = rs[n]
      /\ q[Len(rs) + 1] = r
      /\ \A n \in DOMAIN q : n # Len(rs) + 1 => n \in DOMAIN rs
  BY <1>0, AppendFacts
<1>2. \A x : SnoopFor(r, x) <=> x = b
  BY DEF SnoopFor
<1>3. \A x : \A n \in 0 .. Len(rs) : Snooped(q, n, x) <=> Snooped(rs, n, x) \/ x = b
  BY <1>0, <1>2, SnoopedAppend
<1> HIDE DEF q
<1>4. k \in [Blocks -> States] /\ (\A x \in Blocks : x # b => k[x] = l[x]) /\ k[b] = v
  BY DEF Protocol, States
<1>6. Held(c, k, q)
  <2>1. 0 \in 0 .. Len(rs)
    BY <1>1
  <2> QED BY <1>3, <1>4, <2>1 DEF Held, Protocol
<1>7. WriteCovered(k, q)
  <2> SUFFICES ASSUME NEW n \in DOMAIN q, q[n].op \in WriteOps
               PROVE  k[BlockOf[Min(q[n].access)]] = "M" \/ Snooped(q, n, BlockOf[Min(q[n].access)])
    BY DEF WriteCovered
  <2>2. n # Len(rs) + 1
    BY <1>1 DEF SnoopFor, SnoopOps, WriteOps
  <2>3. n \in DOMAIN rs /\ q[n] = rs[n] /\ n \in 0 .. Len(rs)
    BY <1>1, <2>2
  <2>4. l[BlockOf[Min(rs[n].access)]] = "M" \/ Snooped(rs, n, BlockOf[Min(rs[n].access)])
    BY <2>3 DEF WriteCovered, Protocol
  <2>5. BlockOf[Min(rs[n].access)] \in Blocks
    BY <2>3, BlockFact DEF Mail, ReplyOK
  <2> QED BY <1>3, <1>4, <2>3, <2>4, <2>5
<1>8. SnoopsOnce(k, q, ss)
  <2> SUFFICES ASSUME NEW x \in Blocks
               PROVE  /\ Snooped(q, 0, x) \/ (\E n \in DOMAIN ss : ss[n] = x) => k[x] \in {"Invalidating", "Downgrading"}
                      /\ \A n, m \in DOMAIN q : SnoopFor(q[n], x) /\ SnoopFor(q[m], x) => n = m
                      /\ \A n, m \in DOMAIN ss : ss[n] = x /\ ss[m] = x => n = m
                      /\ \A n \in DOMAIN ss : ss[n] = x => ~Snooped(q, 0, x)
    BY DEF SnoopsOnce
  <2>1. /\ Snooped(rs, 0, x) \/ (\E n \in DOMAIN ss : ss[n] = x) => l[x] \in {"Invalidating", "Downgrading"}
        /\ \A n, m \in DOMAIN rs : SnoopFor(rs[n], x) /\ SnoopFor(rs[m], x) => n = m
        /\ \A n, m \in DOMAIN ss : ss[n] = x /\ ss[m] = x => n = m
        /\ \A n \in DOMAIN ss : ss[n] = x => ~Snooped(rs, 0, x)
    BY DEF Protocol, SnoopsOnce
  <2>2. Snooped(q, 0, x) <=> Snooped(rs, 0, x) \/ x = b
    BY <1>1, <1>3
  <2>3. CASE x = b
    <3>1. ~Snooped(rs, 0, x) /\ \A n \in DOMAIN ss : ss[n] # x
      BY <2>1, <2>3
    <3>2. \A n \in DOMAIN rs : ~SnoopFor(rs[n], x)
      BY <1>1, <3>1 DEF Snooped
    <3>3. \A n \in DOMAIN q : SnoopFor(q[n], x) => n = Len(rs) + 1
      BY <1>1, <3>2
    <3> QED BY <1>4, <2>3, <3>1, <3>3
  <2>4. CASE x # b
    <3>1. \A n \in DOMAIN q : SnoopFor(q[n], x) => n \in DOMAIN rs /\ q[n] = rs[n]
      BY <1>1, <1>2, <2>4
    <3> QED BY <1>4, <2>1, <2>2, <2>4, <3>1
  <2> QED BY <2>3, <2>4
<1> QED BY <1>4, <1>6, <1>7, <1>8 DEF Protocol, q

(* The snoops among the replies when the first has gone. *)
LEMMA SnoopedTail ==
  ASSUME NEW rs \in Seq(ReplyType), rs # <<>>, NEW b
  PROVE  /\ \A n \in DOMAIN Tail(rs) \cup {0} : Snooped(Tail(rs), n, b) <=> Snooped(rs, n + 1, b)
         /\ ~SnoopFor(Head(rs), b) => (Snooped(rs, 0, b) <=> Snooped(rs, 1, b))
         /\ Snooped(rs, 1, b) => Snooped(rs, 0, b)
<1> DEFINE q == Tail(rs)
<1>1. /\ Len(rs) \in Nat /\ DOMAIN rs = 1 .. Len(rs) /\ DOMAIN q = 1 .. Len(rs) - 1
      /\ Head(rs) = rs[1] /\ 1 \in DOMAIN rs
      /\ \A n \in DOMAIN q : n + 1 \in DOMAIN rs /\ q[n] = rs[n + 1]
      /\ \A n \in DOMAIN rs : n # 1 => n - 1 \in DOMAIN q /\ q[n - 1] = rs[n]
  BY TailFacts
<1> HIDE DEF q
<1>2. ASSUME NEW n \in DOMAIN q \cup {0}, Snooped(q, n, b) PROVE Snooped(rs, n + 1, b)
  <2>1. PICK m \in DOMAIN q : m > n /\ SnoopFor(q[m], b)
    BY <1>2 DEF Snooped
  <2>2. m + 1 \in DOMAIN rs /\ m + 1 > n + 1 /\ SnoopFor(rs[m + 1], b)
    BY <1>1, <2>1
  <2> QED BY <2>2 DEF Snooped
<1>3. ASSUME NEW n \in DOMAIN q \cup {0}, Snooped(rs, n + 1, b) PROVE Snooped(q, n, b)
  <2>1. PICK m \in DOMAIN rs : m > n + 1 /\ SnoopFor(rs[m], b)
    BY <1>3 DEF Snooped
  <2>2. m - 1 \in DOMAIN q /\ m - 1 > n /\ SnoopFor(q[m - 1], b)
    BY <1>1, <2>1
  <2> QED BY <2>2 DEF Snooped
<1>4. ~SnoopFor(Head(rs), b) /\ Snooped(rs, 0, b) => Snooped(rs, 1, b)
  BY <1>1 DEF Snooped
<1>5. Snooped(rs, 1, b) => Snooped(rs, 0, b)
  BY <1>1 DEF Snooped
<1> QED BY <1>2, <1>3, <1>4, <1>5 DEF q

(* The permission of block b after the core has taken reply r. *)
Permitted(c, r, b) == r.op \in WriteOps \/ (r.op = "Load" /\ c.permission[b].held)

Grants(c, r, b, d) ==
  \A x \in Blocks : d.permission[x].held => IF x = b THEN Permitted(c, r, b) ELSE c.permission[x].held

(* The core takes a reply, and acknowledges a snoop. *)
LEMMA ProtocolProcessed ==
  ASSUME NEW c, NEW d, NEW l, NEW rs, NEW ss, NEW s, Mail(s, rs, ss), Protocol(c, l, rs, ss), rs # <<>>,
         NEW r, r = Head(rs), NEW b, b = BlockOf[Min(r.access)],
         Grants(c, r, b, d),
         NEW zz, zz = IF r.op \in SnoopOps THEN Append(ss, b) ELSE ss
  PROVE  Protocol(d, l, Tail(rs), zz)
<1> DEFINE q == Tail(rs)
<1>0. rs \in Seq(ReplyType) /\ ss \in Seq(Blocks)
  BY DEF Mail
<1>1. /\ Len(rs) \in Nat /\ DOMAIN rs = 1 .. Len(rs) /\ DOMAIN q = 1 .. Len(rs) - 1
      /\ r = rs[1] /\ 1 \in DOMAIN rs
      /\ \A n \in DOMAIN q : n + 1 \in DOMAIN rs /\ q[n] = rs[n + 1]
  BY <1>0, TailFacts
<1>2. \A x : /\ \A n \in DOMAIN q \cup {0} : Snooped(q, n, x) <=> Snooped(rs, n + 1, x)
             /\ ~SnoopFor(r, x) => (Snooped(rs, 0, x) <=> Snooped(rs, 1, x))
             /\ Snooped(rs, 1, x) => Snooped(rs, 0, x)
  BY <1>0, SnoopedTail
<1> HIDE DEF q
<1>3. \A x : Snooped(q, 0, x) <=> Snooped(rs, 1, x)
  <2>1. 0 \in DOMAIN q \cup {0} /\ 0 + 1 = 1
    OBVIOUS
  <2> QED BY <1>2, <2>1
<1>4. b \in Blocks
  BY <1>1, BlockFact DEF Mail, ReplyOK
<1>5. Held(d, l, q)
  <2> SUFFICES ASSUME NEW x \in Blocks, d.permission[x].held PROVE l[x] = "M" \/ Snooped(rs, 1, x)
    BY <1>3 DEF Held
  <2>1. CASE x = b /\ r.op \in WriteOps
    BY <1>1, <2>1 DEF Protocol, WriteCovered
  <2>2. CASE x = b /\ r.op = "Load" /\ c.permission[b].held
    <3>1. ~SnoopFor(r, b)
      BY <2>2 DEF SnoopFor, SnoopOps
    <3>2. l[x] = "M" \/ Snooped(rs, 0, x)
      BY <2>2, <1>4 DEF Protocol, Held
    <3> QED BY <1>2, <2>2, <3>1, <3>2
  <2>3. CASE x # b
    <3>1. ~SnoopFor(r, x) /\ c.permission[x].held
      BY <2>3 DEF SnoopFor, Grants
    <3>2. l[x] = "M" \/ Snooped(rs, 0, x)
      BY <3>1 DEF Protocol, Held
    <3> QED BY <1>2, <3>1, <3>2
  <2> QED BY <2>1, <2>2, <2>3 DEF Permitted, Grants
<1>6. WriteCovered(l, q)
  <2> SUFFICES ASSUME NEW n \in DOMAIN q, q[n].op \in WriteOps
               PROVE  l[BlockOf[Min(q[n].access)]] = "M" \/ Snooped(q, n, BlockOf[Min(q[n].access)])
    BY DEF WriteCovered
  <2>1. n + 1 \in DOMAIN rs /\ q[n] = rs[n + 1]
    BY <1>1
  <2>2. l[BlockOf[Min(rs[n + 1].access)]] = "M" \/ Snooped(rs, n + 1, BlockOf[Min(rs[n + 1].access)])
    BY <2>1 DEF WriteCovered, Protocol
  <2> QED BY <1>2, <2>1, <2>2
<1>7. SnoopsOnce(l, q, zz)
  <2> SUFFICES ASSUME NEW x \in Blocks
               PROVE  /\ Snooped(q, 0, x) \/ (\E n \in DOMAIN zz : zz[n] = x) => l[x] \in {"Invalidating", "Downgrading"}
                      /\ \A n, m \in DOMAIN q : SnoopFor(q[n], x) /\ SnoopFor(q[m], x) => n = m
                      /\ \A n, m \in DOMAIN zz : zz[n] = x /\ zz[m] = x => n = m
                      /\ \A n \in DOMAIN zz : zz[n] = x => ~Snooped(q, 0, x)
    BY DEF SnoopsOnce
  <2>1. /\ Snooped(rs, 0, x) \/ (\E n \in DOMAIN ss : ss[n] = x) => l[x] \in {"Invalidating", "Downgrading"}
        /\ \A n, m \in DOMAIN rs : SnoopFor(rs[n], x) /\ SnoopFor(rs[m], x) => n = m
        /\ \A n, m \in DOMAIN ss : ss[n] = x /\ ss[m] = x => n = m
        /\ \A n \in DOMAIN ss : ss[n] = x => ~Snooped(rs, 0, x)
    BY DEF Protocol, SnoopsOnce
  <2>2. \A n, m \in DOMAIN q : SnoopFor(q[n], x) /\ SnoopFor(q[m], x) => n = m
    <3> SUFFICES ASSUME NEW n \in DOMAIN q, NEW m \in DOMAIN q, SnoopFor(q[n], x), SnoopFor(q[m], x) PROVE n = m
      OBVIOUS
    <3>1. n + 1 = m + 1
      BY <1>1, <2>1
    <3> QED BY <1>1, <3>1
  <2>3. CASE r.op \in SnoopOps /\ x = b
    <3>1. SnoopFor(r, b)
      BY <2>3 DEF SnoopFor
    <3>2. Snooped(rs, 0, b)
      BY <1>1, <3>1 DEF Snooped
    <3>3. l[b] \in {"Invalidating", "Downgrading"} /\ \A n \in DOMAIN ss : ss[n] # b
      BY <2>1, <2>3, <3>2
    <3>4. ~Snooped(rs, 1, b)
      BY <1>1, <2>1, <2>3, <3>1 DEF Snooped
    <3>5. /\ zz[Len(ss) + 1] = b
          /\ \A n \in DOMAIN ss : zz[n] = ss[n]
          /\ \A n \in DOMAIN zz : n # Len(ss) + 1 => n \in DOMAIN ss
      BY <1>0, <1>4, <2>3, AppendFacts
    <3>6. \A n \in DOMAIN zz : zz[n] = b => n = Len(ss) + 1
      BY <3>3, <3>5
    <3> QED BY <1>3, <2>2, <2>3, <3>3, <3>4, <3>6
  <2>4. CASE ~(r.op \in SnoopOps /\ x = b)
    <3>1. ~SnoopFor(r, x)
      BY <2>4 DEF SnoopFor
    <3>2. Snooped(q, 0, x) <=> Snooped(rs, 0, x)
      BY <1>2, <1>3, <3>1
    <3>3. \A n \in DOMAIN zz : zz[n] = x => n \in DOMAIN ss /\ ss[n] = x
      <4>1. CASE r.op \notin SnoopOps
        BY <4>1
      <4>2. CASE r.op \in SnoopOps
        <5>1. /\ zz[Len(ss) + 1] = b
              /\ \A n \in DOMAIN ss : zz[n] = ss[n]
              /\ \A n \in DOMAIN zz : n # Len(ss) + 1 => n \in DOMAIN ss
          BY <1>0, <1>4, <4>2, AppendFacts
        <5> QED BY <2>4, <4>2, <5>1
      <4> QED BY <4>1, <4>2
    <3> QED BY <2>1, <2>2, <3>2, <3>3
  <2> QED BY <2>3, <2>4
<1> QED BY <1>5, <1>6, <1>7 DEF Protocol, q

(* The L1 gets the acknowledgement. *)
LEMMA ProtocolPopped ==
  ASSUME NEW c, NEW l, NEW rs, NEW ss, NEW s, Mail(s, rs, ss), Protocol(c, l, rs, ss), ss # <<>>,
         NEW k, k = [l EXCEPT ![Head(ss)] = IF @ = "Invalidating" THEN "I" ELSE "S"]
  PROVE  Protocol(c, k, rs, Tail(ss))
<1> DEFINE b == Head(ss)
           q == Tail(ss)
<1>0. rs \in Seq(ReplyType) /\ ss \in Seq(Blocks)
  BY DEF Mail
<1>1. /\ b = ss[1] /\ 1 \in DOMAIN ss /\ b \in Blocks
      /\ DOMAIN q \subseteq Nat \ {0}
      /\ \A n \in DOMAIN q : n + 1 \in DOMAIN ss /\ q[n] = ss[n + 1]
  <2>1. /\ b = ss[1] /\ 1 \in DOMAIN ss /\ DOMAIN q = 1 .. Len(ss) - 1 /\ Len(ss) \in Nat
        /\ \A n \in DOMAIN q : n + 1 \in DOMAIN ss /\ q[n] = ss[n + 1]
    BY <1>0, TailFacts
  <2>2. ss[1] \in Blocks
    BY <1>0, <2>1
  <2>3. DOMAIN q \subseteq Nat \ {0}
    BY <2>1
  <2> QED BY <2>1, <2>2, <2>3
<1>2. k \in [Blocks -> States] /\ \A x \in Blocks : x # b => k[x] = l[x]
  BY <1>1 DEF Protocol, States
<1> HIDE DEF b, q
<1>3. /\ l[b] # "M" /\ ~Snooped(rs, 0, b)
      /\ \A n \in DOMAIN ss : ss[n] = b => n = 1
  BY <1>1 DEF Protocol, SnoopsOnce
<1>4. \A n \in DOMAIN q : q[n] # b
  BY <1>1, <1>3
<1>5. Held(c, k, rs)
  BY <1>2, <1>3 DEF Protocol, Held
<1>6. WriteCovered(k, rs)
  <2> SUFFICES ASSUME NEW n \in DOMAIN rs, rs[n].op \in WriteOps
               PROVE  k[BlockOf[Min(rs[n].access)]] = "M" \/ Snooped(rs, n, BlockOf[Min(rs[n].access)])
    BY DEF WriteCovered
  <2>1. l[BlockOf[Min(rs[n].access)]] = "M" \/ Snooped(rs, n, BlockOf[Min(rs[n].access)])
    BY DEF WriteCovered, Protocol
  <2>2. BlockOf[Min(rs[n].access)] \in Blocks
    BY BlockFact DEF Mail, ReplyOK
  <2> QED BY <1>2, <1>3, <2>1, <2>2
<1>7. SnoopsOnce(k, rs, q)
  <2> SUFFICES ASSUME NEW x \in Blocks
               PROVE  /\ Snooped(rs, 0, x) \/ (\E n \in DOMAIN q : q[n] = x) => k[x] \in {"Invalidating", "Downgrading"}
                      /\ \A n, m \in DOMAIN rs : SnoopFor(rs[n], x) /\ SnoopFor(rs[m], x) => n = m
                      /\ \A n, m \in DOMAIN q : q[n] = x /\ q[m] = x => n = m
                      /\ \A n \in DOMAIN q : q[n] = x => ~Snooped(rs, 0, x)
    BY DEF SnoopsOnce
  <2>1. /\ Snooped(rs, 0, x) \/ (\E n \in DOMAIN ss : ss[n] = x) => l[x] \in {"Invalidating", "Downgrading"}
        /\ \A n, m \in DOMAIN rs : SnoopFor(rs[n], x) /\ SnoopFor(rs[m], x) => n = m
        /\ \A n, m \in DOMAIN ss : ss[n] = x /\ ss[m] = x => n = m
        /\ \A n \in DOMAIN ss : ss[n] = x => ~Snooped(rs, 0, x)
    BY DEF Protocol, SnoopsOnce
  <2>2. \A n \in DOMAIN q : q[n] = x => n + 1 \in DOMAIN ss /\ ss[n + 1] = x /\ x # b
    BY <1>1, <1>4
  <2>3. \A n, m \in DOMAIN q : q[n] = x /\ q[m] = x => n = m
    <3> SUFFICES ASSUME NEW n \in DOMAIN q, NEW m \in DOMAIN q, q[n] = x, q[m] = x PROVE n = m
      OBVIOUS
    <3>1. n + 1 = m + 1
      BY <2>1, <2>2
    <3> QED BY <1>1, <3>1
  <2> QED BY <1>2, <1>3, <2>1, <2>2, <2>3
<1> QED BY <1>2, <1>5, <1>6, <1>7 DEF Protocol, b, q

-----------------------------------------------------------------------------
(* The steps.                                                              *)

(* The entries keep their addresses. *)
LEMMA BaseKept ==
  ASSUME NEW c, NEW d, NEW res, BaseFixed(c, res), DOMAIN d.queue = DOMAIN c.queue,
         \A j \in DOMAIN c.queue : d.queue[j].access = c.queue[j].access
  PROVE  BaseFixed(d, res)
  BY DEF BaseFixed

(* A step that changes no address keeps BaseFixed.                         *)
LEMMA StaysBase ==
  ASSUME NEW c, NEW d, NEW res, BaseFixed(c, res), Stays(c, d, {})
  PROVE  BaseFixed(d, res)
  BY BaseKept DEF Stays

(* A core that differs in its ports. *)
LEMMA PortsApart ==
  ASSUME NEW d, NEW e, e.queue = d.queue, e.permission = d.permission
  PROVE  /\ \A res : BaseFixed(d, res) => BaseFixed(e, res)
         /\ Counted(d) => Counted(e)
         /\ \A A : Storing(d, A) => Storing(e, A)
         /\ \A s, rs : StoreOut(d, s, rs) => StoreOut(e, s, rs)
         /\ \A l, rs, ss : Protocol(d, l, rs, ss) => Protocol(e, l, rs, ss)
<1>1. \A q : InQueue(e, q) = InQueue(d, q)
  BY DEF InQueue
<1>2. \A res : BaseFixed(d, res) => BaseFixed(e, res)
  BY DEF BaseFixed
<1>3. \A b : SBOf(e, b) = SBOf(d, b)
  BY <1>1 DEF SBOf
<1>4. Counted(d) => Counted(e)
  BY <1>1, <1>3 DEF Counted
<1>5. \A A : Storing(d, A) => Storing(e, A)
  BY <1>1 DEF Storing, Least
<1>6. \A s, rs : StoreOut(d, s, rs) => StoreOut(e, s, rs)
  BY <1>5 DEF StoreOut
<1>7. \A l, rs, ss : Protocol(d, l, rs, ss) => Protocol(e, l, rs, ss)
  BY DEF Protocol, Held
<1> QED BY <1>2, <1>4, <1>5, <1>6, <1>7

(* The core as it is when the ports were taken, and the operations under way. *)
Sends(d, s, e, t) ==
  /\ e = [d EXCEPT !.ports = None]
  /\ t = IF d.ports = None THEN s ELSE s (+) SetToBag({d.ports})

(* What holds when the ports were taken.                                   *)
LEMMA SentFacts ==
  ASSUME NEW c, NEW d, CoreInv(d), Annulled(d), NEW s, NEW e, NEW t, Sends(d, s, e, t),
         NEW rs, NEW ss, Mail(s, rs, ss), StoreOut(d, s, rs), Outgoing(c, d),
         d.ports # None /\ d.ports[1] = "Store" =>
           (\A x \in DOMAIN s : x[1] # "Store") /\ (\A n \in DOMAIN rs : rs[n].op # "Store")
  PROVE  /\ CoreInv(e) /\ Annulled(e) /\ e.ports = None /\ e.queue = d.queue /\ e.permission = d.permission
         /\ Mail(t, rs, ss) /\ StoreOut(e, t, rs)
<1>1. CoreInv(e) /\ Annulled(e) /\ e.ports = None /\ e.queue = d.queue /\ e.permission = d.permission
  BY PortsTaken DEF Sends
<1>2. Mail(t, rs, ss) /\ StoreOut(d, t, rs)
  <2>1. CASE d.ports = None
    BY <2>1 DEF Sends
  <2>2. CASE d.ports # None
    <3>1. d.ports \in Messages /\ InBlock(d.ports[2]) /\ (d.ports[1] = "Store" => Storing(d, d.ports[2]))
      BY <2>2 DEF Outgoing
    <3>2. Bagged(s)
      BY DEF Mail
    <3>3. Adds(s, d.ports, t)
      BY <2>2, <3>2, BagPut DEF Sends
    <3>4. Mail(t, rs, ss)
      BY <3>1, <3>3, MailSent
    <3>5. d.ports[1] = "Store" =>
            /\ Storing(d, d.ports[2])
            /\ (\A x \in DOMAIN s : x[1] # "Store") /\ (\A n \in DOMAIN rs : rs[n].op # "Store")
      BY <2>2, <3>1
    <3>6. StoreOut(d, t, rs)
      BY <3>3, <3>5, StoreOutSent
    <3> QED BY <3>4, <3>6
  <2> QED BY <2>1, <2>2
<1>3. StoreOut(e, t, rs)
  BY <1>1, <1>2, PortsApart
<1> QED BY <1>1, <1>2, <1>3

(* A step that leaves the store buffer alone keeps what is known of it and *)
(* of the L1.                                                              *)
LEMMA StaysKeeps ==
  ASSUME NEW c, NEW d, NEW E, Stays(c, d, E), CoreInv(c)
  PROVE  /\ \A s, rs : StoreOut(c, s, rs) => StoreOut(d, s, rs)
         /\ \A l, rs, ss : Protocol(c, l, rs, ss) => Protocol(d, l, rs, ss)
         /\ Counted(c) => Counted(d)
<1>1. \A h \in InQueue(c, "SB") : Least(c, h) /\ c.queue[h].mshr =>
         h \in InQueue(d, "SB") /\ Least(d, h) /\ d.queue[h].mshr /\ d.queue[h].access = c.queue[h].access
  BY DEF Stays, InQueue, Least
<1>2. \A s, rs : StoreOut(c, s, rs) => StoreOut(d, s, rs)
  BY <1>1, StoreOutKept
<1>3. \A l, rs, ss : Protocol(c, l, rs, ss) => Protocol(d, l, rs, ss)
  <2>1. \A b \in Blocks : d.permission[b].held => c.permission[b].held
    BY DEF Stays
  <2> QED BY <2>1, ProtocolKept
<1>4. Counted(c) => Counted(d)
  BY CountedSame DEF Stays
<1> QED BY <1>2, <1>3, <1>4

(* The invariant after such a step.                                        *)
LEMMA StaysState ==
  ASSUME NEW nx, NEW c, NEW s, NEW rs, NEW ss, NEW l, NEW mem, NEW res, NEW n,
         CoreState(nx, c, s, rs, ss, l, mem, res, n),
         NEW d, NEW E, Stays(c, d, E), BaseFixed(d, res), Outgoing(c, d), NEW e, NEW t, Sends(d, s, e, t)
  PROVE  CoreState(nx, e, t, rs, ss, l, mem, res, n)
<1>1. CoreInv(d) /\ Annulled(d) /\ CoreInv(c) /\ c \in CoreType /\ Prog /\ Mail(s, rs, ss) /\ StoreOut(c, s, rs)
      /\ Counted(c) /\ Protocol(c, l, rs, ss)
  BY DEF CoreState, Good, Stays, CoreInv, CoreInvBut
<1>2. StoreOut(d, s, rs) /\ Protocol(d, l, rs, ss) /\ Counted(d)
  BY <1>1, StaysKeeps
<1>3. d.ports # None /\ d.ports[1] = "Store" =>
         (\A x \in DOMAIN s : x[1] # "Store") /\ (\A m \in DOMAIN rs : rs[m].op # "Store")
  <2> SUFFICES ASSUME d.ports # None, d.ports[1] = "Store"
               PROVE  (\A x \in DOMAIN s : x[1] # "Store") /\ (\A m \in DOMAIN rs : rs[m].op # "Store")
    OBVIOUS
  <2>1. PICK i \in DOMAIN c.queue : Least(c, i) /\ ~c.queue[i].mshr
    BY DEF Outgoing
  <2> QED BY <1>1, <2>1, NoStoreOut
<1>4. /\ CoreInv(e) /\ Annulled(e) /\ e.ports = None /\ e.queue = d.queue /\ e.permission = d.permission
      /\ Mail(t, rs, ss) /\ StoreOut(e, t, rs)
  BY <1>1, <1>2, <1>3, SentFacts
<1>5. BaseFixed(e, res) /\ Counted(e) /\ Protocol(e, l, rs, ss)
  BY <1>2, <1>4, PortsApart
<1>6. DOMAIN e.queue \subseteq 1 .. nx - 1
  BY <1>4 DEF CoreState, Good, Stays
<1> QED BY <1>4, <1>5, <1>6 DEF CoreState, Good

(* The same for a step of the core.                                        *)
LEMMA StaysStep ==
  ASSUME CoreMemoryInv, NEW d, NEW E, Stays(core, d, E), BaseFixed(d, result), Outgoing(core, d), Become(d), CoreOnly
  PROVE  CoreMemoryInv'
<1>1. Sends(d, sent, core', sent')
  BY DEF Become, Sends
<1>2. CoreState(next, core', sent', replies, snoops, l1, memory, result, disturbed)
  BY <1>1, StaysState DEF CoreMemoryInv
<1> QED BY <1>2, SameProgram DEF CoreOnly

(* The parts of the invariant that every step uses.                        *)
LEMMA InvFacts ==
  ASSUME CoreMemoryInv
  PROVE  /\ Prog /\ CoreInv(core) /\ Annulled(core) /\ core \in CoreType /\ core.ports = None
         /\ BaseFixed(core, result)
         /\ DOMAIN core.queue \subseteq Ids /\ DOMAIN core.queue \subseteq Nat
         /\ Ids = 1 .. Len(program) /\ Len(program) \in Nat
<1>1. /\ Prog /\ CoreInv(core) /\ Annulled(core) /\ core.ports = None
      /\ BaseFixed(core, result)
  BY DEF CoreMemoryInv, CoreState, Good
<1>2. core \in CoreType
  BY <1>1 DEF CoreInv, CoreInvBut
<1>3. DOMAIN core.queue \subseteq Ids
  BY <1>2, EntryTyped
<1>4. Len(program) \in Nat /\ Ids = 1 .. Len(program)
  BY <1>1, ProgFacts
<1>5. Ids \subseteq Nat
  BY <1>4
<1> QED BY <1>1, <1>2, <1>3, <1>4, <1>5

(* An entry accesses one block.                                            *)
LEMMA EntryInBlock ==
  ASSUME Prog, NEW c, CoreInv(c), NEW i \in DOMAIN c.queue, c.queue[i].access # {}
  PROVE  InBlock(c.queue[i].access)
<1>1. c \in CoreType /\ EntryOK(c, i)
  BY DEF CoreInv, CoreInvBut
<1>2. i \in Ids /\ c.queue[i] \in EntryType
  BY <1>1, EntryTyped
<1>3. PICK v \in 1 .. 2 : c.queue[i].access = program[i].access[v]
  BY <1>1 DEF EntryOK
<1>4. \A a, b \in program[i].access[v] : BlockOf[a] = BlockOf[b]
  BY <1>2, ProgFacts
<1>5. c.queue[i].access \subseteq Bytes
  BY <1>2 DEF EntryType
<1> QED BY <1>3, <1>4, <1>5 DEF InBlock

(* The oldest entry. *)
LEMMA HeadFacts ==
  ASSUME CoreMemoryInv, DOMAIN core.queue # {}
  PROVE  QueueHead \in DOMAIN core.queue /\ Least(core, QueueHead)
<1>1. DOMAIN core.queue \subseteq Nat
  BY InvFacts
<1> QED BY <1>1, MinFacts DEF QueueHead, Least

(* The oldest entry of the LSQ.                                            *)
LEMMA LSQHeadFacts ==
  ASSUME CoreMemoryInv, InQueue(core, "LSQ") # {}
  PROVE  /\ LSQHead(core) \in InQueue(core, "LSQ") /\ LSQHead(core) \in DOMAIN core.queue
         /\ \A j \in InQueue(core, "LSQ") : LSQHead(core) <= j
<1>1. DOMAIN core.queue \subseteq Nat
  BY InvFacts
<1>2. InQueue(core, "LSQ") \subseteq DOMAIN core.queue
  BY DEF InQueue
<1>3. InQueue(core, "LSQ") \subseteq Nat
  BY <1>1, <1>2
<1> QED BY <1>2, <1>3, MinFacts DEF LSQHead

(* The oldest entry is in the store buffer unless that is empty.           *)
LEMMA SBHeadFacts ==
  ASSUME CoreMemoryInv, ~sbEmpty(core)
  PROVE  QueueHead \in InQueue(core, "SB") /\ Least(core, QueueHead)
<1>1. PICK j \in InQueue(core, "SB") : TRUE
  BY DEF sbEmpty
<1>2. j \in DOMAIN core.queue
  BY DEF InQueue
<1>3. QueueHead \in DOMAIN core.queue /\ Least(core, QueueHead)
  BY <1>2, HeadFacts
<1>4. QueueHead <= j /\ QueueHead \in Nat /\ j \in Nat
  BY <1>2, <1>3, InvFacts DEF Least
<1>5. core.queue[QueueHead].queue \in {"LSQ", "SB"}
  BY <1>3, InvFacts, EntryTyped DEF EntryType
<1>6. core.queue[QueueHead].queue # "LSQ"
  <2> SUFFICES ASSUME core.queue[QueueHead].queue = "LSQ" PROVE FALSE
    OBVIOUS
  <2>1. QueueHead \in InQueue(core, "LSQ")
    BY <1>3 DEF InQueue
  <2>2. SBOrder(core)
    BY InvFacts DEF CoreInv, CoreInvBut
  <2>3. j < QueueHead
    BY <2>1, <2>2 DEF SBOrder
  <2> QED BY <1>4, <2>3
<1> QED BY <1>3, <1>5, <1>6 DEF InQueue

-----------------------------------------------------------------------------
(* resolveVAddr: the address is the one its base selects.                  *)
LEMMA ResolveStep ==
  ASSUME CoreMemoryInv, NEW i \in Ids, Resolve(i)
  PROVE  CoreMemoryInv'
<1> DEFINE v == Choice(program[i].base)
           d == resolveVAddr(core, i, AccessOf(i))
<1>0. /\ Prog /\ CoreInv(core) /\ Annulled(core) /\ core \in CoreType /\ core.ports = None
      /\ BaseFixed(core, result)
  BY InvFacts
<1>1. /\ i \in InQueue(core, "LSQ") /\ core.queue[i].op # "MEMBAR" /\ core.queue[i].access = {}
      /\ Known(program[i].base) /\ Become(d) /\ CoreOnly /\ i \in DOMAIN core.queue
  BY DEF Resolve, CanResolve, Unresolved, InQueue
<1>2. v \in 1 .. 2 /\ AccessOf(i) = program[i].access[v]
  BY DEF Choice, AccessOf
<1>3. Stays(core, d, {i}) /\ d.queue[i].access = AccessOf(i) /\ d.ports = core.ports
  BY <1>0, <1>1, <1>2, ResolveFacts
<1> HIDE DEF d
<1>4. BaseFixed(d, result)
  <2> SUFFICES ASSUME NEW j \in DOMAIN d.queue, d.queue[j].access # {}, program[j].base \notin DOMAIN d.queue
               PROVE  /\ program[j].base # 0 => result[program[j].base] # None
                      /\ d.queue[j].access =
                           program[j].access[IF program[j].base = 0 \/ Initial(result[program[j].base]) THEN 1 ELSE 2]
    BY DEF BaseFixed
  <2>1. DOMAIN d.queue = DOMAIN core.queue
    BY <1>3 DEF Stays
  <2>2. CASE j = i
    <3>1. Result(program[i].base) = result[program[i].base]
      BY <2>1, <2>2 DEF Result
    <3> QED BY <1>1, <1>2, <1>3, <2>2, <3>1 DEF Known, Choice
  <2>3. CASE j # i
    <3>1. d.queue[j].access = core.queue[j].access
      BY <1>3, <2>1, <2>3 DEF Stays
    <3> QED BY <1>0, <2>1, <3>1 DEF BaseFixed
  <2> QED BY <2>2, <2>3
<1>5. Outgoing(core, d)
  BY <1>0, <1>3 DEF Outgoing
<1> QED BY <1>1, <1>3, <1>4, <1>5, StaysStep

(* unresolveVAddr: the entry has a base in the queue, so it is not the     *)
(* oldest.                                                                 *)
LEMMA UnresolveStep ==
  ASSUME CoreMemoryInv, Unresolve
  PROVE  CoreMemoryInv'
<1> DEFINE i == Min(Misresolved)
           d == unresolveVAddr(core, i)
<1>0. /\ Prog /\ CoreInv(core) /\ Annulled(core) /\ core \in CoreType /\ core.ports = None
      /\ BaseFixed(core, result)
  BY InvFacts
<1>1. Misresolved # {} /\ Become(d) /\ CoreOnly
  BY DEF Unresolve, Settled
<1>2. i \in Misresolved
  <2>1. Misresolved \subseteq DOMAIN core.queue
    BY DEF Misresolved, InQueue
  <2>2. Misresolved \subseteq Nat
    BY <2>1, InvFacts
  <2> QED BY <1>1, <2>2, MinFacts
<1> HIDE DEF i
<1>3. /\ i \in InQueue(core, "LSQ") /\ i \in DOMAIN core.queue /\ i \in Ids /\ core.queue[i].access # {}
      /\ ~(Known(program[i].base) /\ core.queue[i].access = AccessOf(i))
  BY <1>2, InvFacts DEF Misresolved, InQueue, Unresolved
<1>4. program[i].base \in DOMAIN core.queue
  <2> SUFFICES ASSUME program[i].base \notin DOMAIN core.queue PROVE FALSE
    OBVIOUS
  <2>1. Result(program[i].base) = result[program[i].base]
    BY DEF Result
  <2>2. /\ program[i].base # 0 => result[program[i].base] # None
        /\ core.queue[i].access =
             program[i].access[IF program[i].base = 0 \/ Initial(result[program[i].base]) THEN 1 ELSE 2]
    BY <1>0, <1>3 DEF BaseFixed
  <2> QED BY <1>3, <2>1, <2>2 DEF Known, AccessOf, Choice
<1>5. ~Least(core, i)
  <2>1. program[i].base \in Nat \ {0}
    BY <1>4, InvFacts
  <2>2. program[i].base < i
    BY <1>0, <1>3, <2>1, ProgFacts
  <2>3. i \in Nat
    BY <1>3, InvFacts
  <2> QED BY <1>4, <2>1, <2>2, <2>3 DEF Least
<1>6. Stays(core, d, {i}) /\ d.queue[i].access = {} /\ d.ports = core.ports
  BY <1>0, <1>3, <1>5, UnresolveFacts
<1> HIDE DEF d
<1>7. BaseFixed(d, result)
  <2>1. DOMAIN d.queue = DOMAIN core.queue
    BY <1>6 DEF Stays
  <2>2. \A j \in DOMAIN d.queue : j # i => d.queue[j].access = core.queue[j].access
    BY <1>6, <2>1 DEF Stays
  <2> QED BY <1>0, <1>6, <2>1, <2>2 DEF BaseFixed
<1>8. Outgoing(core, d)
  BY <1>0, <1>6 DEF Outgoing
<1> QED BY <1>1, <1>6, <1>7, <1>8, StaysStep

(* updateStoreValue.                                                       *)
LEMMA ValueStep ==
  ASSUME CoreMemoryInv, NEW i \in InQueue(core, "LSQ"), IsStore(core.queue[i]), ~core.queue[i].storeComplete,
         NEW d, d = updateStoreValue(core, i, DataOf(i))
  PROVE  /\ Stays(core, d, {}) /\ d.ports = core.ports /\ BaseFixed(d, result) /\ Outgoing(core, d)
         /\ DataOf(i) \in Values \ {0}
<1> DEFINE v == DataOf(i)
<1>0. /\ Prog /\ CoreInv(core) /\ Annulled(core) /\ core \in CoreType /\ core.ports = None
      /\ BaseFixed(core, result) /\ Ids = 1 .. Len(program) /\ Len(program) \in Nat
      /\ DOMAIN core.queue \subseteq Ids
  BY InvFacts
<1>1. i \in Ids
  BY <1>0 DEF InQueue
<1>2. v \in Values \ {0}
  <2>1. Choice(program[i].from) \in 1 .. 2
    BY DEF Choice
  <2>2. (Choice(program[i].from) - 1) * Len(program) \in {0, Len(program)}
    BY <1>0, <2>1
  <2>3. v \in {i, i + Len(program)}
    BY <2>2, <1>0, <1>1 DEF DataOf
  <2> QED BY <1>0, <1>1, <2>3, BoundsAssumption DEF Values
<1> HIDE DEF v
<1>3. Stays(core, d, {}) /\ d.ports = core.ports
  BY <1>0, <1>2, ValueFacts DEF v
<1>4. BaseFixed(d, result)
  BY <1>0, <1>3, StaysBase
<1>5. Outgoing(core, d)
  BY <1>0, <1>3 DEF Outgoing
<1> QED BY <1>2, <1>3, <1>4, <1>5 DEF v

(* The value of a store is known or changes.                               *)
LEMMA SetValueStep ==
  ASSUME CoreMemoryInv, NEW i \in Ids, SetValue(i)
  PROVE  CoreMemoryInv'
<1> DEFINE d == updateStoreValue(core, i, DataOf(i))
<1>1. /\ i \in InQueue(core, "LSQ") /\ IsStore(core.queue[i]) /\ ~core.queue[i].storeComplete
      /\ Become(d) /\ CoreOnly
  BY DEF SetValue, CanSetValue
<1>2. Stays(core, d, {}) /\ BaseFixed(d, result) /\ Outgoing(core, d)
  BY <1>1, ValueStep
<1> HIDE DEF d
<1> QED BY <1>1, <1>2, StaysStep

(* An annulled store of the LSQ has not been performed.                    *)
LEMMA AnnulledFacts ==
  ASSUME CoreMemoryInv, NEW i \in InQueue(core, "LSQ"), core.queue[i].annulled
  PROVE  core.queue[i].op = "Store" /\ IsStore(core.queue[i]) /\ ~core.queue[i].storeComplete
<1>1. core.queue[i].op = "Store"
  BY InvFacts DEF Annulled, InQueue
<1>2. IsStore(core.queue[i])
  BY <1>1 DEF IsStore
<1> QED BY <1>1, <1>2, InvFacts, NotEngaged

(* A store is reinstated.                                                  *)
LEMMA ReinstateStep ==
  ASSUME CoreMemoryInv, NEW i \in Ids, Reinstate(i)
  PROVE  CoreMemoryInv'
<1> DEFINE d == updateStoreValue(core, i, DataOf(i))
<1>1. /\ i \in InQueue(core, "LSQ") /\ core.queue[i].annulled /\ Become(d)
      /\ disturbed < MaxDisturb /\ disturbed' = disturbed + 1
      /\ UNCHANGED <<program, next, replies, snoops, l1, memory, result>>
  BY DEF Reinstate
<1>2. Stays(core, d, {}) /\ BaseFixed(d, result) /\ Outgoing(core, d)
  BY <1>1, AnnulledFacts, ValueStep
<1> HIDE DEF d
<1>3. Sends(d, sent, core', sent')
  BY <1>1 DEF Become, Sends
<1>4. CoreState(next, core', sent', replies, snoops, l1, memory, result, disturbed)
  BY <1>2, <1>3, StaysState DEF CoreMemoryInv
<1>5. disturbed' \in 0 .. MaxDisturb
  BY <1>1, BoundsAssumption DEF CoreMemoryInv, CoreState
<1>6. CoreState(next', core', sent', replies', snoops', l1', memory', result', disturbed')
  BY <1>1, <1>4, <1>5 DEF CoreState
<1> QED BY <1>1, <1>6, SameProgram

(* annulStoreValue.                                                        *)
LEMMA AnnulStep ==
  ASSUME CoreMemoryInv, NEW i \in Ids, Annul(i)
  PROVE  CoreMemoryInv'
<1> DEFINE d == annulStoreValue(core, i)
<1>0. /\ Prog /\ CoreInv(core) /\ Annulled(core) /\ core \in CoreType /\ core.ports = None
      /\ BaseFixed(core, result)
  BY InvFacts
<1>1. i \in InQueue(core, "LSQ") /\ core.queue[i].op = "Store" /\ Become(d) /\ CoreOnly
  BY DEF Annul
<1>3. Stays(core, d, {}) /\ d.ports = core.ports
  BY <1>0, <1>1, AnnulFacts
<1> HIDE DEF d
<1>4. BaseFixed(d, result)
  BY <1>0, <1>3, StaysBase
<1>5. Outgoing(core, d)
  BY <1>0, <1>3 DEF Outgoing
<1> QED BY <1>1, <1>3, <1>4, <1>5, StaysStep

(* A request for a port.                                                   *)
LEMMA RequestStep ==
  ASSUME CoreMemoryInv, NEW i \in DOMAIN core.queue,
         IsStore(core.queue[i]) =>
           core.queue[i].data # 0 /\ Least(core, i) /\ (core.queue[i].op = "Store" => core.queue[i].queue = "SB"),
         Become(requestPort(core, i)), CoreOnly
  PROVE  CoreMemoryInv'
<1> DEFINE d == requestPort(core, i)
<1>0. /\ CoreInv(core) /\ Annulled(core) /\ core.ports = None /\ BaseFixed(core, result) /\ Become(d)
  BY InvFacts
<1>1. Stays(core, d, {}) /\ d.ports = core.ports
  BY <1>0, RequestStays
<1> HIDE DEF d
<1>2. BaseFixed(d, result)
  BY <1>0, <1>1, StaysBase
<1>3. Outgoing(core, d)
  BY <1>0, <1>1 DEF Outgoing
<1> QED BY <1>0, <1>1, <1>2, <1>3, StaysStep

(* issueStore asks for the oldest store of the store buffer.               *)
LEMMA IssueStoreStep ==
  ASSUME CoreMemoryInv, issueStore
  PROVE  CoreMemoryInv'
<1>1. QueueHead \in InQueue(core, "SB") /\ Least(core, QueueHead)
  BY SBHeadFacts DEF issueStore, CanIssueStore
<1>2. QueueHead \in DOMAIN core.queue /\ core.queue[QueueHead].queue = "SB"
  BY <1>1 DEF InQueue
<1>3. core.queue[QueueHead].data # 0
  BY <1>2, InvFacts DEF CoreInv, CoreInvBut, EntryOK
<1> QED BY <1>1, <1>2, <1>3, RequestStep DEF issueStore

(* issueAtomic asks for an atomic that is the oldest entry.                *)
LEMMA IssueAtomicStep ==
  ASSUME CoreMemoryInv, issueAtomic
  PROVE  CoreMemoryInv'
<1>1. core.queue # None /\ IsAtomic(core.queue[QueueHead]) /\ core.queue[QueueHead].data # 0
  BY DEF issueAtomic, CanIssueAtomic
<1>2. DOMAIN core.queue # {}
  <2> SUFFICES ASSUME DOMAIN core.queue = {} PROVE FALSE
    OBVIOUS
  <2>1. core.queue \in [{} -> EntryType]
    BY InvFacts, EntryTyped
  <2> QED BY <1>1, <2>1, EmptyFunction DEF None
<1>3. QueueHead \in DOMAIN core.queue /\ Least(core, QueueHead)
  BY <1>2, HeadFacts
<1> QED BY <1>1, <1>3, RequestStep DEF issueAtomic, IsAtomic

(* issuePartialSnoop asks for a load.                                      *)
LEMMA IssuePartialStep ==
  ASSUME CoreMemoryInv, issuePartialSnoop
  PROVE  CoreMemoryInv'
<1>1. LSQHead(core) \in DOMAIN core.queue /\ core.queue[LSQHead(core)].partial
  BY LSQHeadFacts DEF issuePartialSnoop, CanIssuePartialSnoop
<1>2. core.queue[LSQHead(core)].op = "Load"
  BY <1>1, InvFacts DEF CoreInv, CoreInvBut, EntryOK
<1> QED BY <1>1, <1>2, RequestStep DEF issuePartialSnoop, IsStore, IsAtomic

(* The arbiter issues a request.                                           *)
LEMMA IssueRequestStep ==
  ASSUME CoreMemoryInv, IssueRequest
  PROVE  CoreMemoryInv'
<1> DEFINE R == IF PriorityRequests # {} THEN PriorityRequests ELSE core.requests
           i == Min(R)
           b == [core EXCEPT !.requests = @ \ {i}]
           d == issue(b, i)
<1>0. /\ Prog /\ CoreInv(core) /\ Annulled(core) /\ core \in CoreType /\ core.ports = None
      /\ BaseFixed(core, result) /\ DOMAIN core.queue \subseteq Nat
  BY InvFacts
<1>1. core.requests # {} /\ Become(d) /\ CoreOnly
  BY DEF IssueRequest
<1>2. core.requests \subseteq DOMAIN core.queue
  BY <1>0 DEF CoreInv, CoreInvBut
<1>3. R # {} /\ R \subseteq core.requests
  BY <1>1 DEF PriorityRequests
<1>4. i \in core.requests
  <2>1. R \subseteq Nat
    BY <1>0, <1>2, <1>3
  <2> HIDE DEF R
  <2> QED BY <1>3, <2>1, MinFacts
<1> HIDE DEF i
<1>5. Stays(core, d, {}) /\ (d.ports = None \/ Ordered(core, i, d))
  BY <1>0, <1>4, IssueFacts
<1> HIDE DEF d
<1>6. BaseFixed(d, result)
  BY <1>0, <1>5, StaysBase
<1>7. Outgoing(core, d)
  <2>1. CASE d.ports = None
    BY <2>1 DEF Outgoing
  <2>2. CASE Ordered(core, i, d)
    <3>1. i \in DOMAIN core.queue
      BY <1>2, <1>4
    <3>2. InBlock(core.queue[i].access)
      BY <1>0, <2>2, <3>1, EntryInBlock DEF Ordered
    <3>3. d.ports \in Messages /\ d.ports[1] = core.queue[i].op /\ d.ports[2] = core.queue[i].access
      BY <2>2, <3>2 DEF Ordered, Messages, InBlock
    <3>4. d.ports[1] = "Store" => Storing(d, d.ports[2]) /\ Least(core, i) /\ ~core.queue[i].mshr
      BY <2>2, <3>3 DEF Ordered
    <3> QED BY <3>1, <3>2, <3>3, <3>4 DEF Outgoing
  <2> QED BY <1>5, <2>1, <2>2
<1> QED BY <1>1, <1>5, <1>6, <1>7, StaysStep

(* The arbiter issues a store prefetch.                                    *)
LEMMA IssuePrefetchStep ==
  ASSUME CoreMemoryInv, IssuePrefetch
  PROVE  CoreMemoryInv'
<1> DEFINE i == Min(core.prefetches)
           b == [core EXCEPT !.prefetches = @ \ {i}]
           d == issueStorePrefetch(b, i)
<1>0. /\ Prog /\ CoreInv(core) /\ Annulled(core) /\ core \in CoreType /\ core.ports = None
      /\ BaseFixed(core, result) /\ DOMAIN core.queue \subseteq Nat
  BY InvFacts
<1>1. core.prefetches # {} /\ Become(d) /\ CoreOnly
  BY DEF IssuePrefetch, CanIssuePrefetch
<1>2. core.prefetches \subseteq DOMAIN core.queue
  BY <1>0 DEF CoreInv, CoreInvBut
<1>4. i \in core.prefetches
  <2>1. core.prefetches \subseteq Nat
    BY <1>0, <1>2
  <2> QED BY <1>1, <2>1, MinFacts
<1> HIDE DEF i
<1>5. Dropped(core, i, b)
  BY <1>0, <1>4, DroppedFacts
<1> HIDE DEF b
<1>6. /\ Stays(core, d, {})
      /\ \/ d.ports = None
         \/ d.ports = <<"StorePrefetch", core.queue[i].access>> /\ core.queue[i].access # {}
  BY <1>0, <1>4, <1>5, PrefetchFacts
<1> HIDE DEF d
<1>7. BaseFixed(d, result)
  BY <1>0, <1>6, StaysBase
<1>8. Outgoing(core, d)
  <2>1. CASE d.ports = None
    BY <2>1 DEF Outgoing
  <2>2. CASE d.ports = <<"StorePrefetch", core.queue[i].access>> /\ core.queue[i].access # {}
    <3>1. InBlock(core.queue[i].access)
      BY <1>0, <1>2, <1>4, <2>2, EntryInBlock
    <3>2. d.ports \in Messages /\ d.ports[1] = "StorePrefetch" /\ d.ports[2] = core.queue[i].access
      BY <2>2, <3>1 DEF Messages, InBlock
    <3> QED BY <3>1, <3>2 DEF Outgoing
  <2> QED BY <1>6, <2>1, <2>2
<1> QED BY <1>1, <1>6, <1>7, <1>8, StaysStep

-----------------------------------------------------------------------------
(* insertLSQ.                                                              *)
LEMMA DispatchStep ==
  ASSUME CoreMemoryInv, Dispatch
  PROVE  CoreMemoryInv'
<1> DEFINE d == insertLSQ(core, next)
<1>0. /\ Prog /\ CoreInv(core) /\ Annulled(core) /\ core \in CoreType /\ core.ports = None
      /\ BaseFixed(core, result) /\ Ids = 1 .. Len(program) /\ Len(program) \in Nat
  BY InvFacts
<1>1. next \in Ids /\ Become(d) /\ next' = next + 1
      /\ UNCHANGED <<program, replies, snoops, l1, memory, result, disturbed>>
  BY DEF Dispatch, CanDispatch
<1>2. /\ DOMAIN core.queue \subseteq 1 .. next - 1 /\ Counted(core) /\ StoreOut(core, sent, replies)
      /\ Mail(sent, replies, snoops) /\ Protocol(core, l1, replies, snoops)
  BY DEF CoreMemoryInv, CoreState, Good
<1>3. \A j \in DOMAIN core.queue : j < next
  BY <1>0, <1>1, <1>2
<1>4. /\ CoreInv(d) /\ Annulled(d) /\ DOMAIN d.queue = DOMAIN core.queue \cup {next}
      /\ \A j \in DOMAIN core.queue : d.queue[j] = core.queue[j]
      /\ d.queue[next] = NewEntry(program[next].op)
      /\ d.permission = core.permission /\ d.ports = core.ports
  BY <1>0, <1>1, <1>3, InsertFacts
<1>5. core' = [d EXCEPT !.ports = None] /\ sent' = sent
  BY <1>0, <1>1, <1>4 DEF Become
<1> HIDE DEF d
<1>6. /\ CoreInv(core') /\ Annulled(core') /\ core'.ports = None
      /\ core'.queue = d.queue /\ core'.permission = d.permission
  BY <1>4, <1>5, PortsTaken
<1>7. d.queue[next].access = {} /\ d.queue[next].queue = "LSQ" /\ next \notin DOMAIN core.queue /\ next \in Nat
  BY <1>0, <1>1, <1>3, <1>4 DEF NewEntry, Unresolved
<1>8. BaseFixed(core', result)
  BY <1>0, <1>4, <1>6, <1>7 DEF BaseFixed
<1>9. InQueue(core', "SB") = InQueue(core, "SB")
  BY <1>4, <1>6, <1>7 DEF InQueue
<1>10. \A x : SBOf(core', x) = SBOf(core, x)
  <2>1. InQueue(core, "SB") \subseteq DOMAIN core.queue
    BY DEF InQueue
  <2> QED BY <1>4, <1>6, <1>9, <2>1 DEF SBOf
<1>11. Counted(core')
  BY <1>2, <1>4, <1>6, <1>9, <1>10 DEF Counted
<1>12. StoreOut(core', sent, replies)
  <2>1. \A h \in InQueue(core, "SB") : Least(core, h) /\ core.queue[h].mshr =>
           h \in InQueue(core', "SB") /\ Least(core', h) /\ core'.queue[h].mshr
           /\ core'.queue[h].access = core.queue[h].access
    <3> SUFFICES ASSUME NEW h \in InQueue(core, "SB"), Least(core, h), core.queue[h].mshr
                 PROVE  h \in InQueue(core', "SB") /\ Least(core', h) /\ core'.queue[h].mshr
                        /\ core'.queue[h].access = core.queue[h].access
      OBVIOUS
    <3>1. h \in DOMAIN core.queue
      BY DEF InQueue
    <3>2. h <= next
      BY <1>0, <1>1, <1>3, <3>1, InvFacts
    <3>3. Least(core', h)
      BY <1>4, <1>6, <3>2 DEF Least
    <3> QED BY <1>4, <1>6, <1>9, <3>1, <3>3
  <2> QED BY <1>2, <2>1, StoreOutKept
<1>13. Protocol(core', l1, replies, snoops)
  BY <1>2, <1>4, <1>6, ProtocolKept
<1>14. DOMAIN core'.queue \subseteq 1 .. next' - 1 /\ next' \in 1 .. Len(program) + 1
  BY <1>0, <1>1, <1>2, <1>4, <1>6
<1>15. Good(next', core', result')
  BY <1>1, <1>6, <1>8, <1>11, <1>14 DEF Good, CoreMemoryInv, CoreState
<1>16. CoreState(next', core', sent', replies', snoops', l1', memory', result', disturbed')
  BY <1>1, <1>2, <1>5, <1>12, <1>13, <1>15 DEF CoreState, CoreMemoryInv
<1> QED BY <1>1, <1>16, SameProgram

(* What is under way and the L1, when nothing is sent and the store buffer *)
(* keeps its stores.                                                       *)
LEMMA QuietStep ==
  ASSUME CoreMemoryInv, NEW d, CoreInv(d), Annulled(d), d.ports = core.ports, Become(d), Counted(d),
         \A h \in InQueue(core, "SB") : Least(core, h) /\ core.queue[h].mshr =>
           h \in InQueue(d, "SB") /\ Least(d, h) /\ d.queue[h].mshr /\ d.queue[h].access = core.queue[h].access,
         \A b \in Blocks : d.permission[b].held => core.permission[b].held
  PROVE  /\ CoreInv(core') /\ Annulled(core') /\ core'.ports = None /\ core'.queue = d.queue
         /\ Counted(core') /\ sent' = sent
         /\ Mail(sent', replies, snoops) /\ StoreOut(core', sent', replies) /\ Protocol(core', l1, replies, snoops)
<1>1. /\ core.ports = None /\ StoreOut(core, sent, replies)
      /\ Mail(sent, replies, snoops) /\ Protocol(core, l1, replies, snoops)
  BY DEF CoreMemoryInv, CoreState, Good
<1>2. core' = [d EXCEPT !.ports = None] /\ sent' = sent
  BY <1>1 DEF Become
<1>3. /\ CoreInv(core') /\ Annulled(core') /\ core'.ports = None
      /\ core'.queue = d.queue /\ core'.permission = d.permission
  BY <1>2, PortsTaken
<1>4. StoreOut(d, sent, replies)
  BY <1>1, StoreOutKept
<1>5. Protocol(d, l1, replies, snoops)
  BY <1>1, ProtocolKept
<1>6. Counted(core') /\ StoreOut(core', sent, replies) /\ Protocol(core', l1, replies, snoops)
  BY <1>3, <1>4, <1>5, PortsApart
<1> QED BY <1>1, <1>2, <1>3, <1>6

(* retireMem: what the entry read becomes the result its dependants were   *)
(* resolved with.                                                          *)
LEMMA RetireStep ==
  ASSUME CoreMemoryInv, Retire
  PROVE  CoreMemoryInv'
<1> DEFINE i == LSQHead(core)
           e == core.queue[i]
           d == retireMem(core, i)
<1>0. /\ Prog /\ CoreInv(core) /\ Annulled(core) /\ core \in CoreType /\ core.ports = None
      /\ BaseFixed(core, result) /\ Ids = 1 .. Len(program) /\ Len(program) \in Nat
      /\ DOMAIN core.queue \subseteq Ids /\ DOMAIN core.queue \subseteq Nat
  BY InvFacts
<1>1. /\ Settled /\ InQueue(core, "LSQ") # {} /\ mayRetire(core, i) /\ Become(d)
      /\ result' = [result EXCEPT ![i] = e.loaded]
      /\ memory' = [b \in Bytes |-> IF IsAtomic(e) /\ ~e.failed /\ b \in e.access THEN e.data ELSE memory[b]]
      /\ UNCHANGED <<program, next, replies, snoops, l1, disturbed>>
  BY DEF Retire, CanRetire
<1>2. i \in InQueue(core, "LSQ") /\ i \in DOMAIN core.queue /\ \A j \in InQueue(core, "LSQ") : i <= j
  BY <1>1, LSQHeadFacts
<1>3. i \in Ids /\ e \in EntryType /\ EntryOK(core, i) /\ e.queue = "LSQ"
  BY <1>0, <1>2, EntryTyped DEF CoreInv, CoreInvBut, InQueue
<1> HIDE DEF i
<1>4. memory' \in [Bytes -> Values]
  <2>1. e.data \in Values /\ memory \in [Bytes -> Values]
    BY <1>3 DEF EntryType, CoreMemoryInv, CoreState
  <2> QED BY <1>1, <2>1
<1>5. /\ result' = [j \in Ids |-> result'[j]]
      /\ result'[i] = e.loaded /\ \A j : j # i => result'[j] = result[j]
  <2>1. result = [j \in Ids |-> result[j]]
    BY DEF CoreMemoryInv, CoreState, Good
  <2> QED BY <1>1, <1>3, <2>1
<1> HIDE DEF d, e
<1>6. /\ CoreInv(d) /\ Annulled(d) /\ d.ports = core.ports /\ Counted(d)
      /\ \A h \in InQueue(core, "SB") : Least(core, h) /\ core.queue[h].mshr =>
           h \in InQueue(d, "SB") /\ Least(d, h) /\ d.queue[h].mshr /\ d.queue[h].access = core.queue[h].access
      /\ \A b \in Blocks : d.permission[b].held => core.permission[b].held
      /\ BaseFixed(d, result') /\ DOMAIN d.queue \subseteq DOMAIN core.queue
  <2>0. Counted(core)
    BY DEF CoreMemoryInv, CoreState, Good
  <2>1. CASE e.op = "Store" /\ ~e.annulled
    <3>1. Ready(i) /\ ~sbFull(core)
      BY <1>1, <2>1 DEF mayRetire, e, IsAtomic
    <3>2. e.access # {}
      <4>1. e.access = AccessOf(i)
        BY <3>1 DEF Ready, e
      <4>2. PICK v \in 1 .. 2 : AccessOf(i) = program[i].access[v]
        BY DEF AccessOf, Choice
      <4>3. program[i].op = "Store"
        BY <1>3, <2>1 DEF EntryOK, e
      <4> QED BY <1>0, <1>3, <4>1, <4>2, <4>3, ProgFacts
    <3>3. e.data # 0
      BY <2>1, <3>1 DEF Ready, e, IsStore
    <3>4. Commits(core, i, d)
      BY <1>0, <1>2, <2>1, <3>2, <3>3, CommitFacts DEF d, e
    <3>5. Counted(d)
      BY <1>0, <1>2, <2>0, <3>1, <3>4, CountedCommit
    <3>6. BaseFixed(d, result')
      <4>1. DOMAIN d.queue = DOMAIN core.queue /\ \A j \in DOMAIN core.queue : d.queue[j].access = core.queue[j].access
        BY <3>4 DEF Commits
      <4>2. \A j : j \notin DOMAIN core.queue => result'[j] = result[j]
        BY <1>2, <1>5
      <4> QED BY <1>0, <4>1, <4>2 DEF BaseFixed
    <3>7. \A h \in InQueue(core, "SB") : Least(core, h) /\ core.queue[h].mshr =>
           h \in InQueue(d, "SB") /\ Least(d, h) /\ d.queue[h].mshr /\ d.queue[h].access = core.queue[h].access
      <4>1. \A h \in InQueue(core, "SB") : h \in InQueue(d, "SB")
        BY <1>2, <3>4 DEF Commits, InQueue
      <4> QED BY <3>4, <4>1 DEF Commits, Least, InQueue
    <3>8. \A b \in Blocks : d.permission[b].held => core.permission[b].held
      BY <3>4 DEF Commits
    <3> QED BY <3>4, <3>5, <3>6, <3>7, <3>8 DEF Commits
  <2>2. CASE ~(e.op = "Store" /\ ~e.annulled)
    <3>1. Without(core, {i}, d, {}) /\ d.permission = core.permission /\ Annulled(d)
      BY <1>0, <1>2, <2>2, LeaveFacts DEF d, e
    <3>2. CoreInv(d)
      BY <3>1 DEF Without, CoreInv
    <3>3. Counted(d)
      <4>1. {i} \cap InQueue(core, "SB") = {}
        BY <1>3 DEF InQueue, e
      <4> QED BY <2>0, <3>1, <4>1, CountedWithout
    <3>4. /\ DOMAIN d.queue = DOMAIN core.queue \ {i}
          /\ \A j \in DOMAIN d.queue : KeepsLoad(core.queue[j], d.queue[j])
      BY <3>1 DEF Without
    <3>5. \A h \in InQueue(core, "SB") : Least(core, h) /\ core.queue[h].mshr =>
           h \in InQueue(d, "SB") /\ Least(d, h) /\ d.queue[h].mshr /\ d.queue[h].access = core.queue[h].access
      <4>1. i \notin InQueue(core, "SB")
        BY <1>3 DEF InQueue, e
      <4>2. \A h \in InQueue(core, "SB") : h \in DOMAIN d.queue /\ KeepsLoad(core.queue[h], d.queue[h])
        BY <3>4, <4>1 DEF InQueue
      <4>3. \A h : Least(core, h) => Least(d, h)
        BY <3>4 DEF Least
      <4> QED BY <4>2, <4>3 DEF KeepsLoad, Keeps, InQueue
    <3>6. BaseFixed(d, result')
      <4> SUFFICES ASSUME NEW j \in DOMAIN d.queue, d.queue[j].access # {}, program[j].base \notin DOMAIN d.queue
                   PROVE  /\ program[j].base # 0 => result'[program[j].base] # None
                          /\ d.queue[j].access =
                               program[j].access[IF program[j].base = 0 \/ Initial(result'[program[j].base]) THEN 1 ELSE 2]
        BY DEF BaseFixed
      <4>1. j \in DOMAIN core.queue /\ j # i /\ d.queue[j].access = core.queue[j].access
        BY <3>4 DEF KeepsLoad, Keeps
      <4>2. CASE program[j].base \notin DOMAIN core.queue
        <5>1. result'[program[j].base] = result[program[j].base]
          BY <1>2, <1>5, <4>2
        <5> QED BY <1>0, <4>1, <4>2, <5>1 DEF BaseFixed
      <4>3. CASE program[j].base \in DOMAIN core.queue
        <5>1. program[j].base = i
          BY <3>4, <4>3
        <5>2. i < j /\ i # 0
          BY <1>0, <1>3, <4>1, <5>1, ProgFacts
        <5>3. core.queue[j].queue = "LSQ"
          <6>1. core.queue[j].queue \in {"LSQ", "SB"}
            BY <1>0, <4>1, EntryTyped DEF EntryType
          <6>2. SBOrder(core)
            BY <1>0 DEF CoreInv, CoreInvBut
          <6>3. core.queue[j].queue = "SB" => j < i
            BY <1>2, <4>1, <6>2 DEF SBOrder, InQueue
          <6>4. i \in Nat /\ j \in Nat
            BY <1>0, <1>2, <4>1
          <6> QED BY <5>2, <6>1, <6>3, <6>4
        <5>4. Known(i) /\ core.queue[j].access = AccessOf(j)
          <6>1. j \in InQueue(core, "LSQ") /\ core.queue[j].access # {}
            BY <4>1, <5>3 DEF InQueue
          <6> QED BY <1>1, <5>1, <6>1 DEF Settled, Misresolved, Unresolved
        <5>5. Result(i) = e.loaded
          BY <1>2 DEF Result, e
        <5>6. e.loaded # None
          BY <5>2, <5>4, <5>5 DEF Known
        <5> QED BY <1>5, <4>1, <5>1, <5>2, <5>4, <5>5, <5>6 DEF AccessOf, Choice
      <4> QED BY <4>2, <4>3
    <3> QED BY <3>1, <3>2, <3>3, <3>4, <3>5, <3>6 DEF Without
  <2> QED BY <2>1, <2>2
<1>7. /\ CoreInv(core') /\ Annulled(core') /\ core'.ports = None /\ core'.queue = d.queue
      /\ Counted(core')
      /\ Mail(sent', replies, snoops) /\ StoreOut(core', sent', replies) /\ Protocol(core', l1, replies, snoops)
  BY <1>1, <1>6, QuietStep
<1>8. BaseFixed(core', result')
  BY <1>6, <1>7 DEF BaseFixed
<1>9. DOMAIN core'.queue \subseteq 1 .. next - 1
  BY <1>6, <1>7 DEF CoreMemoryInv, CoreState, Good
<1>10. Good(next', core', result')
  BY <1>0, <1>1, <1>5, <1>7, <1>8, <1>9 DEF Good, CoreMemoryInv, CoreState
<1>11. CoreState(next', core', sent', replies', snoops', l1', memory', result', disturbed')
  BY <1>1, <1>4, <1>7, <1>10 DEF CoreState, CoreMemoryInv
<1> QED BY <1>1, <1>11, SameProgram

(* doSquash: what stays depends on what stays.                             *)
LEMMA SquashStep ==
  ASSUME CoreMemoryInv, NEW i \in Ids, doSquash(i)
  PROVE  CoreMemoryInv'
<1> DEFINE d == eraseFrom(core, i)
           S == {j \in DOMAIN core.queue : j >= i}
<1>0. /\ Prog /\ CoreInv(core) /\ Annulled(core) /\ core \in CoreType /\ core.ports = None
      /\ BaseFixed(core, result) /\ Ids = 1 .. Len(program) /\ Len(program) \in Nat
      /\ DOMAIN core.queue \subseteq Ids /\ DOMAIN core.queue \subseteq Nat /\ Counted(core)
      /\ CoreInvBut(core, {})
  BY InvFacts DEF CoreMemoryInv, CoreState, Good, CoreInv
<1>1. /\ i \in InQueue(core, "LSQ") /\ Become(d) /\ next' = i /\ disturbed' = disturbed + 1 /\ disturbed < MaxDisturb
      /\ UNCHANGED <<program, replies, snoops, l1, memory, result>>
  BY DEF doSquash
<1>2. Without(core, S, d, {}) /\ d.permission = core.permission
  BY <1>0, <1>1, EraseFromFacts
<1> HIDE DEF d
<1>3. /\ DOMAIN d.queue = DOMAIN core.queue \ S /\ CoreInv(d) /\ d.ports = core.ports
      /\ \A j \in DOMAIN d.queue : KeepsLoad(core.queue[j], d.queue[j])
  BY <1>2 DEF Without, CoreInv
<1>4. Annulled(d)
  BY <1>0, <1>3 DEF Annulled, KeepsLoad, Keeps
<1>5. S \cap InQueue(core, "SB") = {}
  <2> SUFFICES ASSUME NEW j \in InQueue(core, "SB"), j >= i PROVE FALSE
    OBVIOUS
  <2>1. SBOrder(core)
    BY <1>0 DEF CoreInvBut
  <2>2. j < i
    BY <1>1, <2>1 DEF SBOrder
  <2>3. j \in Nat /\ i \in Nat
    BY <1>0, <1>1 DEF InQueue
  <2> QED BY <2>2, <2>3
<1>6. Counted(d)
  BY <1>0, <1>2, <1>5, CountedWithout
<1>7. \A h \in InQueue(core, "SB") : Least(core, h) /\ core.queue[h].mshr =>
         h \in InQueue(d, "SB") /\ Least(d, h) /\ d.queue[h].mshr /\ d.queue[h].access = core.queue[h].access
  <2>1. \A h \in InQueue(core, "SB") : h \in DOMAIN d.queue /\ KeepsLoad(core.queue[h], d.queue[h])
    BY <1>3, <1>5 DEF InQueue
  <2>2. \A h : Least(core, h) => Least(d, h)
    BY <1>3 DEF Least
  <2> QED BY <2>1, <2>2 DEF KeepsLoad, Keeps, InQueue
<1>8. /\ CoreInv(core') /\ Annulled(core') /\ core'.ports = None /\ core'.queue = d.queue
      /\ Counted(core')
      /\ Mail(sent', replies, snoops) /\ StoreOut(core', sent', replies) /\ Protocol(core', l1, replies, snoops)
  BY <1>1, <1>2, <1>3, <1>4, <1>6, <1>7, QuietStep
<1>9. BaseFixed(core', result)
  <2> SUFFICES ASSUME NEW j \in DOMAIN d.queue, d.queue[j].access # {}, program[j].base \notin DOMAIN d.queue
               PROVE  /\ program[j].base # 0 => result[program[j].base] # None
                      /\ d.queue[j].access =
                           program[j].access[IF program[j].base = 0 \/ Initial(result[program[j].base]) THEN 1 ELSE 2]
    BY <1>8 DEF BaseFixed
  <2>1. j \in DOMAIN core.queue /\ ~(j >= i) /\ d.queue[j].access = core.queue[j].access
    BY <1>3 DEF KeepsLoad, Keeps
  <2>2. program[j].base \notin DOMAIN core.queue
    <3> SUFFICES ASSUME program[j].base \in DOMAIN core.queue PROVE FALSE
      OBVIOUS
    <3>1. program[j].base >= i
      BY <1>3
    <3>2. program[j].base \in Ids /\ j \in Ids /\ i \in Ids
      BY <1>0, <2>1
    <3>3. program[j].base # 0 /\ program[j].base \in Nat /\ j \in Nat /\ i \in Nat
      BY <1>0, <3>2
    <3>4. program[j].base < j
      BY <1>0, <3>2, <3>3, ProgFacts
    <3> QED BY <2>1, <3>1, <3>3, <3>4
  <2> QED BY <1>0, <2>1, <2>2 DEF BaseFixed
<1>10. DOMAIN core'.queue \subseteq 1 .. next' - 1 /\ next' \in 1 .. Len(program) + 1
  <2>1. \A j \in DOMAIN core.queue : j \in 1 .. Len(program)
    BY <1>0
  <2> QED BY <1>0, <1>1, <1>3, <1>8, <2>1
<1>11. disturbed' \in 0 .. MaxDisturb
  BY <1>1, BoundsAssumption DEF CoreMemoryInv, CoreState
<1>12. Good(next', core', result')
  BY <1>0, <1>1, <1>8, <1>9, <1>10 DEF Good, CoreMemoryInv, CoreState
<1>13. CoreState(next', core', sent', replies', snoops', l1', memory', result', disturbed')
  BY <1>1, <1>8, <1>11, <1>12 DEF CoreState, CoreMemoryInv
<1> QED BY <1>1, <1>13, SameProgram

(* What the stores of the store buffer hold. *)
LEMMA SBValue ==
  ASSUME CoreMemoryInv, NEW h \in InQueue(core, "SB"), NEW b
  PROVE  StoreValue(core.queue[h], b) \in Values
<1>1. h \in DOMAIN core.queue /\ core.queue[h].queue = "SB"
  BY DEF InQueue
<1>2. core.queue[h] \in EntryType /\ EntryOK(core, h)
  BY <1>1, InvFacts, EntryTyped DEF CoreInv, CoreInvBut
<1>3. core.queue[h].op = "Store"
  BY <1>1, <1>2 DEF EntryOK
<1>4. ~core.queue[h].failed
  BY <1>2, <1>3 DEF EntryOK, IsAtomic
<1> QED BY <1>2, <1>4 DEF StoreValue, EntryType

(* The L1 answers.                                                         *)
LEMMA AnswerStep ==
  ASSUME CoreMemoryInv, NEW x \in DOMAIN sent, Answer(x)
  PROVE  CoreMemoryInv'
<1> DEFINE b == BlockOf[Min(x[2])]
           seen == [a \in x[2] |-> IF OwnStores(a) = {} THEN memory[a]
                                   ELSE StoreValue(core.queue[Max(OwnStores(a))], a)]
           r == [op |-> x[1], access |-> x[2], value |-> IF x[1] \in {"Load", "RMW", "CAS"} THEN seen ELSE None]
<1>0. /\ Prog /\ core \in CoreType /\ Ids = 1 .. Len(program) /\ Len(program) \in Nat
      /\ DOMAIN core.queue \subseteq Ids /\ DOMAIN core.queue \subseteq Nat
      /\ Mail(sent, replies, snoops) /\ StoreOut(core, sent, replies) /\ Protocol(core, l1, replies, snoops)
      /\ memory \in [Bytes -> Values]
  BY InvFacts DEF CoreMemoryInv, CoreState
<1>1. /\ Len(replies) < MaxReplies /\ l1[b] \in {"I", "S", "M"}
      /\ l1' = [l1 EXCEPT ![b] = IF x[1] = "Load" /\ @ # "M" THEN "S" ELSE "M"]
      /\ replies' = Append(replies, r)
      /\ memory' = [a \in Bytes |-> IF x[1] = "Store" /\ a \in x[2]
                                    THEN StoreValue(core.queue[QueueHead], a) ELSE memory[a]]
      /\ sent' = sent (-) SetToBag({x})
      /\ UNCHANGED <<program, next, core, snoops, result, disturbed>>
  BY DEF Answer, CanAnswer
<1>2. x \in Messages /\ InBlock(x[2]) /\ Bagged(sent) /\ b \in Blocks
  BY <1>0, BlockFact DEF Mail
<1>3. seen \in [x[2] -> Values]
  <2> SUFFICES ASSUME NEW a \in x[2], OwnStores(a) # {}
               PROVE  StoreValue(core.queue[Max(OwnStores(a))], a) \in Values
    <3>1. x[2] \subseteq Bytes
      BY <1>2 DEF InBlock
    <3> QED BY <1>0, <3>1
  <2>1. OwnStores(a) \subseteq InQueue(core, "SB")
    BY DEF OwnStores
  <2>2. OwnStores(a) \subseteq 1 .. Len(program)
    BY <1>0, <2>1 DEF InQueue
  <2>3. Max(OwnStores(a)) \in OwnStores(a)
    BY <1>0, <2>2, MaxFacts
  <2> QED BY <2>1, <2>3, SBValue
<1> HIDE DEF seen
<1>4. r \in ReplyType /\ ReplyOK(r)
  <2>1. x[1] \in ReplyOps /\ x[2] \subseteq Bytes
    BY <1>2 DEF Messages, ReplyOps
  <2>2. r.value \in Loaded
    BY <1>3, <2>1 DEF Loaded
  <2>3. r \in ReplyType
    BY <2>1, <2>2 DEF ReplyType
  <2> QED BY <1>2, <1>3, <2>3 DEF ReplyOK
<1>5. r.op = x[1] /\ r.access = x[2] /\ r.op \in ReplyOps
  BY <1>2 DEF Messages, ReplyOps
<1> HIDE DEF r
<1>6. Takes(sent, x, sent')
  BY <1>1, <1>2, BagGet
<1>7. Mail(sent', replies', snoops)
  BY <1>0, <1>1, <1>4, <1>6, MailAnswered
<1>8. StoreOut(core, sent', replies')
  BY <1>0, <1>1, <1>4, <1>5, <1>6, StoreOutAnswered
<1>9. Protocol(core, l1', replies', snoops)
  <2>1. l1' = [l1 EXCEPT ![b] = IF r.op = "Load" /\ @ # "M" THEN "S" ELSE "M"] /\ b = BlockOf[Min(r.access)]
    BY <1>1, <1>5
  <2> HIDE DEF b
  <2> QED BY <1>0, <1>1, <1>2, <1>4, <1>5, <2>1, ProtocolAnswered
<1>10. memory' \in [Bytes -> Values]
  <2> SUFFICES ASSUME x[1] = "Store" PROVE \A a : StoreValue(core.queue[QueueHead], a) \in Values
    BY <1>0, <1>1
  <2>1. PICK h \in InQueue(core, "SB") : TRUE
    BY <1>0 DEF StoreOut, Storing
  <2>2. QueueHead \in InQueue(core, "SB")
    BY SBHeadFacts DEF sbEmpty
  <2> QED BY <2>2, SBValue
<1>11. CoreState(next', core', sent', replies', snoops', l1', memory', result', disturbed')
  BY <1>1, <1>7, <1>8, <1>9, <1>10 DEF CoreState, CoreMemoryInv
<1> QED BY <1>1, <1>11, SameProgram

(* The L1 snoops a block that it has not snooped before.                   *)
LEMMA SnoopStep ==
  ASSUME CoreMemoryInv, NEW b \in Blocks, NEW op \in SnoopOps, Snoop(b, op)
  PROVE  CoreMemoryInv'
<1> DEFINE A == {k \in Bytes : BlockOf[k] = b}
           r == [op |-> op, access |-> A, value |-> None]
           v == IF op = "Invalidate" THEN "Invalidating" ELSE "Downgrading"
<1>0. /\ Mail(sent, replies, snoops) /\ StoreOut(core, sent, replies) /\ Protocol(core, l1, replies, snoops)
      /\ replies \in Seq(ReplyType)
  BY DEF CoreMemoryInv, CoreState, Mail
<1>1. /\ disturbed < MaxDisturb /\ Len(replies) < MaxReplies /\ l1[b] \in {"S", "M"}
      /\ l1' = [l1 EXCEPT ![b] = v]
      /\ replies' = Append(replies, r) /\ disturbed' = disturbed + 1
      /\ UNCHANGED <<program, next, core, sent, snoops, memory, result>>
  BY DEF Snoop
<1>2. InBlock(A)
  <2>1. \E k \in Bytes : BlockOf[k] = b
    BY DEF Blocks
  <2> QED BY <2>1 DEF InBlock
<1>3. BlockOf[Min(A)] = b
  BY <1>2, BlockFact
<1>4. r \in ReplyType
  <2>1. None \in Loaded /\ A \in SUBSET Bytes /\ op \in ReplyOps \cup SnoopOps
    BY DEF Loaded
  <2> QED BY <2>1 DEF ReplyType
<1>5. SnoopFor(r, b) /\ ReplyOK(r) /\ r.op # "Store"
  BY <1>2, <1>3 DEF SnoopFor, ReplyOK, SnoopOps
<1> HIDE DEF r
<1>6. Mail(sent, replies', snoops)
  BY <1>0, <1>1, <1>4, <1>5, MailSnooped
<1>7. StoreOut(core, sent, replies')
  BY <1>0, <1>1, <1>4, <1>5, StoreOutSnooped
<1>8. Protocol(core, l1', replies', snoops)
  <2>1. v \in {"Invalidating", "Downgrading"} /\ l1[b] \in {"I", "S", "M"}
    BY <1>1
  <2> HIDE DEF v
  <2> QED BY <1>0, <1>1, <1>4, <1>5, <2>1, ProtocolSnoop
<1>9. disturbed' \in 0 .. MaxDisturb
  BY <1>1, BoundsAssumption DEF CoreMemoryInv, CoreState
<1>10. CoreState(next', core', sent', replies', snoops', l1', memory', result', disturbed')
  BY <1>1, <1>6, <1>7, <1>8, <1>9 DEF CoreState, CoreMemoryInv
<1> QED BY <1>1, <1>10, SameProgram

(* Another core writes.                                                    *)
LEMMA RemoteWriteStep ==
  ASSUME CoreMemoryInv, NEW b \in Blocks, RemoteWrite(b)
  PROVE  CoreMemoryInv'
<1>1. /\ disturbed < MaxDisturb /\ disturbed' = disturbed + 1
      /\ memory' = [k \in Bytes |-> IF BlockOf[k] = b THEN 2 * Len(program) + disturbed + 1 ELSE memory[k]]
      /\ UNCHANGED <<program, next, core, sent, replies, snoops, l1, result>>
  BY DEF RemoteWrite
<1>2. disturbed \in 0 .. MaxDisturb /\ memory \in [Bytes -> Values] /\ Len(program) \in Nat
  BY InvFacts DEF CoreMemoryInv, CoreState
<1>3. 2 * Len(program) + disturbed + 1 \in Values
  BY <1>1, <1>2, BoundsAssumption DEF Values
<1>4. memory' \in [Bytes -> Values] /\ disturbed' \in 0 .. MaxDisturb
  BY <1>1, <1>2, <1>3, BoundsAssumption
<1>5. CoreState(next', core', sent', replies', snoops', l1', memory', result', disturbed')
  BY <1>1, <1>4 DEF CoreState, CoreMemoryInv
<1> QED BY <1>1, <1>5, SameProgram

(* The L1 takes an acknowledgement.                                        *)
LEMMA PopSnoopStep ==
  ASSUME CoreMemoryInv, PopSnoop
  PROVE  CoreMemoryInv'
<1>0. Mail(sent, replies, snoops) /\ Protocol(core, l1, replies, snoops)
  BY DEF CoreMemoryInv, CoreState
<1>1. /\ snoops # <<>> /\ l1' = [l1 EXCEPT ![Head(snoops)] = IF @ = "Invalidating" THEN "I" ELSE "S"]
      /\ snoops' = Tail(snoops)
      /\ UNCHANGED <<program, next, core, sent, replies, memory, result, disturbed>>
  BY DEF PopSnoop
<1>2. Mail(sent, replies, snoops')
  BY <1>0, <1>1, MailPopped
<1>3. Protocol(core, l1', replies, snoops')
  BY <1>0, <1>1, ProtocolPopped
<1>4. CoreState(next', core', sent', replies', snoops', l1', memory', result', disturbed')
  BY <1>1, <1>2, <1>3 DEF CoreState, CoreMemoryInv
<1> QED BY <1>1, <1>4, SameProgram

(* The core takes a reply.                                                 *)
LEMMA ProcessReplyStep ==
  ASSUME CoreMemoryInv, ProcessReply
  PROVE  CoreMemoryInv'
<1> DEFINE r == Head(replies)
           b == BlockOf[Min(r.access)]
           d == processReply(core, r)
<1>0. /\ Prog /\ CoreInv(core) /\ Annulled(core) /\ core \in CoreType /\ core.ports = None
      /\ BaseFixed(core, result) /\ Counted(core)
      /\ Mail(sent, replies, snoops) /\ StoreOut(core, sent, replies) /\ Protocol(core, l1, replies, snoops)
      /\ replies \in Seq(ReplyType)
  BY InvFacts DEF CoreMemoryInv, CoreState, Mail, Good
<1>1. /\ replies # <<>> /\ (r.op \in SnoopOps => Len(snoops) < MaxSnoops)
      /\ Become(d) /\ snoops' = (IF r.op \in SnoopOps THEN Append(snoops, b) ELSE snoops)
      /\ replies' = Tail(replies)
      /\ UNCHANGED <<program, next, l1, memory, result, disturbed>>
  BY DEF ProcessReply, CanProcessReply, IsSnoop, SnoopOps
<1>2. r \in ReplyType /\ ReplyOK(r)
  <2>1. r = replies[1] /\ 1 \in DOMAIN replies
    BY <1>0, <1>1, TailFacts
  <2> QED BY <1>0, <2>1 DEF Mail
<1>3. /\ InBlock(r.access) /\ r.op \in ReplyOps \cup SnoopOps /\ b \in Blocks
      /\ r.op \in {"Load", "RMW", "CAS"} => r.value \in [r.access -> Values]
  BY <1>2, BlockFact DEF ReplyOK, ReplyType
<1> HIDE DEF r
<1>4. Mail(sent, replies', snoops')
  BY <1>0, <1>1, <1>3, MailProcessed
<1>5. /\ CoreInv(d) /\ Annulled(d) /\ d.ports = core.ports /\ Counted(d) /\ StoreOut(d, sent, replies')
      /\ BaseFixed(d, result) /\ DOMAIN d.queue \subseteq DOMAIN core.queue
      /\ Grants(core, r, b, d)
  <2>1. CASE r.op # "Store"
    <3>1. Answered(core, d, b, r.op \in WriteOps \/ (r.op = "Load" /\ core.permission[b].held))
      BY <1>0, <1>3, <2>1, ReplyFacts
    <3> HIDE DEF d
    <3>2. /\ CoreInv(d) /\ Annulled(d) /\ d.ports = core.ports /\ DOMAIN d.queue = DOMAIN core.queue
          /\ Grants(core, r, b, d)
      BY <3>1 DEF Answered, Permitted, Grants
    <3>3. Counted(d)
      <4>1. /\ \A j \in DOMAIN core.queue : d.queue[j].queue = core.queue[j].queue
            /\ \A j \in InQueue(core, "SB") : d.queue[j].access = core.queue[j].access
            /\ \A x \in Blocks : d.permission[x].count = core.permission[x].count
        BY <3>1 DEF Answered
      <4> QED BY <1>0, <3>2, <4>1, CountedSame
    <3>4. BaseFixed(d, result)
      <4>1. \A j \in DOMAIN core.queue : d.queue[j].access = core.queue[j].access
        BY <3>1 DEF Answered
      <4> QED BY <1>0, <3>2, <4>1, BaseKept
    <3>5. StoreOut(d, sent, replies')
      <4>1. \A h \in InQueue(core, "SB") : Least(core, h) /\ core.queue[h].mshr =>
              h \in InQueue(d, "SB") /\ Least(d, h) /\ d.queue[h].mshr /\ d.queue[h].access = core.queue[h].access
        BY <3>1 DEF Answered, InQueue, Least
      <4>2. StoreOut(core, sent, replies')
        BY <1>0, <1>1, <2>1, StoreOutTail DEF r
      <4> QED BY <4>1, <4>2, StoreOutKept
    <3> QED BY <3>2, <3>3, <3>4, <3>5
  <2>2. CASE r.op = "Store"
    <3>1. Storing(core, r.access) /\ \A e : StoreOut(e, sent, replies')
      BY <1>0, <1>1, <2>2, StoreOutTail DEF r
    <3>2. PICK p : /\ Permit(core, p, b, TRUE)
                   /\ \E i \in DOMAIN core.queue : Stored(p, i, d) /\ core.queue[i].access = r.access
      <4>1. Ends(core, r, b, d)
        BY <1>0, <1>3, <2>2, <3>1, StoreReplyFacts
      <4> QED BY <4>1 DEF Ends
    <3>3. PICK i \in DOMAIN core.queue : Stored(p, i, d)
      BY <3>2
    <3> HIDE DEF d
    <3>4. CoreInv(p) /\ Annulled(p)
      BY <1>0, <3>2, PermitKeeps
    <3>5. p.queue = core.queue /\ p.ports = core.ports
      BY <3>2 DEF Permit
    <3>6. Counted(p)
      <4>1. \A x \in Blocks : p.permission[x].count = core.permission[x].count
        BY <3>2 DEF Permit
      <4> QED BY <1>0, <3>5, <4>1, CountedSame
    <3>7. Counted(d)
      BY <1>0, <3>3, <3>4, <3>6, CountedStored
    <3>8. /\ DOMAIN d.queue = DOMAIN core.queue \ {i} /\ core.queue[i].op = "Store"
          /\ \A j \in DOMAIN d.queue : d.queue[j].access = core.queue[j].access
      BY <3>3, <3>5 DEF Stored
    <3>9. BaseFixed(d, result)
      <4> SUFFICES ASSUME NEW j \in DOMAIN d.queue, d.queue[j].access # {}, program[j].base \notin DOMAIN d.queue
                   PROVE  program[j].base \notin DOMAIN core.queue
        BY <1>0, <3>8 DEF BaseFixed
      <4> SUFFICES ASSUME program[j].base = i PROVE FALSE
        BY <3>8
      <4>1. i \in Ids /\ j \in Ids /\ i # 0
        BY <3>8, InvFacts
      <4>2. program[i].op \in {"Load", "RMW", "CAS"}
        BY <1>0, <4>1, ProgFacts
      <4>3. core.queue[i].op = program[i].op
        BY <1>0 DEF CoreInv, CoreInvBut, EntryOK
      <4> QED BY <3>8, <4>2, <4>3
    <3>10. Grants(core, r, b, d)
      <4>1. \A x \in Blocks : d.permission[x].held => p.permission[x].held
        BY <3>3 DEF Stored
      <4>2. Permitted(core, r, b)
        BY <2>2 DEF Permitted, WriteOps
      <4>3. \A x \in Blocks : x # b /\ p.permission[x].held => core.permission[x].held
        BY <3>2 DEF Permit
      <4> QED BY <4>1, <4>2, <4>3 DEF Grants
    <3> QED BY <3>1, <3>3, <3>5, <3>7, <3>8, <3>9, <3>10 DEF Stored
  <2> QED BY <2>1, <2>2
<1> HIDE DEF d, b
<1>6. Protocol(d, l1, replies', snoops')
  <2>1. b = BlockOf[Min(r.access)] /\ r = Head(replies)
    BY DEF b, r
  <2> QED BY <1>0, <1>1, <1>5, <2>1, ProtocolProcessed
<1>7. core' = [d EXCEPT !.ports = None] /\ sent' = sent
  BY <1>0, <1>1, <1>5 DEF Become
<1>8. /\ CoreInv(core') /\ Annulled(core') /\ core'.ports = None
      /\ core'.queue = d.queue /\ core'.permission = d.permission
  BY <1>5, <1>7, PortsTaken
<1>9. /\ Counted(core') /\ StoreOut(core', sent', replies') /\ Protocol(core', l1, replies', snoops')
      /\ BaseFixed(core', result)
  BY <1>5, <1>6, <1>7, <1>8, PortsApart
<1>10. DOMAIN core'.queue \subseteq 1 .. next - 1
  BY <1>5, <1>8 DEF CoreMemoryInv, CoreState, Good
<1>11. Good(next', core', result')
  BY <1>0, <1>1, <1>8, <1>9, <1>10 DEF Good, CoreMemoryInv, CoreState
<1>12. CoreState(next', core', sent', replies', snoops', l1', memory', result', disturbed')
  BY <1>1, <1>4, <1>7, <1>9, <1>11 DEF CoreState, CoreMemoryInv
<1> QED BY <1>1, <1>12, SameProgram

-----------------------------------------------------------------------------
(* The invariant, and what follows from it.                                *)

(* The invariant holds at the start.                                       *)
LEMMA InitInv ==
  ASSUME Init
  PROVE  CoreMemoryInv
<1>1. Prog
  BY DEF Init, Prog
<1>2. Len(program) \in Nat /\ Ids = 1 .. Len(program)
  BY <1>1, ProgFacts
<1>3. /\ core.queue = <<>> /\ core.mshrs = [k \in Bytes |-> NoMSHR] /\ core.requests = {} /\ core.prefetches = {}
      /\ core.outstanding = {} /\ core.permission = [b \in Blocks |-> [count |-> 0, held |-> FALSE]]
      /\ core.ports = None /\ sent = EmptyBag /\ replies = <<>> /\ snoops = <<>>
      /\ l1 = [b \in Blocks |-> "I"] /\ memory = [b \in Bytes |-> 0] /\ result = [i \in Ids |-> None]
      /\ disturbed = 0 /\ next = 1
  BY DEF Init, None
<1>4. DOMAIN core.queue = {}
  BY <1>3
<1>5. core \in CoreType
  <2>1. core.queue \in Queues
    <3>1. core.queue = [i \in {} |-> core.queue[i]]
      BY <1>3, <1>4
    <3> QED BY <1>4, <3>1, QueueType
  <2>2. core.mshrs \in [Bytes -> MSHR]
    BY <1>3, NoMSHRType
  <2>3. core.permission \in [Blocks -> [count : Int, held : BOOLEAN]]
    BY <1>3
  <2>4. core = [queue |-> core.queue, mshrs |-> core.mshrs, requests |-> core.requests,
                prefetches |-> core.prefetches, outstanding |-> core.outstanding,
                permission |-> core.permission, ports |-> core.ports]
    BY DEF Init
  <2> QED BY <1>3, <2>1, <2>2, <2>3, <2>4 DEF CoreType
<1>6. Linked(core)
  BY <1>3, <1>4 DEF Linked, NoMSHR
<1>7. CoreInv(core) /\ Annulled(core)
  <2>1. (\A i \in DOMAIN core.queue : EntryOK(core, i)) /\ Annulled(core)
    BY <1>4 DEF Annulled
  <2>2. SBOrder(core) /\ NoPartial(core) /\ PortsKnown(core, {})
    BY <1>4 DEF SBOrder, NoPartial, PortsKnown, InQueue
  <2>3. core.requests \subseteq DOMAIN core.queue /\ core.prefetches \subseteq DOMAIN core.queue
    BY <1>3
  <2> QED BY <1>5, <1>6, <2>1, <2>2, <2>3 DEF CoreInv, CoreInvBut
<1>8. InQueue(core, "SB") = {} /\ \A b : SBOf(core, b) = {}
  BY <1>4 DEF InQueue, SBOf
<1>9. Counted(core)
  <2>1. Cardinality(InQueue(core, "SB")) = 0 /\ \A b : Cardinality(SBOf(core, b)) = 0
    BY <1>8, FS_EmptySet, Zenon
  <2>2. \A b \in Blocks : core.permission[b].count = 0
    BY <1>3
  <2>3. 0 <= SBSize
    BY BoundsAssumption
  <2> QED BY <2>1, <2>2, <2>3 DEF Counted
<1>10. Good(next, core, result)
  BY <1>1, <1>2, <1>3, <1>4, <1>7, <1>9 DEF Good, BaseFixed
<1>11. Bagged(sent) /\ DOMAIN sent = {}
  BY <1>3 DEF Bagged, EmptyBag, SetToBag
<1>12. Mail(sent, replies, snoops)
  <2>1. replies \in Seq(ReplyType) /\ snoops \in Seq(Blocks) /\ Len(replies) = 0 /\ Len(snoops) = 0 /\ DOMAIN replies = {}
    BY <1>3
  <2> QED BY <1>11, <2>1, BoundsAssumption DEF Mail
<1>13. StoreOut(core, sent, replies)
  BY <1>3, <1>11 DEF StoreOut
<1>14. Protocol(core, l1, replies, snoops)
  <2>1. DOMAIN replies = {} /\ DOMAIN snoops = {}
    BY <1>3
  <2>2. \A n, b : ~Snooped(replies, n, b)
    BY <2>1 DEF Snooped
  <2>3. SnoopsOnce(l1, replies, snoops) /\ WriteCovered(l1, replies)
    BY <2>1, <2>2 DEF SnoopsOnce, WriteCovered
  <2>4. Held(core, l1, replies)
    BY <1>3 DEF Held
  <2>5. l1 \in [Blocks -> States]
    BY <1>3 DEF States
  <2> QED BY <2>3, <2>4, <2>5 DEF Protocol
<1>15. memory \in [Bytes -> Values] /\ disturbed \in 0 .. MaxDisturb
  BY <1>2, <1>3, BoundsAssumption DEF Values
<1> QED BY <1>10, <1>12, <1>13, <1>14, <1>15 DEF CoreMemoryInv, CoreState

(* Every step keeps it.                                                    *)
LEMMA NextInv ==
  ASSUME CoreMemoryInv, [Next]_vars
  PROVE  CoreMemoryInv'
<1>1. CASE UNCHANGED vars
  <2>1. CoreState(next', core', sent', replies', snoops', l1', memory', result', disturbed')
    BY <1>1 DEF vars, CoreMemoryInv
  <2> QED BY <1>1, <2>1, SameProgram DEF vars
<1>2. CASE Next
  <2>1. ASSUME NEW b \in Blocks, Snoop(b, "Invalidate") \/ Snoop(b, "Downgrade") PROVE CoreMemoryInv'
    <3>1. "Invalidate" \in SnoopOps /\ "Downgrade" \in SnoopOps
      BY DEF SnoopOps
    <3> QED BY <2>1, <3>1, SnoopStep
  <2> QED BY <1>2, <2>1, DispatchStep, UnresolveStep, IssueStoreStep, IssueAtomicStep, IssuePartialStep,
             IssueRequestStep, IssuePrefetchStep, RetireStep, ProcessReplyStep, PopSnoopStep, ResolveStep,
             SetValueStep, AnnulStep, ReinstateStep, SquashStep, AnswerStep, RemoteWriteStep DEF Next
<1> QED BY <1>1, <1>2

(* CoreMemoryInv is an invariant of every program, for all bounds: links,  *)
(* store order, the one store under way and the permissions with the       *)
(* messages that give and take them.                                       *)
THEOREM InvariantHolds == Spec => []CoreMemoryInv
<1>1. Init => CoreMemoryInv
  BY InitInv
<1>2. CoreMemoryInv /\ [Next]_vars => CoreMemoryInv'
  BY NextInv
<1> QED BY <1>1, <1>2, PTL DEF Spec

(* It implies the types.                                                   *)
LEMMA InvTypes ==
  ASSUME CoreMemoryInv
  PROVE  TypeOK
<1>0. /\ Prog /\ CoreInv(core) /\ core \in CoreType /\ core.ports = None /\ Counted(core)
      /\ CoreInvBut(core, {})
  BY InvFacts DEF CoreMemoryInv, CoreState, Good, CoreInv
<1>1. /\ next \in 1 .. Len(program) + 1 /\ DOMAIN core.queue \subseteq 1 .. next - 1
      /\ Len(replies) <= MaxReplies /\ Len(snoops) <= MaxSnoops /\ l1 \in [Blocks -> States]
      /\ memory \in [Bytes -> Values] /\ disturbed \in 0 .. MaxDisturb
  BY DEF CoreMemoryInv, CoreState, Good, Mail, Protocol
<1>2. /\ DOMAIN core = {"queue", "mshrs", "requests", "prefetches", "outstanding", "permission", "ports"}
      /\ core.mshrs \in [Bytes -> MSHR] /\ core.outstanding \subseteq Blocks
      /\ core.permission \in [Blocks -> [count : Int, held : BOOLEAN]]
  BY <1>0 DEF CoreType
<1>3. core.requests \subseteq DOMAIN core.queue /\ core.prefetches \subseteq DOMAIN core.queue
  BY <1>0 DEF CoreInvBut
<1>4. ASSUME NEW i \in DOMAIN core.queue
      PROVE  /\ [core.queue[i] EXCEPT !.loaded = None] \in Entry
             /\ core.queue[i].loaded # None => core.queue[i].loaded \in [core.queue[i].access -> Values]
  <2>1. core.queue[i] \in EntryType /\ EntryOK(core, i)
    BY <1>0, <1>4, EntryTyped DEF CoreInvBut
  <2>2. [core.queue[i] EXCEPT !.loaded = None] \in Entry
    BY <2>1 DEF EntryType, Entry
  <2> QED BY <2>1, <2>2 DEF EntryOK
<1>5. core.permission \in [Blocks -> [count : 0 .. SBSize, held : BOOLEAN]]
  <2>1. ASSUME NEW b \in Blocks PROVE core.permission[b] \in [count : 0 .. SBSize, held : BOOLEAN]
    <3>1. core.permission[b].count = Cardinality(SBOf(core, b)) /\ Cardinality(InQueue(core, "SB")) <= SBSize
      BY <1>0 DEF Counted
    <3>2. /\ Cardinality(SBOf(core, b)) <= Cardinality(InQueue(core, "SB"))
          /\ Cardinality(InQueue(core, "SB")) \in Nat /\ Cardinality(SBOf(core, b)) \in Nat
      BY <1>0, SBFinite
    <3>3. core.permission[b].count \in 0 .. SBSize
      BY <3>1, <3>2, BoundsAssumption
    <3>4. core.permission[b] \in [count : Int, held : BOOLEAN]
      BY <1>2
    <3> QED BY <3>3, <3>4
  <2> QED BY <1>2, <2>1
<1> QED BY <1>0, <1>1, <1>2, <1>3, <1>4, <1>5 DEF TypeOK, States

(* Every state of the memory unit is well typed: in particular the value   *)
(* of a load covers exactly the bytes it accesses, and no block counts     *)
(* more stores than the store buffer holds.                                *)
THEOREM TypesHold == Spec => []TypeOK
<1>1. CoreMemoryInv => TypeOK
  BY InvTypes
<1> QED BY <1>1, InvariantHolds, PTL

(* It implies PermissionKept.                                              *)
LEMMA InvPermission ==
  ASSUME CoreMemoryInv
  PROVE  PermissionKept
<1>1. Counted(core) /\ Held(core, l1, replies)
  BY DEF CoreMemoryInv, CoreState, Good, Protocol
<1> SUFFICES ASSUME NEW b \in Blocks
             PROVE  /\ core.permission[b].count =
                         Cardinality({i \in InQueue(core, "SB") : BlockOf[paddr(core.queue[i])] = b})
                    /\ core.permission[b].held =>
                         \/ l1[b] = "M"
                         \/ \E n \in DOMAIN replies : /\ replies[n].op \in {"Invalidate", "Downgrade"}
                                                      /\ BlockOf[Min(replies[n].access)] = b
  BY DEF PermissionKept
<1>2. core.permission[b].count = Cardinality({i \in InQueue(core, "SB") : BlockOf[paddr(core.queue[i])] = b})
  BY <1>1 DEF Counted, SBOf
<1>3. core.permission[b].held => l1[b] = "M" \/ Snooped(replies, 0, b)
  BY <1>1 DEF Held
<1> QED BY <1>2, <1>3 DEF Snooped, SnoopFor, SnoopOps

(* theSBLines_Permission counts the stores of the store buffer exactly,    *)
(* and a permission the core believes in is backed by the L1 or by a snoop *)
(* that it has yet to see.                                                 *)
THEOREM PermissionsHold == Spec => []PermissionKept
<1>1. CoreMemoryInv => PermissionKept
  BY InvPermission
<1> QED BY <1>1, InvariantHolds, PTL

(* What is linked to an MSHR is issued to memory. *)
LEMMA LinkedIssued ==
  ASSUME NEW c, CoreInv(c), Annulled(c), NEW i \in DOMAIN c.queue, c.queue[i].mshr
  PROVE  status(c.queue[i]) = "IssuedToMemory"
<1> DEFINE e == c.queue[i]
<1>1. EntryOK(c, i) /\ Engaged(c, i) /\ c.queue[i] \in EntryType
  BY EntryTyped DEF CoreInv, CoreInvBut, Engaged
<1>2. e.op # "MEMBAR" /\ e.access # {} /\ e.loaded = None
  BY <1>1 DEF EntryOK
<1>3. e.op = "Store" => e.data # 0 /\ e.queue = "SB"
  BY <1>1 DEF EntryOK, IsStore
<1>4. ~e.annulled
  BY <1>3 DEF Annulled
<1> HIDE DEF e
<1>5. e.mshr
  BY DEF e
<1>6. status(e) = "IssuedToMemory"
  BY <1>2, <1>3, <1>4, <1>5, StatusFacts DEF IsLoad
<1> QED BY <1>6 DEF e

(* It implies LinksMatch, and NoneForgotten for accesses of one size.      *)
LEMMA InvLinks ==
  ASSUME CoreMemoryInv
  PROVE  LinksMatch /\ (SameSize => NoneForgotten)
<1>0. CoreInv(core) /\ Annulled(core) /\ Linked(core) /\ (SameSize => PortsKnown(core, {}))
  BY InvFacts DEF CoreInv, CoreInvBut
<1>1. \A k \in Bytes : core.mshrs[k] # NoMSHR => core.mshrs[k].waiting # {}
  BY <1>0 DEF Linked
<1>2. \A i \in DOMAIN core.queue : core.queue[i].mshr => i \in core.mshrs[paddr(core.queue[i])].waiting
  BY <1>0 DEF Linked
<1>3. \A k \in Bytes : \A i \in core.mshrs[k].waiting :
         /\ i \in DOMAIN core.queue /\ core.queue[i].mshr
         /\ core.queue[i].access = core.mshrs[k].access
         /\ paddr(core.queue[i]) = k
  BY <1>0 DEF Linked
<1>4. \A i \in DOMAIN core.queue : core.queue[i].mshr => status(core.queue[i]) = "IssuedToMemory"
  BY <1>0, LinkedIssued
<1>5. LinksMatch
  BY <1>1, <1>2, <1>3, <1>4 DEF LinksMatch
<1>6. SameSize => NoneForgotten
  BY <1>0 DEF PortsKnown, NoneForgotten
<1> QED BY <1>5, <1>6

(* For every program the two ends of every MSHR link agree, as completeLSQ *)
(* asserts, and no MSHR is left without a waiter.                          *)
THEOREM LinksHold == Spec => []LinksMatch
<1>1. CoreMemoryInv => LinksMatch
  BY InvLinks
<1> QED BY <1>1, InvariantHolds, PTL

(* For a program whose overlapping accesses are the same, also nothing     *)
(* that waits for a port is forgotten by the arbiter and the MSHRs         *)
(* (doLoad: "Port request is already done").                               *)
THEOREM WaitersHold == Spec => [](SameSize => WaitersKnown)
<1>1. CoreMemoryInv => (SameSize => WaitersKnown)
  BY InvLinks DEF WaitersKnown
<1> QED BY <1>1, InvariantHolds, PTL

-----------------------------------------------------------------------------
(* Forwarding.                                                             *)

(* The store a load finds, and what that store supplies.  A store in a     *)
(* delay slot may have been reinstated with the value it had.              *)
Youngest(c, l) == Found(c, l, Unknown)
Supplied(c, l) == Forwarded(c, Youngest(c, l), l)
InASlot(s) == s # NoStore /\ program[s].slot
HasSupply(c, l) ==
  c.queue[l].op = "Load" /\ c.queue[l].access # {} =>
    InASlot(Youngest(c, l)) \/ Supplied(c, l) \in {None, c.queue[l].loaded}
Supply(c) == \A l \in DOMAIN c.queue : HasSupply(c, l)

(* What a queue holds when the program is plain.                           *)
LEMMA PlainEntries ==
  ASSUME Plain, Prog, NEW c, CoreInv(c), NEW i \in DOMAIN c.queue
  PROVE  /\ ~IsAtomic(c.queue[i]) /\ ~c.queue[i].failed /\ i \in Nat
         /\ IsStore(c.queue[i]) <=> c.queue[i].op = "Store"
         /\ IsLoad(c.queue[i]) <=> c.queue[i].op = "Load"
         /\ c.queue[i].op = "Store" => program[i].base = 0
<1>1. c \in CoreType /\ EntryOK(c, i)
  BY DEF CoreInv, CoreInvBut
<1>2. i \in Ids /\ i \in Nat
  <2>1. i \in Ids
    BY <1>1, EntryTyped
  <2>2. Len(program) \in Nat /\ Ids = 1 .. Len(program)
    BY ProgFacts
  <2> QED BY <2>1, <2>2
<1>4. program[i].op \notin {"RMW", "CAS"} /\ (program[i].op = "Store" => program[i].base = 0)
  BY <1>2 DEF Plain
<1>5. c.queue[i].op = program[i].op /\ (c.queue[i].failed => c.queue[i].storeComplete)
      /\ (c.queue[i].storeComplete => IsAtomic(c.queue[i]))
  BY <1>1 DEF EntryOK
<1> QED BY <1>2, <1>4, <1>5 DEF IsAtomic, IsStore, IsLoad

(* The store found is the youngest of the older ones.                      *)
LEMMA YoungestIs ==
  ASSUME Prog, NEW c, CoreInv(c), NEW l \in DOMAIN c.queue
  PROVE  /\ OlderStores(c, l) = {} => Youngest(c, l) = NoStore
         /\ OlderStores(c, l) # {} => /\ Youngest(c, l) \in OlderStores(c, l)
                                      /\ \A s \in OlderStores(c, l) : s <= Youngest(c, l)
         /\ OlderStores(c, l) \subseteq Nat \ {0} /\ OlderStores(c, l) \subseteq DOMAIN c.queue
<1>1. CoreInvBut(c, {}) /\ c \in CoreType
  BY DEF CoreInv, CoreInvBut
<1>2. DOMAIN c.queue \subseteq Nat \ {0}
  <2>1. DOMAIN c.queue \subseteq Ids
    BY <1>1, EntryTyped
  <2>2. Len(program) \in Nat /\ Ids = 1 .. Len(program)
    BY ProgFacts
  <2> QED BY <2>1, <2>2
<1>3. OlderStores(c, l) \subseteq DOMAIN c.queue
  BY DEF OlderStores
<1>4. OlderStores(c, l) # {} => /\ Max(OlderStores(c, l)) \in OlderStores(c, l)
                                /\ \A s \in OlderStores(c, l) : s <= Max(OlderStores(c, l))
  BY <1>1, OlderFacts
<1> QED BY <1>2, <1>3, <1>4 DEF Youngest, Found

(* Whatever is the youngest is found. *)
LEMMA YoungestAs ==
  ASSUME Prog, NEW c, CoreInv(c), NEW l \in DOMAIN c.queue, NEW s \in OlderStores(c, l),
         \A t \in OlderStores(c, l) : t <= s
  PROVE  Youngest(c, l) = s
<1>1. /\ Youngest(c, l) \in OlderStores(c, l) /\ s <= Youngest(c, l) /\ Youngest(c, l) <= s
      /\ OlderStores(c, l) \subseteq Nat \ {0}
  BY YoungestIs
<1>2. s \in Nat /\ Youngest(c, l) \in Nat
  BY <1>1
<1> QED BY <1>1, <1>2

(* A store without a value supplies nothing, and no store supplies nothing. *)
LEMMA SupplyNone ==
  ASSUME NEW c, NEW l, Youngest(c, l) = NoStore \/ c.queue[Youngest(c, l)].data = 0
  PROVE  Supplied(c, l) = None
  BY DEF Supplied, Forwarded

(* What a store supplies depends on its bytes and its value, and on the    *)
(* bytes of the load.                                                      *)
LEMMA SupplyAlike ==
  ASSUME Plain, Prog, NEW c, CoreInv(c), NEW d, CoreInv(d), NEW l \in DOMAIN c.queue \cap DOMAIN d.queue,
         NEW s \in DOMAIN c.queue \cap DOMAIN d.queue,
         Alike(c.queue[l], d.queue[l]), Alike(c.queue[s], d.queue[s])
  PROVE  Forwarded(d, s, l) = Forwarded(c, s, l)
<1>1. ~c.queue[s].failed /\ ~d.queue[s].failed
  BY PlainEntries
<1>2. d.queue[l].access = c.queue[l].access /\ d.queue[s].access = c.queue[s].access /\ d.queue[s].data = c.queue[s].data
  BY DEF Alike
<1>3. \A b : StoreValue(d.queue[s], b) = StoreValue(c.queue[s], b)
  BY <1>1, <1>2 DEF StoreValue
<1>4. [b \in d.queue[l].access |-> StoreValue(d.queue[s], b)] = [b \in c.queue[l].access |-> StoreValue(c.queue[s], b)]
  BY <1>2, <1>3
<1>5. covers(d.queue[s], d.queue[l]) <=> covers(c.queue[s], c.queue[l])
  BY <1>2 DEF covers
<1> QED BY <1>2, <1>4, <1>5 DEF Forwarded

(* The entries of d are entries of c, or have no address; what leaves the  *)
(* queue or loses its address is no store that a load looks at, or it is   *)
(* the oldest entry.                                                       *)
Kin(c, d) ==
  /\ \A j \in DOMAIN d.queue : d.queue[j].access = {} \/ (j \in DOMAIN c.queue /\ Alike(c.queue[j], d.queue[j]))
  /\ \A l \in DOMAIN d.queue : d.queue[l].op = "Load" /\ d.queue[l].access # {} =>
       /\ c.queue[l].loaded # None => d.queue[l].loaded = c.queue[l].loaded
       /\ \A s \in OlderStores(c, l) : (s \in DOMAIN d.queue /\ d.queue[s].access # {}) \/ Least(c, s)

(* A load looks at no other stores than before, except for the oldest      *)
(* entry.                                                                  *)
LEMMA KinOlder ==
  ASSUME NEW c, NEW d, Kin(c, d), NEW l \in DOMAIN d.queue, d.queue[l].op = "Load", d.queue[l].access # {}
  PROVE  /\ OlderStores(d, l) \subseteq OlderStores(c, l)
         /\ \A s \in OlderStores(c, l) : s \in OlderStores(d, l) \/ Least(c, s)
<1>1. l \in DOMAIN c.queue /\ Alike(c.queue[l], d.queue[l])
  BY DEF Kin
<1>2. \A s \in DOMAIN d.queue : d.queue[s].access # {} => s \in DOMAIN c.queue /\ Alike(c.queue[s], d.queue[s])
  BY DEF Kin
<1>3. ASSUME NEW s \in OlderStores(d, l) PROVE s \in OlderStores(c, l)
  <2>1. s \in DOMAIN d.queue /\ d.queue[s].access # {}
    BY <1>3 DEF OlderStores, intersects
  <2>2. s \in DOMAIN c.queue /\ Alike(c.queue[s], d.queue[s])
    BY <1>2, <2>1
  <2> QED BY <1>1, <1>3, <2>2 DEF OlderStores, Alike, intersects, IsStore, IsAtomic
<1>4. ASSUME NEW s \in OlderStores(c, l), ~Least(c, s) PROVE s \in OlderStores(d, l)
  <2>1. s \in DOMAIN d.queue /\ d.queue[s].access # {}
    BY <1>4 DEF Kin
  <2>2. s \in DOMAIN c.queue /\ Alike(c.queue[s], d.queue[s])
    BY <1>2, <2>1
  <2> QED BY <1>1, <1>4, <2>1, <2>2 DEF OlderStores, Alike, intersects, IsStore, IsAtomic
<1> QED BY <1>3, <1>4

(* Such a step keeps Supply: when the oldest entry leaves and was the      *)
(* youngest store of a load, the load looks at none any more.              *)
LEMMA KinSupply ==
  ASSUME Plain, Prog, NEW c, CoreInv(c), NEW d, CoreInv(d), Supply(c), Kin(c, d)
  PROVE  Supply(d)
<1> SUFFICES ASSUME NEW l \in DOMAIN d.queue, d.queue[l].op = "Load", d.queue[l].access # {}, ~InASlot(Youngest(d, l))
             PROVE  Supplied(d, l) \in {None, d.queue[l].loaded}
  BY DEF Supply, HasSupply
<1>1. /\ l \in DOMAIN c.queue /\ Alike(c.queue[l], d.queue[l])
      /\ c.queue[l].loaded # None => d.queue[l].loaded = c.queue[l].loaded
  BY DEF Kin
<1>2. InASlot(Youngest(c, l)) \/ Supplied(c, l) \in {None, c.queue[l].loaded}
  BY <1>1 DEF Supply, HasSupply, Alike
<1>3. /\ OlderStores(d, l) \subseteq OlderStores(c, l)
      /\ \A s \in OlderStores(c, l) : s \in OlderStores(d, l) \/ Least(c, s)
  BY KinOlder
<1>4. CASE OlderStores(d, l) = {}
  <2>1. Youngest(d, l) = NoStore
    BY <1>4, YoungestIs
  <2> QED BY <2>1, SupplyNone
<1>5. CASE OlderStores(d, l) # {}
  <2> DEFINE m == Youngest(c, l)
  <2>1. OlderStores(c, l) # {}
    BY <1>3, <1>5
  <2>2. /\ m \in OlderStores(c, l) /\ \A s \in OlderStores(c, l) : s <= m
        /\ OlderStores(c, l) \subseteq Nat \ {0} /\ OlderStores(c, l) \subseteq DOMAIN c.queue
    BY <1>1, <2>1, YoungestIs
  <2> HIDE DEF m
  <2>3. m \in OlderStores(d, l)
    <3> SUFFICES ASSUME Least(c, m) PROVE m \in OlderStores(d, l)
      BY <1>3, <2>2
    <3>1. PICK s \in OlderStores(d, l) : TRUE
      BY <1>5
    <3>2. s \in OlderStores(c, l) /\ s <= m
      BY <1>3, <2>2
    <3>3. s \in DOMAIN c.queue /\ s \in Nat /\ m \in Nat
      BY <2>2, <3>2
    <3>4. m <= s
      BY <3>3 DEF Least
    <3> QED BY <3>1, <3>2, <3>3, <3>4
  <2>4. \A s \in OlderStores(d, l) : s <= m
    BY <1>3, <2>2
  <2>5. Youngest(d, l) = m
    BY <2>3, <2>4, YoungestAs
  <2>6. m \in DOMAIN d.queue /\ d.queue[m].access # {}
    BY <2>3 DEF OlderStores, intersects
  <2>7. m \in DOMAIN c.queue /\ Alike(c.queue[m], d.queue[m])
    BY <2>6 DEF Kin
  <2>8. Forwarded(d, m, l) = Forwarded(c, m, l)
    BY <1>1, <2>6, <2>7, SupplyAlike
  <2>9. Supplied(d, l) = Supplied(c, l)
    BY <2>5, <2>8 DEF Supplied, m
  <2>10. ~InASlot(Youngest(c, l))
    BY <2>5 DEF m
  <2> QED BY <1>1, <1>2, <2>9, <2>10
<1> QED BY <1>4, <1>5

(* Loads that are repeated have the value of their store. *)
LEMMA LoadedSupply ==
  ASSUME Prog, NEW a, CoreInv(a), NEW d, Loading(a, d), NEW S, Untouched(a, S, d), Filled(a, S, d),
         \A l \in DOMAIN a.queue \ S : HasSupply(a, l)
  PROVE  Supply(d)
<1>1. DOMAIN d.queue = DOMAIN a.queue /\ \A j \in DOMAIN a.queue : Keeps(a.queue[j], d.queue[j])
  BY DEF Loading, Frame
<1> SUFFICES ASSUME NEW l \in DOMAIN a.queue, d.queue[l].op = "Load", d.queue[l].access # {}, ~InASlot(Youngest(d, l))
             PROVE  Supplied(d, l) \in {None, d.queue[l].loaded}
  BY <1>1 DEF Supply, HasSupply
<1>2. a.queue[l].op = "Load" /\ a.queue[l].access # {}
  BY <1>1 DEF Keeps
<1>3. CoreInvBut(a, {})
  BY DEF CoreInv
<1>4. Youngest(d, l) = Youngest(a, l)
  BY <1>3, LoadingForwards DEF Youngest
<1>5. Youngest(a, l) = NoStore \/ (Youngest(a, l) \in DOMAIN a.queue /\ IsStore(a.queue[Youngest(a, l)]))
  BY YoungestIs DEF OlderStores
<1>6. Supplied(d, l) = Supplied(a, l)
  BY <1>3, <1>4, <1>5, LoadingForwards DEF Supplied
<1>7. CASE l \in S
  BY <1>2, <1>6, <1>7 DEF Filled, Supplied, Youngest
<1>8. CASE l \notin S
  BY <1>2, <1>4, <1>6, <1>8 DEF HasSupply, Untouched, KeepsLoad
<1> QED BY <1>7, <1>8

(* The loads that depend on store i look at i and at the stores that i     *)
(* would look at.                                                          *)
LEMMA DependantOlder ==
  ASSUME Plain, Prog, NEW a, CoreInv(a), NEW i \in DOMAIN a.queue, a.queue[i].op = "Store", NEW l \in DependantLoads(a, i)
  PROVE  /\ l \in DOMAIN a.queue /\ a.queue[l].op = "Load"
         /\ OlderStores(a, l) = OlderStores(a, i) \cup (IF a.queue[i].annulled THEN {} ELSE {i})
<1>1. /\ l \in DOMAIN a.queue /\ l > i /\ IsLoad(a.queue[l]) /\ intersects(a.queue[i], a.queue[l])
      /\ \A t \in i + 1 .. l - 1 :
           ~(/\ t \in DOMAIN a.queue /\ a.queue[t].op = "Store" /\ ~a.queue[t].annulled
             /\ intersects(a.queue[i], a.queue[t]))
  BY DEF DependantLoads
<1>2. a.queue[l].op = "Load" /\ i \in Nat /\ l \in Nat
  BY <1>1, PlainEntries
<1>3. a.queue[i].access = a.queue[l].access
  <2>1. i \in Ids /\ l \in Ids /\ EntryOK(a, i) /\ EntryOK(a, l)
    BY <1>1, EntryTyped DEF CoreInv, CoreInvBut
  <2> QED BY <1>1, <2>1, Overlap DEF Plain
<1>4. \A t : intersects(a.queue[t], a.queue[l]) <=> intersects(a.queue[t], a.queue[i])
  BY <1>3 DEF intersects
<1>5. \A t : intersects(a.queue[t], a.queue[i]) <=> intersects(a.queue[i], a.queue[t])
  BY DEF intersects
<1>6. ASSUME NEW t \in DOMAIN a.queue, IsStore(a.queue[t]), ~a.queue[t].annulled, intersects(a.queue[t], a.queue[l])
      PROVE  t < l <=> t <= i
  <2>1. t \in Nat /\ a.queue[t].op = "Store" /\ intersects(a.queue[i], a.queue[t])
    BY <1>4, <1>5, <1>6, PlainEntries
  <2>2. t \notin i + 1 .. l - 1
    BY <1>1, <1>6, <2>1
  <2> QED BY <1>1, <1>2, <2>1, <2>2
<1>7. IsStore(a.queue[i]) /\ intersects(a.queue[i], a.queue[l])
  BY <1>1 DEF IsStore
<1>8. \A t \in DOMAIN a.queue : t \in Nat
  BY PlainEntries
<1>9. ASSUME NEW t PROVE t \in OlderStores(a, l) <=> t \in OlderStores(a, i) \/ (~a.queue[i].annulled /\ t = i)
  <2>1. CASE t = i
    BY <1>1, <1>7, <2>1, <1>2 DEF OlderStores
  <2>2. CASE t # i
    <3>1. t \in OlderStores(a, l) <=> /\ t \in DOMAIN a.queue /\ t < l /\ IsStore(a.queue[t]) /\ ~a.queue[t].annulled
                                      /\ intersects(a.queue[t], a.queue[l])
      BY DEF OlderStores
    <3>2. t \in OlderStores(a, i) <=> /\ t \in DOMAIN a.queue /\ t < i /\ IsStore(a.queue[t]) /\ ~a.queue[t].annulled
                                      /\ intersects(a.queue[t], a.queue[i])
      BY DEF OlderStores
    <3>3. t \in DOMAIN a.queue => (t <= i <=> t < i)
      BY <1>2, <1>8, <2>2
    <3> QED BY <1>4, <1>6, <2>2, <3>1, <3>2, <3>3
  <2> QED BY <2>1, <2>2
<1> QED BY <1>1, <1>2, <1>9

(* A load that looks at no store after i depends on i. *)
LEMMA DependsOn ==
  ASSUME Plain, Prog, NEW a, CoreInv(a), NEW i \in DOMAIN a.queue, NEW l \in DOMAIN a.queue, a.queue[l].op = "Load",
         i < l, intersects(a.queue[i], a.queue[l]), \A t \in OlderStores(a, l) : t <= i
  PROVE  l \in DependantLoads(a, i)
<1>1. i \in Nat /\ l \in Nat /\ l > i
  BY PlainEntries
<1>2. a.queue[i].access = a.queue[l].access
  <2>1. i \in Ids /\ l \in Ids /\ EntryOK(a, i) /\ EntryOK(a, l)
    BY EntryTyped DEF CoreInv, CoreInvBut
  <2> QED BY <2>1, Overlap DEF Plain
<1>3. ASSUME NEW t \in i + 1 .. l - 1, t \in DOMAIN a.queue, a.queue[t].op = "Store", ~a.queue[t].annulled,
             intersects(a.queue[i], a.queue[t])
      PROVE  FALSE
  <2>1. t < l /\ ~(t <= i)
    BY <1>1, <1>3
  <2>2. intersects(a.queue[t], a.queue[l])
    BY <1>2, <1>3 DEF intersects
  <2>3. t \in OlderStores(a, l)
    BY <1>3, <2>1, <2>2 DEF OlderStores, IsStore
  <2> QED BY <2>1, <2>3
<1> QED BY <1>1, <1>3 DEF DependantLoads, IsLoad

(* The load and the store it finds are the same in c and a. *)
LEMMA SameSupply ==
  ASSUME Plain, Prog, NEW c, CoreInv(c), NEW a, CoreInv(a), DOMAIN a.queue = DOMAIN c.queue,
         NEW l \in DOMAIN c.queue, a.queue[l] = c.queue[l], HasSupply(c, l),
         Youngest(a, l) = Youngest(c, l),
         Youngest(c, l) # NoStore => a.queue[Youngest(c, l)] = c.queue[Youngest(c, l)]
  PROVE  HasSupply(a, l)
<1>1. CASE Youngest(c, l) = NoStore
  <2>1. Supplied(a, l) = None
    BY <1>1, SupplyNone
  <2> QED BY <2>1 DEF HasSupply
<1>2. CASE Youngest(c, l) # NoStore
  <2> DEFINE s == Youngest(c, l)
  <2>1. s \in DOMAIN c.queue
    BY <1>2, YoungestIs
  <2>2. Alike(c.queue[l], a.queue[l]) /\ Alike(c.queue[s], a.queue[s])
    BY <1>2 DEF Alike
  <2> HIDE DEF s
  <2>3. Forwarded(a, s, l) = Forwarded(c, s, l)
    BY <2>1, <2>2, SupplyAlike
  <2>4. Supplied(a, l) = Supplied(c, l)
    BY <2>3 DEF Supplied, s
  <2> QED BY <2>4 DEF HasSupply
<1> QED BY <1>1, <1>2

(* Only store i is different in a: it is annulled, or has another value,   *)
(* or now has an address.                                                  *)
Differs(c, i, a) ==
  /\ DOMAIN a.queue = DOMAIN c.queue /\ i \in DOMAIN c.queue
  /\ \A j \in DOMAIN c.queue : j # i => a.queue[j] = c.queue[j]
  /\ a.queue[i].op = "Store" /\ c.queue[i].op = "Store" /\ c.queue[i].access \in {{}, a.queue[i].access}

(* A load that does not depend on i has what it had: it looks at a store   *)
(* that is younger than i, or not at i.                                    *)
LEMMA ApartSupply ==
  ASSUME Plain, Prog, NEW c, CoreInv(c), NEW a, CoreInv(a), NEW i, Differs(c, i, a),
         NEW l \in DOMAIN c.queue, HasSupply(c, l),
         l \notin DependantLoads(a, i) \/ (i \notin OlderStores(c, l) /\ i \notin OlderStores(a, l))
  PROVE  HasSupply(a, l)
<1> SUFFICES ASSUME a.queue[l].op = "Load" PROVE HasSupply(a, l)
  BY DEF HasSupply
<1>1. /\ DOMAIN a.queue = DOMAIN c.queue /\ i \in DOMAIN c.queue /\ l # i
      /\ \A j \in DOMAIN c.queue : j # i => a.queue[j] = c.queue[j]
      /\ a.queue[l] = c.queue[l]
  BY DEF Differs
<1>2. \A t : t # i => (t \in OlderStores(a, l) <=> t \in OlderStores(c, l))
  BY <1>1 DEF OlderStores
<1>3. /\ OlderStores(c, l) \subseteq Nat \ {0} /\ OlderStores(a, l) \subseteq Nat \ {0}
      /\ i \in Nat /\ l \in Nat
  BY <1>1, YoungestIs, PlainEntries
<1>4. CASE i \notin OlderStores(c, l) /\ i \notin OlderStores(a, l)
  <2>1. OlderStores(a, l) = OlderStores(c, l)
    BY <1>2, <1>4
  <2>2. Youngest(a, l) = Youngest(c, l)
    BY <2>1 DEF Youngest, Found
  <2>3. Youngest(c, l) # NoStore => Youngest(c, l) \in OlderStores(c, l) /\ OlderStores(c, l) \subseteq DOMAIN c.queue
    BY YoungestIs
  <2>4. Youngest(c, l) # NoStore => a.queue[Youngest(c, l)] = c.queue[Youngest(c, l)]
    BY <1>1, <1>4, <2>3
  <2> QED BY <1>1, <2>2, <2>4, SameSupply
<1>5. CASE ~(i \notin OlderStores(c, l) /\ i \notin OlderStores(a, l))
  <2>1. i < l /\ intersects(a.queue[i], a.queue[l])
    <3>1. CASE i \in OlderStores(a, l)
      BY <3>1 DEF OlderStores
    <3>2. CASE i \in OlderStores(c, l)
      <4>1. i < l /\ intersects(c.queue[i], c.queue[l])
        BY <3>2 DEF OlderStores
      <4>2. c.queue[i].access = a.queue[i].access
        BY <4>1 DEF Differs, intersects
      <4> QED BY <1>1, <4>1, <4>2 DEF intersects
    <3> QED BY <1>5, <3>1, <3>2
  <2>2. PICK t \in OlderStores(a, l) : ~(t <= i)
    BY <1>1, <1>5, <2>1, DependsOn
  <2>3. t \in OlderStores(c, l) /\ t > i /\ t \in Nat
    <3>1. t \in Nat /\ t # i
      BY <1>3, <2>2
    <3> QED BY <1>2, <1>3, <2>2, <3>1
  <2> DEFINE m == Youngest(c, l)
  <2>4. m \in OlderStores(c, l) /\ \A s \in OlderStores(c, l) : s <= m
    BY <2>3, YoungestIs
  <2> HIDE DEF m
  <2>5. m \in Nat /\ t <= m
    BY <1>3, <2>3, <2>4
  <2>6. m # i /\ i <= m
    BY <1>3, <2>3, <2>5
  <2>7. m \in OlderStores(a, l) /\ \A s \in OlderStores(a, l) : s <= m
    BY <1>2, <2>4, <2>6
  <2>8. Youngest(a, l) = m
    BY <1>1, <2>7, YoungestAs
  <2>9. m \in DOMAIN c.queue
    BY <2>4 DEF OlderStores
  <2>10. a.queue[m] = c.queue[m]
    BY <1>1, <2>6, <2>9
  <2>11. Youngest(c, l) = m
    BY DEF m
  <2> QED BY <1>1, <2>8, <2>10, <2>11, SameSupply
<1> QED BY <1>4, <1>5

(* The loads that depend on a store find the same store. *)
LEMMA DependantsAgree ==
  ASSUME Plain, Prog, NEW a, CoreInv(a), NEW i \in DOMAIN a.queue, a.queue[i].op = "Store"
  PROVE  /\ Agree(a, DependantLoads(a, i))
         /\ ~a.queue[i].annulled => \A l \in DependantLoads(a, i) : Youngest(a, l) = i
<1>1. ASSUME ~a.queue[i].annulled, NEW l \in DependantLoads(a, i) PROVE Youngest(a, l) = i
  <2>1. l \in DOMAIN a.queue /\ OlderStores(a, l) = OlderStores(a, i) \cup {i}
    BY <1>1, DependantOlder
  <2>2. \A t \in OlderStores(a, i) : t < i
    BY DEF OlderStores
  <2>3. \A t \in OlderStores(a, i) : t \in Nat
    BY YoungestIs
  <2>4. i \in Nat
    BY PlainEntries
  <2>5. \A t \in OlderStores(a, l) : t <= i
    BY <2>1, <2>2, <2>3, <2>4
  <2> QED BY <2>1, <2>5, YoungestAs
<1>2. ASSUME a.queue[i].annulled, NEW l \in DependantLoads(a, i) PROVE Youngest(a, l) = Youngest(a, i)
  <2>1. OlderStores(a, l) = OlderStores(a, i) \cup {}
    BY <1>2, DependantOlder
  <2>2. OlderStores(a, i) \cup {} = OlderStores(a, i)
    OBVIOUS
  <2> QED BY <2>1, <2>2 DEF Youngest, Found
<1>3. ASSUME NEW l \in DependantLoads(a, i), NEW m \in DependantLoads(a, i) PROVE Youngest(a, l) = Youngest(a, m)
  BY <1>1, <1>2
<1>4. Agree(a, DependantLoads(a, i))
  BY <1>3 DEF Agree, Youngest
<1> QED BY <1>1, <1>4

(* updateDependantLoads repeats the loads that the change of i concerns.   *)
LEMMA UpdatedSupply ==
  ASSUME Plain, Prog, NEW c, CoreInv(c), Supply(c), NEW a, CoreInv(a), NEW i, Differs(c, i, a),
         NEW d, d = updateDependantLoads(a, i)
  PROVE  Supply(d)
<1>1. DOMAIN a.queue = DOMAIN c.queue /\ i \in DOMAIN a.queue /\ a.queue[i].op = "Store"
  BY DEF Differs
<1>2. CoreInvBut(a, {})
  BY DEF CoreInv
<1>3. Agree(a, DependantLoads(a, i))
  BY <1>1, DependantsAgree
<1>4. Loading(a, d) /\ Untouched(a, DependantLoads(a, i), d) /\ Filled(a, DependantLoads(a, i), d)
  BY <1>1, <1>2, <1>3, UpdateFacts
<1>5. \A l \in DOMAIN a.queue \ DependantLoads(a, i) : HasSupply(a, l)
  BY <1>1, ApartSupply DEF Supply
<1> QED BY <1>4, <1>5, LoadedSupply

(* So does resnoopDependantLoads.                                          *)
LEMMA ResnoopedSupply ==
  ASSUME Plain, Prog, NEW c, CoreInv(c), Supply(c), NEW a, CoreInv(a), NEW i, Differs(c, i, a),
         a.queue[i].annulled, ~Engaged(a, i), NEW d, d = resnoopDependantLoads(a, i)
  PROVE  Supply(d)
<1>1. DOMAIN a.queue = DOMAIN c.queue /\ i \in DOMAIN a.queue /\ a.queue[i].op = "Store" /\ IsStore(a.queue[i])
  BY DEF Differs, IsStore
<1>2. CoreInvBut(a, {}) /\ a \in CoreType
  BY DEF CoreInv, CoreInvBut
<1>3. Agree(a, DependantLoads(a, i))
  BY <1>1, DependantsAgree
<1>4. Hidden(a, i) = a
  <2>1. a.queue[i] \in EntryType /\ a.queue = [j \in DOMAIN a.queue |-> a.queue[j]]
    BY <1>1, <1>2, EntryTyped
  <2>2. [a.queue[i] EXCEPT !.annulled = TRUE] = a.queue[i]
    BY <2>1 DEF EntryType
  <2>3. [a.queue EXCEPT ![i] = a.queue[i]] = a.queue
    BY <1>1, <2>1
  <2>4. [a EXCEPT !.queue = a.queue] = a
    BY <1>2 DEF CoreType
  <2>5. Hidden(a, i) = [a EXCEPT !.queue = [a.queue EXCEPT ![i] = [a.queue[i] EXCEPT !.annulled = TRUE]]]
    BY DEF Hidden
  <2> QED BY <2>2, <2>3, <2>4, <2>5
<1>5. Loading(a, d) /\ Untouched(a, DependantLoads(a, i), d) /\ Filled(a, DependantLoads(a, i), d)
  BY <1>1, <1>2, <1>3, <1>4, ResnoopFacts
<1>6. \A l \in DOMAIN a.queue \ DependantLoads(a, i) : HasSupply(a, l)
  BY <1>1, ApartSupply DEF Supply
<1> QED BY <1>5, <1>6, LoadedSupply

(* Entry i becomes f. *)
LEMMA BecomingDiffers ==
  ASSUME NEW c, NEW i \in DOMAIN c.queue, NEW f, NEW a, Becoming(c, i, f, a),
         c.queue[i].op = "Store", f.op = "Store", c.queue[i].access \in {{}, f.access}
  PROVE  Differs(c, i, a) /\ CoreInv(a)
  BY DEF Becoming, Differs

(* A store in a delay slot is reinstated and no load is told.              *)
LEMMA ReinstatedSupply ==
  ASSUME Plain, Prog, NEW c, CoreInv(c), Supply(c), NEW i, NEW a, CoreInv(a), Differs(c, i, a),
         ~a.queue[i].annulled, program[i].slot
  PROVE  Supply(a)
<1>1. DOMAIN a.queue = DOMAIN c.queue /\ i \in DOMAIN a.queue /\ a.queue[i].op = "Store"
  BY DEF Differs
<1> SUFFICES ASSUME NEW l \in DOMAIN a.queue PROVE HasSupply(a, l)
  BY DEF Supply
<1>2. CASE l \notin DependantLoads(a, i)
  BY <1>1, <1>2, ApartSupply DEF Supply
<1>3. CASE l \in DependantLoads(a, i)
  <2>1. Youngest(a, l) = i
    BY <1>1, <1>3, DependantsAgree
  <2>2. i # NoStore
    <3>1. i \in Ids
      BY <1>1, EntryTyped DEF CoreInv, CoreInvBut
    <3> QED BY <3>1, ProgFacts DEF NoStore
  <2> QED BY <2>1, <2>2 DEF HasSupply, InASlot
<1> QED BY <1>2, <1>3

(* updateStoreValue.                                                       *)
LEMMA ValueSupply ==
  ASSUME Plain, Prog, NEW c, CoreInv(c), Annulled(c), Supply(c), NEW i \in InQueue(c, "LSQ"), IsStore(c.queue[i]),
         ~c.queue[i].storeComplete, NEW v \in Values \ {0}, c.queue[i].data # v \/ program[i].slot,
         NEW d, d = updateStoreValue(c, i, v)
  PROVE  Supply(d)
<1> DEFINE f == [c.queue[i] EXCEPT !.data = v, !.annulled = FALSE]
           a == [c EXCEPT !.queue[i].data = v, !.queue[i].annulled = FALSE]
<1>1. i \in DOMAIN c.queue /\ c.queue[i] \in EntryType
  BY EntryTyped DEF CoreInv, CoreInvBut, InQueue
<1>2. Becoming(c, i, f, a)
  BY ValueSet, Zenon
<1>3. c.queue[i].op = "Store"
  BY <1>1, PlainEntries
<1>4. f.op = "Store" /\ f.access = c.queue[i].access /\ ~f.annulled
  BY <1>1, <1>3 DEF EntryType
<1>5. d = IF c.queue[i].data = v THEN a ELSE updateDependantLoads(a, i)
  BY DEF updateStoreValue
<1> HIDE DEF a, f
<1>6. Differs(c, i, a) /\ CoreInv(a) /\ ~a.queue[i].annulled
  BY <1>1, <1>2, <1>3, <1>4, BecomingDiffers DEF Becoming
<1>7. CASE c.queue[i].data = v
  BY <1>5, <1>6, <1>7, ReinstatedSupply
<1>8. CASE c.queue[i].data # v
  BY <1>5, <1>6, <1>8, UpdatedSupply
<1> QED BY <1>7, <1>8

(* annulStoreValue.                                                        *)
LEMMA AnnulSupply ==
  ASSUME Plain, Prog, NEW c, CoreInv(c), Annulled(c), Supply(c), NEW i \in InQueue(c, "LSQ"), c.queue[i].op = "Store",
         NEW d, d = annulStoreValue(c, i)
  PROVE  Supply(d)
<1> DEFINE f == [c.queue[i] EXCEPT !.annulled = TRUE, !.issued = FALSE]
           a == [c EXCEPT !.queue[i].annulled = TRUE, !.queue[i].issued = FALSE]
<1>1. i \in DOMAIN c.queue /\ c.queue[i] \in EntryType
  BY EntryTyped DEF CoreInv, CoreInvBut, InQueue
<1>2. Becoming(c, i, f, a) /\ ~Engaged(a, i)
  BY AnnulSet
<1>4. f.op = "Store" /\ f.access = c.queue[i].access /\ f.annulled
  BY <1>1 DEF EntryType
<1>5. d = resnoopDependantLoads(a, i)
  BY DEF annulStoreValue
<1> HIDE DEF a, f
<1>6. Differs(c, i, a) /\ CoreInv(a)
  BY <1>1, <1>2, <1>4, BecomingDiffers
<1>7. a.queue[i].annulled
  BY <1>2, <1>4 DEF Becoming
<1> QED BY <1>2, <1>5, <1>6, <1>7, ResnoopedSupply

(* A load that has its address now has looked for its store.               *)
LEMMA ResolveLoad ==
  ASSUME Plain, Prog, NEW c, CoreInv(c), Supply(c), NEW i \in DOMAIN c.queue, c.queue[i].op = "Load",
         NEW f, f.op = "Load", f.access # {}, NEW a, Becoming(c, i, f, a), NEW d, d = doLoad(a, i, Unknown).core
  PROVE  Supply(d)
<1>1. /\ CoreInv(a) /\ DOMAIN a.queue = DOMAIN c.queue /\ a.queue[i] = f
      /\ \A j \in DOMAIN c.queue : j # i => a.queue[j] = c.queue[j]
  BY DEF Becoming
<1>2. CoreInvBut(a, {}) /\ IsLoad(a.queue[i]) /\ a.queue[i].access # {} /\ CacheOK(a, Unknown, i)
  BY <1>1 DEF CoreInv, IsLoad, CacheOK
<1>3. /\ Loading(a, d) /\ \A j \in DOMAIN a.queue \ {i} : KeepsLoad(a.queue[j], d.queue[j])
      /\ d.queue[i].loaded = Forwarded(a, Found(a, i, Unknown), i)
  BY <1>1, <1>2, DoLoadFacts
<1>4. Untouched(a, {i}, d) /\ Filled(a, {i}, d)
  BY <1>3 DEF Untouched, Filled
<1>5. ~IsStore(c.queue[i]) /\ ~IsStore(a.queue[i])
  BY <1>1 DEF IsStore, IsAtomic
<1>6. ASSUME NEW l \in DOMAIN a.queue \ {i} PROVE HasSupply(a, l)
  <2>1. a.queue[l] = c.queue[l] /\ l \in DOMAIN c.queue /\ HasSupply(c, l)
    BY <1>1, <1>6 DEF Supply
  <2>2. OlderStores(a, l) = OlderStores(c, l)
    BY <1>1, <1>5, <2>1 DEF OlderStores
  <2>3. Youngest(a, l) = Youngest(c, l)
    BY <2>2 DEF Youngest, Found
  <2>4. Youngest(c, l) # NoStore => Youngest(c, l) \in OlderStores(c, l)
    BY <2>1, YoungestIs
  <2>5. Youngest(c, l) # NoStore => a.queue[Youngest(c, l)] = c.queue[Youngest(c, l)]
    BY <1>1, <1>5, <2>4 DEF OlderStores
  <2> QED BY <1>1, <2>1, <2>3, <2>5, SameSupply
<1> QED BY <1>1, <1>3, <1>4, <1>6, LoadedSupply

(* A store that is annulled or has no value. *)
LEMMA ResolveStore ==
  ASSUME Plain, Prog, NEW c, CoreInv(c), Supply(c), NEW i, NEW a, CoreInv(a), Differs(c, i, a),
         (a.queue[i].annulled /\ c.queue[i].annulled) \/ (~a.queue[i].annulled /\ a.queue[i].data = 0)
  PROVE  Supply(a)
<1>1. DOMAIN a.queue = DOMAIN c.queue /\ i \in DOMAIN a.queue /\ a.queue[i].op = "Store"
  BY DEF Differs
<1> SUFFICES ASSUME NEW l \in DOMAIN a.queue PROVE HasSupply(a, l)
  BY DEF Supply
<1>2. HasSupply(c, l) /\ l \in DOMAIN c.queue
  BY <1>1 DEF Supply
<1>3. CASE a.queue[i].annulled /\ c.queue[i].annulled
  <2>1. i \notin OlderStores(c, l) /\ i \notin OlderStores(a, l)
    BY <1>3 DEF OlderStores
  <2> QED BY <1>2, <2>1, ApartSupply
<1>4. CASE l \notin DependantLoads(a, i)
  BY <1>2, <1>4, ApartSupply
<1>5. CASE l \in DependantLoads(a, i) /\ ~a.queue[i].annulled /\ a.queue[i].data = 0
  <2>1. Youngest(a, l) = i
    BY <1>1, <1>5, DependantsAgree
  <2>2. Supplied(a, l) = None
    BY <1>5, <2>1, SupplyNone
  <2> QED BY <2>2 DEF HasSupply
<1> QED BY <1>3, <1>4, <1>5

(* resolveVAddr.                                                           *)
LEMMA ResolveSupply ==
  ASSUME Plain, Prog, NEW c, CoreInv(c), Annulled(c), Supply(c), NEW i \in InQueue(c, "LSQ"), c.queue[i].op # "MEMBAR",
         c.queue[i].access = {}, NEW v \in 1 .. 2, NEW A, A = program[i].access[v],
         NEW d, d = resolveVAddr(c, i, A)
  PROVE  Supply(d)
<1> DEFINE e == c.queue[i]
           f == [e EXCEPT !.access = A]
           a == [c EXCEPT !.queue[i].access = A]
<1>1. i \in DOMAIN c.queue /\ e \in EntryType /\ EntryOK(c, i)
  BY EntryTyped DEF CoreInv, CoreInvBut, InQueue
<1>2. Becoming(c, i, f, a) /\ A # {}
  BY ResolveSet
<1>3. /\ f.op = e.op /\ f.access = A /\ f.annulled = e.annulled /\ f.loaded = e.loaded /\ f.data = e.data
      /\ f.annulled \in BOOLEAN
  BY <1>1 DEF EntryType
<1>4. e.op \in {"Load", "Store"}
  <2>1. ~IsAtomic(e)
    BY <1>1, PlainEntries
  <2> QED BY <1>1, <2>1 DEF EntryType, Operations, IsAtomic
<1> HIDE DEF a, f
<1>5. CoreInv(a) /\ a.queue[i] = f
  BY <1>2 DEF Becoming
<1>6. d = IF f.annulled THEN a
          ELSE IF f.op = "Load" THEN doLoad(a, i, Unknown).core
          ELSE IF status(f) = "AwaitingValue" THEN a ELSE updateDependantLoads(a, i)
  <2>1. a = [c EXCEPT !.queue[i].access = A]
    BY DEF a
  <2> QED BY <1>5, <2>1, Zenon DEF resolveVAddr
<1>7. CASE e.op = "Load"
  <2>1. ~f.annulled
    BY <1>1, <1>3, <1>7 DEF Annulled
  <2>2. d = doLoad(a, i, Unknown).core
    BY <1>3, <1>6, <1>7, <2>1
  <2> QED BY <1>1, <1>2, <1>3, <1>7, <2>2, ResolveLoad
<1>8. CASE e.op = "Store"
  <2>1. Differs(c, i, a)
    BY <1>1, <1>2, <1>3, <1>8, BecomingDiffers
  <2>2. CASE f.annulled
    BY <1>3, <1>5, <1>6, <2>1, <2>2, ResolveStore
  <2>3. CASE ~f.annulled /\ status(f) = "AwaitingValue"
    <3>1. f.loaded = None
      BY <1>1, <1>3, <1>8 DEF EntryOK
    <3>2. f.data = 0
      BY <2>3, <3>1, StatusFacts
    <3>3. d = a
      BY <1>3, <1>6, <1>8, <2>3
    <3> QED BY <1>5, <2>1, <2>3, <3>2, <3>3, ResolveStore
  <2>4. CASE ~f.annulled /\ status(f) # "AwaitingValue"
    <3>1. d = updateDependantLoads(a, i)
      BY <1>3, <1>6, <1>8, <2>4
    <3> QED BY <1>5, <2>1, <3>1, UpdatedSupply
  <2> QED BY <1>3, <2>2, <2>3, <2>4
<1> QED BY <1>4, <1>7, <1>8

(* Nothing leaves the queue, and no load loses its value. *)
LEMMA SameKin ==
  ASSUME NEW c, NEW d, DOMAIN d.queue = DOMAIN c.queue,
         \A j \in DOMAIN c.queue : /\ Alike(c.queue[j], d.queue[j])
                                   /\ c.queue[j].loaded # None => d.queue[j].loaded = c.queue[j].loaded
  PROVE  Kin(c, d)
<1>1. \A l : \A s \in OlderStores(c, l) : s \in DOMAIN d.queue /\ d.queue[s].access # {}
  BY DEF OlderStores, intersects, Alike
<1> QED BY <1>1 DEF Kin

(* Every load has the value it had.                                        *)
LEMMA KeptKin ==
  ASSUME NEW c, NEW d, DOMAIN d.queue = DOMAIN c.queue, \A j \in DOMAIN c.queue : SameLoad(c.queue[j], d.queue[j])
  PROVE  Kin(c, d)
  BY SameKin DEF SameLoad

(* What leaves the queue is the oldest entry, no store, annulled, or younger than all that stays. *)
LEMMA GoneKin ==
  ASSUME NEW c, NEW d, NEW S, DOMAIN d.queue = DOMAIN c.queue \ S,
         \A j \in DOMAIN d.queue : SameLoad(c.queue[j], d.queue[j]),
         \A s \in S : \/ Least(c, s) \/ ~IsStore(c.queue[s]) \/ c.queue[s].annulled
                      \/ \A l \in DOMAIN d.queue : ~(s < l)
  PROVE  Kin(c, d)
<1>1. \A l \in DOMAIN d.queue : \A s \in OlderStores(c, l) : (s \in DOMAIN d.queue /\ d.queue[s].access # {}) \/ Least(c, s)
  <2> TAKE l \in DOMAIN d.queue
  <2> TAKE s \in OlderStores(c, l)
  <2>1. s \in DOMAIN c.queue /\ s < l /\ IsStore(c.queue[s]) /\ ~c.queue[s].annulled /\ c.queue[s].access # {}
    BY DEF OlderStores, intersects
  <2>2. CASE s \in S
    BY <2>1, <2>2
  <2>3. CASE s \notin S
    BY <2>1, <2>3 DEF SameLoad, Alike
  <2> QED BY <2>2, <2>3
<1> QED BY <1>1 DEF Kin, SameLoad

(* Supply is about the queue.                                              *)
LEMMA SupplyQueue ==
  ASSUME NEW c, NEW d, d.queue = c.queue, Supply(c)
  PROVE  Supply(d)
<1>1. \A l : OlderStores(d, l) = OlderStores(c, l)
  BY DEF OlderStores
<1>2. \A l : Youngest(d, l) = Youngest(c, l)
  BY <1>1 DEF Youngest, Found
<1>3. \A l : Supplied(d, l) = Supplied(c, l)
  BY <1>2 DEF Supplied, Forwarded
<1> QED BY <1>2, <1>3 DEF Supply, HasSupply

(* issue changes no address and no value.                                  *)
LEMMA IssueQueue ==
  ASSUME NEW b \in CoreType, NEW i \in DOMAIN b.queue, NEW d, d = issue(b, i)
  PROVE  DOMAIN d.queue = DOMAIN b.queue /\ \A j \in DOMAIN b.queue : SameLoad(b.queue[j], d.queue[j])
<1> DEFINE q == [b.queue EXCEPT ![i].mshr = TRUE]
<1>1. d.queue = b.queue \/ d.queue = q
  BY DEF issue, Send, CoreType
<1>2. DOMAIN q = DOMAIN b.queue /\ \A j \in DOMAIN b.queue : SameLoad(b.queue[j], q[j])
  <2>1. b.queue[i] \in EntryType
    BY EntryTyped
  <2>2. /\ DOMAIN q = DOMAIN b.queue /\ q[i] = [b.queue[i] EXCEPT !.mshr = TRUE]
        /\ \A j \in DOMAIN b.queue : j # i => q[j] = b.queue[j]
    OBVIOUS
  <2>3. SameLoad(b.queue[i], q[i])
    BY <2>1, <2>2 DEF SameLoad, Alike, EntryType
  <2> QED BY <2>2, <2>3 DEF SameLoad, Alike
<1> HIDE DEF q
<1> QED BY <1>1, <1>2 DEF SameLoad, Alike

(* issueStorePrefetch does not change the queue.                           *)
LEMMA PrefetchQueue ==
  ASSUME NEW b \in CoreType, NEW i, NEW d, d = issueStorePrefetch(b, i)
  PROVE  d.queue = b.queue
  BY DEF issueStorePrefetch, Send, CoreType

(* The loads of an MSHR have what they waited for. *)
LEMMA CompleteSupply ==
  ASSUME Plain, Prog, NEW c, CoreInv(c), Annulled(c), Supply(c), NEW r, r.access \subseteq Bytes, r.access # {},
         r.op \in {"Load", "RMW", "CAS"}, r.value \in [r.access -> Values], NEW d, d = complete(c, r)
  PROVE  Supply(d)
<1> DEFINE k == Min(r.access)
           m == c.mshrs[k]
           x == LoadsDone(c, k, r.value)
<1>1. k \in Bytes /\ m \in MSHR /\ CoreInvBut(c, {}) /\ Linked(c)
  BY MinByte DEF CoreInv, CoreInvBut, CoreType
<1>2. CASE ~(m.op = r.op /\ m.access = r.access)
  <2>1. d = c
    BY <1>2 DEF complete
  <2> QED BY <2>1
<1>3. CASE m.op = "Load" /\ r.op = "Load" /\ m.access = r.access
  <2>1. d = Wake(x, m)
    BY <1>3 DEF complete, LoadsDone, Freeing
  <2>2. r.value \in [m.access -> Values]
    BY <1>3
  <2>3. /\ Completed(c, x, m.blocked)
        /\ \A j \in DOMAIN c.queue : /\ Alike(c.queue[j], x.queue[j])
                                     /\ c.queue[j].loaded # None => x.queue[j].loaded = c.queue[j].loaded
    BY <1>1, <1>3, <2>2, LoadsDoneFacts
  <2>4. Stays(c, d, {})
    <3> HIDE DEF k, x
    <3> QED BY <1>1, <2>1, <2>3, CompletedWake
  <2> HIDE DEF x, m
  <2>5. x \in CoreType /\ DOMAIN x.queue = DOMAIN c.queue
    BY <2>3 DEF Completed, CoreInvBut
  <2>6. DOMAIN d.queue = DOMAIN x.queue /\ \A j \in DOMAIN x.queue : KeepsLoad(x.queue[j], d.queue[j])
    BY <1>1, <2>1, <2>5, WakeFacts DEF Frame
  <2>7. \A j \in DOMAIN c.queue : /\ Alike(c.queue[j], d.queue[j])
                                  /\ c.queue[j].loaded # None => d.queue[j].loaded = c.queue[j].loaded
    BY <2>3, <2>5, <2>6 DEF Alike, KeepsLoad, Keeps
  <2>8. Kin(c, d)
    BY <2>5, <2>6, <2>7, SameKin
  <2> QED BY <2>4, <2>8, KinSupply DEF Stays
<1>4. CASE m.op = r.op /\ r.op # "Load"
  <2>1. m # NoMSHR
    BY <1>4 DEF NoMSHR
  <2>2. PICK i \in m.waiting : TRUE
    BY <1>1, <2>1 DEF Linked
  <2>3. i \in DOMAIN c.queue /\ c.queue[i].op = m.op
    BY <1>1, <2>2, WaitersFacts
  <2>4. ~IsAtomic(c.queue[i])
    BY <2>3, PlainEntries
  <2> QED BY <1>4, <2>3, <2>4 DEF IsAtomic
<1> QED BY <1>2, <1>3, <1>4

(* invalidate repeats loads, which find their store again.                 *)
LEMMA InvalidateSupply ==
  ASSUME Plain, Prog, NEW c, CoreInv(c), Annulled(c), Supply(c), NEW b, NEW d, d = invalidate(c, b)
  PROVE  Supply(d)
<1>1. PICK x, S : Repeats(c, x, S, d)
  BY InvalidateFacts
<1>2. /\ CoreInv(x) /\ DOMAIN x.queue = DOMAIN c.queue
      /\ \A j \in DOMAIN c.queue : SameLoad(c.queue[j], x.queue[j])
      /\ Loading(x, d) /\ Untouched(x, S, d) /\ Filled(x, S, d)
  BY <1>1 DEF Repeats
<1>3. Supply(x)
  BY <1>2, KeptKin, KinSupply
<1>4. \A l \in DOMAIN x.queue \ S : HasSupply(x, l)
  BY <1>3 DEF Supply
<1> QED BY <1>2, <1>4, LoadedSupply

(* A store that is performed is the oldest entry.                          *)
LEMMA StoredSupply ==
  ASSUME Plain, Prog, NEW c, CoreInv(c), Supply(c), NEW i, NEW d, Stored(c, i, d)
  PROVE  Supply(d)
<1>1. /\ CoreInv(d) /\ Least(c, i) /\ DOMAIN d.queue = DOMAIN c.queue \ {i}
      /\ \A j \in DOMAIN d.queue : SameLoad(c.queue[j], d.queue[j])
  BY DEF Stored
<1>2. Kin(c, d)
  BY <1>1, GoneKin
<1> QED BY <1>1, <1>2, KinSupply

(* processReply.                                                           *)
LEMMA ReplySupply ==
  ASSUME Plain, Prog, NEW c, CoreInv(c), Annulled(c), Supply(c), NEW r, InBlock(r.access), r.op \in ReplyOps \cup SnoopOps,
         r.op \in {"Load", "RMW", "CAS"} => r.value \in [r.access -> Values],
         r.op = "Store" => Storing(c, r.access), NEW d, d = processReply(c, r)
  PROVE  Supply(d)
<1> DEFINE b == BlockOf[Min(r.access)]
           up == acquireWritePermission(c, b)
           down == loseWritePermission(c, b)
<1>1. c \in CoreType /\ b \in Blocks /\ r.access # {} /\ r.access \subseteq Bytes
  BY BlockFact DEF CoreInv, CoreInvBut, InBlock
<1>2. Permit(c, up, b, TRUE) /\ Permit(c, down, b, FALSE)
  BY <1>1, AcquireFacts
<1> HIDE DEF up, down
<1>3. CoreInv(up) /\ Annulled(up) /\ CoreInv(down) /\ Annulled(down) /\ up.queue = c.queue /\ down.queue = c.queue
  <2>1. CoreInv(up) /\ Annulled(up) /\ CoreInv(down) /\ Annulled(down)
    BY <1>2, PermitKeeps
  <2>2. up.queue = c.queue /\ down.queue = c.queue
    BY <1>2 DEF Permit
  <2> QED BY <2>1, <2>2
<1>4. Supply(up) /\ Supply(down)
  BY <1>3, SupplyQueue
<1>5. CASE r.op = "Load"
  <2>1. d = complete(c, r)
    BY <1>5 DEF processReply
  <2> QED BY <1>1, <1>5, <2>1, CompleteSupply
<1>6. CASE r.op \in {"RMW", "CAS"}
  <2>1. d = complete(up, r)
    BY <1>6 DEF processReply, up
  <2> QED BY <1>1, <1>3, <1>4, <1>6, <2>1, CompleteSupply
<1>7. CASE r.op = "StorePrefetch"
  <2>1. d = [up EXCEPT !.outstanding = @ \ {b}]
    BY <1>7 DEF processReply, up
  <2>2. d.queue = up.queue
    BY <1>3, <2>1 DEF CoreInv, CoreInvBut, CoreType
  <2> QED BY <1>4, <2>2, SupplyQueue
<1>8. CASE r.op = "Invalidate"
  <2>1. d = invalidate(down, b)
    BY <1>8 DEF processReply, down
  <2> HIDE DEF b
  <2> QED BY <1>3, <1>4, <2>1, InvalidateSupply
<1>9. CASE r.op = "Downgrade"
  <2>1. d = down
    BY <1>9 DEF processReply, down
  <2> QED BY <1>4, <2>1
<1>10. CASE r.op = "Store"
  <2>1. Ends(c, r, b, d)
    BY <1>10, StoreReplyFacts
  <2>2. PICK p : Permit(c, p, b, TRUE) /\ \E i \in DOMAIN c.queue : Stored(p, i, d)
    BY <2>1 DEF Ends
  <2>3. CoreInv(p) /\ p.queue = c.queue
    BY <2>2, PermitKeeps DEF Permit
  <2>4. Supply(p)
    BY <2>3, SupplyQueue
  <2> QED BY <2>2, <2>3, <2>4, StoredSupply
<1> QED BY <1>5, <1>6, <1>7, <1>8, <1>9, <1>10 DEF ReplyOps, SnoopOps

-----------------------------------------------------------------------------
(* What the ports held does not matter.                                    *)
LEMMA BecomeSupply ==
  ASSUME NEW d, CoreInv(d), Supply(d), Become(d)
  PROVE  Supply(core')
<1>1. core'.queue = d.queue
  BY DEF Become, CoreInv, CoreInvBut, CoreType
<1> QED BY <1>1, SupplyQueue

(* The step of such a call.                                                *)
LEMMA KinStep ==
  ASSUME Plain, CoreMemoryInv, Supply(core), NEW d, CoreInv(d), Kin(core, d), Become(d)
  PROVE  Supply(core')
<1>1. Prog /\ CoreInv(core)
  BY InvFacts
<1>2. Supply(d)
  BY <1>1, KinSupply
<1> QED BY <1>2, BecomeSupply

(* resolveVAddr.                                                           *)
LEMMA ResolveStepSupply ==
  ASSUME Plain, CoreMemoryInv, Supply(core), NEW i \in Ids, Resolve(i)
  PROVE  Supply(core')
<1> DEFINE v == Choice(program[i].base)
           d == resolveVAddr(core, i, AccessOf(i))
<1>0. Prog /\ CoreInv(core) /\ Annulled(core)
  BY InvFacts
<1>1. /\ i \in InQueue(core, "LSQ") /\ core.queue[i].op # "MEMBAR" /\ core.queue[i].access = {} /\ Become(d)
  BY DEF Resolve, CanResolve, Unresolved
<1>2. v \in 1 .. 2 /\ AccessOf(i) = program[i].access[v]
  BY DEF Choice, AccessOf
<1>3. CoreInv(d)
  BY <1>0, <1>1, <1>2, ResolveFacts DEF Stays
<1>4. Supply(d)
  BY <1>0, <1>1, <1>2, ResolveSupply
<1> HIDE DEF d
<1> QED BY <1>1, <1>3, <1>4, BecomeSupply

(* updateStoreValue, with another value or for a store in a delay slot.    *)
LEMMA ValueStepSupply ==
  ASSUME Plain, CoreMemoryInv, Supply(core), NEW i \in InQueue(core, "LSQ"), IsStore(core.queue[i]),
         ~core.queue[i].storeComplete, core.queue[i].data # DataOf(i) \/ program[i].slot,
         NEW d, d = updateStoreValue(core, i, DataOf(i)), Become(d)
  PROVE  Supply(core')
<1>0. Prog /\ CoreInv(core) /\ Annulled(core)
  BY InvFacts
<1>1. CoreInv(d) /\ DataOf(i) \in Values \ {0}
  BY ValueStep DEF Stays
<1>2. Supply(d)
  BY <1>0, <1>1, ValueSupply
<1> QED BY <1>1, <1>2, BecomeSupply

(* The value of a store is known or changes.                               *)
LEMMA SetValueStepSupply ==
  ASSUME Plain, CoreMemoryInv, Supply(core), NEW i \in Ids, SetValue(i)
  PROVE  Supply(core')
<1>1. /\ i \in InQueue(core, "LSQ") /\ IsStore(core.queue[i]) /\ ~core.queue[i].storeComplete
      /\ core.queue[i].data # DataOf(i) /\ Become(updateStoreValue(core, i, DataOf(i)))
  BY DEF SetValue, CanSetValue
<1> QED BY <1>1, ValueStepSupply

(* A store is reinstated.                                                  *)
LEMMA ReinstateStepSupply ==
  ASSUME Plain, CoreMemoryInv, Supply(core), NEW i \in Ids, Reinstate(i)
  PROVE  Supply(core')
<1>1. /\ i \in InQueue(core, "LSQ") /\ core.queue[i].annulled /\ program[i].slot
      /\ Become(updateStoreValue(core, i, DataOf(i)))
  BY DEF Reinstate
<1>2. IsStore(core.queue[i]) /\ ~core.queue[i].storeComplete
  BY <1>1, AnnulledFacts
<1> QED BY <1>1, <1>2, ValueStepSupply

(* annulStoreValue.                                                        *)
LEMMA AnnulStepSupply ==
  ASSUME Plain, CoreMemoryInv, Supply(core), NEW i \in Ids, Annul(i)
  PROVE  Supply(core')
<1> DEFINE d == annulStoreValue(core, i)
<1>0. Prog /\ CoreInv(core) /\ Annulled(core)
  BY InvFacts
<1>1. i \in InQueue(core, "LSQ") /\ core.queue[i].op = "Store" /\ Become(d)
  BY DEF Annul
<1>3. CoreInv(d)
  BY <1>0, <1>1, AnnulFacts DEF Stays
<1>4. Supply(d)
  BY <1>0, <1>1, AnnulSupply
<1> HIDE DEF d
<1> QED BY <1>1, <1>3, <1>4, BecomeSupply

(* Only loads take their address back. *)
LEMMA UnresolveStepSupply ==
  ASSUME Plain, CoreMemoryInv, Supply(core), Unresolve
  PROVE  Supply(core')
<1> DEFINE i == Min(Misresolved)
           d == unresolveVAddr(core, i)
<1>0. Prog /\ CoreInv(core) /\ Annulled(core) /\ BaseFixed(core, result)
  BY InvFacts
<1>1. Misresolved # {} /\ Become(d)
  BY DEF Unresolve, Settled
<1>2. i \in Misresolved
  <2>1. Misresolved \subseteq DOMAIN core.queue
    BY DEF Misresolved, InQueue
  <2>2. Misresolved \subseteq Nat
    BY <2>1, InvFacts
  <2> QED BY <1>1, <2>2, MinFacts
<1> HIDE DEF i
<1>3. /\ i \in InQueue(core, "LSQ") /\ i \in DOMAIN core.queue /\ i \in Ids /\ core.queue[i].access # {}
      /\ ~(Known(program[i].base) /\ core.queue[i].access = AccessOf(i))
  BY <1>2, InvFacts DEF Misresolved, InQueue, Unresolved
<1>4. program[i].base \in DOMAIN core.queue
  <2> SUFFICES ASSUME program[i].base \notin DOMAIN core.queue PROVE FALSE
    OBVIOUS
  <2>1. Result(program[i].base) = result[program[i].base]
    BY DEF Result
  <2>2. /\ program[i].base # 0 => result[program[i].base] # None
        /\ core.queue[i].access =
             program[i].access[IF program[i].base = 0 \/ Initial(result[program[i].base]) THEN 1 ELSE 2]
    BY <1>0, <1>3 DEF BaseFixed
  <2> QED BY <1>3, <2>1, <2>2 DEF Known, AccessOf, Choice
<1>5. program[i].base \in Nat \ {0}
  BY <1>4, InvFacts
<1>6. ~Least(core, i)
  <2>2. program[i].base < i
    BY <1>0, <1>3, <1>5, ProgFacts
  <2>3. i \in Nat
    BY <1>3, InvFacts
  <2> QED BY <1>4, <1>5, <2>2, <2>3 DEF Least
<1>7. ~IsStore(core.queue[i])
  BY <1>0, <1>3, <1>5, PlainEntries
<1>8. /\ Stays(core, d, {i}) /\ d.queue[i].access = {}
      /\ \A j \in DOMAIN core.queue \ {i} : SameLoad(core.queue[j], d.queue[j])
  BY <1>0, <1>3, <1>6, <1>7, UnresolveFacts
<1> HIDE DEF d
<1>9. DOMAIN d.queue = DOMAIN core.queue /\ CoreInv(d)
  BY <1>8 DEF Stays
<1>10. Kin(core, d)
  <2>1. \A j \in DOMAIN d.queue : j # i => SameLoad(core.queue[j], d.queue[j])
    BY <1>8, <1>9
  <2>2. \A l : \A s \in OlderStores(core, l) : s \in DOMAIN d.queue /\ s # i /\ core.queue[s].access # {}
    BY <1>7, <1>9 DEF OlderStores, intersects
  <2>3. \A l : \A s \in OlderStores(core, l) : d.queue[s].access # {}
    BY <2>1, <2>2 DEF SameLoad, Alike
  <2> QED BY <1>8, <1>9, <2>1, <2>2, <2>3 DEF Kin, SameLoad
<1> QED BY <1>1, <1>9, <1>10, KinStep

(* What a port request leaves alone includes what a search reads.          *)
LEMMA KeepsKin ==
  ASSUME NEW e, NEW f, KeepsLoad(e, f)
  PROVE  SameLoad(e, f)
  BY DEF KeepsLoad, Keeps, SameLoad, Alike

(* A request for a port.                                                   *)
LEMMA RequestStepSupply ==
  ASSUME Plain, CoreMemoryInv, Supply(core), NEW i \in DOMAIN core.queue,
         IsStore(core.queue[i]) =>
           core.queue[i].data # 0 /\ Least(core, i) /\ (core.queue[i].op = "Store" => core.queue[i].queue = "SB"),
         Become(requestPort(core, i))
  PROVE  Supply(core')
<1> DEFINE d == requestPort(core, i)
<1>0. CoreInv(core) /\ Annulled(core) /\ core \in CoreType /\ Become(d)
  BY InvFacts
<1>1. CoreInv(d)
  BY <1>0, RequestStays DEF Stays
<1>2. d = requestPorts(core, {i})
  BY DEF requestPort
<1> HIDE DEF d
<1>3. /\ DOMAIN d.queue = DOMAIN core.queue
      /\ \A j \in DOMAIN core.queue : KeepsLoad(core.queue[j], d.queue[j])
  BY <1>0, <1>2, RequestFacts DEF Frame
<1>4. Kin(core, d)
  BY <1>3, KeepsKin, KeptKin
<1> QED BY <1>0, <1>1, <1>4, KinStep

(* issueStore.                                                             *)
LEMMA IssueStoreStepSupply ==
  ASSUME Plain, CoreMemoryInv, Supply(core), issueStore
  PROVE  Supply(core')
<1>1. QueueHead \in InQueue(core, "SB") /\ Least(core, QueueHead)
  BY SBHeadFacts DEF issueStore, CanIssueStore
<1>2. QueueHead \in DOMAIN core.queue /\ core.queue[QueueHead].queue = "SB"
  BY <1>1 DEF InQueue
<1>3. core.queue[QueueHead].data # 0
  BY <1>2, InvFacts DEF CoreInv, CoreInvBut, EntryOK
<1> QED BY <1>1, <1>2, <1>3, RequestStepSupply DEF issueStore

(* There is no atomic to issue.                                            *)
LEMMA IssueAtomicStepSupply ==
  ASSUME Plain, CoreMemoryInv, Supply(core), issueAtomic
  PROVE  Supply(core')
<1>1. core.queue # None /\ IsAtomic(core.queue[QueueHead])
  BY DEF issueAtomic, CanIssueAtomic
<1>2. DOMAIN core.queue # {}
  <2> SUFFICES ASSUME DOMAIN core.queue = {} PROVE FALSE
    OBVIOUS
  <2>1. core.queue \in [{} -> EntryType]
    BY InvFacts, EntryTyped
  <2> QED BY <1>1, <2>1, EmptyFunction DEF None
<1>3. QueueHead \in DOMAIN core.queue
  BY <1>2, HeadFacts
<1> QED BY <1>1, <1>3, InvFacts, PlainEntries

(* issuePartialSnoop.                                                      *)
LEMMA IssuePartialStepSupply ==
  ASSUME Plain, CoreMemoryInv, Supply(core), issuePartialSnoop
  PROVE  Supply(core')
<1>1. LSQHead(core) \in DOMAIN core.queue /\ core.queue[LSQHead(core)].partial
  BY LSQHeadFacts DEF issuePartialSnoop, CanIssuePartialSnoop
<1>2. core.queue[LSQHead(core)].op = "Load"
  BY <1>1, InvFacts DEF CoreInv, CoreInvBut, EntryOK
<1> QED BY <1>1, <1>2, RequestStepSupply DEF issuePartialSnoop, IsStore, IsAtomic

(* The arbiter issues a request.                                           *)
LEMMA IssueRequestStepSupply ==
  ASSUME Plain, CoreMemoryInv, Supply(core), IssueRequest
  PROVE  Supply(core')
<1> DEFINE R == IF PriorityRequests # {} THEN PriorityRequests ELSE core.requests
           i == Min(R)
           b == [core EXCEPT !.requests = @ \ {i}]
           d == issue(b, i)
<1>0. /\ CoreInv(core) /\ Annulled(core) /\ core.ports = None /\ DOMAIN core.queue \subseteq Nat
  BY InvFacts
<1>1. core.requests # {} /\ Become(d)
  BY DEF IssueRequest
<1>2. core.requests \subseteq DOMAIN core.queue
  BY <1>0 DEF CoreInv, CoreInvBut
<1>3. R # {} /\ R \subseteq core.requests
  BY <1>1 DEF PriorityRequests
<1>4. i \in core.requests
  <2>1. R \subseteq Nat
    BY <1>0, <1>2, <1>3
  <2> HIDE DEF R
  <2> QED BY <1>3, <2>1, MinFacts
<1> HIDE DEF i
<1>5. CoreInv(d)
  BY <1>0, <1>4, IssueFacts DEF Stays
<1>6. Taken(core, i, b)
  BY <1>0, <1>4, Unrequested
<1> HIDE DEF b
<1>7. b \in CoreType /\ b.queue = core.queue /\ i \in DOMAIN b.queue
  BY <1>2, <1>4, <1>6 DEF Taken
<1>8. DOMAIN d.queue = DOMAIN core.queue /\ \A j \in DOMAIN core.queue : SameLoad(core.queue[j], d.queue[j])
  BY <1>7, IssueQueue
<1> HIDE DEF d
<1>9. Kin(core, d)
  BY <1>8, KeptKin
<1> QED BY <1>1, <1>5, <1>9, KinStep

(* The arbiter issues a store prefetch.                                    *)
LEMMA IssuePrefetchStepSupply ==
  ASSUME Plain, CoreMemoryInv, Supply(core), IssuePrefetch
  PROVE  Supply(core')
<1> DEFINE i == Min(core.prefetches)
           b == [core EXCEPT !.prefetches = @ \ {i}]
           d == issueStorePrefetch(b, i)
<1>0. CoreInv(core) /\ Annulled(core) /\ core.ports = None /\ DOMAIN core.queue \subseteq Nat
  BY InvFacts
<1>1. core.prefetches # {} /\ Become(d)
  BY DEF IssuePrefetch, CanIssuePrefetch
<1>2. core.prefetches \subseteq DOMAIN core.queue
  BY <1>0 DEF CoreInv, CoreInvBut
<1>4. i \in core.prefetches
  <2>1. core.prefetches \subseteq Nat
    BY <1>0, <1>2
  <2> QED BY <1>1, <2>1, MinFacts
<1> HIDE DEF i
<1>5. Dropped(core, i, b)
  BY <1>0, <1>4, DroppedFacts
<1> HIDE DEF b
<1>6. CoreInv(d)
  BY <1>0, <1>4, <1>5, PrefetchFacts DEF Stays
<1>7. d.queue = core.queue
  BY <1>5, PrefetchQueue DEF Dropped
<1> HIDE DEF d
<1>8. Supply(d)
  BY <1>7, SupplyQueue
<1> QED BY <1>1, <1>6, <1>8, BecomeSupply

(* insertLSQ: a new entry has no address.                                  *)
LEMMA DispatchStepSupply ==
  ASSUME Plain, CoreMemoryInv, Supply(core), Dispatch
  PROVE  Supply(core')
<1> DEFINE d == insertLSQ(core, next)
<1>0. Prog /\ CoreInv(core) /\ Annulled(core) /\ Ids = 1 .. Len(program) /\ Len(program) \in Nat
  BY InvFacts
<1>1. next \in Ids /\ Become(d)
  BY DEF Dispatch, CanDispatch
<1>2. DOMAIN core.queue \subseteq 1 .. next - 1
  BY DEF CoreMemoryInv, CoreState, Good
<1>3. \A j \in DOMAIN core.queue : j < next
  BY <1>0, <1>1, <1>2
<1>4. /\ CoreInv(d) /\ DOMAIN d.queue = DOMAIN core.queue \cup {next}
      /\ \A j \in DOMAIN core.queue : d.queue[j] = core.queue[j]
      /\ d.queue[next] = NewEntry(program[next].op)
  BY <1>0, <1>1, <1>3, InsertFacts
<1> HIDE DEF d
<1>5. d.queue[next].access = {}
  BY <1>4 DEF NewEntry, Unresolved
<1>6. Kin(core, d)
  <2>1. \A j \in DOMAIN core.queue : Alike(core.queue[j], d.queue[j])
    BY <1>4 DEF Alike
  <2>2. \A j \in DOMAIN d.queue : d.queue[j].access # {} => j \in DOMAIN core.queue /\ d.queue[j] = core.queue[j]
    BY <1>4, <1>5
  <2>3. \A l : \A s \in OlderStores(core, l) : s \in DOMAIN core.queue /\ core.queue[s].access # {}
    BY DEF OlderStores, intersects
  <2>4. \A l : \A s \in OlderStores(core, l) : s \in DOMAIN d.queue /\ d.queue[s].access # {}
    BY <1>4, <2>3
  <2> QED BY <2>1, <2>2, <2>4 DEF Kin
<1> QED BY <1>1, <1>4, <1>6, KinStep

(* retireMem: a store that goes to the store buffer is still looked at, a  *)
(* load or an annulled store is not.                                       *)
LEMMA RetireStepSupply ==
  ASSUME Plain, CoreMemoryInv, Supply(core), Retire
  PROVE  Supply(core')
<1> DEFINE i == LSQHead(core)
           e == core.queue[i]
           d == retireMem(core, i)
<1>0. Prog /\ CoreInv(core) /\ Annulled(core) /\ core \in CoreType
  BY InvFacts
<1>1. InQueue(core, "LSQ") # {} /\ mayRetire(core, i) /\ Become(d)
  BY DEF Retire, CanRetire
<1>2. i \in InQueue(core, "LSQ") /\ i \in DOMAIN core.queue /\ \A j \in InQueue(core, "LSQ") : i <= j
  BY <1>1, LSQHeadFacts
<1>3. i \in Ids /\ EntryOK(core, i)
  BY <1>0, <1>2, EntryTyped DEF CoreInv, CoreInvBut
<1> HIDE DEF i, d, e
<1>4. CASE e.op = "Store" /\ ~e.annulled
  <2>1. Ready(i)
    BY <1>1, <1>4 DEF mayRetire, e, IsAtomic
  <2>2. e.access # {}
    <3>1. e.access = AccessOf(i)
      BY <2>1 DEF Ready, e
    <3>2. PICK v \in 1 .. 2 : AccessOf(i) = program[i].access[v]
      BY DEF AccessOf, Choice
    <3>3. program[i].op = "Store"
      BY <1>3, <1>4 DEF EntryOK, e
    <3> QED BY <1>0, <1>3, <3>1, <3>2, <3>3, ProgFacts
  <2>3. e.data # 0
    BY <1>4, <2>1 DEF Ready, e, IsStore
  <2>4. Commits(core, i, d)
    BY <1>0, <1>2, <1>4, <2>2, <2>3, CommitFacts DEF d, e
  <2>5. CoreInv(d) /\ Kin(core, d)
    BY <2>4, KeptKin DEF Commits
  <2> QED BY <1>1, <2>5, KinStep
<1>5. CASE ~(e.op = "Store" /\ ~e.annulled)
  <2>1. Without(core, {i}, d, {})
    BY <1>0, <1>2, <1>5, LeaveFacts DEF d, e
  <2>2. CoreInv(d) /\ DOMAIN d.queue = DOMAIN core.queue \ {i}
        /\ \A j \in DOMAIN d.queue : KeepsLoad(core.queue[j], d.queue[j])
    BY <2>1 DEF Without, CoreInv
  <2>3. ~IsStore(core.queue[i]) \/ core.queue[i].annulled
    BY <1>0, <1>2, <1>5, PlainEntries DEF e
  <2>4. Kin(core, d)
    BY <2>2, <2>3, KeepsKin, GoneKin
  <2> QED BY <1>1, <2>2, <2>4, KinStep
<1> QED BY <1>4, <1>5

(* doSquash: what stays is older than what goes.                           *)
LEMMA SquashStepSupply ==
  ASSUME Plain, CoreMemoryInv, Supply(core), NEW i \in Ids, doSquash(i)
  PROVE  Supply(core')
<1> DEFINE d == eraseFrom(core, i)
           S == {j \in DOMAIN core.queue : j >= i}
<1>0. Prog /\ CoreInv(core) /\ CoreInvBut(core, {}) /\ DOMAIN core.queue \subseteq Nat
  BY InvFacts DEF CoreInv
<1>1. i \in InQueue(core, "LSQ") /\ Become(d)
  BY DEF doSquash
<1>2. Without(core, S, d, {})
  BY <1>0, <1>1, EraseFromFacts
<1> HIDE DEF d
<1>3. /\ DOMAIN d.queue = DOMAIN core.queue \ S /\ CoreInv(d)
      /\ \A j \in DOMAIN d.queue : KeepsLoad(core.queue[j], d.queue[j])
  BY <1>2 DEF Without, CoreInv
<1>4. \A s \in S : \A l \in DOMAIN d.queue : ~(s < l)
  <2> TAKE s \in S
  <2> TAKE l \in DOMAIN d.queue
  <2>1. s >= i /\ ~(l >= i)
    BY <1>3
  <2>2. s \in Nat /\ l \in Nat /\ i \in Nat
    BY <1>0, <1>1, <1>3 DEF InQueue
  <2> QED BY <2>1, <2>2
<1> HIDE DEF S
<1>5. Kin(core, d)
  BY <1>3, <1>4, KeepsKin, GoneKin
<1> QED BY <1>1, <1>3, <1>5, KinStep

(* The core takes a reply.                                                 *)
LEMMA ProcessReplyStepSupply ==
  ASSUME Plain, CoreMemoryInv, Supply(core), ProcessReply
  PROVE  Supply(core')
<1> DEFINE r == Head(replies)
           b == BlockOf[Min(r.access)]
           d == processReply(core, r)
<1>0. /\ Prog /\ CoreInv(core) /\ Annulled(core) /\ Mail(sent, replies, snoops) /\ StoreOut(core, sent, replies)
      /\ replies \in Seq(ReplyType)
  BY InvFacts DEF CoreMemoryInv, CoreState, Mail
<1>1. replies # <<>> /\ Become(d)
  BY DEF ProcessReply, CanProcessReply
<1>2. r \in ReplyType /\ ReplyOK(r)
  <2>1. r = replies[1] /\ 1 \in DOMAIN replies
    BY <1>0, <1>1, TailFacts
  <2> QED BY <1>0, <2>1 DEF Mail
<1>3. /\ InBlock(r.access) /\ r.op \in ReplyOps \cup SnoopOps
      /\ r.op \in {"Load", "RMW", "CAS"} => r.value \in [r.access -> Values]
  BY <1>2 DEF ReplyOK, ReplyType
<1>4. r.op = "Store" => Storing(core, r.access)
  BY <1>0, <1>1, StoreOutTail
<1> HIDE DEF r
<1>5. Supply(d)
  BY <1>0, <1>3, <1>4, ReplySupply
<1>6. CoreInv(d)
  <2>1. CASE r.op # "Store"
    <3>1. Answered(core, d, b, r.op \in WriteOps \/ (r.op = "Load" /\ core.permission[b].held))
      BY <1>0, <1>3, <2>1, ReplyFacts
    <3> QED BY <3>1 DEF Answered
  <2>2. CASE r.op = "Store"
    <3>1. Ends(core, r, b, d)
      BY <1>0, <1>3, <1>4, <2>2, StoreReplyFacts
    <3> QED BY <3>1 DEF Ends, Stored
  <2> QED BY <2>1, <2>2
<1> HIDE DEF d
<1> QED BY <1>1, <1>5, <1>6, BecomeSupply

-----------------------------------------------------------------------------
(* The queue is empty at the start.                                        *)
LEMMA InitSupply ==
  ASSUME Init
  PROVE  Supply(core)
<1>1. DOMAIN core.queue = {}
  BY DEF Init, None
<1> QED BY <1>1 DEF Supply

(* Every step keeps Supply.                                                *)
LEMMA NextSupply ==
  ASSUME Plain, CoreMemoryInv, Supply(core), [Next]_vars
  PROVE  Supply(core')
<1>1. ASSUME core' = core PROVE Supply(core')
  BY <1>1
<1>2. CASE UNCHANGED vars
  BY <1>1, <1>2 DEF vars
<1>3. CASE Next
  <2>1. ASSUME NEW x \in DOMAIN sent, Answer(x) PROVE Supply(core')
    BY <1>1, <2>1 DEF Answer
  <2>2. ASSUME NEW b \in Blocks, Snoop(b, "Invalidate") \/ Snoop(b, "Downgrade") \/ RemoteWrite(b) PROVE Supply(core')
    BY <1>1, <2>2 DEF Snoop, RemoteWrite
  <2>3. ASSUME PopSnoop PROVE Supply(core')
    BY <1>1, <2>3 DEF PopSnoop
  <2> QED BY <1>3, <2>1, <2>2, <2>3, DispatchStepSupply, UnresolveStepSupply, IssueStoreStepSupply,
             IssueAtomicStepSupply, IssuePartialStepSupply, IssueRequestStepSupply, IssuePrefetchStepSupply,
             RetireStepSupply, ProcessReplyStepSupply, ResolveStepSupply, SetValueStepSupply, AnnulStepSupply,
             ReinstateStepSupply, SquashStepSupply DEF Next
<1> QED BY <1>2, <1>3

(* A load that is complete has the value its store supplies.               *)
LEMMA InvForwarded ==
  ASSUME CoreMemoryInv, Plain => Supply(core)
  PROVE  ForwardedFromYoungest
<1> DEFINE m(l) == Max(OlderStores(core, l))
<1> SUFFICES ASSUME Plain, NEW l \in InQueue(core, "LSQ"),
                    core.queue[l].op = "Load", status(core.queue[l]) = "Complete",
                    OlderStores(core, l) # {}, ~program[m(l)].slot, core.queue[m(l)].data # 0,
                    NEW b \in core.queue[l].access
             PROVE  core.queue[l].loaded[b] = core.queue[m(l)].data
  BY DEF ForwardedFromYoungest
<1> DEFINE s == m(l)
           f == [x \in core.queue[l].access |-> StoreValue(core.queue[s], x)]
<1>0. Prog /\ CoreInv(core) /\ Supply(core) /\ SameSize
  BY InvFacts DEF Plain
<1>1. l \in DOMAIN core.queue
  BY DEF InQueue
<1>2. Youngest(core, l) = s
  BY DEF Youngest, Found
<1>3. s # NoStore /\ s \in OlderStores(core, l)
  <2>1. Youngest(core, l) \in Nat \ {0} /\ Youngest(core, l) \in OlderStores(core, l)
    BY <1>0, <1>1, YoungestIs
  <2> QED BY <1>2, <2>1 DEF NoStore
<1>4. core.queue[s].data # 0 /\ ~program[s].slot
  OBVIOUS
<1> HIDE DEF m, s
<1>5. s \in DOMAIN core.queue /\ intersects(core.queue[s], core.queue[l])
  BY <1>3 DEF OlderStores
<1>6. covers(core.queue[s], core.queue[l])
  <2>1. s \in Ids /\ l \in Ids /\ EntryOK(core, s) /\ EntryOK(core, l)
    BY <1>0, <1>1, <1>5, EntryTyped DEF CoreInv, CoreInvBut
  <2> QED BY <1>0, <1>5, <2>1, Overlap DEF covers
<1>7. Supplied(core, l) = f
  BY <1>2, <1>3, <1>4, <1>6 DEF Supplied, Forwarded
<1>8. f # None
  BY DEF None
<1>9. core.queue[l].loaded = f
  BY <1>0, <1>1, <1>2, <1>4, <1>7, <1>8 DEF Supply, HasSupply, InASlot
<1>10. f[b] = StoreValue(core.queue[s], b) /\ ~core.queue[s].failed
  BY <1>0, <1>5, PlainEntries
<1> QED BY <1>9, <1>10 DEF StoreValue, s

(* The program stays the same.                                             *)
LEMMA ProgramKept ==
  ASSUME [Next]_vars
  PROVE  program' = program
  BY DEF Next, vars, Dispatch, Unresolve, issueStore, issueAtomic, issuePartialSnoop, IssueRequest, IssuePrefetch,
         Retire, ProcessReply, PopSnoop, Resolve, SetValue, Annul, Reinstate, doSquash, Answer, Snoop, RemoteWrite, CoreOnly

(* So it stays plain.                                                      *)
LEMMA PlainKept ==
  ASSUME [Next]_vars
  PROVE  Plain' <=> Plain
  BY ProgramKept DEF Plain, SameSize, Ids

(* ForwardedFromYoungest holds for all programs and bounds: in a plain     *)
(* program a complete load has the value of its youngest older store,      *)
(* unless that store is in a delay slot, whatever the order in which       *)
(* addresses and values arrive, stores are annulled and reinstated,        *)
(* instructions are squashed, blocks are invalidated and late replies come *)
(* in.                                                                     *)
THEOREM ForwardingHolds == Spec => []ForwardedFromYoungest
<1> DEFINE Inv == CoreMemoryInv /\ (Plain => Supply(core))
<1>1. Init => Inv
  BY InitInv, InitSupply
<1>2. Inv /\ [Next]_vars => Inv'
  <2> SUFFICES ASSUME CoreMemoryInv, Plain => Supply(core), [Next]_vars PROVE Inv'
    OBVIOUS
  <2>1. CoreMemoryInv'
    BY NextInv
  <2>2. Plain' => Supply(core')
    BY PlainKept, NextSupply
  <2>3. Supply(core') => Supply(core)'
    <3>1. program' = program
      BY ProgramKept
    <3> QED BY <3>1 DEF Supply, HasSupply, InASlot
  <2> QED BY <2>1, <2>2, <2>3
<1>3. Inv => ForwardedFromYoungest
  BY InvForwarded
<1> QED BY <1>1, <1>2, <1>3, PTL DEF Spec
=============================================================================
