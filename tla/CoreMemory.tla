----------------------------- MODULE CoreMemory -----------------------------
(***************************************************************************)
(* The memory unit of the out-of-order core (components/uArch/CoreModel):  *)
(* the memory queue with its load/store and store buffer parts, the        *)
(* forwarding of store values to loads, the MSHRs, the memory port         *)
(* arbiter, store prefetches and write permissions, and the answers to the *)
(* snoops of the L1 cache.                                                 *)
(*                                                                         *)
(* One core runs a program of Programs in the configuration the simulators *)
(* wire up: TSO, no speculation past memory order, accesses to cacheable   *)
(* memory.  An instruction is known by its place in the program, which is  *)
(* also its sequence number.  Its address and its store value may depend   *)
(* on the result of an earlier load, so both can be taken back when that   *)
(* load must be repeated.  An access is the set of bytes it covers and     *)
(* never crosses an aligned double word; a store writes one value into all *)
(* its bytes, its place in the program or, when the load it depends on did *)
(* not see the initial memory, that place plus the length of the program.  *)
(*                                                                         *)
(* The L1 cache is external.  It answers in any order, holds a block in a  *)
(* state of l1 and, once the core has acknowledged an Invalidate, lets     *)
(* other cores write the block.                                            *)
(***************************************************************************)
EXTENDS Integers, Sequences, FiniteSetsExt, Bags

CONSTANTS
  Programs,       \* the programs: sequences of instructions
  BlockOf,        \* the cache block of each byte
  SBSize,         \* theSBSize: entries of the store buffer
  MaxPrefetches,  \* theMaxStorePrefetches
  MaxReplies,     \* bound of theMemoryReplies, canPushMemOp
  MaxSnoops,      \* bound of theSnoopPorts, hasSnoopBuffer
  MaxDisturb      \* bound: snoops, writes of other cores, squashes, reinstatements

ASSUME BoundsAssumption ==
  /\ SBSize \in Nat \ {0} /\ MaxPrefetches \in Nat /\ MaxReplies \in Nat \ {0}
  /\ MaxSnoops \in Nat \ {0} /\ MaxDisturb \in Nat

Bytes == DOMAIN BlockOf
Blocks == {BlockOf[b] : b \in Bytes}
Operations == {"Load", "Store", "RMW", "CAS", "MEMBAR"}

ASSUME BytesAssumption == Bytes \subseteq Nat

(* An instruction depends on earlier loads and atomics only.  Its two      *)
(* addresses, one for each result of the load they depend on, lie in one   *)
(* block each.                                                             *)
ASSUME ProgramsAssumption ==
  \A p \in Programs :
    /\ p \in Seq([op : Operations, access : [1 .. 2 -> SUBSET Bytes], base : Nat, from : Nat, slot : BOOLEAN])
    /\ \A i \in DOMAIN p, v \in 1 .. 2 :
         /\ \A d \in {p[i].base, p[i].from} \ {0} : d < i /\ p[d].op \in {"Load", "RMW", "CAS"}
         /\ p[i].op # "MEMBAR" => p[i].access[v] # {}
         /\ \A a, b \in p[i].access[v] : BlockOf[a] = BlockOf[b]

VARIABLES
  program,   \* the program that runs
  next,      \* the instruction to dispatch next
  core,      \* the memory unit of CoreImpl, see Core
  sent,      \* bag of operations the L1 has not answered
  replies,   \* theMemoryReplies
  snoops,    \* theSnoopPorts
  l1,        \* the state of each block in the L1
  memory,    \* what each byte of memory holds
  result,    \* what each retired load and atomic read
  disturbed  \* what MaxDisturb bounds, so far

vars == <<program, next, core, sent, replies, snoops, l1, memory, result, disturbed>>

Ids == DOMAIN program
Values == 0 .. 2 * Len(program) + MaxDisturb
None == <<>>                       \* boost::none
Unresolved == {}                   \* kUnresolved
Initial(v) == \A b \in DOMAIN v : v[b] = 0

Entry == [op : Operations, queue : {"LSQ", "SB"},
          access : SUBSET Bytes, data : Values, loaded : {None}, failed : BOOLEAN,
          override : BOOLEAN, issued : BOOLEAN, partial : BOOLEAN, annulled : BOOLEAN, mshr : BOOLEAN,
          storeComplete : BOOLEAN]

NoMSHR == [op |-> "None", access |-> Unresolved, waiting |-> {}, blocked |-> {}, prefetches |-> {}]
MSHR == [op : {"None", "Load", "Store", "RMW", "CAS"}, access : SUBSET Bytes,
         waiting : SUBSET Ids, blocked : SUBSET Ids, prefetches : SUBSET Ids]

(* theMemQueue, theMSHRs by address, the requests of the arbiter, the      *)
(* store prefetches wanted and under way, and theSBLines_Permission.       *)
TypeOK ==
  /\ next \in 1 .. Len(program) + 1
  /\ DOMAIN core = {"queue", "mshrs", "requests", "prefetches", "outstanding", "permission", "ports"}
  /\ DOMAIN core.queue \subseteq 1 .. next - 1
  /\ \A i \in DOMAIN core.queue :
       LET e == core.queue[i]
       IN  /\ [e EXCEPT !.loaded = None] \in Entry
           /\ e.loaded # None => e.loaded \in [e.access -> Values]
  /\ core.mshrs \in [Bytes -> MSHR]
  /\ core.requests \subseteq DOMAIN core.queue
  /\ core.prefetches \subseteq DOMAIN core.queue
  /\ core.outstanding \subseteq Blocks
  /\ core.permission \in [Blocks -> [count : 0 .. SBSize, held : BOOLEAN]]
  /\ core.ports = None
  /\ Len(replies) <= MaxReplies /\ Len(snoops) <= MaxSnoops
  /\ l1 \in [Blocks -> {"I", "S", "M", "Invalidating", "Downgrading"}]
  /\ memory \in [Bytes -> Values]
  /\ disturbed \in 0 .. MaxDisturb

-----------------------------------------------------------------------------
(* Entries of the memory queue.                                            *)

IsAtomic(e) == e.op \in {"RMW", "CAS"}
IsLoad(e) == e.op = "Load" \/ IsAtomic(e)
IsStore(e) == e.op = "Store" \/ IsAtomic(e)

NewEntry(op) ==
  [op |-> op, queue |-> "LSQ", access |-> Unresolved, data |-> 0, loaded |-> None,
   failed |-> FALSE, override |-> FALSE, issued |-> FALSE, partial |-> FALSE, annulled |-> FALSE, mshr |-> FALSE,
   storeComplete |-> FALSE]

status(e) ==
  CASE e.annulled                                       -> "Annulled"
    [] ~e.annulled /\ e.op = "MEMBAR"                   -> "IssuedToMemory"
    [] ~e.annulled /\ e.op # "MEMBAR" /\ e.access = Unresolved -> "AwaitingAddress"
    [] OTHER ->
         IF IsLoad(e) /\ e.loaded # None /\ (IsAtomic(e) => e.data # 0) THEN "Complete"
         ELSE IF e.op = "Store" /\ e.data = 0 THEN "AwaitingValue"
         ELSE IF e.mshr THEN "IssuedToMemory"
         ELSE IF e.issued THEN "AwaitingPort"
         ELSE IF e.loaded # None THEN "AwaitingValue"
         ELSE "AwaitingIssue"

intersects(s, e) == s.access \cap e.access # {}
covers(s, e) == e.access \subseteq s.access
paddr(e) == Min(e.access)
StoreValue(s, b) == IF s.failed THEN s.loaded[b] ELSE s.data

InQueue(c, q) == {i \in DOMAIN c.queue : c.queue[i].queue = q}
LSQHead(c) == Min(InQueue(c, "LSQ"))
sbEmpty(c) == InQueue(c, "SB") = {}
sbFull(c) == Cardinality(InQueue(c, "SB")) >= SBSize

(* The stores before l that a load of l's bytes has to look at.            *)
OlderStores(c, l) ==
  {s \in DOMAIN c.queue : /\ s < l
                          /\ IsStore(c.queue[s])
                          /\ ~c.queue[s].annulled
                          /\ intersects(c.queue[s], c.queue[l])}

-----------------------------------------------------------------------------
(* The memory port arbiter and the MSHRs.  An operator takes the core and  *)
(* returns the core after the call.                                        *)

(* A request of a load that must apply stores is dropped unless it is the  *)
(* oldest of the LSQ.                                                      *)
requestPorts(c, S) ==
  LET R == {i \in S \cap DOMAIN c.queue :
              /\ status(c.queue[i]) \in {"AwaitingIssue", "AwaitingPort"}
              /\ c.queue[i].partial => i = LSQHead(c)}
  IN  [c EXCEPT !.requests = @ \cup R, !.prefetches = @ \ R,
                !.queue = [i \in DOMAIN c.queue |-> [c.queue[i] EXCEPT !.issued = @ \/ i \in R]]]

requestPort(c, i) == requestPorts(c, {i})

Wake(c, m) ==
  requestPorts([c EXCEPT !.prefetches = @ \cup (m.prefetches \cap DOMAIN c.queue)], m.blocked)

(* Mutant: an MSHR nobody waits for is kept.                               *)
MutBreakKeepsMSHR(c, i) ==
  LET d == [c EXCEPT !.queue[i].issued = FALSE]
  IN  IF c.queue[i].mshr
      THEN [d EXCEPT !.mshrs[paddr(c.queue[i])].waiting = @ \ {i}, !.queue[i].mshr = FALSE] ELSE d

breakMSHRLink(c, i) ==
  LET e == c.queue[i]
      k == paddr(e)
      d == [c EXCEPT !.queue[i].issued = FALSE]
      unlinked == [d EXCEPT !.mshrs[k].waiting = @ \ {i}]
      woken == IF unlinked.mshrs[k].waiting = {}
               THEN Wake([d EXCEPT !.mshrs[k] = NoMSHR], c.mshrs[k])
               ELSE unlinked
  IN  IF e.mshr THEN [woken EXCEPT !.queue[i].mshr = FALSE] ELSE d

(* Places an operation in the ports; Become hands it to the L1.            *)
Send(c, op, access) == [c EXCEPT !.ports = <<op, access>>]

issue(c, i) ==
  LET e == c.queue[i]
      k == paddr(e)
      m == c.mshrs[k]
  IN  IF i \notin DOMAIN c.queue \/ status(e) # "AwaitingPort" THEN c
      ELSE IF e.op = "Load" /\ m.op = "Load" /\ m.access = e.access
           THEN [c EXCEPT !.mshrs[k].waiting = @ \cup {i}, !.queue[i].mshr = TRUE]
      ELSE IF m # NoMSHR THEN [c EXCEPT !.mshrs[k].blocked = @ \cup {i}]
      ELSE Send([c EXCEPT !.mshrs[k] = [NoMSHR EXCEPT !.op = e.op, !.access = e.access, !.waiting = {i}],
                          !.queue[i].mshr = TRUE], e.op, e.access)

issueStorePrefetch(c, i) ==
  LET e == c.queue[i]
      b == BlockOf[paddr(e)]
  IN  IF i \notin DOMAIN c.queue \/ e.access = Unresolved \/ c.permission[b].held THEN c
      ELSE IF c.mshrs[paddr(e)] # NoMSHR THEN [c EXCEPT !.mshrs[paddr(e)].prefetches = @ \cup {i}]
      ELSE IF b \in c.outstanding THEN c
      ELSE Send([c EXCEPT !.outstanding = @ \cup {b}], "StorePrefetch", e.access)

requireWritePermission(c, i) ==
  LET b == BlockOf[paddr(c.queue[i])]
  IN  [c EXCEPT !.permission[b].count = @ + 1,
                !.prefetches = IF c.permission[b].held THEN @ ELSE @ \cup {i}]

unrequireWritePermission(c, b) ==
  LET n == c.permission[b].count - 1
  IN  [c EXCEPT !.permission[b] = [count |-> n, held |-> n > 0 /\ @.held]]

acquireWritePermission(c, b) == [c EXCEPT !.permission[b].held = @ \/ c.permission[b].count > 0]

(* Mutant: a snoop leaves the permission.                                  *)
MutKeepPermission(c, b) == c

loseWritePermission(c, b) == [c EXCEPT !.permission[b].held = FALSE]

(* Mutant: a store gives its permission back from the LSQ too.             *)
MutEraseUnrequires(c, i) ==
  LET d == breakMSHRLink(c, i)
      e == c.queue[i]
      u == IF e.op = "Store" /\ e.access # Unresolved
           THEN unrequireWritePermission(d, BlockOf[paddr(e)]) ELSE d
  IN  [u EXCEPT !.queue = [j \in DOMAIN u.queue \ {i} |-> u.queue[j]],
                !.requests = @ \ {i}, !.prefetches = @ \ {i}]

eraseLSQ(c, i) ==
  LET e == c.queue[i]
      d == breakMSHRLink(c, i)
      u == IF e.queue = "SB" THEN unrequireWritePermission(d, BlockOf[paddr(e)]) ELSE d
  IN  [u EXCEPT !.queue = [j \in DOMAIN u.queue \ {i} |-> u.queue[j]],
                !.requests = @ \ {i}, !.prefetches = @ \ {i},
                !.mshrs = [k \in Bytes |-> [u.mshrs[k] EXCEPT !.blocked = @ \ {i}, !.prefetches = @ \ {i}]]]

-----------------------------------------------------------------------------
(* Forwarding.  A search of the queue can be handed on to the next load:   *)
(* cached is Unknown, NoStore or the store that was found.                 *)

Unknown == 0 - 1
NoStore == 0

forwardValue(c, s, l) ==
  LET st == c.queue[s]
      e == c.queue[l]
  IN  IF covers(st, e)
      THEN [c EXCEPT !.queue[l].partial = FALSE,
                     !.queue[l].loaded = IF st.data = 0 THEN None ELSE [b \in e.access |-> StoreValue(st, b)]]
      ELSE [c EXCEPT !.queue[l].partial = TRUE, !.queue[l].loaded = None]

snoopStores(c, l, cached) ==
  LET stores == OlderStores(c, l)
      found == IF cached # Unknown THEN cached ELSE IF stores = {} THEN NoStore ELSE Max(stores)
      d == [c EXCEPT !.queue[l].loaded = None]
  IN  [core |-> IF found = NoStore THEN d ELSE forwardValue(d, found, l), cached |-> found]

(* The previous state of the load is cleaned up, the stores are searched,  *)
(* and a load without a value asks for a port, unless it did before.  An   *)
(* atomic is not issued from here.                                         *)
doLoad(c, l, cached) ==
  LET e == c.queue[l]
      cleaned == IF status(e) = "IssuedToMemory" THEN breakMSHRLink(c, l)
                 ELSE IF status(e) = "Complete" \/ IsAtomic(e) THEN [c EXCEPT !.queue[l].issued = FALSE]
                 ELSE c
      snooped == snoopStores(cleaned, l, cached)
  IN  IF status(e) = "AwaitingAddress" THEN [core |-> c, cached |-> cached]
      ELSE IF IsAtomic(e) THEN [core |-> cleaned, cached |-> cached]
      ELSE [snooped EXCEPT !.core =
              CASE status(@.queue[l]) = "AwaitingIssue" -> requestPort(@, l)
                [] status(@.queue[l]) = "Complete" -> [@ EXCEPT !.queue[l].issued = FALSE]
                [] OTHER -> @]

(* The loads after s up to the next store to the same bytes.               *)
DependantLoads(c, s) ==
  {l \in DOMAIN c.queue :
     /\ l > s /\ IsLoad(c.queue[l]) /\ intersects(c.queue[s], c.queue[l])
     /\ \A t \in s + 1 .. l - 1 :
          ~(/\ t \in DOMAIN c.queue /\ c.queue[t].op = "Store" /\ ~c.queue[t].annulled
            /\ intersects(c.queue[s], c.queue[t]))}

(* doLoad for the loads of S, the oldest first.                            *)
doLoads(c, S, handOn) ==
  LET upTo[n \in 0 .. Len(program)] ==
        IF n = 0 THEN [core |-> c, cached |-> Unknown]
        ELSE LET before == upTo[n - 1]
             IN  IF n \in S THEN doLoad(before.core, n, IF handOn THEN before.cached ELSE Unknown)
                 ELSE before
  IN  upTo[Len(program)].core

updateDependantLoads(c, s) == doLoads(c, DependantLoads(c, s), TRUE)

resnoopDependantLoads(c, s) ==
  [updateDependantLoads([c EXCEPT !.queue[s].annulled = TRUE], s)
     EXCEPT !.queue[s].annulled = c.queue[s].annulled]

(* The value of a load with every older store laid over it.                *)
applyAllStores(c, l, value) ==
  [b \in DOMAIN value |->
     LET S == {s \in OlderStores(c, l) : c.queue[s].data # 0 /\ b \in c.queue[s].access}
     IN  IF S = {} THEN value[b] ELSE StoreValue(c.queue[Max(S)], b)]

-----------------------------------------------------------------------------
(* Operands.                                                               *)

insertLSQ(c, i) ==
  [c EXCEPT !.queue = [j \in DOMAIN c.queue \cup {i} |->
                         IF j = i THEN NewEntry(program[i].op) ELSE c.queue[j]]]

resolveVAddr(c, i, access) ==
  LET d == [c EXCEPT !.queue[i].access = access]
      e == d.queue[i]
  IN  CASE e.annulled -> d
        [] ~e.annulled /\ e.op = "Load" -> doLoad(d, i, Unknown).core
        [] ~e.annulled /\ e.op # "Load" -> IF status(e) = "AwaitingValue" THEN d ELSE updateDependantLoads(d, i)

unresolveVAddr(c, i) ==
  LET d == IF IsStore(c.queue[i]) /\ c.queue[i].data # 0 THEN resnoopDependantLoads(c, i) ELSE c
      u == breakMSHRLink([d EXCEPT !.queue[i].loaded = None], i)
  IN  [u EXCEPT !.queue[i].access = Unresolved]

(* Mutant: loads are told of the first value of a store only.              *)
MutFirstValueOnly(c, i, v) ==
  LET d == [c EXCEPT !.queue[i].data = v, !.queue[i].annulled = FALSE]
  IN  IF c.queue[i].data = 0 THEN updateDependantLoads(d, i) ELSE d

updateStoreValue(c, i, v) ==
  LET d == [c EXCEPT !.queue[i].data = v, !.queue[i].annulled = FALSE]
  IN  IF c.queue[i].data = v THEN d ELSE updateDependantLoads(d, i)

annulStoreValue(c, i) ==
  resnoopDependantLoads([c EXCEPT !.queue[i].annulled = TRUE, !.queue[i].issued = FALSE], i)

-----------------------------------------------------------------------------
(* Replies and snoops.                                                     *)

(* What a reply makes of a load; an atomic, whose dependants are told when *)
(* the comparison failed; and a store, which leaves the store buffer.      *)
completeLoad(c, i, value) ==
  [c.queue[i] EXCEPT !.mshr = FALSE, !.partial = FALSE,
                     !.loaded = IF c.queue[i].partial THEN applyAllStores(c, i, value) ELSE value]

completeLSQ(c, i, value) ==
  LET failed == c.queue[i].op = "CAS" /\ ~Initial(value)
      done == [c EXCEPT !.queue[i].mshr = FALSE, !.queue[i].loaded = value,
                        !.queue[i].storeComplete = TRUE, !.queue[i].failed = failed]
  IN  IF c.queue[i].op = "Store" THEN eraseLSQ([c EXCEPT !.queue[i].mshr = FALSE], i)
      ELSE IF failed THEN updateDependantLoads(done, i) ELSE done

(* Only loads share an MSHR.                                               *)
complete(c, r) ==
  LET k == Min(r.access)
      m == c.mshrs[k]
      d == [c EXCEPT !.mshrs[k] = NoMSHR]
      done == IF m.op = "Load"
              THEN [d EXCEPT !.queue = [i \in DOMAIN c.queue |->
                      IF i \in m.waiting THEN completeLoad(c, i, r.value) ELSE c.queue[i]]]
              ELSE completeLSQ(d, Min(m.waiting), r.value)
  IN  IF m.op = r.op /\ m.access = r.access THEN Wake(done, m) ELSE c

(* An invalidation repeats the complete loads at or after the first load   *)
(* without a value, MEMBAR or atomic; the others override Simics.          *)
Incomplete(c) ==
  {i \in InQueue(c, "LSQ") : LET e == c.queue[i]
                             IN  \/ e.op = "Load" /\ status(e) # "Complete"
                                 \/ e.op = "MEMBAR" \/ IsAtomic(e)}

CompleteLoads(c) == {l \in InQueue(c, "LSQ") : IsLoad(c.queue[l]) /\ status(c.queue[l]) = "Complete"}
Unordered(c) == {l \in CompleteLoads(c) : \E i \in Incomplete(c) : i <= l}

(* Mutant: the search does not go on after the first repeated load.        *)
MutInvalidateFirst(c, b) ==
  LET hit == {l \in CompleteLoads(c) : BlockOf[paddr(c.queue[l])] = b}
  IN  IF hit \cap Unordered(c) = {} THEN c ELSE doLoad(c, Min(hit \cap Unordered(c)), Unknown).core

invalidate(c, b) ==
  LET hit == {l \in CompleteLoads(c) : BlockOf[paddr(c.queue[l])] = b}
      d == [c EXCEPT !.queue = [i \in DOMAIN c.queue |->
              [c.queue[i] EXCEPT !.override = @ \/ i \in hit \ Unordered(c)]]]
  IN  doLoads(d, hit \cap Unordered(c), FALSE)

processReply(c, r) ==
  LET b == BlockOf[Min(r.access)]
  IN  CASE r.op = "Load" -> complete(c, r)
        [] r.op \in {"Store", "RMW", "CAS"} -> complete(acquireWritePermission(c, b), r)
        [] r.op = "StorePrefetch" -> [acquireWritePermission(c, b) EXCEPT !.outstanding = @ \ {b}]
        [] r.op = "Invalidate" -> invalidate(loseWritePermission(c, b), b)
        [] r.op = "Downgrade" -> loseWritePermission(c, b)

-----------------------------------------------------------------------------
(* The operations of an instruction whose operands are known: the result   *)
(* of the load it depends on selects its address and its value.            *)

Result(d) == IF d \in DOMAIN core.queue THEN core.queue[d].loaded ELSE result[d]
Known(d) == d # 0 => Result(d) # None
Choice(d) == IF d = 0 \/ Initial(Result(d)) THEN 1 ELSE 2
AccessOf(i) == program[i].access[Choice(program[i].base)]
DataOf(i) == i + (Choice(program[i].from) - 1) * Len(program)

(* The squash of a load's dependants happens inside the call that takes    *)
(* its value: every other step waits until their addresses are taken back. *)
Misresolved ==
  {i \in InQueue(core, "LSQ") : /\ core.queue[i].access # Unresolved
                                /\ ~(Known(program[i].base) /\ core.queue[i].access = AccessOf(i))}
Settled == Misresolved = {}

(* A step of the core: the operation it put in the ports goes to the L1.   *)
Become(c) ==
  /\ core' = [c EXCEPT !.ports = None]
  /\ sent' = IF c.ports = None THEN sent ELSE sent (+) SetToBag({c.ports})

Init ==
  /\ program \in Programs
  /\ next = 1
  /\ core = [queue |-> None, mshrs |-> [k \in Bytes |-> NoMSHR], requests |-> {}, prefetches |-> {},
             outstanding |-> {}, permission |-> [b \in Blocks |-> [count |-> 0, held |-> FALSE]],
             ports |-> None]
  /\ sent = EmptyBag
  /\ replies = <<>> /\ snoops = <<>>
  /\ l1 = [b \in Blocks |-> "I"]
  /\ memory = [b \in Bytes |-> 0]
  /\ result = [i \in Ids |-> None]
  /\ disturbed = 0

CanDispatch == next \in Ids
Dispatch ==
  /\ Settled /\ CanDispatch
  /\ Become(insertLSQ(core, next))
  /\ next' = next + 1
  /\ UNCHANGED <<program, replies, snoops, l1, memory, result, disturbed>>

CoreOnly == UNCHANGED <<program, next, replies, snoops, l1, memory, result, disturbed>>

CanResolve(i) ==
  /\ i \in InQueue(core, "LSQ") /\ core.queue[i].op # "MEMBAR"
  /\ core.queue[i].access = Unresolved /\ Known(program[i].base)
Resolve(i) ==
  /\ Settled /\ CanResolve(i)
  /\ Become(resolveVAddr(core, i, AccessOf(i)))
  /\ CoreOnly

Unresolve ==
  /\ ~Settled
  /\ Become(unresolveVAddr(core, Min(Misresolved)))
  /\ CoreOnly

CanSetValue(i) ==
  /\ i \in InQueue(core, "LSQ") /\ IsStore(core.queue[i])
  /\ ~core.queue[i].annulled /\ ~core.queue[i].storeComplete
  /\ Known(program[i].from) /\ core.queue[i].data # DataOf(i)
SetValue(i) ==
  /\ Settled /\ CanSetValue(i)
  /\ Become(updateStoreValue(core, i, DataOf(i)))
  /\ CoreOnly

(* The branch before a store in its delay slot is resolved and annuls it,  *)
(* or, evaluated again with another condition, reinstates it: the store    *)
(* gets its value again and may not retire before.                         *)
Annul(i) ==
  /\ Settled /\ i \in InQueue(core, "LSQ")
  /\ core.queue[i].op = "Store" /\ program[i].slot /\ ~core.queue[i].annulled
  /\ Become(annulStoreValue(core, i))
  /\ CoreOnly

Reinstate(i) ==
  /\ Settled /\ disturbed < MaxDisturb /\ i \in InQueue(core, "LSQ")
  /\ program[i].slot /\ core.queue[i].annulled /\ Known(program[i].from)
  /\ Become(updateStoreValue(core, i, DataOf(i)))
  /\ disturbed' = disturbed + 1
  /\ UNCHANGED <<program, next, replies, snoops, l1, memory, result>>

-----------------------------------------------------------------------------
(* What the core does every cycle.                                         *)

QueueHead == Min(DOMAIN core.queue)

CanIssueStore == ~sbEmpty(core) /\ status(core.queue[QueueHead]) = "AwaitingIssue"
issueStore ==
  /\ Settled /\ CanIssueStore
  /\ Become(requestPort(core, QueueHead))
  /\ CoreOnly

CanIssueAtomic ==
  /\ core.queue # None
  /\ LET e == core.queue[QueueHead]
     IN  IsAtomic(e) /\ status(e) = "AwaitingIssue" /\ e.data # 0
issueAtomic ==
  /\ Settled /\ CanIssueAtomic
  /\ Become(requestPort(core, QueueHead))
  /\ CoreOnly

(* Asking again for a load that is requested or blocked changes nothing.   *)
Requested(c, i) == i \in c.requests \/ \E k \in Bytes : i \in c.mshrs[k].blocked
(* Mutant: only a load that asked for a port before is asked for again.    *)
MutPartialAgain ==
  /\ InQueue(core, "LSQ") # {} /\ core.queue[LSQHead(core)].partial
  /\ ~Requested(core, LSQHead(core)) /\ status(core.queue[LSQHead(core)]) = "AwaitingPort"

CanIssuePartialSnoop ==
  /\ InQueue(core, "LSQ") # {}
  /\ core.queue[LSQHead(core)].partial /\ ~Requested(core, LSQHead(core))
  /\ status(core.queue[LSQHead(core)]) \in {"AwaitingIssue", "AwaitingPort"}
issuePartialSnoop ==
  /\ Settled /\ CanIssuePartialSnoop
  /\ Become(requestPort(core, LSQHead(core)))
  /\ CoreOnly

PriorityRequests == {i \in core.requests : core.queue[i].op # "Load"}

(* arbitrate: stores and atomics first, by age.                            *)
IssueRequest ==
  /\ Settled /\ core.requests # {}
  /\ LET i == Min(IF PriorityRequests # {} THEN PriorityRequests ELSE core.requests)
     IN  Become(issue([core EXCEPT !.requests = @ \ {i}], i))
  /\ CoreOnly

(* Whether a prefetch goes ahead of a read depends on the reorder buffer.  *)
CanIssuePrefetch ==
  /\ PriorityRequests = {} /\ core.prefetches # {}
  /\ Cardinality(core.outstanding) < MaxPrefetches
IssuePrefetch ==
  /\ Settled /\ CanIssuePrefetch
  /\ LET i == Min(core.prefetches)
     IN  Become(issueStorePrefetch([core EXCEPT !.prefetches = @ \ {i}], i))
  /\ CoreOnly

(* Retirement and commit happen in one cycle.                              *)
Ready(i) ==
  /\ Known(program[i].base) /\ core.queue[i].access = AccessOf(i)
  /\ IsStore(core.queue[i]) => core.queue[i].data # 0 /\ (core.queue[i].failed \/ core.queue[i].data = DataOf(i))

retireMem(c, i) ==
  LET e == c.queue[i]
  IN  IF e.op = "Store" /\ ~e.annulled
      THEN requireWritePermission([c EXCEPT !.queue[i].queue = "SB"], i)
      ELSE eraseLSQ(c, i)

mayRetire(c, i) ==
  LET e == c.queue[i]
  IN  CASE e.op = "MEMBAR" -> sbEmpty(c)
        [] e.op = "Load" -> status(e) = "Complete" /\ Ready(i)
        [] e.op = "Store" -> e.annulled \/ (Ready(i) /\ ~sbFull(c))
        [] IsAtomic(e) -> e.storeComplete

CanRetire == InQueue(core, "LSQ") # {} /\ mayRetire(core, LSQHead(core))
Retire ==
  /\ Settled /\ CanRetire
  /\ LET i == LSQHead(core)
         e == core.queue[i]
     IN  /\ Become(retireMem(core, i))
         /\ result' = [result EXCEPT ![i] = e.loaded]
         /\ memory' = [b \in Bytes |-> IF IsAtomic(e) /\ ~e.failed /\ b \in e.access THEN e.data ELSE memory[b]]
  /\ UNCHANGED <<program, next, replies, snoops, l1, disturbed>>

(* The instructions from i on are removed, the youngest first.             *)
eraseFrom(c, i) ==
  LET from[n \in i .. Len(program) + 1] ==
        IF n > Len(program) THEN c
        ELSE LET younger == from[n + 1]
             IN  IF n \in DOMAIN c.queue THEN eraseLSQ(younger, n) ELSE younger
  IN  from[i]

(* The program goes on from i.  An atomic that was issued is past all      *)
(* branches.                                                               *)
doSquash(i) ==
  /\ Settled /\ disturbed < MaxDisturb
  /\ i \in InQueue(core, "LSQ")
  /\ IsAtomic(core.queue[i]) => ~core.queue[i].issued /\ ~core.queue[i].storeComplete
  /\ Become(eraseFrom(core, i))
  /\ next' = i
  /\ disturbed' = disturbed + 1
  /\ UNCHANGED <<program, replies, snoops, l1, memory, result>>

-----------------------------------------------------------------------------
(* The L1 and the other cores.                                             *)

OwnStores(b) == {s \in InQueue(core, "SB") : b \in core.queue[s].access}

CanAnswer(x) == Len(replies) < MaxReplies /\ l1[BlockOf[Min(x[2])]] \in {"I", "S", "M"}

(* pushMemOp: a reply enters theMemoryReplies with the value that is       *)
(* visible to this core.                                                   *)
Answer(x) ==
  LET op == x[1]
      access == x[2]
      block == BlockOf[Min(access)]
      seen == [b \in access |-> IF OwnStores(b) = {} THEN memory[b]
                                ELSE StoreValue(core.queue[Max(OwnStores(b))], b)]
  IN  /\ Settled /\ CanAnswer(x)
      /\ l1' = [l1 EXCEPT ![block] = IF op = "Load" /\ @ # "M" THEN "S" ELSE "M"]
      /\ replies' = Append(replies, [op |-> op, access |-> access,
                                     value |-> IF op \in {"Load", "RMW", "CAS"} THEN seen ELSE None])
      /\ memory' = [b \in Bytes |-> IF op = "Store" /\ b \in access
                                    THEN StoreValue(core.queue[QueueHead], b) ELSE memory[b]]
      /\ sent' = sent (-) SetToBag({x})
      /\ UNCHANGED <<program, next, core, snoops, result, disturbed>>

Snoop(b, op) ==
  /\ Settled /\ disturbed < MaxDisturb /\ Len(replies) < MaxReplies
  /\ l1[b] \in (IF op = "Invalidate" THEN {"S", "M"} ELSE {"M"})
  /\ l1' = [l1 EXCEPT ![b] = IF op = "Invalidate" THEN "Invalidating" ELSE "Downgrading"]
  /\ replies' = Append(replies, [op |-> op, access |-> {k \in Bytes : BlockOf[k] = b}, value |-> None])
  /\ disturbed' = disturbed + 1
  /\ UNCHANGED <<program, next, core, sent, snoops, memory, result>>

RemoteWrite(b) ==
  /\ Settled /\ disturbed < MaxDisturb /\ l1[b] = "I"
  /\ memory' = [k \in Bytes |-> IF BlockOf[k] = b THEN 2 * Len(program) + disturbed + 1 ELSE memory[k]]
  /\ disturbed' = disturbed + 1
  /\ UNCHANGED <<program, next, core, sent, replies, snoops, l1, result>>

(* processMemoryReplies: an acknowledgement needs a snoop buffer.          *)
IsSnoop(r) == r.op \in {"Invalidate", "Downgrade"}
CanProcessReply == replies # <<>> /\ (IsSnoop(Head(replies)) => Len(snoops) < MaxSnoops)
ProcessReply ==
  /\ Settled /\ CanProcessReply
  /\ LET r == Head(replies)
     IN  /\ Become(processReply(core, r))
         /\ snoops' = IF IsSnoop(r)
                      THEN Append(snoops, BlockOf[Min(r.access)]) ELSE snoops
  /\ replies' = Tail(replies)
  /\ UNCHANGED <<program, next, l1, memory, result, disturbed>>

PopSnoop ==
  /\ snoops # <<>>
  /\ l1' = [l1 EXCEPT ![Head(snoops)] = IF @ = "Invalidating" THEN "I" ELSE "S"]
  /\ snoops' = Tail(snoops)
  /\ UNCHANGED <<program, next, core, sent, replies, memory, result, disturbed>>

Next ==
  \/ Dispatch \/ Unresolve \/ issueStore \/ issueAtomic \/ issuePartialSnoop
  \/ IssueRequest \/ IssuePrefetch \/ Retire \/ ProcessReply \/ PopSnoop
  \/ \E i \in Ids : Resolve(i) \/ SetValue(i) \/ Annul(i) \/ Reinstate(i) \/ doSquash(i)
  \/ \E x \in DOMAIN sent : Answer(x)
  \/ \E b \in Blocks : Snoop(b, "Invalidate") \/ Snoop(b, "Downgrade") \/ RemoteWrite(b)

(* Nothing is left to do for the core or the L1: no step except those of   *)
(* the other cores and of a branch is enabled.                             *)
Quiet ==
  ~ \/ ~Settled \/ CanDispatch \/ CanIssueStore \/ CanIssueAtomic \/ CanIssuePartialSnoop
    \/ core.requests # {} \/ CanIssuePrefetch \/ CanRetire \/ CanProcessReply \/ snoops # <<>>
    \/ \E i \in Ids : CanResolve(i) \/ CanSetValue(i)
    \/ \E x \in DOMAIN sent : CanAnswer(x)

Spec == Init /\ [][Next]_vars
(* The core and the L1 run every cycle: they do not stop before they are   *)
(* quiet.  The other steps are bounded by MaxDisturb.                      *)
FairSpec == Spec /\ ([]<>Quiet \/ []<><<TRUE>>_vars)
-----------------------------------------------------------------------------
LinksMatch ==
  /\ \A k \in Bytes : core.mshrs[k] # NoMSHR => core.mshrs[k].waiting # {}
  /\ \A i \in Ids, k \in Bytes :
       i \in core.mshrs[k].waiting <=>
         /\ i \in DOMAIN core.queue /\ core.queue[i].mshr
         /\ core.queue[i].access = core.mshrs[k].access
         /\ paddr(core.queue[i]) = k
         /\ status(core.queue[i]) = "IssuedToMemory"
  /\ \A i \in DOMAIN core.queue :
       core.queue[i].mshr => i \in core.mshrs[paddr(core.queue[i])].waiting

NoneForgotten ==
  \A i \in DOMAIN core.queue :
    status(core.queue[i]) = "AwaitingPort" /\ ~core.queue[i].partial =>
      i \in core.requests \/ i \in core.mshrs[paddr(core.queue[i])].blocked

(* An MSHR exists as long as somebody waits for it, and the two ends of    *)
(* the link agree: who waits in an MSHR is in the queue, has its address   *)
(* and size, and is issued to memory, as completeLSQ asserts.  Replies,    *)
(* new store values, new addresses and squashes all cut and renew links.   *)
(* Whatever waits for a port is known to the arbiter or to the MSHR that   *)
(* blocks it, so "Port request is already done, it will pick up the new    *)
(* state of the load" (doLoad); a load that must apply partial stores is   *)
(* asked for again when it is the oldest.  Of a program that mixes sizes a *)
(* request can be lost: see SameSize in the proofs.                        *)
WaitersKnown == LinksMatch /\ NoneForgotten

(* theSBLines_Permission counts the stores in the store buffer, block by   *)
(* block, and the core believes it may write a block only while the L1     *)
(* holds it modified or the snoop that takes it away is still in           *)
(* theMemoryReplies.                                                       *)
PermissionKept ==
  \A b \in Blocks :
    /\ core.permission[b].count =
         Cardinality({i \in InQueue(core, "SB") : BlockOf[paddr(core.queue[i])] = b})
    /\ core.permission[b].held =>
         \/ l1[b] = "M"
         \/ \E n \in DOMAIN replies : /\ replies[n].op \in {"Invalidate", "Downgrade"}
                                      /\ BlockOf[Min(replies[n].access)] = b

(* Accesses of one size, aligned to it: two that overlap are the same.     *)
SameSize ==
  \A i, j \in Ids, v, w \in 1 .. 2 :
    program[i].access[v] = program[j].access[w] \/ program[i].access[v] \cap program[j].access[w] = {}

(* One size, no atomics, and no store whose address depends on a load.     *)
Plain ==
  /\ SameSize
  /\ \A i \in Ids : /\ program[i].op \notin {"RMW", "CAS"}
                    /\ program[i].op = "Store" => program[i].base = 0

(* In a program of one access size, without atomics and without stores     *)
(* whose address depends on a load, a load whose youngest older store is   *)
(* not in a delay slot has that store's value once both are known, however *)
(* addresses and values came and changed, stores in delay slots were       *)
(* annulled and reinstated, and instructions were squashed.  The code does *)
(* not keep it elsewhere: the search for the loads of a store stops at any *)
(* store that meets the first one, goes on past atomics, and is left out   *)
(* when a reinstated store has the value it had before.                    *)
ForwardedFromYoungest ==
  Plain => \A l \in InQueue(core, "LSQ") :
    LET e == core.queue[l]
        S == OlderStores(core, l)
    IN  /\ e.op = "Load" /\ status(e) = "Complete"
        /\ S # {} /\ ~program[Max(S)].slot /\ core.queue[Max(S)].data # 0
        => \A b \in e.access : e.loaded[b] = core.queue[Max(S)].data

OvertakingLoads ==
  {l \in InQueue(core, "LSQ") :
     /\ core.queue[l].op = "Load" /\ core.queue[l].loaded # None
     /\ \E i \in InQueue(core, "LSQ") :
          i < l /\ core.queue[i].op # "Store" /\ (core.queue[i].op = "Load" => core.queue[i].loaded = None)}

(* TSO: a load that has a value although an older load, MEMBAR or atomic   *)
(* has not finished still has what memory holds in every byte that no own  *)
(* store provides, unless the invalidation that will repeat it waits in    *)
(* theMemoryReplies, or an earlier one found it in order and let it        *)
(* override Simics.                                                        *)
UnorderedLoadsCurrent ==
  \A l \in OvertakingLoads :
    LET e == core.queue[l]
    IN  \A b \in e.access :
          \/ e.override
          \/ \E s \in OlderStores(core, l) : b \in core.queue[s].access
          \/ \E n \in DOMAIN replies : replies[n].op = "Invalidate" /\ b \in replies[n].access
          \/ e.loaded[b] = memory[b]

(* A load that invalidate leaves alone because "there are no incomplete    *)
(* mem ops, MEMBARs, or loads preceding it" stays in order: the case is    *)
(* "strictly speaking correct".  So no complete load after an incomplete   *)
(* one holds a value that another core has overwritten.                    *)
AlreadyOrdered ==
  \A l \in OvertakingLoads :
    LET e == core.queue[l]
    IN  \A b \in e.access :
          \/ \E s \in OlderStores(core, l) : b \in core.queue[s].access
          \/ \E n \in DOMAIN replies : replies[n].op = "Invalidate" /\ b \in replies[n].access
          \/ e.loaded[b] = memory[b]

(* The program finishes: no load, store, atomic or MEMBAR waits for ever   *)
(* for an address, a port, an MSHR, a permission or the store buffer.      *)
ProgramFinishes == <>(next > Len(program) /\ core.queue = None)
=============================================================================
