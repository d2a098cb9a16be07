-------------------------- MODULE FunctionalCaches --------------------------
(***************************************************************************)
(* The functional cache hierarchy of the trace simulators (CMP.L2Shared.   *)
(* Trace): an instruction and a data FastCache per core (InclusiveMESI     *)
(* protocol), the shared FastCMPCache with its SingleCMP protocol and an   *)
(* infinite directory, FastMemoryLoopback, and DMA.  There are no queues:  *)
(* a reference of the feeder runs through all the caches in one call, so   *)
(* one action is one reference, with the snoops, the replacement in the L2 *)
(* and the eviction of the L1 that it causes.                              *)
(***************************************************************************)
EXTENDS Integers, Sequences, FiniteSets

CONSTANTS
  Cores,      \* number of cores; cache 2k is the L1D of core k, 2k+1 its L1I
  Blocks,     \* the blocks of one set of every cache
  L1Assoc,    \* ways of an L1 set
  L2Assoc     \* ways of an L2 set

ASSUME SizeAssumption == {Cores, L1Assoc, L2Assoc} \subseteq Nat \ {0}

Caches == 0 .. 2 * Cores - 1
DCaches == {2 * k : k \in 0 .. Cores - 1}
ICaches == Caches \ DCaches

VARIABLES
  l1,      \* [Caches -> the blocks of the set, least recently used first]
  l2,      \* the same for the L2
  dir,     \* [Blocks -> set of caches]: the sharers in the directory
  cfg,     \* CleanEvictions of the L1s, AlwaysMulticast of the L2
  failed,  \* has a DBG_Assert failed
  counted, \* the block and the class of the last request the L2 counted
  owed     \* history: blocks with a store that memory does not have yet

vars == <<l1, l2, dir, cfg, failed, counted, owed>>

States == {"M", "E", "S", "I"}
Entry == [tag : Blocks, state : States]
NotCounted == [block |-> "none", class |-> "none"]

(* Every set holds a block at most once and no more blocks than ways; the  *)
(* directory, the counters and the history are of their types.             *)
TypeOK ==
  /\ \A c \in Caches : l1[c] \in Seq(Entry) /\ Len(l1[c]) <= L1Assoc
  /\ l2 \in Seq(Entry) /\ Len(l2) <= L2Assoc
  /\ \A set \in {l1[c] : c \in Caches} \cup {l2} :
       \A i, j \in DOMAIN set : set[i].tag = set[j].tag => i = j
  /\ dir \in [Blocks -> SUBSET Caches]
  /\ cfg \in [clean : BOOLEAN, multicast : BOOLEAN]
  /\ failed \in BOOLEAN
  /\ counted = NotCounted \/ counted \in [block : Blocks, class : {"OffChip", "OnChip", "Hit"}]
  /\ owed \subseteq Blocks

-----------------------------------------------------------------------------
(* StdCache: one set, in LRU order.                                        *)

Way(set, b) == {i \in DOMAIN set : set[i].tag = b}
Present(set, b) == Way(set, b) # {}
StateOf(set, b) == IF Present(set, b) THEN set[CHOOSE i \in Way(set, b) : TRUE].state ELSE "I"
Without(set, i) == SubSeq(set, 1, i - 1) \o SubSeq(set, i + 1, Len(set))
Block(b, st) == [tag |-> b, state |-> st]

(* Mutant: the ways are not counted. *)
MutLookup(set, b, assoc) ==
  IF Present(set, b) THEN set ELSE <<Block(b, "I")>> \o set

(* A block that is not found takes a free way as Invalid, least recently used. *)
Lookup(set, b, assoc) ==
  IF Present(set, b) \/ Len(set) >= assoc THEN set ELSE <<Block(b, "I")>> \o set

(* The way a lookup returns: the block's own, or the least recently used. *)
Victim(set, b) == IF Present(set, b) THEN CHOOSE i \in Way(set, b) : TRUE ELSE 1

(* The block that allocating b replaces, if it is valid. *)
Replaced(set, b) == {e \in {set[Victim(set, b)]} : e.tag # b /\ e.state # "I"}
Allocate(set, b, st) == Append(Without(set, Victim(set, b)), Block(b, st))

ChangeState(set, b, st, order) ==
  LET i == CHOOSE j \in Way(set, b) : TRUE IN
  CASE order = "MRU" -> Append(Without(set, i), Block(b, st))
    [] order = "LRU" -> <<Block(b, st)>> \o Without(set, i)
    [] OTHER -> [set EXCEPT ![i].state = st]

-----------------------------------------------------------------------------
(* FastCache snooped by the L2: InclusiveMESI, nothing above the L1.       *)

SnoopL1(set, b, type) ==
  LET seen == Lookup(set, b, L1Assoc)
      st   == StateOf(seen, b)
  IN IF st = "I" \/ (st = "S" /\ type # "Invalidate") THEN seen
     ELSE CASE type = "Invalidate" -> ChangeState(seen, b, "I", "LRU")
            [] type = "Downgrade" -> ChangeState(seen, b, "S", "LRU")
            [] type = "ReturnReq" -> ChangeState(seen, b, "S", "Same")

(* What the answers of several caches come to: combineSnoopResponse. *)
Combined(type, states) ==
  CASE states = {} -> "NoRequest"
    [] states = {"I"} -> IF type = "Invalidate" THEN "Invalidate" ELSE "ReturnNAck"
    [] "M" \in states -> IF type = "Invalidate" THEN "InvUpdateAck" ELSE "ReturnReplyDirty"
    [] OTHER -> IF type = "Invalidate" THEN "InvalidateAck" ELSE "ReturnReply"

(* Mutant: a snoop that misses leaves the sharer in the directory. *)
MutFailedSnoopKept(type, b, asked, copies) ==
  IF type = "Invalidate" THEN {c \in asked : StateOf(copies[c], b) # "I"} ELSE {}

(* The sharers that leave the directory: all that were invalidated, and    *)
(* those a snoop found without the block (failedSnoop).                    *)
RemovedSharers(type, b, asked, copies) ==
  IF type = "Invalidate" THEN asked ELSE {c \in asked : StateOf(copies[c], b) = "I"}

-----------------------------------------------------------------------------
(* SingleCMP: what the L2 does with a request, by its own state of the     *)
(* block and by the number of sharers in the directory.                    *)

Poison == [poison |-> TRUE]

(* snoop and its terminal responses; the reply and the next state, one for *)
(* each terminal response; are all sharers snooped, is the request         *)
(* forwarded to memory, is the block allocated, is it made the most        *)
(* recently used.                                                          *)
Plain(reply, next, fwd, alloc) ==
  [poison |-> FALSE, snoop |-> "NoRequest", terminal |-> <<"NoRequest", "NoRequest">>,
   reply |-> <<reply, "NO_RESP">>, next |-> <<next, next>>,
   multi |-> FALSE, fwd |-> fwd, alloc |-> alloc, update |-> TRUE]

Return(reply2, next, next2, alloc) ==
  [Plain("MissReply", next, FALSE, alloc) EXCEPT
     !.snoop = "ReturnReq", !.terminal = <<"ReturnReply", "ReturnReplyDirty">>,
     !.reply[2] = reply2, !.next[2] = next2]

Invalidating(ds, reply, reply2, next) ==
  [Plain(reply, next, FALSE, FALSE) EXCEPT
     !.snoop = "Invalidate", !.terminal = <<"InvalidateAck", "InvUpdateAck">>,
     !.reply[2] = reply2, !.multi = ds = "Many"]

(* Mutant: the dirty reply of a sharer leaves the L2 with a clean copy. *)
MutReadForgetsDirty(cs, ds) ==
  CASE cs = "I" /\ ds = "Zero" -> Plain("MissReplyWritable", "E", TRUE, TRUE)
    [] cs = "I" /\ ds # "Zero" -> Return("MissReply", "S", "S", TRUE)
    [] cs = "E" /\ ds = "One" -> Return("MissReply", "E", "M", FALSE)
    [] cs = "E" /\ ds = "Zero" -> Plain("MissReplyWritable", "E", FALSE, FALSE)
    [] cs = "M" /\ ds = "Zero" -> Plain("MissReplyDirty", "I", FALSE, FALSE)
    [] OTHER -> Plain("MissReply", cs, FALSE, FALSE)

ReadAction(cs, ds) ==
  CASE cs = "I" /\ ds = "Zero" -> Plain("MissReplyWritable", "E", TRUE, TRUE)
    [] cs = "I" /\ ds # "Zero" -> Return("MissReply", "S", "M", TRUE)
    [] cs = "E" /\ ds = "One" -> Return("MissReply", "E", "M", FALSE)
    [] cs = "E" /\ ds = "Zero" -> Plain("MissReplyWritable", "E", FALSE, FALSE)
    [] cs = "M" /\ ds = "Zero" -> Plain("MissReplyDirty", "I", FALSE, FALSE)
    [] OTHER -> Plain("MissReply", cs, FALSE, FALSE)

FetchAction(cs, ds) ==
  CASE cs = "I" /\ ds = "Zero" -> Plain("MissReply", "S", TRUE, TRUE)
    [] cs = "I" /\ ds # "Zero" -> Return(IF ds = "One" THEN "MissReply" ELSE "NO_RESP", "S", "M", TRUE)
    [] cs \in {"E", "M"} /\ ds = "One" -> Return("MissReply", cs, "M", FALSE)
    [] OTHER -> Plain("MissReply", cs, FALSE, FALSE)

UpgradeAction(cs, ds) ==
  CASE ds = "Zero" -> Poison
    [] ds = "One" -> Plain("UpgradeReply", "I", FALSE, FALSE)
    [] ds = "Many" -> Invalidating(ds, "UpgradeReply", "UpgradeReply", "I")

(* Mutant: a write that finds no copy on the chip is not forwarded. *)
MutWriteStaysOnChip(cs, ds) ==
  LET reply  == IF cs = "M" THEN "MissReplyDirty" ELSE "MissReply"
      reply2 == CASE cs \in {"M", "E"} -> "MissReplyDirty"
                  [] cs \in {"S", "I"} /\ ds = "One" -> "MissReply"
                  [] OTHER -> "NO_RESP"
  IN IF ds = "Zero"
     THEN Plain(IF cs = "M" THEN "MissReplyDirty" ELSE "MissReplyWritable", "I", FALSE, FALSE)
     ELSE Invalidating(ds, reply, reply2, "I")

WriteAction(cs, ds) ==
  LET reply  == IF cs = "M" THEN "MissReplyDirty" ELSE "MissReply"
      reply2 == CASE cs \in {"M", "E"} -> "MissReplyDirty"
                  [] cs \in {"S", "I"} /\ ds = "One" -> "MissReply"
                  [] OTHER -> "NO_RESP"
  IN IF ds = "Zero"
     THEN Plain(IF cs = "M" THEN "MissReplyDirty" ELSE "MissReplyWritable", "I", cs = "I", FALSE)
     ELSE Invalidating(ds, reply, reply2, "I")

NonAllocatingStoreAction(cs, ds) ==
  LET reply == "NonAllocatingStoreReply"
      reply2 == IF cs \in {"S", "I"} /\ ds = "Many" THEN "NO_RESP" ELSE reply
  IN CASE cs # "I" /\ ds = "Zero" -> Plain(reply, "M", FALSE, FALSE)
       [] cs # "I" /\ ds # "Zero" -> Invalidating(ds, reply, reply2, "M")
       [] cs = "I" /\ ds = "Zero" -> Plain(reply, "I", TRUE, FALSE)
       [] cs = "I" /\ ds # "Zero" ->
            [Invalidating(ds, reply, reply2, "I") EXCEPT
               !.terminal = <<"NoRequest", "NoRequest">>, !.fwd = TRUE]

(* An eviction of an L1. *)
EvictAction(type, cs, ds) ==
  LET keep(next, alloc) == [Plain("NO_RESP", next, FALSE, alloc) EXCEPT !.update = FALSE]
  IN CASE type = "EvictClean" /\ ds # "Zero" -> keep(cs, FALSE)
       [] type = "EvictWritable" /\ ds = "One" /\ cs \in {"M", "E"} -> keep(cs, FALSE)
       [] type = "EvictWritable" /\ ds = "One" /\ cs = "I" -> keep("E", TRUE)
       [] type = "EvictDirty" /\ ds = "One" /\ cs \in {"E", "I"} -> keep("M", TRUE)
       [] OTHER -> Poison

IsEvict(req) == req \in {"EvictClean", "EvictWritable", "EvictDirty"}

getAction(req, cs, ds) ==
  CASE req = "ReadReq" -> ReadAction(cs, ds)
    [] req = "FetchReq" -> FetchAction(cs, ds)
    [] req = "UpgradeReq" -> UpgradeAction(cs, ds)
    [] req = "WriteReq" -> WriteAction(cs, ds)
    [] req = "NonAllocatingStoreReq" -> NonAllocatingStoreAction(cs, ds)
    [] OTHER -> EvictAction(req, cs, ds)

Sharing(sharers) ==
  CASE Cardinality(sharers) = 0 -> "Zero"
    [] Cardinality(sharers) = 1 -> "One"
    [] OTHER -> "Many"

-----------------------------------------------------------------------------
(* FastCMPCache.  The functions below take and return the caches as one    *)
(* record, because one reference can reach the L2 twice.                   *)

Chip == [l1 |-> l1, l2 |-> l2, dir |-> dir, owed |-> owed, failed |-> failed,
         counted |-> NotCounted, reply |-> "none"]

Fail(s) == [s EXCEPT !.failed = TRUE]

(* Mutant: only an eviction that brings data takes the sharer away. *)
MutCleanEvictKept(sharers, c, req, reply) ==
  CASE req = "EvictDirty" -> [sharers |-> sharers \ {c}, ok |-> TRUE]
    [] req \in {"EvictClean", "EvictWritable"} -> [sharers |-> sharers, ok |-> TRUE]
    [] req = "UpgradeReq" -> [sharers |-> sharers, ok |-> sharers = {c}]
    [] reply = "MissReply" -> [sharers |-> sharers \cup {c}, ok |-> TRUE]
    [] reply \in {"MissReplyWritable", "MissReplyDirty"} ->
         [sharers |-> sharers \cup {c}, ok |-> sharers \subseteq {c}]
    [] OTHER -> [sharers |-> sharers, ok |-> TRUE]

(* The sharers after a request of c, and whether makeExclusive would assert. *)
processRequestResponse(sharers, c, req, reply) ==
  CASE IsEvict(req) -> [sharers |-> sharers \ {c}, ok |-> TRUE]
    [] req = "UpgradeReq" -> [sharers |-> sharers, ok |-> sharers = {c}]
    [] reply = "MissReply" -> [sharers |-> sharers \cup {c}, ok |-> TRUE]
    [] reply \in {"MissReplyWritable", "MissReplyDirty"} ->
         [sharers |-> sharers \cup {c}, ok |-> sharers \subseteq {c}]
    [] reply = "NonAllocatingStoreReply" -> [sharers |-> sharers, ok |-> TRUE]
    [] OTHER -> [sharers |-> sharers, ok |-> FALSE]

(* Which counter of hits and misses a request increments, if any. *)
Classify(before, req, b, offChip, success) ==
  IF IsEvict(req) \/ req = "UpgradeReq" THEN before
  ELSE [block |-> b,
        class |-> CASE offChip -> "OffChip" [] success -> "OnChip" [] OTHER -> "Hit"]

(* The caches that are snooped: in the order of their numbers, all of them *)
(* or until one has the block, and never the requester.                    *)
Asked(s, c, b, a) ==
  LET listed  == IF a.snoop = "NoRequest" THEN {} ELSE s.dir[b] \ {c}
      holders == {d \in listed : StateOf(s.l1[d], b) # "I"}
      all     == a.multi \/ (cfg.multicast /\ Cardinality(listed) > 1)
  IN  {d \in listed : all \/ \A h \in holders : d <= h}

SendSnoops(s, b, a, asked) ==
  [s EXCEPT
     !.l1 = [d \in Caches |-> IF d \in asked THEN SnoopL1(@[d], b, a.snoop) ELSE @[d]],
     !.dir[b] = @ \ RemovedSharers(a.snoop, b, asked, s.l1)]

UpdateCache(set, b, a, cs, next) ==
  IF a.alloc THEN Allocate(set, b, next)
  ELSE IF next # cs \/ (a.update /\ cs # "I")
       THEN ChangeState(set, b, next, IF a.update THEN "MRU" ELSE "Same")
  ELSE set

(* What memory does not have after the request: a dirty block that is      *)
(* replaced and a forwarded store reach it.                                *)
Owed(before, req, b, offChip, replaced) ==
  (IF req # "NonAllocatingStoreReq" THEN before
   ELSE IF offChip THEN before \ {b} ELSE before \cup {b}) \ {e.tag : e \in {v \in replaced : v.state = "M"}}

(* The rest of a request, once the snoops have been answered: forward it   *)
(* to memory, answer it, update the directory and the set of the L2.       *)
Respond(s, req, b, set, a, n, success, offChip, answer) ==
  LET cs   == StateOf(set, b)
      next == a.next[n]
  IN IF ~answer.ok \/ (~a.alloc /\ next # cs /\ cs = "I") THEN Fail(s)
     ELSE [s EXCEPT
             !.l2 = UpdateCache(set, b, a, cs, next),
             !.dir[b] = answer.sharers,
             !.owed = Owed(@, req, b, offChip, IF a.alloc THEN Replaced(set, b) ELSE {}),
             !.counted = Classify(@, req, b, offChip, success),
             !.reply = a.reply[n]]

(* The second reply and next state are those of the second terminal        *)
(* response; the request goes to memory when no snoop succeeded and the    *)
(* protocol says so.                                                       *)
Snooped(s, c, req, b, set, a, response) ==
  LET success == a.snoop # "NoRequest" /\ response \in {a.terminal[1], a.terminal[2]}
      n       == IF response # a.terminal[1] /\ response = a.terminal[2] THEN 2 ELSE 1
  IN  Respond(s, req, b, set, a, n, success, a.fwd /\ ~success,
              processRequestResponse(s.dir[b], c, req, a.reply[n]))

Perform(s, c, req, b, set, a) ==
  LET asked == Asked(s, c, b, a)
  IN IF a.poison THEN Fail(s)
     ELSE Snooped(SendSnoops(s, b, a, asked), c, req, b, set, a,
                  Combined(a.snoop, {StateOf(s.l1[d], b) : d \in asked}))

(* A request of cache c. *)
processRequest(s, c, req, b) ==
  LET set == Lookup(s.l2, b, L2Assoc)
  IN  Perform(s, c, req, b, set, getAction(req, StateOf(set, b), Sharing(s.dir[b])))

-----------------------------------------------------------------------------
(* FastCache.                                                              *)

EvictType(st) == CASE st = "M" -> "EvictDirty" [] st = "E" -> "EvictWritable" [] OTHER -> "EvictClean"

(* A block is allocated in cache c; the one it replaces is evicted first.  *)
(* Without CleanEvictions only a dirty one is reported to the L2.          *)
AllocateL1(s, c, b, st) ==
  LET set    == s.l1[c]
      victim == {e \in Replaced(set, b) : e.state = "M" \/ cfg.clean}
      after  == IF victim = {} THEN s
                ELSE LET e == CHOOSE v \in victim : TRUE
                     IN  processRequest(s, c, EvictType(e.state), e.tag)
  IN IF s.failed THEN s ELSE [after EXCEPT !.l1[c] = Allocate(set, b, st)]

Touch(s, c, b, st) == [s EXCEPT !.l1[c] = ChangeState(@, b, st, "MRU")]

(* The state an L1 takes from the reply to the ReadReq of a load. *)
FillState(reply) ==
  CASE reply = "MissReplyWritable" -> "E" [] reply = "MissReplyDirty" -> "M" [] OTHER -> "S"

(* The references of the feeder: a load, a store (an RMW or a Cmpx too), a *)
(* non-allocating block store and an instruction fetch.                    *)
LoadAccess(s, c, b, st) ==
  IF st # "I" THEN Touch(s, c, b, st)
  ELSE LET t == processRequest(s, c, "ReadReq", b) IN AllocateL1(t, c, b, FillState(t.reply))

FetchAccess(s, c, b, st) ==
  IF st # "I" THEN Touch(s, c, b, st)
  ELSE AllocateL1(processRequest(s, c, "FetchReq", b), c, b, "S")

StoreAccess(s, c, b, st) ==
  CASE st \in {"M", "E"} -> Touch(s, c, b, "M")
    [] st = "S" -> Touch(processRequest(s, c, "UpgradeReq", b), c, b, "M")
    [] st = "I" -> AllocateL1(processRequest(s, c, "WriteReq", b), c, b, "M")

NAWAccess(s, c, b, st) ==
  CASE st \in {"M", "E"} -> Touch(s, c, b, "M")
    [] st = "S" -> Touch(processRequest(s, c, "UpgradeReq", b), c, b, "M")
    [] st = "I" -> processRequest(s, c, "NonAllocatingStoreReq", b)

(* A reference is looked up in the L1 first, which may take a free way. *)
Seen(c, b) == [Chip EXCEPT !.l1[c] = Lookup(@, b, L1Assoc)]

Become(s) ==
  /\ l1' = s.l1
  /\ l2' = s.l2
  /\ dir' = s.dir
  /\ owed' = s.owed
  /\ failed' = s.failed
  /\ counted' = s.counted
  /\ UNCHANGED cfg

Load(c, b) == Become(LoadAccess(Seen(c, b), c, b, StateOf(l1[c], b)))
Fetch(c, b) == Become(FetchAccess(Seen(c, b), c, b, StateOf(l1[c], b)))
Store(c, b) ==
  LET s == StoreAccess(Seen(c, b), c, b, StateOf(l1[c], b))
  IN  Become([s EXCEPT !.owed = @ \cup {b}])
NonAllocatingStore(c, b) ==
  LET st == StateOf(l1[c], b)
      s  == NAWAccess(Seen(c, b), c, b, st)
  IN  Become([s EXCEPT !.owed = IF st = "I" THEN @ ELSE @ \cup {b}])

(* DMA: a write invalidates every copy; a read makes memory current, the   *)
(* L2 copy Exclusive and the only sharer Shared, and leaves several        *)
(* sharers alone.                                                          *)
SnoopIn(type, b) ==
  LET set   == Lookup(l2, b, L2Assoc)
      cs    == StateOf(set, b)
      asked == IF type = "Downgrade" /\ Cardinality(dir[b]) > 1 THEN {} ELSE dir[b]
  IN Become([Chip EXCEPT
       !.l2 = CASE type = "Downgrade" /\ cs = "M" -> ChangeState(set, b, "E", "Same")
                [] type = "Invalidate" /\ cs # "I" -> ChangeState(set, b, "I", "Same")
                [] OTHER -> set,
       !.l1 = [c \in Caches |-> IF c \in asked THEN SnoopL1(@[c], b, type) ELSE @[c]],
       !.dir[b] = IF type = "Invalidate" THEN @ \ asked ELSE @,
       !.owed = @ \ {b}])

DMARead(b) == SnoopIn("Downgrade", b)
DMAWrite(b) == SnoopIn("Invalidate", b)

Init ==
  /\ l1 = [c \in Caches |-> <<>>]
  /\ l2 = <<>>
  /\ dir = [b \in Blocks |-> {}]
  /\ cfg \in [clean : BOOLEAN, multicast : BOOLEAN]
  /\ failed = FALSE
  /\ counted = NotCounted
  /\ owed = {}

Next ==
  /\ ~failed
  /\ \E b \in Blocks :
       \/ \E c \in DCaches : Load(c, b) \/ Store(c, b) \/ NonAllocatingStore(c, b)
       \/ \E c \in ICaches : Fetch(c, b)
       \/ DMARead(b)
       \/ DMAWrite(b)

Spec == Init /\ [][Next]_vars

-----------------------------------------------------------------------------
Holders(b) == {c \in Caches : StateOf(l1[c], b) # "I"}

(* No combination of the L2 state, the sharers and a request is one that   *)
(* SingleCMP calls poison, no reply is NO_RESP, makeExclusive always finds *)
(* the requester alone, and no block changes its state without a way.      *)
NoAssert == ~failed

SingleWriter ==
  \A b \in Blocks, c \in Caches :
    StateOf(l1[c], b) \in {"M", "E"} => Holders(b) = {c} /\ StateOf(l2, b) # "M"

DirectoryExact ==
  \A b \in Blocks : Holders(b) \subseteq dir[b] /\ (cfg.clean => dir[b] \subseteq Holders(b))

(* A writable L1 copy is the only L1 copy, and the L2 does not think it    *)
(* has the dirty one.  The directory names every cache with a copy, or a   *)
(* later write would not invalidate it; and when the L1s report clean      *)
(* evictions no other, so that every snoop it sends finds the block.       *)
Coherent == SingleWriter /\ DirectoryExact

(* A block that memory does not have up to date is Modified somewhere, so  *)
(* that its eviction will reach memory: no snoop, fill, upgrade or         *)
(* replacement loses the dirty state.                                      *)
DirtyKept ==
  cfg.clean => \A b \in owed : \E set \in {l1[c] : c \in Caches} \cup {l2} : StateOf(set, b) = "M"

(* "request satisfied in L2 => L2 hit": a request that is counted as a hit *)
(* finds the block in the L2.                                              *)
HitsAreInL2 ==
  [][cfg.clean /\ counted'.class = "Hit" => StateOf(l2, counted'.block) # "I"]_vars
=============================================================================
