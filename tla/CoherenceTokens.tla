-------------------------- MODULE CoherenceTokens --------------------------
(***************************************************************************)
(* The coherence protocol of CmpCoherence as an exchange of tokens.  In    *)
(* which channel or buffer a message is, in which order, and how often the *)
(* MAF of the L2 has put a request off is left out: what counts is that    *)
(* the message is on its way.  No token exists twice.                      *)
(*                                                                         *)
(* A core has a copy and perhaps a miss.  Its request is posted, then      *)
(* served: the token of a read is a ReadFwd at the L1 of a sharer, a       *)
(* request at memory, or a reply; a write is served alone and has a token  *)
(* for every copy it takes away.                                           *)
(***************************************************************************)
EXTENDS Integers, FiniteSets

CONSTANT Cores

VARIABLES
  copy,      \* state of the block in each L1, in the array or the evict buffer
  leaving,   \* the cores whose eviction is announced and not acknowledged
  miss,      \* what each core waits for: "None", "Load" or "Store"
  balance,   \* acks a store waits for, negative while their number is unknown
  filled,    \* the cores whose store has received data
  reads,     \* the cores with a ReadReq the L2 has not served
  writes,    \*   ... with a WriteReq
  upgrades,  \*   ... with an UpgradeReq
  cleans,    \*   ... with an EvictClean or EvictWritable
  dirties,   \*   ... with an EvictDirty
  reading,   \* the cores whose ReadReq is being served
  writing,   \*   ... whose WriteReq
  upgrading, \*   ... whose UpgradeReq
  forwards,  \* <<x, d>>: a ReadFwd for reader x on its way to L1 d
  held,      \* <<x, d>>: a ReadFwd for reader x that waits for the core of L1 d
  fetches,   \* the L1s with a WriteFwd for the write that is being served
  invals,    \* the L1s with an Invalidate for it
  atMemory,  \* the cores whose request is at memory
  evictAcks, \* the cores an EvictAck is on its way to
  replies,   \* the messages of the Reply channel
  bank,      \* state of the block in the L2
  victim,    \* "dirty" while the evict buffer of the L2 has it, else "none"
  sharers    \* the directory

l1Vars == <<copy, leaving, miss, balance, filled>>
postVars == <<reads, writes, upgrades, cleans, dirties>>
serveVars == <<reading, writing, upgrading>>
tokenVars == <<forwards, held, fetches, invals, atMemory, evictAcks>>
dirVars == <<bank, victim, sharers>>
vars == <<l1Vars, postVars, serveVars, tokenVars, replies, dirVars>>

Mem == "Memory"
Dir == "Directory"
NotifyTypes == {"MissNotify", "MissNotifyData"}
ReadAckTypes == {"ReadAck", "ReadAckDirty"}
WriteAckTypes == {"WriteAck", "UpgradeAck"}
GrantTypes == {"MissReplyWritable", "MissReplyDirty"}
FetchTypes == {"FwdReplyOwned", "FwdReplyWritable", "FwdReplyDirty"}
DataTypes == FetchTypes \cup GrantTypes \cup {"MissNotifyData"}

Init ==
  /\ copy = [c \in Cores |-> "I"]
  /\ leaving = {}
  /\ miss = [c \in Cores |-> "None"]
  /\ balance = [c \in Cores |-> 0]
  /\ filled = {}
  /\ reads = {} /\ writes = {} /\ upgrades = {} /\ cleans = {} /\ dirties = {}
  /\ reading = {} /\ writing = {} /\ upgrading = {}
  /\ forwards = {} /\ held = {} /\ fetches = {} /\ invals = {}
  /\ atMemory = {} /\ evictAcks = {}
  /\ replies = {}
  /\ bank = "I" /\ victim = "none" /\ sharers = {}

Storing(c) == c \in writing \/ c \in upgrading
Served(c) == c \in reading \/ Storing(c)
NoneStoring == \A c \in Cores : ~Storing(c)
NoneServed == \A c \in Cores : ~Served(c)

(* A reply: who asked, where it goes, who sent it, how many acks follow. *)
Is(m, type, requester, dest, other, outstanding) ==
  /\ m.type = type
  /\ m.requester = requester /\ m.dest = dest /\ m.other = other
  /\ m.outstanding = outstanding

Send(m) == m \notin replies /\ replies' = replies \cup {m}
Take(m) == m \in replies /\ replies' = replies \ {m}
Swap(m, n) == m \in replies /\ n \notin replies /\ replies' = (replies \ {m}) \cup {n}

-----------------------------------------------------------------------------
(* The L1 of core c.                                                       *)

Idle(c) == miss[c] = "None" /\ c \notin leaving
NothingHeld(c) == \A x \in Cores : <<x, c>> \notin held

StoreHit(c) ==
  /\ Idle(c) /\ NothingHeld(c)
  /\ copy[c] \in {"E", "M"}
  /\ copy' = [copy EXCEPT ![c] = "M"]
  /\ UNCHANGED <<leaving, miss, balance, filled, postVars, serveVars, tokenVars, replies, dirVars>>

Missed(c, op) ==
  /\ Idle(c) /\ NothingHeld(c)
  /\ miss' = [miss EXCEPT ![c] = op]
  /\ UNCHANGED <<copy, leaving, balance, filled, cleans, dirties, serveVars, tokenVars,
                 replies, dirVars>>

LoadMiss(c) ==
  /\ Missed(c, "Load") /\ copy[c] = "I"
  /\ reads' = reads \cup {c}
  /\ UNCHANGED <<writes, upgrades>>

StoreMiss(c) ==
  /\ Missed(c, "Store") /\ copy[c] = "I"
  /\ writes' = writes \cup {c}
  /\ UNCHANGED <<reads, upgrades>>

UpgradeMiss(c) ==
  /\ Missed(c, "Store") /\ copy[c] = "S"
  /\ upgrades' = upgrades \cup {c}
  /\ UNCHANGED <<reads, writes>>

Announce(c) ==
  /\ Idle(c) /\ copy[c] # "I"
  /\ leaving' = leaving \cup {c}
  /\ cleans' = IF copy[c] = "M" THEN cleans ELSE cleans \cup {c}
  /\ dirties' = IF copy[c] = "M" THEN dirties \cup {c} ELSE dirties
  /\ UNCHANGED <<copy, miss, balance, filled, reads, writes, upgrades, serveVars, tokenVars,
                 replies, dirVars>>

(* The EvictAck is the last message on its way to c. *)
EvictAcked(c) ==
  /\ c \in evictAcks
  /\ \A x \in Cores : <<x, c>> \notin forwards
  /\ evictAcks' = evictAcks \ {c}
  /\ leaving' = leaving \ {c}
  /\ copy' = [copy EXCEPT ![c] = "I"]
  /\ UNCHANGED <<miss, balance, filled, postVars, serveVars, forwards, held, fetches, invals,
                 atMemory, replies, dirVars>>

Answered(c, x, m) ==
  /\ m.type \in {"FwdReply", "FwdReplyOwned"} /\ Is(m, m.type, x, x, c, 0) /\ Send(m)
  /\ UNCHANGED <<leaving, miss, balance, filled, postVars, serveVars, fetches, invals, atMemory,
                 evictAcks, dirVars>>

(* The copy is Shared once a ReadFwd is answered. *)
AnswerForward(c, x, m) ==
  /\ <<x, c>> \in forwards /\ copy[c] # "I"
  /\ forwards' = forwards \ {<<x, c>>}
  /\ copy' = [copy EXCEPT ![c] = "S"]
  /\ Answered(c, x, m)
  /\ UNCHANGED held

(* The core may have given the copy up by then. *)
AnswerHeld(c, x, m) ==
  /\ <<x, c>> \in held
  /\ held' = held \ {<<x, c>>}
  /\ copy' = [copy EXCEPT ![c] = IF @ = "I" THEN "I" ELSE "S"]
  /\ Answered(c, x, m)
  /\ UNCHANGED forwards

Hold(c, x) ==
  /\ <<x, c>> \in forwards /\ copy[c] = "E"
  /\ forwards' = forwards \ {<<x, c>>}
  /\ held' = held \cup {<<x, c>>}
  /\ UNCHANGED <<l1Vars, postVars, serveVars, fetches, invals, atMemory, evictAcks, replies,
                 dirVars>>

Refuse(c, x, m) ==
  /\ <<x, c>> \in held /\ copy[c] = "I"
  /\ held' = held \ {<<x, c>>}
  /\ Is(m, "FwdNAck", x, Dir, c, 0) /\ Send(m)
  /\ UNCHANGED <<l1Vars, postVars, serveVars, forwards, fetches, invals, atMemory, evictAcks,
                 dirVars>>

(* An entry whose eviction has been announced stays in the evict buffer. *)
GivenUp(c) ==
  /\ copy' = [copy EXCEPT ![c] = IF c \in leaving THEN @ ELSE "I"]
  /\ UNCHANGED <<leaving, miss, balance, filled, postVars, serveVars, forwards, held, atMemory,
                 evictAcks, dirVars>>

Invalidated(c, r, m) ==
  /\ c \in invals /\ Storing(r)
  /\ invals' = invals \ {c}
  /\ Is(m, "InvalidateAck", r, r, c, 0) /\ Send(m)
  /\ GivenUp(c)
  /\ UNCHANGED fetches

Fetched(c, r, m) ==
  /\ c \in fetches /\ Storing(r)
  /\ fetches' = fetches \ {c}
  /\ m.type \in FetchTypes /\ Is(m, m.type, r, r, c, 0) /\ Send(m)
  /\ GivenUp(c)
  /\ UNCHANGED invals

MissOver(c) ==
  /\ miss' = [miss EXCEPT ![c] = "None"]
  /\ balance' = [balance EXCEPT ![c] = 0]
  /\ filled' = filled \ {c}
  /\ UNCHANGED <<leaving, postVars, serveVars, tokenVars, dirVars>>

FillState(type) ==
  CASE type = "MissReplyWritable" -> "E"
    [] type = "MissReplyDirty"    -> "M"
    [] OTHER                      -> "S"

(* Reply m fills the copy, and ack n goes to the directory. *)
LoadReply(c, m, n) ==
  /\ miss[c] = "Load" /\ m.requester = c /\ m.dest = c
  /\ copy' = [copy EXCEPT ![c] = FillState(m.type)]
  /\ Is(n, IF m.type = "FwdReplyOwned" THEN "ReadAckDirty" ELSE "ReadAck", c, Dir, c, 0)
  /\ Swap(m, n)
  /\ MissOver(c)

Balance(c, m) ==
  IF m.type \in NotifyTypes THEN balance[c] + m.outstanding
  ELSE IF m.outstanding = -1 THEN 0
  ELSE balance[c] - 1

(* A reply with data fills the copy. *)
StoreReply(c, m) ==
  /\ miss[c] = "Store" /\ m.requester = c /\ m.dest = c
  /\ Balance(c, m) # 0
  /\ Take(m)
  /\ balance' = [balance EXCEPT ![c] = Balance(c, m)]
  /\ \/ /\ m.type \in DataTypes
        /\ \E s \in {"E", "M"} : copy' = [copy EXCEPT ![c] = s]
        /\ filled' = IF copy[c] = "I" THEN filled \cup {c} ELSE filled
     \/ /\ m.type \notin DataTypes
        /\ UNCHANGED <<copy, filled>>
  /\ UNCHANGED <<leaving, miss, postVars, serveVars, tokenVars, dirVars>>

HasData(c, m) == c \in filled \/ (m.type \in DataTypes /\ copy[c] = "I")

StoreDone(c, m, n) ==
  /\ miss[c] = "Store" /\ m.requester = c /\ m.dest = c
  /\ Balance(c, m) = 0
  /\ Swap(m, n)
  /\ Is(n, IF HasData(c, m) THEN "WriteAck" ELSE "UpgradeAck", c, Dir, c, 0)
  /\ copy' = [copy EXCEPT ![c] = "M"]
  /\ MissOver(c)

-----------------------------------------------------------------------------
(* The L2 and memory.                                                      *)

(* The L2's copy, a victim brought back included. *)
Current == IF bank = "I" /\ victim = "dirty" THEN "M" ELSE bank
OneSharer == Cardinality(sharers) = 1

StartRead(c) ==
  /\ NoneStoring
  /\ c \in reads /\ reads' = reads \ {c}
  /\ reading' = reading \cup {c}
  /\ victim' = "none"
  /\ UNCHANGED <<l1Vars, writes, upgrades, cleans, dirties, writing, upgrading, held, fetches,
                 invals, evictAcks>>

ReadForward(c, d) ==
  /\ StartRead(c)
  /\ d \in sharers
  /\ Current = "I" \/ (Current = "E" /\ OneSharer)
  /\ OneSharer => NoneServed
  /\ forwards' = forwards \cup {<<c, d>>}
  /\ UNCHANGED <<atMemory, replies, bank, sharers>>

(* A shared block is copied, an unshared one is given away. *)
ReadSupply(c, m) ==
  /\ StartRead(c)
  /\ Current # "I" /\ ~(Current = "E" /\ OneSharer)
  /\ sharers = {} => NoneServed
  /\ Is(m, IF sharers # {} THEN "MissReply"
           ELSE IF Current = "M" THEN "MissReplyDirty" ELSE "MissReplyWritable", c, c, Dir, 0)
  /\ Send(m)
  /\ bank' = IF sharers = {} /\ Current = "M" THEN "I" ELSE Current
  /\ sharers' = sharers \cup {c}
  /\ UNCHANGED <<forwards, atMemory>>

(* A read that finds the L2's copy but has to wait may drop it. *)
Drop ==
  /\ sharers = {} /\ ~NoneServed
  /\ bank' = "I"
  /\ UNCHANGED <<l1Vars, postVars, serveVars, tokenVars, replies, victim, sharers>>

(* A write, or an upgrade of a core that is no sharer any more. *)
StartWrite(c) ==
  /\ NoneServed
  /\ \/ c \in writes /\ writes' = writes \ {c} /\ UNCHANGED upgrades
     \/ c \in upgrades /\ c \notin sharers /\ upgrades' = upgrades \ {c} /\ UNCHANGED writes
  /\ writing' = writing \cup {c}
  /\ bank' = "I" /\ victim' = "none"
  /\ UNCHANGED <<l1Vars, reads, cleans, dirties, reading, upgrading, forwards, held, evictAcks>>

StartUpgrade(c) ==
  /\ NoneServed
  /\ c \in upgrades /\ c \in sharers /\ upgrades' = upgrades \ {c}
  /\ upgrading' = upgrading \cup {c}
  /\ bank' = "I" /\ victim' = "none"
  /\ UNCHANGED <<l1Vars, reads, writes, cleans, dirties, reading, writing, forwards, held,
                 evictAcks>>

(* The block goes to a core that needs nobody else's answer. *)
WriteAtOnce(c, m) ==
  /\ StartWrite(c)
  /\ sharers = {} /\ Current # "I"
  /\ m.type \in GrantTypes /\ Is(m, m.type, c, c, Dir, -1) /\ Send(m)
  /\ sharers' = {c}
  /\ UNCHANGED <<fetches, invals, atMemory>>

UpgradeAtOnce(c, m) ==
  /\ StartUpgrade(c)
  /\ sharers = {c}
  /\ Is(m, "UpgradeReply", c, c, Dir, -1) /\ Send(m)
  /\ UNCHANGED <<fetches, invals, atMemory, sharers>>

(* One sharer is asked for the data, the others are invalidated. *)
WriteFetch(c, d, m) ==
  /\ StartWrite(c)
  /\ Current = "I" \/ (Current = "E" /\ OneSharer)
  /\ d \in sharers
  /\ fetches' = fetches \cup {d}
  /\ invals' = invals \cup (sharers \ {d})
  /\ Is(m, "MissNotify", c, c, Dir, Cardinality(sharers)) /\ Send(m)
  /\ UNCHANGED <<atMemory, sharers>>

WriteInvalidate(c, m) ==
  /\ StartWrite(c)
  /\ Current # "I" /\ ~(Current = "E" /\ OneSharer) /\ sharers # {}
  /\ invals' = invals \cup sharers
  /\ Is(m, "MissNotifyData", c, c, Dir, Cardinality(sharers)) /\ Send(m)
  /\ UNCHANGED <<fetches, atMemory, sharers>>

UpgradeInvalidate(c, m) ==
  /\ StartUpgrade(c)
  /\ sharers # {c}
  /\ invals' = invals \cup (sharers \ {c})
  /\ Is(m, "MissNotify", c, c, Dir, Cardinality(sharers \ {c})) /\ Send(m)
  /\ UNCHANGED <<fetches, atMemory, sharers>>

Absent == sharers = {} /\ Current = "I" /\ NoneServed

ReadMemory(c) ==
  /\ Absent
  /\ StartRead(c)
  /\ atMemory' = atMemory \cup {c}
  /\ UNCHANGED <<forwards, replies, bank, sharers>>

WriteMemory(c, m) ==
  /\ Absent
  /\ StartWrite(c)
  /\ atMemory' = atMemory \cup {c}
  /\ Is(m, "MissNotify", c, c, Dir, 1) /\ Send(m)
  /\ UNCHANGED <<fetches, invals, sharers>>

EvictTaken(c) ==
  /\ NoneStoring /\ ~Served(c)
  /\ sharers' = sharers \ {c}
  /\ evictAcks' = evictAcks \cup {c}
  /\ UNCHANGED <<l1Vars, reads, writes, upgrades, serveVars, forwards, held, fetches, invals,
                 atMemory, replies, victim>>

TakeClean(c) ==
  /\ EvictTaken(c)
  /\ c \in cleans /\ cleans' = cleans \ {c}
  /\ UNCHANGED <<dirties, bank>>

(* A modified copy is kept unless somebody else has become the owner. *)
TakeDirty(c) ==
  /\ EvictTaken(c)
  /\ c \in dirties /\ dirties' = dirties \ {c}
  /\ bank' = IF c \in sharers THEN "M" ELSE bank
  /\ UNCHANGED cleans

(* The ack may bring data. *)
ReadAcked(c, m) ==
  /\ m.type \in ReadAckTypes /\ m.requester = c
  /\ Take(m)
  /\ reading' = reading \ {c}
  /\ sharers' = sharers \cup {c}
  /\ bank' \in {bank, IF m.type = "ReadAckDirty" \/ bank = "M" THEN "M" ELSE "E"}
  /\ UNCHANGED <<l1Vars, postVars, writing, upgrading, tokenVars, victim>>

StoreAcked(c, m) ==
  /\ m.type \in WriteAckTypes /\ m.requester = c
  /\ Take(m)
  /\ writing' = writing \ {c} /\ upgrading' = upgrading \ {c}
  /\ sharers' = {c}
  /\ UNCHANGED <<l1Vars, postVars, reading, tokenVars, bank, victim>>

MemServe(c, m) ==
  /\ c \in atMemory
  /\ atMemory' = atMemory \ {c}
  /\ Is(m, "MissReplyWritable", c, Dir, Mem, 0) /\ Send(m)
  /\ UNCHANGED <<l1Vars, postVars, serveVars, forwards, held, fetches, invals, evictAcks, dirVars>>

(* A reply of memory goes on to the core; a read fills the L2. *)
PassOn(c, m, n) ==
  /\ m.requester = c /\ m.dest = Dir /\ m.type = "MissReplyWritable"
  /\ Is(n, "MissReplyWritable", c, c, Dir, 0)
  /\ Swap(m, n)
  /\ bank' = IF c \in reading THEN "E" ELSE bank
  /\ UNCHANGED <<l1Vars, postVars, serveVars, tokenVars, victim, sharers>>

(* The L1 of a ReadFwd had given its copy up. *)
RetryBank(c, m, n) ==
  /\ m.type = "FwdNAck" /\ m.requester = c
  /\ bank # "I"
  /\ Is(n, "MissReplyWritable", c, c, Dir, 0) /\ Swap(m, n)
  /\ UNCHANGED <<l1Vars, postVars, serveVars, tokenVars, dirVars>>

RetryMemory(c, m) ==
  /\ m.type = "FwdNAck" /\ m.requester = c
  /\ bank = "I"
  /\ Take(m)
  /\ atMemory' = atMemory \cup {c}
  /\ UNCHANGED <<l1Vars, postVars, serveVars, forwards, held, fetches, invals, evictAcks, dirVars>>

(* Replacement in the L2, and the end of its write-back. *)
Replace ==
  /\ bank # "I" /\ NoneServed
  /\ bank = "M" => dirties = {}
  /\ bank' = "I"
  /\ victim' = IF bank = "M" THEN "dirty" ELSE victim
  /\ UNCHANGED <<l1Vars, postVars, serveVars, tokenVars, replies, sharers>>

WrittenBack ==
  /\ victim' = "none"
  /\ UNCHANGED <<l1Vars, postVars, serveVars, tokenVars, replies, bank, sharers>>

-----------------------------------------------------------------------------
L1Step(c) ==
  \/ StoreHit(c) \/ LoadMiss(c) \/ StoreMiss(c) \/ UpgradeMiss(c)
  \/ Announce(c) \/ EvictAcked(c)
  \/ \E x \in Cores : Hold(c, x)

L1Send(c, m) ==
  \E x \in Cores : AnswerForward(c, x, m) \/ AnswerHeld(c, x, m) \/ Refuse(c, x, m)
                     \/ Invalidated(c, x, m) \/ Fetched(c, x, m)

L1Receive(c, m) ==
  StoreReply(c, m) \/ \E n \in replies' : LoadReply(c, m, n) \/ StoreDone(c, m, n)

DirStep(c) ==
  \/ ReadMemory(c) \/ TakeClean(c) \/ TakeDirty(c)
  \/ \E d \in sharers : ReadForward(c, d)

DirSend(c, m) ==
  \/ ReadSupply(c, m) \/ MemServe(c, m) \/ WriteMemory(c, m)
  \/ WriteAtOnce(c, m) \/ UpgradeAtOnce(c, m)
  \/ WriteInvalidate(c, m) \/ UpgradeInvalidate(c, m)
  \/ \E d \in sharers : WriteFetch(c, d, m)

DirReceive(c, m) ==
  \/ ReadAcked(c, m) \/ StoreAcked(c, m) \/ RetryMemory(c, m)
  \/ \E n \in replies' : PassOn(c, m, n) \/ RetryBank(c, m, n)

Next ==
  \/ \E c \in Cores :
       \/ L1Step(c) \/ DirStep(c)
       \/ \E m \in replies' : L1Send(c, m) \/ DirSend(c, m)
       \/ \E m \in replies : L1Receive(c, m) \/ DirReceive(c, m)
  \/ Drop \/ Replace \/ WrittenBack

Spec == Init /\ [][Next]_vars

-----------------------------------------------------------------------------
(* The invariant.                                                          *)

Copy(c) == copy[c] # "I" /\ c \notin leaving
Asked(d) == d \in fetches \/ d \in invals
Forwarded(x, d) == <<x, d>> \in forwards \/ <<x, d>> \in held
IsAck(m) == m.type \in ReadAckTypes \/ m.type \in WriteAckTypes
AckSent(c) == \E m \in replies : m.requester = c /\ IsAck(m)
OnlyServed(x) == \A y \in Cores : Served(y) => y = x
Clean == bank # "M" /\ victim = "none"

TypeOK ==
  /\ copy \in [Cores -> {"I", "S", "E", "M"}]
  /\ leaving \subseteq Cores
  /\ miss \in [Cores -> {"None", "Load", "Store"}]
  /\ balance \in [Cores -> Int]
  /\ filled \subseteq Cores
  /\ reads \subseteq Cores /\ writes \subseteq Cores /\ upgrades \subseteq Cores
  /\ cleans \subseteq Cores /\ dirties \subseteq Cores
  /\ reading \subseteq Cores /\ writing \subseteq Cores /\ upgrading \subseteq Cores
  /\ forwards \subseteq Cores \X Cores /\ held \subseteq Cores \X Cores
  /\ fetches \subseteq Cores /\ invals \subseteq Cores
  /\ atMemory \subseteq Cores /\ evictAcks \subseteq Cores
  /\ \A m \in replies : m.requester \in Cores /\ m.outstanding \in Int
  /\ bank \in {"I", "E", "M"} /\ victim \in {"none", "dirty"}
  /\ sharers \subseteq Cores

(* An L1 announces one eviction at a time, of a block it has no miss for.  *)
LeavingPosted ==
  \A c \in Cores : c \in leaving <=> c \in evictAcks \/ c \in cleans \/ c \in dirties
LeavingCopy == \A c \in Cores : c \in leaving => miss[c] = "None" /\ copy[c] # "I"
OneEvict ==
  \A c \in Cores :
    /\ c \in evictAcks => c \notin cleans /\ c \notin dirties
    /\ c \in cleans => c \notin dirties
AckedIsGone ==
  \A c \in Cores : c \in evictAcks => c \notin sharers /\ ~Served(c) /\ ~Asked(c)
DirtyPosted == \A c \in Cores : c \in dirties => copy[c] # "E"

(* A miss has one request, posted or served until it is acknowledged.      *)
Posted(c) == c \in reads \/ c \in writes \/ c \in upgrades
LoadHasNone == \A c \in Cores : miss[c] = "Load" => copy[c] = "I"
PostedMiss ==
  \A c \in Cores :
    /\ c \in reads => miss[c] = "Load"
    /\ c \in writes => miss[c] = "Store" /\ copy[c] = "I"
    /\ c \in upgrades => miss[c] = "Store" /\ c \notin writes
PostedServed == \A c \in Cores : Served(c) /\ Posted(c) => AckSent(c)
ServedMiss ==
  \A c \in Cores : ~AckSent(c) =>
    (c \in reading => miss[c] = "Load") /\ (Storing(c) => miss[c] = "Store")
AckHasCopy == \A m \in replies : IsAck(m) => copy[m.requester] # "I"
FilledWriting ==
  /\ \A c \in Cores : c \in filled => c \in writing
  /\ \A m \in replies : IsAck(m) => m.requester \notin filled
BalanceZero ==
  /\ \A c \in Cores : ~Storing(c) => balance[c] = 0
  /\ \A m \in replies : IsAck(m) => balance[m.requester] = 0

(* A write is served alone, and then the L2 has no copy.                   *)
WriteServedAlone ==
  /\ \A r, c \in Cores : Storing(r) /\ Served(c) => c = r
  /\ \A c \in Cores : c \in reading => ~Storing(c)
  /\ \A c \in Cores : c \in writing => c \notin upgrading
BankEmpty == \A c \in Cores : Storing(c) => bank = "I"
VictimAlone ==
  /\ \A c \in Cores : Served(c) => victim = "none"
  /\ bank # "I" => victim = "none"

(* A read has one token.                                                   *)
ReadReply(m, x) ==
  \/ m.dest = Dir /\ (m.type \in {"MissReplyWritable", "FwdNAck"} \/ m.type \in ReadAckTypes)
  \/ m.dest = x /\ (m.type \in {"MissReply", "FwdReply", "FwdReplyOwned"} \/ m.type \in GrantTypes)
ForwardToken ==
  \A x, d \in Cores : Forwarded(x, d) =>
    x \in reading /\ x # d /\ x \notin atMemory /\ \A m \in replies : m.requester # x
ForwardOnce ==
  \A x, d \in Cores : Forwarded(x, d) =>
    /\ <<x, d>> \in forwards => <<x, d>> \notin held
    /\ \A e \in Cores : Forwarded(x, e) => e = d
MemoryToken == \A x \in Cores : x \in atMemory => Served(x)
ReplyToken == \A m \in replies : Served(m.requester)
ReadToken ==
  \A m \in replies : m.requester \in reading =>
    /\ ReadReply(m, m.requester) /\ m.requester \notin atMemory
    /\ \A n \in replies : n.requester = m.requester => n = m

(* A write has a token for every copy it takes away, or for memory.        *)
StoreReplyFor(m, r) ==
  \/ m.dest = Dir /\ m.other = Mem /\ m.type = "MissReplyWritable" /\ m.outstanding = 0
  \/ m.dest = Dir /\ m.type = "WriteAck" /\ r \in writing /\ m.outstanding = 0
  \/ m.dest = Dir /\ m.type = "UpgradeAck" /\ r \in upgrading /\ m.outstanding = 0
  \/ m.dest = r /\ m.other = Dir /\ m.type \in GrantTypes /\ m.outstanding = -1
  \/ m.dest = r /\ m.other = Dir /\ m.type = "UpgradeReply" /\ m.outstanding = -1
  \/ m.dest = r /\ m.other = Dir /\ m.type = "MissReplyWritable" /\ m.outstanding = 0
  \/ m.dest = r /\ m.other = Dir /\ m.type \in NotifyTypes /\ m.outstanding > 0
  \/ m.dest = r /\ m.other \in Cores /\ m.other # r /\ m.type \in FetchTypes /\ m.outstanding = 0
  \/ m.dest = r /\ m.other \in Cores /\ m.other # r /\ m.type = "InvalidateAck" /\ m.outstanding = 0

(* Reply m is what d owed to the requester. *)
Pays(m, d) ==
  \/ (m.type \in FetchTypes \/ m.type = "InvalidateAck") /\ m.other = d
  \/ m.type = "MissReplyWritable" /\ m.outstanding = 0 /\ d = Mem
AskedAny(r, d) == Asked(d) \/ (d = Mem /\ r \in atMemory)
Owes(r, d) == AskedAny(r, d) \/ \E m \in replies : m.requester = r /\ Pays(m, d)
Owing(r) == {d \in Cores \cup {Mem} : Owes(r, d)}

(* The last reply of a store, or its ack. *)
Final(m) == m.outstanding = -1 \/ IsAck(m)

AskedToken ==
  \A d \in Cores : Asked(d) => /\ \E r \in Cores : Storing(r)
                               /\ ~Storing(d)
                               /\ d \in fetches => d \notin invals
StoreReplies == \A m \in replies : Storing(m.requester) => StoreReplyFor(m, m.requester)
PaidOnce ==
  \A m \in replies : Storing(m.requester) => \A d \in Cores \cup {Mem} : Pays(m, d) =>
    /\ ~AskedAny(m.requester, d)
    /\ \A n \in replies : n.requester = m.requester /\ Pays(n, d) => n = m
FinalAlone ==
  \A m \in replies : Storing(m.requester) /\ Final(m) =>
    /\ fetches = {} /\ invals = {}
    /\ m.requester \notin atMemory /\ balance[m.requester] = 0
    /\ \A n \in replies : n.requester = m.requester => n = m

(* The acks a store still counts are the ones it is owed.                  *)
NotifyBalance ==
  \A m \in replies : Storing(m.requester) /\ m.type \in NotifyTypes =>
    /\ m.outstanding + balance[m.requester] = Cardinality(Owing(m.requester))
    /\ balance[m.requester] <= 0
    /\ \A n \in replies : n.requester = m.requester /\ n.type \in NotifyTypes => n = m
Told(r) == \A m \in replies : m.requester = r => m.type \notin NotifyTypes /\ ~Final(m)
ToldBalance ==
  \A r \in Cores : Storing(r) /\ Told(r) =>
    balance[r] = Cardinality(Owing(r)) /\ Owing(r) # {}

(* A write that has no data yet is owed some; an upgrade keeps its copy.   *)
DataComing(r) ==
  \/ r \in atMemory \/ fetches # {}
  \/ \E m \in replies : m.requester = r /\ m.type \in DataTypes
WriteData ==
  \A r \in Cores : r \in writing /\ ~AckSent(r) =>
    (copy[r] # "I" => r \in filled) /\ (copy[r] = "I" => r \notin filled /\ DataComing(r))
UpgradeData ==
  \A r \in Cores : r \in upgrading => copy[r] # "I" /\ ~DataComing(r)

(* The directory covers the copies. *)
CopyCovered ==
  NoneStoring => \A d \in Cores : Copy(d) => d \in sharers \/ d \in reading

(* A write asks for every copy, and finds it where it asks. *)
CopyAsked ==
  \A r, d \in Cores : Storing(r) /\ d # r /\ Copy(d) => Asked(d)
SnoopFindsCopy ==
  \A d \in Cores : (Asked(d) => copy[d] # "I") /\ (d \in invals => copy[d] = "S")
ForwardFindsCopy ==
  \A x, d \in Cores : <<x, d>> \in forwards => copy[d] # "I"

GrantComing(c) ==
  c \in reading /\ (c \in atMemory \/ \E m \in replies : m.requester = c /\ m.type \in GrantTypes)

(* A sharer without a copy is a reader whose reply is on its way. *)
SharerHasCopy ==
  NoneStoring => \A d \in sharers : copy[d] = "I" =>
    /\ d \in reading /\ \E m \in replies : m.requester = d
    /\ bank # "I" \/ GrantComing(d)

Owner(c) ==
  \/ copy[c] \in {"E", "M"} /\ (c \in sharers \/ c \notin leaving \/ c \in reading)
  \/ GrantComing(c)
Sole(c) ==
  /\ \A d \in Cores : d \in sharers \/ Copy(d) => d = c
  /\ Clean
  /\ \A x \in Cores : x \in reading /\ x # c => Forwarded(x, c) /\ OnlyServed(x)

(* Who has or is about to get a writable copy is alone. *)
OwnerAlone == NoneStoring => \A c \in Cores : Owner(c) => Sole(c)
WriterAlone ==
  \A r, c, d \in Cores :
    Storing(r) /\ c # r /\ d # r /\ Copy(c) /\ copy[c] \in {"E", "M"} /\ Copy(d) => d = c

(* A ReadFwd waits, or will wait, for the core of the only copy. *)
Waits(x, d) == <<x, d>> \in held \/ (<<x, d>> \in forwards /\ copy[d] = "E")
HeldAlone ==
  \A x, d \in Cores : Waits(x, d) =>
    /\ OnlyServed(x) /\ Clean /\ copy[d] \in {"E", "I"}
    /\ \A y \in Cores : y \in sharers \/ Copy(y) => y = d

(* A ReadFwd is refused when there is no copy any more. *)
RefusedAlone ==
  \A m \in replies : m.type = "FwdNAck" =>
    OnlyServed(m.requester) /\ Clean /\ \A y \in Cores : y \notin sharers /\ ~Copy(y)

DirtyAckShared == \A m \in replies : m.type = "ReadAckDirty" => copy[m.requester] = "S"

(* No dirty copy comes back while the L2 still writes the last one back. *)
OneDirty == \A c \in Cores : c \in sharers /\ c \in dirties => victim = "none"

(* Who is asked for its copy stays a sharer until the write is over. *)
AskedShared == \A d \in Cores : Asked(d) => d \in sharers

Inv ==
  /\ TypeOK
  /\ LeavingPosted /\ LeavingCopy /\ OneEvict /\ AckedIsGone /\ DirtyPosted
  /\ LoadHasNone /\ PostedMiss /\ PostedServed /\ ServedMiss /\ AckHasCopy
  /\ FilledWriting /\ BalanceZero
  /\ WriteServedAlone /\ BankEmpty /\ VictimAlone
  /\ ForwardToken /\ ForwardOnce /\ MemoryToken /\ ReplyToken /\ ReadToken
  /\ AskedToken /\ StoreReplies /\ PaidOnce /\ FinalAlone
  /\ NotifyBalance /\ ToldBalance /\ WriteData /\ UpgradeData
  /\ CopyCovered /\ SharerHasCopy /\ CopyAsked /\ SnoopFindsCopy /\ ForwardFindsCopy
  /\ OwnerAlone /\ WriterAlone /\ HeldAlone /\ RefusedAlone /\ DirtyAckShared /\ OneDirty
=============================================================================
