-------------------------- MODULE NonInclusiveMESI --------------------------
(***************************************************************************)
(* One bank of the shared L2 with its directory: components/CMPCache,      *)
(* policy NonInclusiveMESI over an infinite directory, with the parts of   *)
(* CMPCacheController that schedule, wake and send.  EvictClean is off, so *)
(* the evict buffer of the cache only ever holds dirty blocks.             *)
(*                                                                         *)
(* One operator models a policy handler together with the run*Process and  *)
(* finalizeProcess code that carries its action out, as one step.          *)
(***************************************************************************)
EXTENDS CoherenceNet, SequencesExt

CONSTANT
  EarlyVictim  \* may a block be replaced before the transaction that used
               \* it last is over?

VARIABLES
  l2,        \* theCache: MESI state and data of the block
  sharers,   \* theDirectory: the L1s recorded as holding it
  ceb,       \* theCacheEvictBuffer: the dirty block on its way to memory
  dmaf       \* theMAF, in order of insertion

l2Vars == <<l2, sharers, ceb, dmaf>>

MafStates == {"WaitRequest", "WaitEvict", "WaitAck", "Waking"}

NoBlock == [state |-> "I", ver |-> 0]
Block(s, v) == IF s = "I" THEN NoBlock ELSE [state |-> s, ver |-> v]
NoCeb == [present |-> FALSE, pending |-> FALSE, ver |-> 0]

L2Init ==
  /\ l2 = NoBlock
  /\ sharers = {}
  /\ ceb = NoCeb
  /\ dmaf = <<>>

L2TypeOK ==
  /\ l2 \in [state : {"I", "S", "E", "M"}, ver : Version]
  /\ sharers \subseteq Cores
  /\ ceb \in [present : BOOLEAN, pending : BOOLEAN, ver : Version]
  /\ dmaf \in Seq([msg : Message, st : MafStates])

-----------------------------------------------------------------------------
(* The miss address file.  k is the entry a woken request already has, 0   *)
(* for a new request; that entry is eInPipeline and is ignored.            *)

Waiting(k, st) == {i \in DOMAIN dmaf : i # k /\ dmaf[i].st = st}
IsWrite(m) == m.type \in {"WriteReq", "UpgradeReq"}

(* theMAF.insert or theMAF.setState *)
Put(m, k, st) ==
  dmaf' = IF k = 0 THEN Append(dmaf, [msg |-> m, st |-> st])
                   ELSE [dmaf EXCEPT ![k] = [msg |-> m, st |-> st]]

Stall(m, k, st) ==
  Put(m, k, st) /\ UNCHANGED <<sharers, snoop, toMem, reply>>

WakeAll(maf, states) ==
  [i \in DOMAIN maf |->
     IF maf[i].st \in states THEN [maf[i] EXCEPT !.st = "Waking"] ELSE maf[i]]

(* Mutant: the stalled requests are left behind. *)
MutRemoveOnly(i) == dmaf' = RemoveAt(dmaf, i)

(* eRemoveAndWakeMAF: remove entry i, then wakeMAFs. *)
RemoveAndWake(i) ==
  LET rest == RemoveAt(dmaf, i)
  IN  dmaf' = IF \E j \in DOMAIN rest : rest[j].st = "WaitAck"
              THEN rest ELSE WakeAll(rest, {"WaitRequest"})

-----------------------------------------------------------------------------
(* Messages out.                                                           *)

SendSnoops(ms) ==
  snoop' = [c \in Cores |->
              LET mine == {m \in ms : m.dest = c}
              IN  snoop[c] \o SetToSeq(mine)]

Forward(type, m, c, needData) ==
  [Msg(type, m.requester, c, Dir) EXCEPT !.needData = needData]
Invalidates(m, targets) == {Forward("Invalidate", m, c, FALSE) : c \in targets}
ToMemory(m) == toMem' = Append(toMem, [m EXCEPT !.dest = Mem, !.other = Dir])
Answer(type, m, outstanding, v) ==
  [MsgWithData(type, m.requester, m.requester, Dir, v)
     EXCEPT !.outstanding = outstanding]
SendReply(m) == reply' = ReplyBagWith({m})

-----------------------------------------------------------------------------
(* doRequest on a block that is on chip; b is the L2's copy.               *)

(* Mutant: the only sharer may not have its data yet. *)
MutReadFromSharerNow(m, k, b) ==
  /\ l2' = b
  /\ Put(m, k, "WaitAck")
  /\ \E c \in sharers : SendSnoops({Forward("ReadFwd", m, c, b.state = "I")})
  /\ UNCHANGED <<sharers, toMem, reply>>

(* The sharer may hold the only valid copy: its answer goes straight to    *)
(* the requester.                                                          *)
ReadFromSharer(m, k, b) ==
  IF Cardinality(sharers) = 1 /\ Waiting(k, "WaitAck") # {}
  THEN l2' = b /\ Stall(m, k, "WaitRequest")
  ELSE /\ l2' = b
       /\ Put(m, k, "WaitAck")
       /\ \E c \in sharers : SendSnoops({Forward("ReadFwd", m, c, b.state = "I")})
       /\ UNCHANGED <<sharers, toMem, reply>>

(* A dirty block leaves the L2 even if the request then has to wait. *)
ReadFromL2(m, k, b) ==
  LET writable == sharers = {} /\ b.state # "S"
      type == IF ~writable THEN "MissReply"
              ELSE IF b.state = "M" THEN "MissReplyDirty" ELSE "MissReplyWritable"
  IN /\ l2' = IF type = "MissReplyDirty" THEN NoBlock ELSE b
     /\ IF writable /\ Waiting(k, "WaitAck") # {}
        THEN Stall(m, k, "WaitRequest")
        ELSE /\ Put(m, k, "WaitAck")
             /\ sharers' = sharers \cup {m.requester}
             /\ SendReply(Answer(type, m, 0, b.ver))
             /\ UNCHANGED <<snoop, toMem>>

ServeRead(m, k, b) ==
  IF b.state = "I" \/ (Cardinality(sharers) = 1 /\ b.state = "E")
  THEN ReadFromSharer(m, k, b)
  ELSE ReadFromL2(m, k, b)

(* Nobody shares the block: the L2 hands its copy over. *)
WriteFromL2(m, k, b) ==
  /\ SendReply(Answer(IF b.state = "M" THEN "MissReplyDirty" ELSE "MissReplyWritable",
                      m, -1, b.ver))
  /\ sharers' = sharers \cup {m.requester}
  /\ UNCHANGED snoop

(* The L2's data is used unless the sole sharer may have changed it. *)
WriteFromSharers(m, k, b) ==
  LET one == Cardinality(sharers) = 1
      fwd == b.state = "I" \/ (b.state = "E" /\ one)
  IN /\ IF fwd
        THEN \E c \in sharers :
               SendSnoops({Forward("WriteFwd", m, c, FALSE)}
                            \cup Invalidates(m, sharers \ {c}))
        ELSE SendSnoops(Invalidates(m, sharers))
     /\ SendReply(Answer(IF fwd THEN "MissNotify" ELSE "MissNotifyData",
                         m, Cardinality(sharers), IF fwd THEN 0 ELSE b.ver))
     /\ UNCHANGED sharers

ServeWrite(m, k, b) ==
  /\ l2' = NoBlock
  /\ Put(m, k, "WaitAck")
  /\ IF sharers = {} THEN WriteFromL2(m, k, b) ELSE WriteFromSharers(m, k, b)
  /\ UNCHANGED toMem

(* The requester is a sharer: doRequest made it a WriteReq otherwise. *)
ServeUpgrade(m, k) ==
  LET others == sharers \ {m.requester} IN
  /\ l2' = NoBlock
  /\ Put(m, k, "WaitAck")
  /\ SendSnoops(Invalidates(m, others))
  /\ SendReply(IF others = {} THEN Answer("UpgradeReply", m, -1, 0)
               ELSE Answer("MissNotify", m, Cardinality(others), 0))
  /\ UNCHANGED <<sharers, toMem>>

(* No copy on chip: one request at a time goes to memory. *)
ServeFromMemory(m, k) ==
  /\ l2' = NoBlock
  /\ IF Waiting(k, "WaitAck") # {}
     THEN Stall(m, k, "WaitRequest")
     ELSE /\ Put(m, k, "WaitAck")
          /\ ToMemory(m)
          /\ IF m.type = "WriteReq" THEN SendReply(Answer("MissNotify", m, 1, 0))
                                    ELSE UNCHANGED reply
          /\ UNCHANGED <<sharers, snoop>>

(* The block as the request finds it: an unsent dirty victim is brought    *)
(* back from the evict buffer.                                             *)
PulledBack == l2.state = "I" /\ ceb.present /\ ~ceb.pending
CurrentBlock == IF PulledBack THEN Block("M", ceb.ver) ELSE l2
PullBack == ceb' = IF PulledBack THEN NoCeb ELSE ceb

(* An upgrade whose block was invalidated meanwhile becomes a write. *)
Converted(m) ==
  IF m.type = "UpgradeReq" /\ m.requester \notin sharers
  THEN [m EXCEPT !.type = "WriteReq"] ELSE m

Serve(m0, k) ==
  LET m == Converted(m0)
      b == CurrentBlock
  IN /\ PullBack
     /\ UNCHANGED failed
     /\ IF sharers = {} /\ b.state = "I" THEN ServeFromMemory(m, k)
        ELSE \/ m.type = "ReadReq" /\ ServeRead(m, k, b)
             \/ m.type = "WriteReq" /\ ServeWrite(m, k, b)
             \/ m.type = "UpgradeReq" /\ ServeUpgrade(m, k)

-----------------------------------------------------------------------------
(* doEvict: an L1 gives its copy up.  It waits for the L1's own request.   *)
(* The MAF entry of an evict that was stalled stays eInPipeline for good;  *)
(* no lookup finds it again, so it is taken out here.  What it costs is a  *)
(* property of CMPCacheController.                                         *)

(* Mutant: the evict overtakes the request of the same L1. *)
MutEvictNow(m, k) ==
  LET keep == m.type = "EvictDirty" /\ m.requester \in sharers IN
  /\ l2' = IF keep THEN Block("M", m.ver) ELSE l2
  /\ ceb' = IF keep /\ l2.state = "I" THEN NoCeb ELSE ceb
  /\ sharers' = sharers \ {m.requester}
  /\ SendSnoops({Msg("EvictAck", m.requester, m.requester, Dir)})
  /\ dmaf' = IF k = 0 THEN dmaf ELSE RemoveAt(dmaf, k)
  /\ UNCHANGED <<toMem, reply, failed>>

(* Mutant: no EvictAck for an L1 that is no sharer any more. *)
MutEvictNoAck(m, k) ==
  /\ UNCHANGED failed
  /\ IF \E i \in Waiting(k, "WaitAck") : dmaf[i].msg.requester = m.requester
     THEN Stall(m, k, "WaitRequest") /\ UNCHANGED <<l2, ceb>>
     ELSE LET keep == m.type = "EvictDirty" /\ m.requester \in sharers IN
          /\ l2' = IF keep THEN Block("M", m.ver) ELSE l2
          /\ ceb' = IF keep /\ l2.state = "I" THEN NoCeb ELSE ceb
          /\ sharers' = sharers \ {m.requester}
          /\ IF m.requester \in sharers
             THEN SendSnoops({Msg("EvictAck", m.requester, m.requester, Dir)})
             ELSE UNCHANGED snoop
          /\ dmaf' = IF k = 0 THEN dmaf ELSE RemoveAt(dmaf, k)
          /\ UNCHANGED <<toMem, reply>>

(* Mutant: the L1 stays a sharer. *)
MutEvictStaysSharer(m, k) ==
  /\ UNCHANGED failed
  /\ IF \E i \in Waiting(k, "WaitAck") : dmaf[i].msg.requester = m.requester
     THEN Stall(m, k, "WaitRequest") /\ UNCHANGED <<l2, ceb>>
     ELSE LET keep == m.type = "EvictDirty" /\ m.requester \in sharers IN
          /\ l2' = IF keep THEN Block("M", m.ver) ELSE l2
          /\ ceb' = IF keep /\ l2.state = "I" THEN NoCeb ELSE ceb
          /\ SendSnoops({Msg("EvictAck", m.requester, m.requester, Dir)})
          /\ dmaf' = IF k = 0 THEN dmaf ELSE RemoveAt(dmaf, k)
          /\ UNCHANGED <<sharers, toMem, reply>>

DoEvict(m, k) ==
  /\ UNCHANGED failed
  /\ IF \E i \in Waiting(k, "WaitAck") : dmaf[i].msg.requester = m.requester
     THEN Stall(m, k, "WaitRequest") /\ UNCHANGED <<l2, ceb>>
     ELSE LET keep == m.type = "EvictDirty" /\ m.requester \in sharers IN
          /\ l2' = IF keep THEN Block("M", m.ver) ELSE l2
          /\ ceb' = IF keep /\ l2.state = "I" THEN NoCeb ELSE ceb
          /\ sharers' = sharers \ {m.requester}
          /\ SendSnoops({Msg("EvictAck", m.requester, m.requester, Dir)})
          /\ dmaf' = IF k = 0 THEN dmaf ELSE RemoveAt(dmaf, k)
          /\ UNCHANGED <<toMem, reply>>

(* doRequest: conflicts with the entries of the MAF come first. *)
DoRequest(m, k) ==
  LET isEvict == m.type \in EvictTypes
      overlap == \A i \in Waiting(k, "WaitAck") : ~IsWrite(m) /\ ~IsWrite(dmaf[i].msg)
      stall(st) == Stall(m, k, st) /\ UNCHANGED <<l2, ceb, failed>>
  IN IF Waiting(k, "WaitRequest") # {} THEN stall("WaitRequest")
     ELSE IF Waiting(k, "WaitEvict") # {} /\ ~isEvict THEN stall("WaitRequest")
     ELSE IF Waiting(k, "WaitEvict") = {} /\ ~overlap THEN stall("WaitRequest")
     ELSE IF isEvict THEN DoEvict(m, k)
     ELSE IF l2.state = "I" /\ ceb.pending THEN stall("WaitEvict")
     ELSE Serve(m, k)

WakingEntries == {i \in DOMAIN dmaf : dmaf[i].st = "Waking"}

(* runRequestProcess: scheduled when nothing wakes; the MAF has room.      *)
DirRequest(c) ==
  /\ Running
  /\ request[c] # <<>>
  /\ WakingEntries = {}
  /\ request' = [request EXCEPT ![c] = Tail(@)]
  /\ DoRequest(Head(request[c]), 0)
  /\ UNCHANGED latest

(* runWakeMAFProcess: the oldest woken entry tries again. *)
DirWakeMaf ==
  /\ Running
  /\ \E k \in WakingEntries :
       /\ \A i \in WakingEntries : k <= i
       /\ DoRequest(dmaf[k].msg, k)
  /\ UNCHANGED <<request, latest>>

-----------------------------------------------------------------------------
(* handleReply.                                                            *)

DirConsume(m, ms) == reply' = (reply (-) SetToBag({m})) (+) SetToBag(ms)

DirAbort(name) == Abort(name) /\ UNCHANGED <<l2Vars, snoop, toMem, reply>>

(* The WaitAck entries of requester r. *)
Matching(r) == {i \in Waiting(0, "WaitAck") : dmaf[i].msg.requester = r}

(* Mutant: the reader is not recorded. *)
MutReadAckNoSharer(m) ==
  IF Matching(m.requester) = {} \/ (m.needData /\ l2.state = "I" /\ ceb.present)
  THEN DirAbort("read ack does not fit the directory")
  ELSE /\ \E i \in Matching(m.requester) : RemoveAndWake(i)
       /\ l2' = IF ~m.needData THEN l2
                ELSE IF m.type = "ReadAckDirty" \/ l2.state = "M" THEN Block("M", m.ver)
                ELSE Block("E", m.ver)
       /\ DirConsume(m, {})
       /\ UNCHANGED <<sharers, ceb, snoop, toMem, failed>>

(* ReadAck, ReadAckDirty: the transaction is over; the ack may bring data. *)
HandleReadAck(m) ==
  IF Matching(m.requester) = {} \/ (m.needData /\ l2.state = "I" /\ ceb.present)
  THEN DirAbort("read ack does not fit the directory")
  ELSE /\ \E i \in Matching(m.requester) : RemoveAndWake(i)
       /\ sharers' = sharers \cup {m.requester}
       /\ l2' = IF ~m.needData THEN l2
                ELSE IF m.type = "ReadAckDirty" \/ l2.state = "M" THEN Block("M", m.ver)
                ELSE Block("E", m.ver)
       /\ DirConsume(m, {})
       /\ UNCHANGED <<ceb, snoop, toMem, failed>>

(* WriteAck, UpgradeAck: the requester is the only owner. *)
HandleWriteAck(m) ==
  LET acked == IF m.type = "WriteAck" THEN "WriteReq" ELSE "UpgradeReq"
      first == {i \in Waiting(0, "WaitAck") : \A j \in Waiting(0, "WaitAck") : i <= j}
  IN IF \A i \in first : dmaf[i].msg.type # acked
     THEN DirAbort("write ack in response to another request")
     ELSE /\ \E i \in first : RemoveAndWake(i)
          /\ sharers' = {m.requester}
          /\ l2' = IF l2.state = "I" THEN l2 ELSE [l2 EXCEPT !.state = "E"]
          /\ ceb' = IF l2.state = "I" THEN NoCeb ELSE ceb
          /\ DirConsume(m, {})
          /\ UNCHANGED <<snoop, toMem, failed>>

(* A reply of memory goes on to the requester; a read fills the L2. *)
HandleMemoryReply(m) ==
  LET fills == \E i \in Matching(m.requester) : dmaf[i].msg.type = "ReadReq"
  IN IF Matching(m.requester) = {} \/ (fills /\ l2.state = "I" /\ ceb.present)
     THEN DirAbort("memory reply does not fit the directory")
     ELSE /\ l2' = IF fills THEN Block("E", m.ver) ELSE l2
          /\ DirConsume(m, {[m EXCEPT !.dest = m.requester, !.other = Dir]})
          /\ UNCHANGED <<sharers, ceb, dmaf, snoop, toMem, failed>>

(* FwdNAck: the L1 chosen for a forward no longer has the block. *)
HandleFwdNAck(m) ==
  LET b == CurrentBlock
      writable == sharers = {} /\ b.state # "S"
  IN IF Matching(m.requester) = {}
        \/ (b.state \in {"E", "M"} /\ Cardinality(sharers) = 1)
     THEN DirAbort("Unexpected race condition detected.")
     ELSE /\ l2' = b
          /\ PullBack
          /\ UNCHANGED <<sharers, dmaf, failed>>
          /\ \/ /\ b.state # "I"
                /\ DirConsume(m, {Answer(IF writable THEN "MissReplyWritable"
                                         ELSE "MissReply", m, 0, b.ver)})
                /\ UNCHANGED <<snoop, toMem>>
             \/ /\ b.state = "I" /\ sharers = {}
                /\ \E i \in Matching(m.requester) : ToMemory(dmaf[i].msg)
                /\ DirConsume(m, {})
                /\ UNCHANGED snoop
             \/ /\ b.state = "I" /\ sharers # {}
                /\ \E c \in sharers : SendSnoops({Forward("ReadFwd", m, c, FALSE)})
                /\ DirConsume(m, {})
                /\ UNCHANGED toMem

(* EvictAck of memory: the write-back is over; wake what waited for it. *)
HandleMemEvictAck(m) ==
  IF ~ceb.pending
  THEN DirAbort("EvictAck without a pending write-back")
  ELSE /\ ceb' = NoCeb
       /\ dmaf' = IF Waiting(0, "WaitEvict") = {} THEN dmaf
                  ELSE WakeAll(dmaf, {"WaitEvict", "WaitRequest"})
       /\ DirConsume(m, {})
       /\ UNCHANGED <<l2, sharers, snoop, toMem, failed>>

(* runReplyProcess *)
DirReply(m) ==
  /\ Running
  /\ InReply(m) /\ m.dest = Dir
  /\ \/ m.type \in {"ReadAck", "ReadAckDirty"} /\ HandleReadAck(m)
     \/ m.type \in {"WriteAck", "UpgradeAck"} /\ HandleWriteAck(m)
     \/ m.type = "MissReplyWritable" /\ HandleMemoryReply(m)
     \/ m.type = "FwdNAck" /\ HandleFwdNAck(m)
     \/ m.type = "EvictAck" /\ HandleMemEvictAck(m)
  /\ UNCHANGED <<request, latest>>

-----------------------------------------------------------------------------
(* An L1's EvictDirty that the L2 has not served yet. *)
DirtyDataComing ==
  \/ \E c \in Cores : \E i \in DOMAIN request[c] : request[c][i].type = "EvictDirty"
  \/ \E i \in DOMAIN dmaf : dmaf[i].msg.type = "EvictDirty"

(* evictCacheBlock: another block takes the frame; a clean one is dropped. *)
(* A block is most recently used while a request for it is active, and     *)
(* while the copy its last owner gives up is on its way a second time: it  *)
(* is replaced then only if the rest of its set is refilled meanwhile.     *)
L2Victim ==
  /\ Running
  /\ l2.state # "I"
  /\ \/ EarlyVictim
     \/ Waiting(0, "WaitAck") = {} /\ (l2.state # "M" \/ ~DirtyDataComing)
  /\ l2' = NoBlock
  /\ ceb' = IF l2.state # "M" THEN ceb
            ELSE [present |-> TRUE, pending |-> ceb.pending, ver |-> l2.ver]
  /\ UNCHANGED <<sharers, dmaf, netVars>>

(* handleCacheEvict: the dirty block is sent to memory. *)
L2Evict ==
  /\ Running
  /\ ceb.present /\ ~ceb.pending
  /\ ceb' = [ceb EXCEPT !.pending = TRUE]
  /\ toMem' = Append(toMem, MsgWithData("EvictDirty", Dir, Mem, Dir, ceb.ver))
  /\ UNCHANGED <<l2, sharers, dmaf, request, snoop, reply, latest, failed>>
=============================================================================
