---------------------------- MODULE CmpCoherence ----------------------------
(***************************************************************************)
(* The coherence protocol of simulators/CMP.L2SharedNUCA.OoO for one       *)
(* block: the L1 data caches (InclusiveMESI), one L2 bank with its         *)
(* directory (NonInclusiveMESI) and the memory controller                  *)
(* (MemoryLoopback), connected by CoherenceNet.                            *)
(***************************************************************************)
EXTENDS CoherenceNet, SequencesExt

CONSTANTS
  NAckAlways,    \* AlwaysNAck of the L1s
  EarlyVictim    \* may a block be replaced before the transaction that
                 \* used it last is over?

ASSUME OptionsAssumption == {NAckAlways, EarlyVictim} \subseteq BOOLEAN

VARIABLES array, data, evict, snoops, maf,        \* InclusiveMESI
          l2, sharers, ceb, dmaf,                 \* NonInclusiveMESI
          mem                                     \* MemoryLoopback

L1  == INSTANCE InclusiveMESI
L2  == INSTANCE NonInclusiveMESI
MC  == INSTANCE MemoryLoopback

l1Vars == <<array, data, evict, snoops, maf>>
l2Vars == <<l2, sharers, ceb, dmaf>>
vars == <<netVars, l1Vars, l2Vars, mem>>

Init == NetInit /\ L1!L1Init /\ L2!L2Init /\ MC!MemInit

-----------------------------------------------------------------------------
(* The steps of one component, which leave the state of the others alone.  *)

L1Frame == UNCHANGED <<l2Vars, mem>>
L2Frame == UNCHANGED <<l1Vars, mem>>
MemFrame == UNCHANGED <<l1Vars, l2Vars>>

(* What the environment decides: the program's accesses, and the blocks    *)
(* that compete with this one for frames in an L1 or in the L2.            *)
CoreRequest(c) == (\E op \in {"Load", "Store"} : L1!FrontRequest(c, op)) /\ L1Frame
L1Replacement(c) == L1!Victimize(c) /\ L1Frame
L2Replacement == L2!L2Victim /\ L2Frame

L1WakeMaf(c) == L1!WakeMaf(c) /\ L1Frame
L1Back(c) == L1!BackRequest(c) /\ L1Frame
L1WakeSnoop(c) == L1!WakeSnoop(c) /\ L1Frame
L1SnoopDone(c) == L1!FinalizeSnoop(c) /\ L1Frame
L1Reply(c) == (\E m \in BagToSet(reply) : L1!BackReply(c, m)) /\ L1Frame
L1Idle(c) == L1!IdleWork(c) /\ L1Frame
L1Evict(c) == L1!Evict(c) /\ L1Frame

L2Request(c) == L2!DirRequest(c) /\ L2Frame
L2WakeMaf == L2!DirWakeMaf /\ L2Frame
L2Reply(n) == (\E m \in BagToSet(reply) : m.other = n /\ L2!DirReply(m)) /\ L2Frame
L2Evict == L2!L2Evict /\ L2Frame

MemStep == MC!MemServe /\ MemFrame

Next ==
  \/ \E c \in Cores :
       \/ CoreRequest(c)
       \/ L1Replacement(c)
       \/ L1WakeMaf(c)
       \/ L1Back(c)
       \/ L1WakeSnoop(c)
       \/ L1SnoopDone(c)
       \/ L1Reply(c)
       \/ L1Idle(c)
       \/ L1Evict(c)
       \/ L2Request(c)
  \/ L2WakeMaf
  \/ \E n \in Cores \cup {Mem} : L2Reply(n)
  \/ L2Replacement
  \/ L2Evict
  \/ MemStep

Spec == Init /\ [][Next]_vars

(* drive() runs every controller in every cycle, so a controller that can  *)
(* go on does.  A request can be overtaken by woken MAF entries again and  *)
(* again, but RequestIn is a queue: it is its turn in the end.  Nothing is *)
(* assumed of the program, of replacements, or of evictions that wait in   *)
(* an L1 or L2 evict buffer until their place is needed.                   *)
Fairness ==
  /\ \A c \in Cores :
       /\ WF_vars(L1WakeMaf(c))
       /\ WF_vars(L1Back(c))
       /\ WF_vars(L1WakeSnoop(c))
       /\ WF_vars(L1SnoopDone(c))
       /\ WF_vars(L1Reply(c))
       /\ SF_vars(L2Request(c))
  /\ WF_vars(L2WakeMaf)
  /\ \A n \in Cores \cup {Mem} : WF_vars(L2Reply(n))
  /\ WF_vars(MemStep)

FairSpec == Spec /\ Fairness

-----------------------------------------------------------------------------
(* Properties.                                                             *)

(* Every component is in a state its code can represent. *)
TypeOK == NetTypeOK /\ L1!L1TypeOK /\ L2!L2TypeOK /\ MC!MemTypeOK

(* No DBG_Assert of the two policies fails: every reply finds the miss it  *)
(* answers, every ack finds the MAF entry of its request, no Invalidate    *)
(* reaches a writable copy, no write-back crosses a copy of its block.     *)
(* This is said of systems in which no frame is taken from a block whose   *)
(* last transaction is still under way (EarlyVictim is FALSE).  The code   *)
(* does not see to that, it only prefers blocks not used for long.  When   *)
(* it happens assertions of both policies do fail, among them that of the  *)
(* EvictAck of a write-back (NonInclusiveMESIPolicy.cpp 1508).             *)
NoAssert == failed = "none"

(* A copy the core may use: in the array with no transaction of its own.   *)
Readable(c) == array[c] # "I" /\ maf[c].state # "WaitResponse"
Writable(c) == array[c] \in {"E", "M"} /\ maf[c].state # "WaitResponse"

(* The purpose of the protocol: while one L1 can write the block no other  *)
(* L1 can read or write it, whatever forwards, invalidates, evictions and  *)
(* acks are still on their way.                                            *)
SingleWriter ==
  \A c, d \in Cores : c # d /\ Writable(c) => ~Readable(d)

InMaf(st) == \E i \in DOMAIN dmaf : dmaf[i].st = st

(* theDirectory never loses a copy: an L1 that can read the block is a     *)
(* recorded sharer, or its request still has its MAF entry.  doEvict       *)
(* removes a sharer on messages that may be older than the last grant.     *)
DirectoryCovers ==
  \A c \in Cores : Readable(c) =>
    \/ c \in sharers
    \/ \E i \in DOMAIN dmaf : dmaf[i].st = "WaitAck" /\ dmaf[i].msg.requester = c

(* wakeMAFs and wakeAfterEvict are the only way out of a stall in the L2:  *)
(* a stalled request always has an active one ahead of it, or a write-back *)
(* memory will acknowledge.                                                *)
NoOrphanStall ==
  /\ InMaf("WaitRequest") => InMaf("WaitAck") \/ InMaf("WaitEvict") \/ InMaf("Waking")
  /\ InMaf("WaitEvict") => ceb.pending

EvictSnoopWaking(c) ==
  \E i \in DOMAIN snoops[c].waking : snoops[c].waking[i].type = "EvictClean"

(* finalizeSnoop is the only place that wakes a snoop that waits in        *)
(* theSnoopBuffer: it waits for one that is at the core, or for an         *)
(* eviction snoop that is about to be sent to the core.                    *)
NoOrphanSnoop ==
  \A c \in Cores : snoops[c].waiting # <<>> =>
    snoops[c].active # <<>> \/ EvictSnoopWaking(c)

(* finalizeSnoop is also the only place that wakes a request that found a  *)
(* snoop of its block (kWaitSnoop): it has been woken, or the snoop is     *)
(* still there.  A snoop in theWakeList is overtaken by requests while     *)
(* BackSideOut_Reply is full, and would end without waking them if it      *)
(* could be answered without the core.                                     *)
NoOrphanRequest ==
  \A c \in Cores : maf[c].state = "WaitSnoop" =>
    maf[c].woken \/ L1!HasEntry(snoops[c])

(* What waits at an L1 for the end of a snoop is woken by it, whether the  *)
(* reply queue is full or not.  Like NoAssert, this is said of systems in  *)
(* which no block is replaced in the middle of its last transaction.       *)
NoOrphan == NoOrphanSnoop /\ NoOrphanRequest

(* DBG_Assert of the EvictAck of memory: the write-back it answers is      *)
(* still in theCacheEvictBuffer, pending.                                  *)
WriteBackAwaited ==
  \A m \in BagToSet(reply) : m.type = "EvictAck" => ceb.present /\ ceb.pending

(* A WriteFwd or an Invalidate always finds a copy, in the array or in the *)
(* evict buffer: the branches that drop it without an answer, which would  *)
(* leave the requester one ack short for ever, are never taken.            *)
WriteSnoopFindsBlock ==
  \A c \in Cores :
    snoop[c] # <<>> /\ Head(snoop[c]).type \in {"WriteFwd", "Invalidate"}
      => array[c] # "I" \/ evict[c].state # "I"

(* The copy a core can use without a message to the directory: a block in  *)
(* the evict buffer counts until its eviction is announced.                *)
UsableState(c) ==
  IF L1!WaitingMaf(c) \/ evict[c].pending THEN "I" ELSE L1!BlockState(c)

(* The protocol implements BlockRights: what a core waits for is its MAF   *)
(* entry, and its rights are the copy it can use.  A miss leaves the MAF   *)
(* only when its block has the rights the request needs, rights come only  *)
(* to a core that asked, never against those of another core, and every    *)
(* load and store that missed completes.                                   *)
Rights == INSTANCE BlockRights WITH
  want <- [c \in Cores |-> maf[c].op],
  rights <- [c \in Cores |-> CASE UsableState(c) = "I" -> "none"
                               [] UsableState(c) = "S" -> "read"
                               [] OTHER -> "write"]

ImplementsBlockRights == Rights!Spec

(* Every eviction an L1 has announced is acknowledged, so that its place   *)
(* in the evict buffer becomes free again.                                 *)
EveryEvictEnds == \A c \in Cores : evict[c].pending ~> ~evict[c].pending

(* A copy an L1 may read is the last one stored: doRequest forwards a read *)
(* whenever there might be a modified copy higher up.                      *)
LoadsCurrent == \A c \in Cores : Readable(c) => data[c] = latest
=============================================================================
