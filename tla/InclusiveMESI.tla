---------------------------- MODULE InclusiveMESI ----------------------------
(***************************************************************************)
(* The L1 data cache: components/Cache, policy InclusiveMESI at level eL1, *)
(* with the parts of CacheController that queue, wake and transmit.        *)
(*                                                                         *)
(* One operator models a policy handler together with the run*Process and  *)
(* doTransmitProcess code that carries its Action out, as one step.  The   *)
(* time a process spends in the MAF, tag and data pipelines is the time    *)
(* its messages spend in CoherenceNet.                                     *)
(*                                                                         *)
(* The other blocks of the cache appear only as the pressure that makes    *)
(* this one a victim.  A core has at most one request for the block in     *)
(* the MAF; a second one would wait there in kWaitAddress.                 *)
(***************************************************************************)
EXTENDS CoherenceNet, SequencesExt

CONSTANTS
  NAckAlways,    \* theNAckAlways ("AlwaysNAck")
  EarlyVictim    \* may a block be replaced before the transaction that
                 \* used it last is over?

VARIABLES
  array,    \* theArray: MESI state of the block in each L1
  data,     \* ghost: version held in the array or the evict buffer
  evict,    \* theEvictBuffer: the block's entry
  snoops,   \* theSnoopBuffer: the block's entries
  maf       \* theMaf: the block's entry

l1Vars == <<array, data, evict, snoops, maf>>

States == {"I", "S", "E", "M"}
None == "None"

(* EvictEntry.  theType is always the evict type of theState.              *)
NoEvict == [state |-> "I", pending |-> FALSE, evictable |-> FALSE,
            snoopRequired |-> FALSE]
EvictEntry(s) == [state |-> s, pending |-> FALSE, evictable |-> FALSE,
                  snoopRequired |-> TRUE]
EvictTypeOf(s) == CASE s = "M" -> "EvictDirty"
                    [] s = "E" -> "EvictWritable"
                    [] OTHER   -> "EvictClean"

(* The entries of the snoop buffer: the one whose core snoop is            *)
(* outstanding, those that wait for it, and theWakeList.                   *)
NoSnoops == [active |-> <<>>, waiting |-> <<>>, waking |-> <<>>]
HasEntry(sb) == sb.active # <<>> \/ sb.waiting # <<>> \/ sb.waking # <<>>
EvictSnoop(c) == Msg("EvictClean", c, c, c)   \* an eviction's own snoop

NoMaf == [state |-> None, op |-> None, outstanding |-> 0,
          dataReceived |-> FALSE, woken |-> FALSE]
MafEntry(state, op) == [NoMaf EXCEPT !.state = state, !.op = op]
WaitingMaf(c) == maf[c].state = "WaitResponse"

FromEB(c) == array[c] = "I" /\ evict[c] # NoEvict
BlockState(c) == IF array[c] # "I" THEN array[c] ELSE evict[c].state

L1Init ==
  /\ array = [c \in Cores |-> "I"]
  /\ data = [c \in Cores |-> 0]
  /\ evict = [c \in Cores |-> NoEvict]
  /\ snoops = [c \in Cores |-> NoSnoops]
  /\ maf = [c \in Cores |-> NoMaf]

SnoopTransports == {m \in Message : m.type \in SnoopTypes \cup {"EvictClean"}}

L1TypeOK ==
  /\ array \in [Cores -> States]
  /\ data \in [Cores -> Version]
  /\ evict \in [Cores -> [state : States, pending : BOOLEAN,
                          evictable : BOOLEAN, snoopRequired : BOOLEAN]]
  /\ \A c \in Cores :
       LET sb == snoops[c]
       IN  sb.active \in Seq(Message) /\ Len(sb.active) <= 1
           /\ sb.waiting \in Seq(Message) /\ sb.waking \in Seq(Message)
  /\ maf \in [Cores -> [state : {None, "WaitResponse", "WaitEvict", "WaitSnoop"},
                        op : {None, "Load", "Store"}, outstanding : Int,
                        dataReceived : BOOLEAN, woken : BOOLEAN]]

-----------------------------------------------------------------------------
(* Front side: requests of the core.                                       *)

NextVersion == (latest + 1) % Vers

SendRequest(c, type) ==
  request' = [request EXCEPT ![c] = Append(@, Msg(type, c, Dir, c))]

(* A store performed in L1: the block becomes Modified with new data. *)
PerformStore(c) ==
  /\ array' = [array EXCEPT ![c] = "M"]
  /\ latest' = NextVersion
  /\ data' = [data EXCEPT ![c] = NextVersion]

(* doRequest past the evict buffer and the snoop buffer, block in state s. *)
Access(c, op, s) ==
  \/ /\ op = "Load" /\ s # "I"
     /\ array' = [array EXCEPT ![c] = s]
     /\ maf' = [maf EXCEPT ![c] = NoMaf]
     /\ UNCHANGED <<request, data, latest>>
  \/ /\ op = "Store" /\ s \in {"E", "M"}
     /\ PerformStore(c)
     /\ maf' = [maf EXCEPT ![c] = NoMaf]
     /\ UNCHANGED request
  \/ /\ s = "I" \/ (op = "Store" /\ s = "S")
     /\ SendRequest(c, IF op = "Load" THEN "ReadReq"
                       ELSE IF s = "I" THEN "WriteReq" ELSE "UpgradeReq")
     /\ array' = [array EXCEPT ![c] = s]
     /\ maf' = [maf EXCEPT ![c] = MafEntry("WaitResponse", op)]
     /\ UNCHANGED <<data, latest>>

(* A block in the evict buffer that has not been sent yet moves back into  *)
(* the array, even when the request then has to wait for a snoop.          *)
DoRequest(c, op) ==
  IF FromEB(c) /\ evict[c].pending
  THEN /\ maf' = [maf EXCEPT ![c] = MafEntry("WaitEvict", op)]
       /\ UNCHANGED <<array, data, evict, request, latest>>
  ELSE LET s == BlockState(c)
       IN  /\ evict' = [evict EXCEPT ![c] = NoEvict]
           /\ IF HasEntry(snoops[c])
              THEN /\ array' = [array EXCEPT ![c] = s]
                   /\ maf' = [maf EXCEPT ![c] = MafEntry("WaitSnoop", op)]
                   /\ UNCHANGED <<data, request, latest>>
              ELSE Access(c, op, s)

(* runRequestProcess: a load or a store (StoreReq, StorePrefetchReq,       *)
(* RMWReq and CmpxReq are handled alike) arrives from the core.  It, and a *)
(* woken request, may be before a snoop in theWakeList: only the snoop     *)
(* needs a place in BackSideOut_Reply.                                     *)
FrontRequest(c, op) ==
  /\ Running
  /\ maf[c].state = None
  /\ DoRequest(c, op)
  /\ UNCHANGED <<snoops, snoop, toMem, reply, failed>>

(* runWakeMafProcess: theWakeMAFList makes a stalled request try again. *)
WakeMaf(c) ==
  /\ Running
  /\ maf[c].woken
  /\ DoRequest(c, maf[c].op)
  /\ UNCHANGED <<snoops, snoop, toMem, reply, failed>>

Wake(c, why) ==
  maf' = [maf EXCEPT ![c].woken = @ \/ maf[c].state = why]

-----------------------------------------------------------------------------
(* Back side: forwards and invalidates of the directory.                   *)

SetBlockState(c, s) ==
  IF array[c] # "I"
  THEN array' = [array EXCEPT ![c] = s] /\ UNCHANGED evict
  ELSE evict' = [evict EXCEPT ![c].state = s] /\ UNCHANGED array

Reply(m) == reply' = ReplyBagWith({m})

FwdAnswer(c, m, type) ==
  [MsgWithData(type, m.requester, m.requester, c, data[c])
     EXCEPT !.needData = m.needData]

(* Mutant: a snoop of a block goes to the core while another is there. *)
MutSnoopAtOnce(c, m, sb) ==
  snoops' = [snoops EXCEPT ![c] = [sb EXCEPT !.active = Append(@, m)]]

SnoopCore(c, m, sb) ==
  snoops' = [snoops EXCEPT ![c] =
               IF HasEntry(sb) THEN [sb EXCEPT !.waiting = Append(@, m)]
                               ELSE [sb EXCEPT !.active = <<m>>]]

HandleReadFwd(c, m, sb) ==
  LET s == BlockState(c) IN
  /\ UNCHANGED failed
  /\ \/ /\ s = "I"
        /\ Reply(Msg("FwdNAck", m.requester, Dir, c))
        /\ snoops' = [snoops EXCEPT ![c] = sb]
        /\ UNCHANGED <<array, evict>>
     \/ /\ s = "S"
        /\ Reply(FwdAnswer(c, m, "FwdReply"))
        /\ snoops' = [snoops EXCEPT ![c] = sb]
        /\ UNCHANGED <<array, evict>>
     \/ /\ s = "E"
        /\ SnoopCore(c, m, sb)
        /\ UNCHANGED <<array, evict, reply>>
     \/ /\ s = "M"
        /\ SetBlockState(c, "S")
        /\ Reply(FwdAnswer(c, m, "FwdReplyOwned"))
        /\ snoops' = [snoops EXCEPT ![c] = sb]

HandleWriteFwd(c, m, sb) ==
  LET s == BlockState(c) IN
  /\ UNCHANGED <<failed, array, evict>>
  /\ IF s = "I"
     THEN /\ IF NAckAlways THEN Reply(Msg("FwdNAck", m.requester, Dir, c))
                           ELSE UNCHANGED reply
          /\ snoops' = [snoops EXCEPT ![c] = sb]
     ELSE IF FromEB(c) /\ evict[c].pending
     THEN /\ Reply(FwdAnswer(c, m, IF s = "M" THEN "FwdReplyDirty"
                                              ELSE "FwdReplyWritable"))
          /\ snoops' = [snoops EXCEPT ![c] = sb]
     ELSE SnoopCore(c, m, sb) /\ UNCHANGED reply

InvAck(c, m, type) == Msg(type, m.requester, m.requester, c)

HandleInvalidate(c, m, sb) ==
  LET s == BlockState(c)
      quiet == snoops' = [snoops EXCEPT ![c] = sb]
  IN
  \/ /\ s = "I"
     /\ IF NAckAlways THEN Reply(InvAck(c, m, "InvalidateNAck"))
                      ELSE UNCHANGED reply
     /\ quiet
     /\ UNCHANGED <<failed, array, evict>>
  \/ /\ s \in {"E", "M"}
     /\ Abort("Invalidate in a writable state")
     /\ UNCHANGED <<reply, snoops, array, evict>>
  \/ /\ s = "S" /\ WaitingMaf(c) /\ maf[c].op = "Load"
     /\ Abort("Invalidate while waiting for a read")
     /\ UNCHANGED <<reply, snoops, array, evict>>
  \/ /\ s = "S" /\ ~(WaitingMaf(c) /\ maf[c].op = "Load")
     /\ UNCHANGED <<failed, array>>
     /\ IF FromEB(c) /\ (evict[c].pending \/ evict[c].evictable)
        THEN /\ Reply(InvAck(c, m, "InvalidateAck"))
             /\ evict' = [evict EXCEPT ![c] = IF @.pending THEN @ ELSE NoEvict]
             /\ quiet
        ELSE SnoopCore(c, m, sb) /\ UNCHANGED <<reply, evict>>

HandleSnooped(c, m, sb) ==
  \/ m.type = "ReadFwd" /\ HandleReadFwd(c, m, sb)
  \/ m.type = "WriteFwd" /\ HandleWriteFwd(c, m, sb)
  \/ m.type = "Invalidate" /\ HandleInvalidate(c, m, sb)

(* EvictAck: the eviction is over; wake a request that waited for it. *)
HandleEvictAck(c) ==
  IF FromEB(c)
  THEN /\ evict' = [evict EXCEPT ![c] = NoEvict]
       /\ Wake(c, "WaitEvict")
       /\ UNCHANGED failed
  ELSE Abort("EvictAck but block not in the evict buffer") /\ UNCHANGED <<evict, maf>>

(* runBackProcess on BackSideIn_Request: the head of the Snoop channel.    *)
(* scheduleNewProcesses comes to it after the snoops in theWakeList, and   *)
(* it needs what they need, a place in BackSideOut_Reply and FrontSideOut. *)
BackRequest(c) ==
  /\ Running
  /\ snoop[c] # <<>>
  /\ snoops[c].waking = <<>>
  /\ snoop' = [snoop EXCEPT ![c] = Tail(@)]
  /\ LET m == Head(snoop[c]) IN
     \/ HandleSnooped(c, m, snoops[c]) /\ UNCHANGED maf
     \/ /\ m.type = "EvictAck"
        /\ HandleEvictAck(c)
        /\ UNCHANGED <<array, snoops, reply>>
  /\ UNCHANGED <<data, request, toMem, latest>>

(* runWakeSnoopProcess: a snoop that waited for another one starts over. *)
WakeSnoop(c) ==
  /\ Running
  /\ snoops[c].waking # <<>>
  /\ LET m  == Head(snoops[c].waking)
         sb == [snoops[c] EXCEPT !.waking = Tail(@)]
     IN \/ HandleSnooped(c, m, sb)
        \/ /\ m.type = "EvictClean"
           /\ UNCHANGED <<array, evict, reply>>
           /\ IF sb.active = <<>>
              THEN /\ snoops' = [snoops EXCEPT ![c] = [sb EXCEPT !.active = <<m>>]]
                   /\ UNCHANGED failed
              ELSE Abort("waking evict finds an active snoop") /\ UNCHANGED snoops
  /\ UNCHANGED <<data, maf, request, snoop, toMem, latest>>

-----------------------------------------------------------------------------
(* finalizeSnoop: the core has acknowledged the outstanding snoop.  The    *)
(* core only sends InvalidateAck and DowngradeAck (uArchImpl.cpp), never   *)
(* one of the update acks.                                                 *)

(* The state finalizeSnoop reads: array, else the evict buffer entry; when *)
(* there is no entry it reads through end(), which can yield anything.     *)
SnoopedStates(c) ==
  IF array[c] = "I" /\ evict[c] = NoEvict THEN States ELSE {BlockState(c)}

(* The first eviction snoop that waits goes with its evict buffer entry.   *)
WithoutEvictSnoop(sb) ==
  LET i == SelectInSeq(sb.waiting, LAMBDA m : m.type = "EvictClean")
  IN  IF i = 0 THEN sb ELSE [sb EXCEPT !.waiting = RemoveAt(@, i)]

(* Mutant: a final reply forgets the snoops that waited for it. *)
MutWakeNone(sb) == [sb EXCEPT !.active = <<>>]

(* The outstanding entry goes, and the waiting ones join theWakeList. *)
WakeWaitingEntries(sb) ==
  [active |-> <<>>, waiting |-> <<>>, waking |-> sb.waking \o sb.waiting]

FinalizeReadFwd(c, m) ==
  /\ \E s \in SnoopedStates(c) :
       Reply(FwdAnswer(c, m, IF s = "M" THEN "FwdReplyOwned" ELSE "FwdReply"))
  /\ IF array[c] # "I" \/ evict[c] # NoEvict
     THEN SetBlockState(c, "S")
     ELSE UNCHANGED <<array, evict>>
  /\ snoops' = [snoops EXCEPT ![c] = WakeWaitingEntries(@)]
  /\ UNCHANGED failed

(* The copy goes.  An entry whose evict has been sent stays in the buffer. *)
FinalizeInvalidation(c, m) ==
  IF array[c] = "I" /\ evict[c] = NoEvict
  THEN /\ Abort("snoop finalized for a block that is gone")
       /\ UNCHANGED <<array, evict, snoops, reply>>
  ELSE /\ UNCHANGED failed
       /\ Reply(IF m.type = "Invalidate" THEN InvAck(c, m, "InvalidateAck")
                ELSE FwdAnswer(c, m, IF BlockState(c) = "M" THEN "FwdReplyOwned"
                                                            ELSE "FwdReplyWritable"))
       /\ LET drop == array[c] = "I" /\ ~evict[c].pending IN
          /\ array' = [array EXCEPT ![c] = "I"]
          /\ evict' = [evict EXCEPT ![c] = IF drop THEN NoEvict ELSE @]
          /\ snoops' = [snoops EXCEPT ![c] =
                          WakeWaitingEntries(IF drop THEN WithoutEvictSnoop(@) ELSE @)]

(* The evicted block may leave.  If a request took it back from the evict  *)
(* buffer meanwhile, the code calls setEvictable through end(): that is    *)
(* the header of the container and no entry changes.                       *)
FinalizeEvictSnoop(c) ==
  /\ evict' = [evict EXCEPT ![c] =
                 IF @ = NoEvict THEN @ ELSE [@ EXCEPT !.evictable = TRUE]]
  /\ snoops' = [snoops EXCEPT ![c] = WakeWaitingEntries(@)]
  /\ UNCHANGED <<array, reply, failed>>

(* runSnoopProcess *)
FinalizeSnoop(c) ==
  /\ Running
  /\ snoops[c].active # <<>>
  /\ LET m == Head(snoops[c].active) IN
     \/ m.type = "ReadFwd" /\ FinalizeReadFwd(c, m)
     \/ m.type \in {"WriteFwd", "Invalidate"} /\ FinalizeInvalidation(c, m)
     \/ m.type = "EvictClean" /\ FinalizeEvictSnoop(c)
  /\ Wake(c, "WaitSnoop")
  /\ UNCHANGED <<data, request, snoop, toMem, latest>>

-----------------------------------------------------------------------------
(* Back side: replies to this cache's miss.                                *)

Consume(m, ms) == reply' = (reply (-) SetToBag({m})) (+) SetToBag(ms)

FillState(type) ==
  CASE type = "MissReplyWritable" -> "E"
    [] type = "MissReplyDirty"    -> "M"
    [] OTHER                      -> "S"

LoadReplies == {"MissReply", "MissReplyWritable", "MissReplyDirty",
                "FwdReply", "FwdReplyOwned"}

HandleLoadReply(c, m) ==
  IF BlockState(c) # "I" \/ m.type \notin LoadReplies
  THEN /\ Abort("unexpected reply to a load")
       /\ UNCHANGED <<array, data, maf, reply, latest>>
  ELSE LET ack == IF m.type = "FwdReplyOwned" THEN "ReadAckDirty" ELSE "ReadAck"
       IN  /\ array' = [array EXCEPT ![c] = FillState(m.type)]
           /\ data' = [data EXCEPT ![c] = m.ver]
           /\ maf' = [maf EXCEPT ![c] = NoMaf]
           /\ Consume(m, {[Msg(ack, c, Dir, c) EXCEPT !.needData = m.needData,
                             !.ver = IF m.needData THEN m.ver ELSE 0]})
           /\ UNCHANGED <<latest, failed>>

DirtyReplies == {"MissNotifyData", "FwdReplyOwned", "FwdReplyDirty", "MissReplyDirty"}
DataReplies  == DirtyReplies \cup {"FwdReplyWritable", "MissReplyWritable"}
StoreReplies == DataReplies \cup {"MissNotify", "UpgradeReply", "InvalidateAck",
                                  "InvalidateNAck"}

(* Mutant: the notification overwrites the acks that came before it. *)
MutOutstandingSet(c, m) ==
  CASE m.type \in {"MissNotify", "MissNotifyData"} -> m.outstanding
    [] m.type = "UpgradeReply" \/ m.outstanding = -1 -> 0
    [] OTHER -> maf[c].outstanding - 1

(* maf_entry->outstanding_msgs after reply m. *)
Outstanding(c, m) ==
  CASE m.type \in {"MissNotify", "MissNotifyData"} -> maf[c].outstanding + m.outstanding
    [] m.type = "UpgradeReply" \/ m.outstanding = -1 -> 0
    [] OTHER -> maf[c].outstanding - 1

HandleStoreReply(c, m) ==
  LET n     == Outstanding(c, m)
      fills == m.type \in DataReplies
      dirty == m.type \in DirtyReplies
      state == IF ~fills THEN array[c] ELSE IF dirty THEN "M" ELSE "E"
      got   == maf[c].dataReceived \/ (fills /\ array[c] = "I")
      ver   == IF fills /\ (dirty \/ array[c] = "I") THEN m.ver ELSE data[c]
      ack   == IF got THEN "WriteAck" ELSE "UpgradeAck"
  IN IF m.type \notin StoreReplies \/ FromEB(c) \/ (n = 0 /\ ~got /\ state = "I")
     THEN /\ Abort("unexpected reply to a store")
          /\ UNCHANGED <<array, data, maf, reply, latest>>
     ELSE /\ UNCHANGED failed
          /\ IF n = 0
             THEN /\ PerformStore(c)
                  /\ maf' = [maf EXCEPT ![c] = NoMaf]
                  /\ Consume(m, {Msg(ack, c, Dir, c)})
             ELSE /\ array' = [array EXCEPT ![c] = state]
                  /\ data' = [data EXCEPT ![c] = ver]
                  /\ maf' = [maf EXCEPT ![c].outstanding = n, ![c].dataReceived = got]
                  /\ Consume(m, {})
                  /\ UNCHANGED latest

(* runBackProcess on BackSideIn_Reply. *)
BackReply(c, m) ==
  /\ Running
  /\ InReply(m) /\ m.dest = c
  /\ \/ /\ ~WaitingMaf(c)
        /\ Abort("reply with no corresponding miss")
        /\ UNCHANGED <<array, data, maf, reply, latest>>
     \/ WaitingMaf(c) /\ maf[c].op = "Load" /\ HandleLoadReply(c, m)
     \/ WaitingMaf(c) /\ maf[c].op = "Store" /\ HandleStoreReply(c, m)
  /\ UNCHANGED <<evict, snoops, request, snoop, toMem>>

-----------------------------------------------------------------------------
(* Evictions.                                                              *)

(* evictBlock: another block of the set takes the frame.  A block with an  *)
(* outstanding miss is protected.  One brought back for a waiting request  *)
(* is most recently used, and is replaced only if the rest of its set is   *)
(* refilled before the core answers the snoop.                             *)
Victimize(c) ==
  /\ Running
  /\ array[c] # "I"
  /\ ~WaitingMaf(c)
  /\ EarlyVictim \/ maf[c].state # "WaitSnoop"
  /\ evict' = [evict EXCEPT ![c] = EvictEntry(array[c])]
  /\ array' = [array EXCEPT ![c] = "I"]
  /\ UNCHANGED <<data, snoops, maf, netVars>>

(* getIdleWorkMessage, which clears theSnoopRequired, and handleIdleWork:  *)
(* the core is told to give the evicted block up.  The two are one step    *)
(* here.  A request that takes the block back in between leaves the idle   *)
(* work nothing to do, as if it had not been scheduled; that the block is  *)
(* evicted once more in between is left out.                               *)
IdleWork(c) ==
  /\ Running
  /\ evict[c].snoopRequired
  /\ evict' = [evict EXCEPT ![c].snoopRequired = FALSE]
  /\ SnoopCore(c, EvictSnoop(c), snoops[c])
  /\ UNCHANGED <<array, data, maf, netVars>>

(* runEvictProcess and doEviction. *)
Evict(c) ==
  /\ Running
  /\ evict[c].evictable /\ ~evict[c].pending
  /\ evict' = [evict EXCEPT ![c].pending = TRUE]
  /\ request' = [request EXCEPT ![c] =
       Append(@, MsgWithData(EvictTypeOf(evict[c].state), c, Dir, c,
                             IF evict[c].state = "M" THEN data[c] ELSE 0))]
  /\ UNCHANGED <<array, data, snoops, maf, snoop, toMem, reply, latest, failed>>
=============================================================================
