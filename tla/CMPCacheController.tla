------------------------- MODULE CMPCacheController -------------------------
(***************************************************************************)
(* The process engine of one L2 bank: components/CMPCache,                 *)
(* CMPCacheController with AbstractCacheController, ProcessEntry, the      *)
(* output MessageQueues, the capacity side of MissAddressFile and          *)
(* CacheEvictBuffer.                                                       *)
(*                                                                         *)
(* A process may start only when every resource it could need has been     *)
(* reserved: places in the three output queues, an entry of the MAF and an *)
(* entry of the cache evict buffer.  It runs the policy, gives back what   *)
(* the chosen action does not need, waits for the tag and data pipelines   *)
(* and sends its messages into the places it kept.  A read that will bring *)
(* data later leaves its evict buffer reservation with its MAF entry.      *)
(*                                                                         *)
(* The policy (NonInclusiveMESIPolicy, infinite directory, EvictClean off) *)
(* is a choice among the actions it can set for the message at hand.       *)
(* Addresses are left out: an action on a MAF entry may wake any of the    *)
(* entries that wait.  The directory evict buffer of an infinite directory *)
(* has no capacity and SnoopIn receives nothing.                           *)
(***************************************************************************)
EXTENDS Integers, FiniteSets

CONSTANTS
  Procs,      \* places for processes in the pipelines
  Entries,    \* MAF entry identifiers; more of them than MafSize
  MafSize,    \* theMAF.theSize
  QueueSize,  \* theSize of RequestOut, SnoopOut and ReplyOut
  EBSize      \* theSize of the cache evict buffer

ASSUME ProcsAssumption == IsFiniteSet(Procs)
ASSUME EntriesAssumption == IsFiniteSet(Entries) /\ "None" \notin Entries
ASSUME SizesAssumption == MafSize \in Nat /\ QueueSize \in Nat /\ EBSize \in Nat

VARIABLES
  proc,       \* the processes in the pipelines
  held,       \* snoop_out_reserved, reply_out_reserved, req_out_reserved
  usage,      \* theCurrentUsage of each output queue
  reserve,    \* theCurrentReserve of each output queue
  maf,        \* the entries of the MAF
  mafHeld,    \* the processes with maf_reserved
  mafReserve, \* theMAF.theReserve
  ebUsed,     \* theCurSize of the cache evict buffer
  ebPending,  \* thePendingEvicts of the cache evict buffer
  ebReserve,  \* theReserve of the cache evict buffer
  ebProc,     \* cache_eb_reserved of each process
  ebMaf,      \* theCacheEBReserved of each MAF entry
  idleWork    \* theIdleWorkScheduled

queueVars == <<held, usage, reserve>>
mafVars == <<maf, mafHeld, mafReserve>>
ebVars == <<ebUsed, ebPending, ebReserve, ebProc, ebMaf>>
vars == <<proc, queueVars, mafVars, ebVars, idleWork>>

Queues == {"SnoopOut", "ReplyOut", "RequestOut"}
MaxSnoops == 2     \* AbstractPolicy::maxSnoopsPerRequest
None == "None"

(* ReadReq and FetchReq; WriteReq and UpgradeReq; the evicts of an L1; and *)
(* NonAllocatingStoreReq.                                                  *)
Kinds == {"Read", "Write", "Evict", "NAS"}
(* Replies of memory and acks of an L1 that answer a MAF entry. *)
Answers == {"MemReply", "Ack", "FwdNAck"}
ProcTypes == {"WakeMAF", "CacheEvict", "Reply", "Request", "IdleWork"}
Actions == {"FwdAndWaitAck", "NotifyAndWaitAck", "WakeEvictMAF", "Forward", "Reply",
            "ReplyAndRemoveMAF", "RemoveAndWakeMAF", "Stall", "NoAction"}

(* stage: not in use, in the MAF pipeline, or past the policy handler. *)
Process == [stage : {"Idle", "Maf", "Run"}, type : ProcTypes \cup {None},
            msg : Kinds \cup Answers \cup {"EvictAck", None},
            action : Actions \cup {None}, snoops : 0 .. MaxSnoops,
            entry : Entries \cup {None}]
NoProc == [stage |-> "Idle", type |-> None, msg |-> None, action |-> None,
           snoops |-> 0, entry |-> None]
NewProc(type, msg, e) ==
  [stage |-> "Maf", type |-> type, msg |-> msg, action |-> None, snoops |-> 0,
   entry |-> e]
RunProc(r, action, n, e) ==
  [stage |-> "Run", type |-> r.type, msg |-> r.msg, action |-> action, snoops |-> n,
   entry |-> e]

(* expects: what a WaitAck entry waits for, the answer to a forward, the   *)
(* reply of memory, or the last ack of the requester.                      *)
MafEntry == [state : {"Free", "WaitRequest", "WaitEvict", "WaitAck", "Waking",
                      "InPipeline"},
             kind : Kinds \cup {None}, expects : {None, "Fwd", "Mem", "Ack"}]
NoEntry == [state |-> "Free", kind |-> None, expects |-> None]
Entry(state, kind, expects) ==
  [state |-> state, kind |-> kind, expects |-> expects]

(* The sum of counters f[x] \in 0 .. MaxSnoops, level by level. *)
AtLeast(f, i) == {x \in DOMAIN f : f[x] >= i}
Total(f) == Cardinality(AtLeast(f, 1)) + Cardinality(AtLeast(f, MaxSnoops))

Init ==
  /\ proc = [p \in Procs |-> NoProc]
  /\ held = [q \in Queues |-> [p \in Procs |-> 0]]
  /\ usage = [q \in Queues |-> 0]
  /\ reserve = [q \in Queues |-> 0]
  /\ maf = [e \in Entries |-> NoEntry]
  /\ mafHeld = {} /\ mafReserve = 0
  /\ ebUsed = 0 /\ ebPending = 0 /\ ebReserve = 0
  /\ ebProc = [p \in Procs |-> 0]
  /\ ebMaf = [e \in Entries |-> 0]
  /\ idleWork = FALSE

-----------------------------------------------------------------------------
(* Reservations.                                                           *)

(* What scheduleNewProcesses reserves in the output queues. *)
Need(type) ==
  [ SnoopOut   |-> IF type \in {"WakeMAF", "Request"} THEN MaxSnoops ELSE 1,
    ReplyOut   |-> IF type \in {"WakeMAF", "Request", "Reply"} THEN 1 ELSE 0,
    RequestOut |-> IF type \in {"WakeMAF", "Request"} THEN 1 ELSE 0 ]

(* Mutant: room for any one message is taken for room for all of them. *)
MutHasSpaceOne(type) ==
  \A q \in Queues : Need(type)[q] > 0 => reserve[q] + 1 <= QueueSize

HasSpace(type) == \A q \in Queues : reserve[q] + Need(type)[q] <= QueueSize

ReserveOut(p, type) ==
  /\ reserve' = [q \in Queues |-> reserve[q] + Need(type)[q]]
  /\ held' = [q \in Queues |-> [held[q] EXCEPT ![p] = @ + Need(type)[q]]]
  /\ UNCHANGED usage

SnoopActions == {"FwdAndWaitAck", "NotifyAndWaitAck", "Forward"}
ReplyActions == {"NotifyAndWaitAck", "Reply", "ReplyAndRemoveMAF"}

(* Mutant: a snoop place is given back even when the reply is forwarded. *)
MutGivenBackForward(type, action, n) ==
  [ SnoopOut   |-> IF type \in {"WakeMAF", "Request"} THEN MaxSnoops - n ELSE 1,
    ReplyOut   |-> IF type = "IdleWork" \/ action \in ReplyActions THEN 0 ELSE 1,
    RequestOut |-> IF type \in {"WakeMAF", "Request"} THEN 1 ELSE 0 ]

(* Mutant: the request place of a woken entry is not given back. *)
MutGivenBackNoRequest(type, action, n) ==
  [ SnoopOut   |-> IF type \in {"WakeMAF", "Request"} THEN MaxSnoops - n
                   ELSE IF action = "Forward" THEN 0 ELSE 1,
    ReplyOut   |-> IF type = "IdleWork" \/ action \in ReplyActions THEN 0 ELSE 1,
    RequestOut |-> IF type = "Request" THEN 1 ELSE 0 ]

(* What the run*Process of a type gives back when the policy chose action  *)
(* and n snoop messages.                                                   *)
GivenBack(type, action, n) ==
  [ SnoopOut   |-> IF type \in {"WakeMAF", "Request"} THEN MaxSnoops - n
                   ELSE IF action = "Forward" THEN 0 ELSE 1,
    ReplyOut   |-> IF type = "IdleWork" \/ action \in ReplyActions THEN 0 ELSE 1,
    RequestOut |-> IF type \in {"WakeMAF", "Request"} THEN 1 ELSE 0 ]

UnreserveOut(p, action, n) ==
  LET back == GivenBack(proc[p].type, action, n) IN
  /\ reserve' = [q \in Queues |-> reserve[q] - back[q]]
  /\ held' = [q \in Queues |-> [held[q] EXCEPT ![p] = @ - back[q]]]
  /\ UNCHANGED usage

(* What finalizeProcess sends. *)
Sent(action, n) ==
  [ SnoopOut   |-> IF action \in SnoopActions THEN n ELSE 0,
    ReplyOut   |-> IF action \in ReplyActions THEN 1 ELSE 0,
    RequestOut |-> 0 ]

(* unreserve, then enqueue, which counts the message as reserved again. *)
SendHeld(p, action, n) ==
  /\ usage' = [q \in Queues |-> usage[q] + Sent(action, n)[q]]
  /\ held' = [q \in Queues |-> [held[q] EXCEPT ![p] = @ - Sent(action, n)[q]]]
  /\ UNCHANGED reserve

MafUsed == {e \in Entries : maf[e].state # "Free"}
(* Mutant: the reservations of the processes in the pipeline do not count. *)
MutMafFullNow == Cardinality(MafUsed) >= MafSize

MafFull == Cardinality(MafUsed) + mafReserve >= MafSize

ReserveMaf(p) ==
  mafHeld' = mafHeld \cup {p} /\ mafReserve' = mafReserve + 1
(* unreserveMAF: only a Request process has reserved an entry. *)
UnreserveMaf(p) ==
  IF proc[p].type = "Request"
  THEN mafHeld' = mafHeld \ {p} /\ mafReserve' = mafReserve - 1
  ELSE UNCHANGED <<mafHeld, mafReserve>>

(* Mutant: off by one, the last place is given out twice. *)
MutCacheEBHasSpaceLe == ebUsed + ebReserve <= EBSize

CacheEBHasSpace == ebUsed + ebReserve < EBSize
FreeSlotsPending == ebPending > 0 \/ ebUsed + ebReserve < EBSize

ReserveEB(p) ==
  /\ ebReserve' = ebReserve + 1
  /\ ebProc' = [ebProc EXCEPT ![p] = @ + 1]
  /\ UNCHANGED <<ebUsed, ebPending, ebMaf>>

(* unreserveEB of a process that holds n reservations, some of them taken  *)
(* back from MAF entry e.                                                  *)
UnreserveEB(p, n) ==
  /\ ebReserve' = ebReserve - n
  /\ ebProc' = [ebProc EXCEPT ![p] = 0]

(* Blocks leave and enter the buffer: out of the waiting ones, outPending  *)
(* of the ones sent to memory, and a dirty victim in.                      *)
EBMove(out, outPending, in) ==
  /\ out <= ebUsed - ebPending /\ outPending <= ebPending
  /\ ebUsed' = ebUsed - out - outPending + in
  /\ ebPending' = ebPending - outPending

Bit == {0, 1}

-----------------------------------------------------------------------------
(* scheduleNewProcesses, in order of priority.                             *)

Start(p, type, msg, e) ==
  /\ proc[p].stage = "Idle"
  /\ HasSpace(type)
  /\ proc' = [proc EXCEPT ![p] = NewProc(type, msg, e)]
  /\ ReserveOut(p, type)

CanWake == (\E e \in Entries : maf[e].state = "Waking")
             /\ HasSpace("WakeMAF") /\ CacheEBHasSpace

(* Mutant: getWakingMAF leaves the entry eWaking. *)
MutWakeStays(p) ==
  \E e \in Entries :
    /\ maf[e].state = "Waking"
    /\ CacheEBHasSpace
    /\ Start(p, "WakeMAF", maf[e].kind, e)
    /\ ReserveEB(p)
    /\ UNCHANGED <<mafVars, idleWork>>

ScheduleWakeMAF(p) ==
  \E e \in Entries :
    /\ maf[e].state = "Waking"
    /\ CacheEBHasSpace
    /\ Start(p, "WakeMAF", maf[e].kind, e)
    /\ ReserveEB(p)
    /\ maf' = [maf EXCEPT ![e].state = "InPipeline"]
    /\ UNCHANGED <<mafHeld, mafReserve, idleWork>>

CanCacheEvict == ~idleWork /\ ~FreeSlotsPending /\ ebUsed > 0 /\ HasSpace("CacheEvict")

(* getCacheEvictTransport marks the entry pending at once. *)
ScheduleCacheEvict(p) ==
  /\ ~CanWake
  /\ CanCacheEvict
  /\ Start(p, "CacheEvict", None, None)
  /\ ebPending' = ebPending + 1
  /\ UNCHANGED <<mafVars, ebUsed, ebReserve, ebProc, ebMaf, idleWork>>

(* An answer to entry e can only arrive once the message that asks for it  *)
(* has been sent.                                                          *)
Expected(e) ==
  CASE maf[e].expects = "Fwd" -> {"Ack", "FwdNAck"}
    [] maf[e].expects = "Mem" -> {"MemReply"}
    [] maf[e].expects = "Ack" -> {"Ack"}
    [] OTHER -> {}

(* Processes on whose account a pending evict buffer entry cannot be       *)
(* acknowledged yet, or already is.                                        *)
Unanswerable(r) ==
  \/ proc[r].type = "CacheEvict"
  \/ proc[r].type = "IdleWork" /\ proc[r].action = "Forward"
  \/ proc[r].msg = "EvictAck" /\ proc[r].stage = "Maf"

ScheduleReply(p) ==
  /\ ~CanWake /\ ~CanCacheEvict
  /\ \/ \E e \in Entries : \E m \in Expected(e) :
          /\ maf[e].state = "WaitAck"
          /\ \A r \in Procs : proc[r].entry # e
          /\ Start(p, "Reply", m, e)
     \/ /\ Cardinality({r \in Procs : Unanswerable(r)}) < ebPending
        /\ Start(p, "Reply", "EvictAck", None)
  /\ UNCHANGED <<mafVars, ebVars, idleWork>>

ScheduleRequest(p) ==
  /\ ~CanWake /\ ~CanCacheEvict
  /\ CacheEBHasSpace
  /\ ~MafFull
  /\ \E k \in Kinds : Start(p, "Request", k, None)
  /\ ReserveEB(p)
  /\ ReserveMaf(p)
  /\ UNCHANGED <<maf, idleWork>>

(* hasIdleWorkAvailable: a block in the evict buffer has not been sent. *)
ScheduleIdleWork(p) ==
  /\ ~CanWake /\ ~CanCacheEvict
  /\ ~idleWork
  /\ CacheEBHasSpace
  /\ ebUsed > ebPending
  /\ Start(p, "IdleWork", None, None)
  /\ ReserveEB(p)
  /\ idleWork' = TRUE
  /\ UNCHANGED mafVars

-----------------------------------------------------------------------------
(* advanceMAFPipeline: the policy chooses an action, the run*Process gives *)
(* back what it does not need.                                             *)

Ran(p, action, n, e) ==
  /\ proc' = [proc EXCEPT ![p] = RunProc(proc[p], action, n, e)]
  /\ UnreserveOut(p, action, n)

(* The entry a request works with: its own when it was woken up. *)
Slots(p) == IF proc[p].type = "WakeMAF" THEN {proc[p].entry} ELSE Entries \ MafUsed

(* doRequest may first bring a block back from the evict buffer, which     *)
(* makes room in the array for it.                                         *)
PullBack == EBMove(0, 0, 0) \/ \E v \in Bit : EBMove(1, 0, v)

(* A request waits behind an entry of its block, or for a write-back of it. *)
Stalled(p) ==
  /\ \E e \in Slots(p), s \in {"WaitRequest", "WaitEvict"} :
       /\ s = "WaitRequest" => \E x \in Entries \ {e} :
                                maf[x].state \in {"WaitAck", "WaitRequest", "WaitEvict"}
       /\ s = "WaitEvict" => ebPending > 0 /\ proc[p].msg # "Evict"
       /\ maf' = [maf EXCEPT ![e] = Entry(s, proc[p].msg, None)]
       /\ Ran(p, "Stall", 0, None)
  /\ UnreserveEB(p, ebProc[p])
  /\ PullBack
  /\ UNCHANGED ebMaf

(* Mutant: only the reads sent to memory keep their reservation. *)
MutReadForwardedMemOnly(p) ==
  /\ proc[p].msg = "Read"
  /\ \E e \in Slots(p), x \in {"Fwd", "Mem"} :
       /\ maf' = [maf EXCEPT ![e] = Entry("WaitAck", "Read", x)]
       /\ Ran(p, "FwdAndWaitAck", 1, e)
       /\ IF x = "Mem"
          THEN /\ ebMaf' = [ebMaf EXCEPT ![e] = ebProc[p]]
               /\ ebProc' = [ebProc EXCEPT ![p] = 0] /\ UNCHANGED ebReserve
          ELSE UnreserveEB(p, ebProc[p]) /\ UNCHANGED ebMaf
  /\ PullBack

(* A read or a fetch that brings data later keeps its evict buffer         *)
(* reservation in the MAF entry.                                           *)
ReadForwarded(p) ==
  /\ proc[p].msg = "Read"
  /\ \E e \in Slots(p), x \in {"Fwd", "Mem"} :
       /\ maf' = [maf EXCEPT ![e] = Entry("WaitAck", "Read", x)]
       /\ Ran(p, "FwdAndWaitAck", 1, e)
       /\ ebMaf' = [ebMaf EXCEPT ![e] = ebProc[p]]
  /\ ebProc' = [ebProc EXCEPT ![p] = 0]
  /\ PullBack
  /\ UNCHANGED ebReserve

(* A fetch its L1 repeats while the first one is active is dropped. *)
FetchDropped(p) ==
  /\ proc[p].msg = "Read"
  /\ \E e \in Entries : maf[e].state = "WaitAck" /\ maf[e].kind = "Read"
  /\ maf' = IF proc[p].type = "WakeMAF" THEN [maf EXCEPT ![proc[p].entry] = NoEntry] ELSE maf
  /\ Ran(p, "NoAction", 0, None)
  /\ UnreserveEB(p, ebProc[p])
  /\ UNCHANGED <<ebMaf, ebUsed, ebPending>>

WriteNotified(p) ==
  /\ proc[p].msg = "Write"
  /\ \E e \in Slots(p), x \in {"Mem", "Ack"}, n \in 1 .. MaxSnoops :
       /\ x = "Mem" => n = 1
       /\ maf' = [maf EXCEPT ![e] = Entry("WaitAck", "Write", x)]
       /\ Ran(p, "NotifyAndWaitAck", n, e)
  /\ UnreserveEB(p, ebProc[p])
  /\ PullBack
  /\ UNCHANGED ebMaf

NasForwarded(p) ==
  /\ proc[p].msg = "NAS"
  /\ \E e \in Slots(p) :
       /\ maf' = [maf EXCEPT ![e] = Entry("WaitAck", "NAS", "Mem")]
       /\ Ran(p, "FwdAndWaitAck", 1, e)
  /\ UnreserveEB(p, ebProc[p])
  /\ PullBack
  /\ UNCHANGED ebMaf

Answered(p) ==
  /\ proc[p].msg # "Evict"
  /\ \E e \in Slots(p) :
       /\ maf' = [maf EXCEPT ![e] = Entry("WaitAck", proc[p].msg, "Ack")]
       /\ Ran(p, "Reply", 0, e)
  /\ UnreserveEB(p, ebProc[p])
  /\ PullBack
  /\ UNCHANGED ebMaf

(* doEvict: the dirty block of the L1 takes a frame, or the place of its   *)
(* own copy in the evict buffer.  A woken evict leaves its entry as it is. *)
Evicted(p) ==
  /\ proc[p].msg = "Evict"
  /\ Ran(p, "Forward", 1, proc[p].entry)
  /\ UnreserveEB(p, ebProc[p])
  /\ \E out, outPending, in \in Bit : out + outPending <= 1 /\ EBMove(out, outPending, in)
  /\ UNCHANGED <<maf, ebMaf>>

(* runRequestProcess and runWakeMAFProcess *)
RunRequest(p) ==
  /\ proc[p].stage = "Maf" /\ proc[p].type \in {"Request", "WakeMAF"}
  /\ \/ Stalled(p)
     \/ ReadForwarded(p)
     \/ FetchDropped(p)
     \/ WriteNotified(p)
     \/ NasForwarded(p)
     \/ Answered(p)
     \/ Evicted(p)
  /\ UnreserveMaf(p)
  /\ UNCHANGED idleWork

(* The reply of memory goes on to the requester; a read fills the array.   *)
MemReplied(p) ==
  LET e == proc[p].entry IN
  /\ proc[p].msg = "MemReply"
  /\ IF maf[e].kind = "NAS"
     THEN Ran(p, "ReplyAndRemoveMAF", 0, e) /\ maf' = [maf EXCEPT ![e].expects = None]
     ELSE Ran(p, "Reply", 0, e) /\ maf' = [maf EXCEPT ![e].expects = "Ack"]
  /\ UnreserveEB(p, ebProc[p] + ebMaf[e])
  /\ ebMaf' = [ebMaf EXCEPT ![e] = 0]
  /\ \E v \in IF maf[e].kind = "Read" THEN Bit ELSE {0} : EBMove(0, 0, v)

(* The ack of a read may fill the array: only when the forward asked for   *)
(* the data, and then the entry has its reservation.  That of a write      *)
(* drops a copy from the evict buffer.                                     *)
Acked(p) ==
  LET e == proc[p].entry IN
  /\ proc[p].msg = "Ack"
  /\ Ran(p, "RemoveAndWakeMAF", 0, e)
  /\ maf' = [maf EXCEPT ![e].expects = None]
  /\ UnreserveEB(p, ebProc[p] + ebMaf[e])
  /\ ebMaf' = [ebMaf EXCEPT ![e] = 0]
  /\ \/ EBMove(0, 0, 0)
     \/ maf[e].kind = "Read" /\ maf[e].expects = "Fwd" /\ EBMove(0, 0, 1)
     \/ maf[e].kind = "Write" /\ (EBMove(1, 0, 0) \/ EBMove(0, 1, 0))

(* FwdNAck: answered from the array or the evict buffer, or sent on. *)
FwdNAcked(p) ==
  LET e == proc[p].entry IN
  /\ proc[p].msg = "FwdNAck"
  /\ \/ /\ Ran(p, "Reply", 0, e)
        /\ maf' = [maf EXCEPT ![e].expects = "Ack"]
        /\ UnreserveEB(p, ebProc[p])
        /\ PullBack
     \/ /\ \E x \in {"Fwd", "Mem"} : maf' = [maf EXCEPT ![e].expects = x]
        /\ Ran(p, "Forward", 1, e)
        /\ UNCHANGED <<ebReserve, ebProc, ebUsed, ebPending>>
  /\ UNCHANGED ebMaf

(* EvictAck: a request may have waited for the write-back.  A block has one *)
(* write-back at a time, so no other ack works on that entry.               *)
EvictAcked(p) ==
  /\ proc[p].msg = "EvictAck"
  /\ EBMove(0, 1, 0)
  /\ UnreserveEB(p, ebProc[p])
  /\ \/ \E e \in Entries : /\ maf[e].state = "WaitEvict"
                           /\ \A r \in Procs : proc[r].entry # e
                           /\ Ran(p, "WakeEvictMAF", 0, e)
     \/ Ran(p, "NoAction", 0, None)
  /\ UNCHANGED <<maf, ebMaf>>

(* runReplyProcess *)
RunReply(p) ==
  /\ proc[p].stage = "Maf" /\ proc[p].type = "Reply"
  /\ MemReplied(p) \/ Acked(p) \/ FwdNAcked(p) \/ EvictAcked(p)
  /\ UNCHANGED <<mafHeld, mafReserve, idleWork>>

(* runCacheEvictProcess, which finalizes the process at once. *)
RunCacheEvict(p) ==
  /\ proc[p].stage = "Maf" /\ proc[p].type = "CacheEvict"
  /\ SendHeld(p, "Forward", 1)
  /\ proc' = [proc EXCEPT ![p] = NoProc]
  /\ UNCHANGED <<mafVars, ebVars, idleWork>>

(* runIdleWorkProcess: the block may have been taken out meanwhile. *)
RunIdleWork(p) ==
  /\ proc[p].stage = "Maf" /\ proc[p].type = "IdleWork"
  /\ IF ebUsed > ebPending
     THEN Ran(p, "Forward", 1, None) /\ ebPending' = ebPending + 1
     ELSE Ran(p, "NoAction", 0, None) /\ UNCHANGED ebPending
  /\ UnreserveEB(p, ebProc[p])
  /\ idleWork' = FALSE
  /\ UNCHANGED <<mafVars, ebUsed, ebMaf>>

-----------------------------------------------------------------------------
(* advancePipeline and busCycle.                                           *)

Woken(m, W) == [x \in Entries |-> IF x \in W THEN [m[x] EXCEPT !.state = "Waking"] ELSE m[x]]
Stalling == {x \in Entries : maf[x].state = "WaitRequest"}

(* finalizeProcess *)
FinalizeProcess(p) ==
  LET a == proc[p].action
      e == proc[p].entry
  IN
  /\ proc[p].stage = "Run"
  /\ proc' = [proc EXCEPT ![p] = NoProc]
  /\ SendHeld(p, a, proc[p].snoops)
  /\ \E W \in SUBSET Stalling :
       maf' = CASE a \in {"ReplyAndRemoveMAF", "RemoveAndWakeMAF"} ->
                     Woken([maf EXCEPT ![e] = NoEntry], W)
                [] a = "WakeEvictMAF" -> Woken(maf, W \cup {e})
                [] OTHER -> maf
  /\ UNCHANGED <<mafHeld, mafReserve, ebVars, idleWork>>

(* busCycle: a channel takes the message at the head of a queue. *)
Drain(q) ==
  /\ usage[q] > 0
  /\ usage' = [usage EXCEPT ![q] = @ - 1]
  /\ reserve' = [reserve EXCEPT ![q] = @ - 1]
  /\ UNCHANGED <<proc, held, mafVars, ebVars, idleWork>>

Next ==
  \/ \E p \in Procs :
       \/ ScheduleWakeMAF(p)
       \/ ScheduleCacheEvict(p)
       \/ ScheduleReply(p)
       \/ ScheduleRequest(p)
       \/ ScheduleIdleWork(p)
       \/ RunRequest(p)
       \/ RunReply(p)
       \/ RunCacheEvict(p)
       \/ RunIdleWork(p)
       \/ FinalizeProcess(p)
  \/ \E q \in Queues : Drain(q)

Spec == Init /\ [][Next]_vars

-----------------------------------------------------------------------------
(* The counters stay within what the code's integers stand for: nothing is *)
(* given back that was not held, so no counter goes below zero, and no     *)
(* process holds more than it may reserve.                                 *)
TypeOK ==
  /\ proc \in [Procs -> Process]
  /\ held \in [Queues -> [Procs -> 0 .. MaxSnoops]]
  /\ usage \in [Queues -> Nat]
  /\ reserve \in [Queues -> Nat]
  /\ maf \in [Entries -> MafEntry]
  /\ mafHeld \subseteq Procs
  /\ mafReserve \in Nat
  /\ ebUsed \in Nat /\ ebPending \in Nat /\ ebReserve \in Nat
  /\ ebProc \in [Procs -> Bit]
  /\ ebMaf \in [Entries -> Bit]
  /\ idleWork \in BOOLEAN

(* MessageQueue::enqueue asserts that there is room.  theCurrentReserve    *)
(* counts exactly the messages in the queue and the places the processes   *)
(* in the pipelines hold, and never exceeds theSize, so a process always   *)
(* finds the places it kept, in whatever order the processes finish.       *)
QueueAccounting ==
  \A q \in Queues :
    /\ reserve[q] = usage[q] + Total(held[q])
    /\ reserve[q] <= QueueSize

(* The assertion at the end of finalizeProcess, ProcessEntry::             *)
(* noReservations, for every way through the run*Process functions: a      *)
(* process that is done holds no place, no MAF entry, no evict buffer one. *)
NoReservations ==
  \A p \in Procs : proc[p].stage = "Idle" =>
    /\ \A q \in Queues : held[q][p] = 0
    /\ p \notin mafHeld
    /\ ebProc[p] = 0

(* The evict buffer of the cache never overflows: its entries and the      *)
(* reservations, those of the processes and those reads left with their    *)
(* MAF entries, fit together, so the victim of a late fill has a place.    *)
EBAccounting ==
  /\ ebReserve = Total(ebProc) + Total(ebMaf)
  /\ ebUsed + ebReserve <= EBSize
  /\ ebPending <= ebUsed

(* MissAddressFile::insert never finds the file full: its entries, the     *)
(* leaked ones included, and the reserved ones are at most theSize.        *)
MafAccounting ==
  /\ mafReserve = Cardinality(mafHeld)
  /\ Cardinality(MafUsed) + mafReserve <= MafSize

(* A reply or an ack that may fill the array finds the reservation its     *)
(* request left with the MAF entry, however many other requests, acks and  *)
(* FwdNAcks were handled in between.                                       *)
FillReserved ==
  \A p \in Procs : LET e == proc[p].entry IN
    /\ proc[p].stage = "Maf" /\ proc[p].type = "Reply"
    /\ proc[p].msg = "MemReply" \/ (proc[p].msg = "Ack" /\ maf[e].expects = "Fwd")
    /\ maf[e].kind = "Read"
    => ebMaf[e] = 1

-----------------------------------------------------------------------------
(* What the reservations rest on: the processes in the pipelines and the   *)
(* MAF entries they work on.                                               *)

(* What a process still needs of an output queue. *)
Owed(r, q) ==
  CASE r.stage = "Maf" -> Need(r.type)[q]
    [] r.stage = "Run" -> Sent(r.action, r.snoops)[q]
    [] OTHER           -> 0

HoldsOwed == \A q \in Queues, p \in Procs : held[q][p] = Owed(proc[p], q)

InMaf(p, types) == proc[p].stage = "Maf" /\ proc[p].type \in types

HoldsMaf == mafHeld = {p \in Procs : InMaf(p, {"Request"})}

HoldsEB == \A p \in Procs :
  ebProc[p] = IF InMaf(p, {"WakeMAF", "Request", "IdleWork"}) THEN 1 ELSE 0

Busy == {"InPipeline", "WaitAck", "WaitEvict"}
Owned(e, states) == e \in Entries /\ maf[e].state \in states

OwnEntry(p) ==
  LET r == proc[p]
      e == r.entry
  IN /\ e = None \/ Owned(e, Busy)
     /\ InMaf(p, {"WakeMAF"}) => Owned(e, {"InPipeline"})
     /\ InMaf(p, {"Request"}) => e = None
     /\ InMaf(p, {"Request", "WakeMAF"}) => r.msg \in Kinds \cup {None}
     /\ InMaf(p, {"Reply"}) => \/ r.msg = "EvictAck"
                               \/ Owned(e, {"WaitAck"}) /\ r.msg \in Expected(e)
     /\ r.stage = "Run" /\ r.action \in {"ReplyAndRemoveMAF", "RemoveAndWakeMAF"}
          => Owned(e, {"WaitAck"}) /\ maf[e].expects = None
     /\ r.stage = "Run" /\ r.action = "WakeEvictMAF" => Owned(e, {"WaitEvict"})

EntriesApart ==
  \A p, r \in Procs : p # r /\ proc[p].entry = proc[r].entry => proc[p].entry = None

(* Only a read that still expects its data has a reservation in its entry, *)
(* and it always has.                                                      *)
ReadsReserved == \A e \in Entries :
  /\ ebMaf[e] = 1 =>
       maf[e].state = "WaitAck" /\ maf[e].kind = "Read" /\ maf[e].expects # None
  /\ maf[e].state = "WaitAck" /\ maf[e].expects = "Fwd" => maf[e].kind = "Read"
  /\ maf[e].state = "WaitAck" /\ maf[e].kind = "Read" /\ maf[e].expects \in {"Fwd", "Mem"}
       => ebMaf[e] = 1

(* Every process in the pipelines holds exactly what its stage still       *)
(* needs, no two of them work on one MAF entry, and the entry is in the    *)
(* state the process found or left it in: a WakeMAF process has its        *)
(* eInPipeline entry, a reply one that waits for it, and finalizeProcess   *)
(* removes or wakes an entry nobody else has touched.                      *)
Ownership == /\ HoldsOwed /\ HoldsMaf /\ HoldsEB
             /\ \A p \in Procs : OwnEntry(p)
             /\ EntriesApart /\ ReadsReserved

(* The inductive invariant. *)
IInv == TypeOK /\ QueueAccounting /\ EBAccounting /\ MafAccounting /\ Ownership
=============================================================================
