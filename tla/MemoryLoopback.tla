--------------------------- MODULE MemoryLoopback ---------------------------
(***************************************************************************)
(* The memory controller: components/MemoryLoopback.  It answers every     *)
(* request in order, after a delay, and always grants the block writable.  *)
(***************************************************************************)
EXTENDS CoherenceNet

VARIABLE mem   \* ghost: the version main memory holds

MemInit == mem = 0
MemTypeOK == mem \in Version

ReplyType(type) ==
  CASE type \in {"ReadReq", "WriteReq"} -> "MissReplyWritable"
    [] type = "UpgradeReq"              -> "UpgradeReply"
    [] type \in EvictTypes              -> "EvictAck"

(* push of one request and, outQueue being FIFO, its reply by drive. *)
MemServe ==
  /\ Running
  /\ toMem # <<>>
  /\ LET m == Head(toMem) IN
     /\ mem' = IF m.type = "EvictDirty" THEN m.ver ELSE mem
     /\ reply' = ReplyBagWith(
          {MsgWithData(ReplyType(m.type), m.requester, Dir, Mem,
                       IF m.type \in EvictTypes THEN 0 ELSE mem)})
  /\ toMem' = Tail(toMem)
  /\ UNCHANGED <<request, snoop, latest, failed>>
=============================================================================
