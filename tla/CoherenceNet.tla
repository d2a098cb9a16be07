---------------------------- MODULE CoherenceNet ----------------------------
(***************************************************************************)
(* The messages of the CMP coherence protocol and the interconnect that    *)
(* carries them between the L1 data caches, one L2/directory bank and the  *)
(* memory controller, for ONE block address.                               *)
(*                                                                         *)
(* The wiring (simulators/CMP.L2SharedNUCA.OoO/wiring.cpp) gives every     *)
(* message class its own virtual channel.  The Request and the Snoop       *)
(* channels carry no data, leave their controller in the order the         *)
(* controller produced them and are FIFO per source and destination.  On   *)
(* the Reply channel a message with data leaves through the data pipeline  *)
(* and is overtaken by one without, so it is a bag.                        *)
(***************************************************************************)
EXTENDS Integers, Sequences, FiniteSets, Bags

CONSTANTS Cores,    \* the cores; each has one L1 data cache
          Vers      \* number of versions the data ghost tells apart

(* The directory and the memory controller as destinations. *)
Dir == "Directory"
Mem == "Memory"

ASSUME CoresAssumption == IsFiniteSet(Cores) /\ Cores # {} /\ {Dir, Mem} \cap Cores = {}
ASSUME VersAssumption  == Vers \in Nat \ {0}

VARIABLES
  request,  \* Request VC, core -> L2 : misses and evictions
  snoop,    \* Snoop VC, L2 -> core : forwards, invalidates, evict acks
  toMem,    \* Snoop VC, L2 -> memory : misses and write-backs
  reply,    \* Reply VC, any source and destination
  latest,   \* ghost: the version the last store gave the block
  failed    \* the DBG_Assert that aborted the simulation, or "none"

netVars == <<request, snoop, toMem, reply, latest, failed>>

RequestTypes == {"ReadReq", "WriteReq", "UpgradeReq"}
EvictTypes   == {"EvictClean", "EvictWritable", "EvictDirty"}
SnoopTypes   == {"ReadFwd", "WriteFwd", "Invalidate", "EvictAck"}
FwdReplies   == {"FwdReply", "FwdReplyOwned", "FwdReplyWritable", "FwdReplyDirty"}
MissReplies  == {"MissReply", "MissReplyWritable", "MissReplyDirty"}
Notifies     == {"MissNotify", "MissNotifyData", "UpgradeReply"}
AckTypes     == {"ReadAck", "ReadAckDirty", "WriteAck", "UpgradeAck"}
NackTypes    == {"FwdNAck", "InvalidateNAck", "InvalidateAck"}
MessageTypes == RequestTypes \cup EvictTypes \cup SnoopTypes \cup FwdReplies
                  \cup MissReplies \cup Notifies \cup AckTypes \cup NackTypes

Version == 0 .. Vers - 1

(* A MemoryMessage with its DestinationMessage.  ackRequired is TRUE in    *)
(* every message of this protocol and is left out.                         *)
Message ==
  [ type : MessageTypes,
    requester : Cores \cup {Dir},   \* DestinationMessage::requester
    dest : Cores \cup {Dir, Mem},   \* where the mapper routes it
    other : Cores \cup {Dir, Mem},  \* the node that sent it
    outstanding : Int,              \* outstandingMsgs()
    needData : BOOLEAN,             \* ackRequiresData()
    ver : Version ]                 \* ghost: the data it carries

Msg(type, requester, dest, other) ==
  [ type |-> type, requester |-> requester, dest |-> dest, other |-> other,
    outstanding |-> 0, needData |-> FALSE, ver |-> 0 ]

MsgWithData(type, requester, dest, other, ver) ==
  [ Msg(type, requester, dest, other) EXCEPT !.ver = ver ]

(* The DBG_Asserts of the two policies. *)
Asserts ==
  { "Invalidate in a writable state", "Invalidate while waiting for a read",
    "EvictAck but block not in the evict buffer", "waking evict finds an active snoop",
    "snoop finalized for a block that is gone", "reply with no corresponding miss",
    "unexpected reply to a load", "unexpected reply to a store",
    "read ack does not fit the directory", "write ack in response to another request",
    "memory reply does not fit the directory", "Unexpected race condition detected.",
    "EvictAck without a pending write-back" }

ReplyBagWith(ms) == reply (+) SetToBag(ms)

InReply(m) == m \in BagToSet(reply)

NetInit ==
  /\ request = [c \in Cores |-> << >>]
  /\ snoop = [c \in Cores |-> << >>]
  /\ toMem = << >>
  /\ reply = EmptyBag
  /\ latest = 0
  /\ failed = "none"

NetTypeOK ==
  /\ request \in [Cores -> Seq(Message)]
  /\ snoop \in [Cores -> Seq(Message)]
  /\ toMem \in Seq(Message)
  /\ IsABag(reply) /\ BagToSet(reply) \subseteq Message
  /\ latest \in Version
  /\ failed \in {"none"} \cup Asserts

(* A DBG_Assert that fails ends the simulation: nothing else changes. *)
Abort(name) == failed' = name
Running == failed = "none"
=============================================================================
