------------------------------- MODULE UFetch -------------------------------
(***************************************************************************)
(* The instruction fetch unit of one core, components/uFetch, with the     *)
(* lines of one set of its instruction cache, and the part of the L2       *)
(* directory (NonInclusiveMESI) that serves it.                            *)
(*                                                                         *)
(* The queue of fetch addresses (theFAQ) is abstracted to the line of its  *)
(* first entry: the branch predictor may choose any.  A line stands for a  *)
(* virtual line and for the physical line it translates to; NoLine is an   *)
(* address without translation, which the core has to sort out.            *)
(*                                                                         *)
(* The directory is seen from this cache.  Another core's transaction on a *)
(* line is a write that invalidates the copy here, or a read forwarded to  *)
(* it.  Requests wait in request[l] in their order: the directory stalls a *)
(* request in its MAF with every later one to the same line behind it.     *)
(***************************************************************************)
EXTENDS Integers, Sequences, FiniteSets, SequencesExt

CONSTANTS
  Lines,          \* physical lines that map to one set
  NoLine,         \* no line, or no translation
  NextLine,       \* the line after a line: what the prefetcher asks for
  Assoc,          \* cfg.Associativity
  MissQueueSize,  \* cfg.MissQueueSize, a limit for prefetches only
  CleanEvict,     \* cfg.CleanEvict
  MaxQueue,       \* bound on theMissQueue, which the code does not limit
  ChannelSize     \* messages to one line the Request channel has room for

ASSUME LinesAssumption ==
  /\ NoLine \notin Lines
  /\ NextLine \in [Lines -> Lines \cup {NoLine}]
ASSUME SizesAssumption ==
  /\ {Assoc, MissQueueSize, MaxQueue, ChannelSize} \subseteq Nat \ {0}
  /\ CleanEvict \in BOOLEAN

VARIABLES
  pc,            \* line of theFAQ.front()
  theI,          \* the set of the I-cache, least recently used line first
  miss,          \* theIcacheMiss: the line the pipeline waits for
  prefetch,      \* theIcachePrefetch
  lastPrefetch,  \* theLastPrefetchVTagSet
  missQueue,     \* theMissQueue: fetches and clean evicts not yet sent
  evictSet,      \* theEvictSet: evicts that have no EvictAck yet
  request,       \* per line, Request VC to the directory and its stalled MAF entries
  snoop,         \* per line, Snoop VC from the directory
  transaction,   \* per line, the eWaitAck entry of the directory's MAF
  sharer,        \* the lines for which the directory records this cache
  failed         \* a DBG_Assert of uFetch failed

fetchVars == <<pc, theI, miss, prefetch, lastPrefetch, missQueue, evictSet>>
dirVars == <<request, snoop, transaction, sharer>>
vars == <<fetchVars, dirVars, failed>>

RequestTypes == {"FetchReq", "EvictClean"}
SnoopTypes == {"FetchFwd", "ReadFwd", "WriteFwd", "Invalidate", "EvictAck"}

(* A fetch of this cache: forwarded to a sharer, answered, acknowledged;   *)
(* or the write of another core.                                           *)
Transactions == {"none", "forwarded", "reply", "ack", "write"}

MaybeLine == Lines \cup {NoLine}
Queued(type, l) == [type |-> type, line |-> l]
InQueue(type, l) == Queued(type, l) \in ToSet(missQueue)
InRequest(type, l) == type \in ToSet(request[l])
InSnoop(type, l) == type \in ToSet(snoop[l])

(* Every component is in a state its code can represent. *)
TypeOK ==
  /\ {pc, miss, prefetch, lastPrefetch} \subseteq MaybeLine
  /\ theI \in Seq(Lines) /\ IsInjective(theI) /\ Len(theI) <= Assoc
  /\ missQueue \in Seq([type : RequestTypes, line : Lines])
  /\ evictSet \subseteq Lines /\ sharer \subseteq Lines
  /\ request \in [Lines -> Seq(RequestTypes)]
  /\ snoop \in [Lines -> Seq(SnoopTypes)]
  /\ transaction \in [Lines -> Transactions]
  /\ failed \in BOOLEAN

Init ==
  /\ pc \in MaybeLine
  /\ theI = <<>>
  /\ miss = NoLine /\ prefetch = NoLine /\ lastPrefetch = NoLine
  /\ missQueue = <<>>
  /\ evictSet = {} /\ sharer = {}
  /\ request = [l \in Lines |-> <<>>]
  /\ snoop = [l \in Lines |-> <<>>]
  /\ transaction = [l \in Lines |-> "none"]
  /\ failed = FALSE

-----------------------------------------------------------------------------
(* The instruction cache.                                                  *)

Hit(l) == l \in ToSet(theI)

(* inval: the entry of a line that is found is erased. *)
Erase(set, l) ==
  IF l \in ToSet(set) THEN RemoveAt(set, CHOOSE i \in DOMAIN set : set[i] = l) ELSE set

(* lookup moves the line it finds to the end of the list. *)
Touch(set, l) == IF l \in ToSet(set) THEN Append(Erase(set, l), l) ELSE set
Touched(l) == Touch(theI, l)

(* Mutant: the set grows. *)
MutInsertNoVictim(l) == IF Hit(l) THEN Touched(l) ELSE Append(theI, l)

Full == Len(theI) >= Assoc
Inserted(l) ==
  IF Hit(l) THEN Touched(l) ELSE Append(IF Full THEN Tail(theI) ELSE theI, l)
Replaced(l) == IF ~Hit(l) /\ Full THEN Head(theI) ELSE NoLine

(* Mutant: the limit of theMissQueue is tested where the fetch is issued.  *)
MutPrefetchUnsent(l, set, queue, pf) ==
  LET next == NextLine[l]
      wanted == next # NoLine /\ ~Hit(next)
  IN /\ missQueue' = IF wanted /\ Len(queue) < MissQueueSize
                     THEN Append(queue, Queued("FetchReq", next)) ELSE queue
     /\ prefetch' = IF wanted THEN next ELSE pf
     /\ lastPrefetch' = IF wanted THEN next ELSE NoLine
     /\ theI' = Touch(set, next)

(* prefetchNext, for theLastPrefetchVTagSet = l: the line after l is       *)
(* looked up and asked for, unless it is in the cache or has no            *)
(* translation.  It gives up without a step forward when theMissQueue is   *)
(* full.  set, queue and pf are the cache, theMissQueue and                *)
(* theIcachePrefetch so far.                                               *)
PrefetchNext(l, set, queue, pf) ==
  LET next == NextLine[l]
      tried == Len(queue) < MissQueueSize
      wanted == tried /\ next # NoLine /\ ~Hit(next)
  IN /\ missQueue' = IF wanted THEN Append(queue, Queued("FetchReq", next)) ELSE queue
     /\ prefetch' = IF wanted THEN next ELSE pf
     /\ lastPrefetch' = IF ~tried THEN l ELSE IF wanted THEN next ELSE NoLine
     /\ theI' = IF tried THEN Touch(set, next) ELSE set

(* doFetch for the first address of the queue: an address that cannot be   *)
(* translated counts as a hit and makes the core resynchronize.            *)
FetchUntranslated ==
  /\ ~failed /\ miss = NoLine /\ pc = NoLine
  /\ pc' \in MaybeLine
  /\ UNCHANGED <<theI, miss, prefetch, lastPrefetch, missQueue, evictSet, dirVars, failed>>

(* icacheLookup, hit: a hit on the prefetched line moves the prefetcher. *)
FetchHit ==
  /\ ~failed /\ miss = NoLine
  /\ Hit(pc)
  /\ pc' \in MaybeLine
  /\ IF lastPrefetch = pc THEN PrefetchNext(pc, Touched(pc), missQueue, prefetch)
     ELSE theI' = Touched(pc) /\ UNCHANGED <<missQueue, prefetch, lastPrefetch>>
  /\ UNCHANGED <<miss, evictSet, dirVars, failed>>

(* icacheLookup, miss: the line is asked for unless a prefetch of it is    *)
(* under way; in that case the prefetcher goes on from where it was.       *)
FetchMiss ==
  /\ ~failed /\ miss = NoLine
  /\ pc # NoLine /\ ~Hit(pc)
  /\ Len(missQueue) < MaxQueue
  /\ miss' = pc
  /\ IF prefetch = pc
     THEN IF lastPrefetch = NoLine
          THEN prefetch' = NoLine /\ UNCHANGED <<theI, missQueue, lastPrefetch>>
          ELSE PrefetchNext(lastPrefetch, theI, missQueue, NoLine)
     ELSE PrefetchNext(pc, theI, Append(missQueue, Queued("FetchReq", pc)), NoLine)
  /\ UNCHANGED <<pc, evictSet, dirVars, failed>>

(* SquashIn: the core restarts at another address; what has been asked    *)
(* for is forgotten, not cancelled.  theLastPrefetchVTagSet becomes 0,     *)
(* the line at address 0, which is none of Lines.                          *)
Squash ==
  /\ ~failed
  /\ pc' \in MaybeLine
  /\ miss' = NoLine /\ prefetch' = NoLine /\ lastPrefetch' = NoLine
  /\ UNCHANGED <<theI, missQueue, evictSet, dirVars, failed>>

-----------------------------------------------------------------------------
(* Messages out.                                                           *)

(* sendMisses, one message: FetchMissOut has to be available.  A fetch of  *)
(* a line whose eviction has not ended holds up what is behind it.         *)
SendMiss ==
  /\ ~failed
  /\ missQueue # <<>>
  /\ LET m == Head(missQueue)
     IN  /\ Len(request[m.line]) < ChannelSize
         /\ ~(m.type = "FetchReq" /\ m.line \in evictSet)
         /\ request' = [request EXCEPT ![m.line] = Append(@, m.type)]
  /\ missQueue' = Tail(missQueue)
  /\ UNCHANGED <<pc, theI, miss, prefetch, lastPrefetch, evictSet,
                 snoop, transaction, sharer, failed>>

(* issueEvict, with EvictOnSnoop off, as in configs/: the EvictClean goes  *)
(* to theMissQueue.                                                        *)
IssueEvict(l) ==
  IF ~CleanEvict \/ l = NoLine THEN UNCHANGED <<evictSet, missQueue, failed>>
  ELSE IF l \in evictSet THEN failed' = TRUE /\ UNCHANGED <<evictSet, missQueue>>
  ELSE /\ evictSet' = evictSet \cup {l}
       /\ missQueue' = Append(missQueue, Queued("EvictClean", l))
       /\ UNCHANGED failed

-----------------------------------------------------------------------------
(* fetchReply.                                                             *)

(* FetchReply, MissReply, FwdReply...: the line arrives and is             *)
(* acknowledged with a FetchAck.                                           *)
Fill(l) ==
  /\ ~failed
  /\ transaction[l] = "reply"
  /\ theI' = Inserted(l)
  /\ IssueEvict(Replaced(l))
  /\ miss' = IF miss = l THEN NoLine ELSE miss
  /\ prefetch' = IF prefetch = l THEN NoLine ELSE prefetch
  /\ transaction' = [transaction EXCEPT ![l] = "ack"]
  /\ UNCHANGED <<pc, lastPrefetch, request, snoop, sharer>>

SnoopArrives(l, type) ==
  /\ ~failed
  /\ snoop[l] # <<>> /\ Head(snoop[l]) = type
  /\ UNCHANGED <<pc, miss, prefetch, lastPrefetch, missQueue, request, sharer>>

Consume(l) == snoop' = [snoop EXCEPT ![l] = Tail(@)]

(* Invalidate is answered whether or not the line is here, and so is a     *)
(* WriteFwd as long as the line is here or its eviction is not over; the   *)
(* writer then has what it waits for.  A FwdNAck would go to the directory. *)
Invalidate(l) ==
  /\ \E type \in {"Invalidate", "WriteFwd"} : SnoopArrives(l, type)
  /\ Consume(l)
  /\ theI' = Erase(theI, l)
  /\ UNCHANGED <<evictSet, transaction, failed>>

(* ReadFwd for another core. *)
ReadFwd(l) ==
  /\ SnoopArrives(l, "ReadFwd")
  /\ Consume(l)
  /\ theI' = Touched(l)
  /\ UNCHANGED <<evictSet, transaction, failed>>

(* FetchFwd for a fetch of this cache: a FwdReply to itself, or a FwdNAck  *)
(* on which the directory forwards the fetch to this sharer once more, or  *)
(* takes the line from memory.                                             *)
FetchFwd(l) ==
  /\ SnoopArrives(l, "FetchFwd")
  /\ theI' = Touched(l)
  /\ IF Hit(l) \/ l \in evictSet \/ l \notin sharer
     THEN Consume(l) /\ transaction' = [transaction EXCEPT ![l] = "reply"]
     ELSE snoop' = [snoop EXCEPT ![l] = Append(Tail(@), "FetchFwd")] /\ UNCHANGED transaction
  /\ UNCHANGED <<evictSet, failed>>

(* Mutant: the entry stays in theEvictSet. *)
MutEvictAck(l) ==
  /\ SnoopArrives(l, "EvictAck")
  /\ Consume(l)
  /\ failed' = (l \notin evictSet)
  /\ UNCHANGED <<theI, transaction, evictSet>>

EvictAck(l) ==
  /\ SnoopArrives(l, "EvictAck")
  /\ Consume(l)
  /\ failed' = (l \notin evictSet)
  /\ evictSet' = evictSet \ {l}
  /\ UNCHANGED <<theI, transaction>>

-----------------------------------------------------------------------------
(* The directory.                                                          *)

DirTakes(l, type) ==
  /\ ~failed
  /\ request[l] # <<>> /\ Head(request[l]) = type
  /\ request' = [request EXCEPT ![l] = Tail(@)]
  /\ UNCHANGED fetchVars

(* doRequest: "It's possible to get multiple redundant fetches.  The       *)
(* correct thing to do in that case is to ignore them."                    *)
DirIgnoresFetch(l) ==
  /\ DirTakes(l, "FetchReq")
  /\ transaction[l] \in {"forwarded", "reply", "ack"}
  /\ UNCHANGED <<snoop, transaction, sharer, failed>>

(* doRequest: the L2, a peer or memory answers; or this cache itself, when *)
(* it is the sharer that pickSharer finds.                                 *)
DirFetch(l) ==
  /\ DirTakes(l, "FetchReq")
  /\ transaction[l] = "none"
  /\ \/ /\ transaction' = [transaction EXCEPT ![l] = "reply"]
        /\ UNCHANGED snoop
     \/ /\ l \in sharer
        /\ transaction' = [transaction EXCEPT ![l] = "forwarded"]
        /\ snoop' = [snoop EXCEPT ![l] = Append(@, "FetchFwd")]
  /\ UNCHANGED <<sharer, failed>>

(* doEvict, behind a fetch of this cache or a write; reads of other cores  *)
(* are overtaken.                                                          *)
DirEvict(l) ==
  /\ DirTakes(l, "EvictClean")
  /\ transaction[l] = "none"
  /\ sharer' = sharer \ {l}
  /\ snoop' = [snoop EXCEPT ![l] = Append(@, "EvictAck")]
  /\ UNCHANGED <<transaction, failed>>

(* handleReply, FetchAck *)
DirAck(l) ==
  /\ ~failed
  /\ transaction[l] = "ack"
  /\ transaction' = [transaction EXCEPT ![l] = "none"]
  /\ sharer' = sharer \cup {l}
  /\ UNCHANGED <<fetchVars, request, snoop, failed>>

(* Another core reads the line: a request forwarded to this sharer, which  *)
(* overlaps with fetches but not with writes.                              *)
DirRead(l) ==
  /\ ~failed
  /\ l \in sharer /\ transaction[l] # "write" /\ ~InSnoop("ReadFwd", l)
  /\ snoop' = [snoop EXCEPT ![l] = Append(@, "ReadFwd")]
  /\ UNCHANGED <<fetchVars, request, transaction, sharer, failed>>

(* Another core writes the line. *)
DirWrite(l) ==
  /\ ~failed
  /\ l \in sharer /\ transaction[l] = "none" /\ ~InSnoop("ReadFwd", l)
  /\ transaction' = [transaction EXCEPT ![l] = "write"]
  /\ \E type \in {"Invalidate", "WriteFwd"} : snoop' = [snoop EXCEPT ![l] = Append(@, type)]
  /\ UNCHANGED <<fetchVars, request, sharer, failed>>

(* handleReply, WriteAck of the other core: it has every answer. *)
DirWriteAck(l) ==
  /\ ~failed
  /\ transaction[l] = "write" /\ ~InSnoop("Invalidate", l) /\ ~InSnoop("WriteFwd", l)
  /\ transaction' = [transaction EXCEPT ![l] = "none"]
  /\ sharer' = sharer \ {l}
  /\ UNCHANGED <<fetchVars, request, snoop, failed>>

Next ==
  \/ FetchUntranslated
  \/ FetchHit
  \/ FetchMiss
  \/ Squash
  \/ SendMiss
  \/ \E l \in Lines :
       \/ Fill(l)
       \/ Invalidate(l)
       \/ ReadFwd(l)
       \/ FetchFwd(l)
       \/ EvictAck(l)
       \/ DirIgnoresFetch(l)
       \/ DirFetch(l)
       \/ DirEvict(l)
       \/ DirAck(l)
       \/ DirRead(l)
       \/ DirWrite(l)
       \/ DirWriteAck(l)

Spec == Init /\ [][Next]_vars

-----------------------------------------------------------------------------
(* Properties.                                                             *)

FillComing(l) ==
  \/ InQueue("FetchReq", l)
  \/ InRequest("FetchReq", l) /\ transaction[l] # "ack"
  \/ transaction[l] \in {"forwarded", "reply"}

(* No fetch is lost: for the line the pipeline waits for, and for one the  *)
(* prefetcher takes for asked for, a FetchReq is in theMissQueue or sent,  *)
(* or its answer is under way.  Squashes forget fetches and the directory  *)
(* ignores redundant ones, but a fetch that is ignored is one whose answer *)
(* has not been consumed.  It is not said that the line arrives: a         *)
(* FetchReq at the head of theMissQueue that waits for an EvictClean of    *)
(* the same line queued behind it stays there (sendMisses).                *)
MissOnItsWay == \A l \in {miss, prefetch} \ {NoLine} : FillComing(l)

OneEvictEach ==
  \A l \in Lines :
    LET queued == {i \in DOMAIN missQueue : missQueue[i] = Queued("EvictClean", l)}
        sent == {i \in DOMAIN request[l] : request[l][i] = "EvictClean"}
        acks == {i \in DOMAIN snoop[l] : snoop[l][i] = "EvictAck"}
    IN  Cardinality(queued) + Cardinality(sent) + Cardinality(acks)
          = (IF l \in evictSet THEN 1 ELSE 0)

ForwardFindsLine ==
  \A l \in Lines :
    snoop[l] # <<>> /\ Head(snoop[l]) \in {"WriteFwd", "FetchFwd"}
      => Hit(l) \/ l \in evictSet

(* theEvictSet holds a line exactly while one eviction of it is queued, at *)
(* the directory, or acknowledged: the EvictAck always finds its entry.    *)
(* So a WriteFwd or a FetchFwd finds the line in the cache or its eviction *)
(* in theEvictSet, and fetchReply never answers it with a FwdNAck.         *)
EvictsTracked == OneEvictEach /\ ForwardFindsLine
=============================================================================
