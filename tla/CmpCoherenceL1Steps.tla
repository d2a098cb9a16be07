----------------------- MODULE CmpCoherenceL1Steps ------------------------
(*************************************************************************)
(* The messages and the L1s of CmpCoherence as the tokens of             *)
(* CoherenceTokens: which messages of the channels, of theSnoopBuffer of *)
(* each L1 and of the MAF of the L2 are which token, the parts of the    *)
(* inductive invariant that say how they are stored, and what the        *)
(* operations on queues, buffers and MAF do to both.                     *)
(*                                                                       *)
(* Then every step of an L1 keeps the inductive invariant and is a step  *)
(* of CoherenceTokens or moves no token: requests of the core, forwards  *)
(* and invalidates of the directory, the answers of the core, replies    *)
(* and evictions.                                                        *)
(*                                                                       *)
(* Then about what wakes the snoops and the requests that wait at an L1, *)
(* and about what the steps of an L1 are in BlockRights.                 *)
(*                                                                       *)
(* The first lemmas are about queues and the bag of replies in general.  *)
(*************************************************************************)
EXTENDS CmpCoherence, SequenceTheorems, FiniteSetTheorems, TLAPS

(* A queue that gets a message at its end. *)
LEMMA AppendSet ==
  ASSUME NEW S, NEW s \in Seq(S), NEW m \in S
  PROVE  /\ Append(s, m) \in Seq(S)
         /\ Append(s, m) # <<>>
         /\ ToSet(Append(s, m)) = ToSet(s) \cup {m}
         /\ IsInjective(s) /\ m \notin ToSet(s) => IsInjective(Append(s, m))
<1>1. /\ Append(s, m) \in Seq(S)
      /\ Len(Append(s, m)) = Len(s) + 1
      /\ \A i \in 1..Len(s) : Append(s, m)[i] = s[i]
      /\ Append(s, m)[Len(s) + 1] = m
      /\ Len(s) \in Nat
  OBVIOUS
<1>2. DOMAIN s = 1..Len(s) /\ DOMAIN Append(s, m) = 1..Len(s) + 1  BY <1>1
<1>3. ToSet(Append(s, m)) \subseteq ToSet(s) \cup {m}  BY <1>1, <1>2 DEF ToSet
<1>4. ToSet(s) \cup {m} \subseteq ToSet(Append(s, m))  BY <1>1, <1>2 DEF ToSet
<1>5. IsInjective(s) /\ m \notin ToSet(s) => IsInjective(Append(s, m))
  BY <1>1, <1>2 DEF ToSet, IsInjective
<1> QED  BY <1>1, <1>3, <1>4, <1>5

(* The head of a queue is taken out. *)
LEMMA TailSet ==
  ASSUME NEW S, NEW s \in Seq(S), s # <<>>, IsInjective(s)
  PROVE  /\ Head(s) \in S /\ Head(s) \in ToSet(s)
         /\ Tail(s) \in Seq(S) /\ IsInjective(Tail(s))
         /\ ToSet(Tail(s)) = ToSet(s) \ {Head(s)}
<1>1. /\ Head(s) = s[1] /\ Head(s) \in S /\ Tail(s) \in Seq(S)
      /\ Len(s) \in Nat \ {0} /\ Len(Tail(s)) = Len(s) - 1
      /\ \A i \in 1..Len(s) - 1 : Tail(s)[i] = s[i + 1]
  BY HeadTailProperties, EmptySeq
<1>2. DOMAIN s = 1..Len(s) /\ DOMAIN Tail(s) = 1..Len(s) - 1  BY <1>1
<1>3. Head(s) \in ToSet(s)  BY <1>1, <1>2 DEF ToSet
<1>4. IsInjective(Tail(s))  BY <1>1, <1>2 DEF IsInjective
<1>5. ToSet(Tail(s)) \subseteq ToSet(s) \ {Head(s)}
  BY <1>1, <1>2 DEF ToSet, IsInjective
<1>6. ASSUME NEW x \in ToSet(s), x # Head(s)  PROVE x \in ToSet(Tail(s))
  <2>1. PICK i \in 1..Len(s) : x = s[i]  BY <1>2, <1>6 DEF ToSet
  <2>2. i - 1 \in 1..Len(s) - 1 /\ Tail(s)[i - 1] = x  BY <1>1, <1>6, <2>1
  <2> QED  BY <1>2, <2>2 DEF ToSet
<1> QED  BY <1>1, <1>3, <1>4, <1>5, <1>6

(* Queue t is put behind queue s. *)
LEMMA ConcatSet ==
  ASSUME NEW S, NEW s \in Seq(S), NEW t \in Seq(S)
  PROVE  /\ s \o t \in Seq(S)
         /\ ToSet(s \o t) = ToSet(s) \cup ToSet(t)
         /\ IsInjective(s) /\ IsInjective(t) /\ ToSet(s) \cap ToSet(t) = {}
              => IsInjective(s \o t)
<1>1. /\ s \o t \in Seq(S) /\ Len(s) \in Nat /\ Len(t) \in Nat
      /\ Len(s \o t) = Len(s) + Len(t)
      /\ \A i \in 1..Len(s) + Len(t) :
           (s \o t)[i] = IF i <= Len(s) THEN s[i] ELSE t[i - Len(s)]
  BY ConcatProperties
<1>2. DOMAIN s = 1..Len(s) /\ DOMAIN t = 1..Len(t) /\ DOMAIN (s \o t) = 1..Len(s) + Len(t)
  BY <1>1
<1>3. ToSet(s \o t) \subseteq ToSet(s) \cup ToSet(t)
  <2> SUFFICES ASSUME NEW i \in 1..Len(s) + Len(t)
               PROVE  (s \o t)[i] \in ToSet(s) \cup ToSet(t)
    BY <1>2 DEF ToSet
  <2>1. CASE i <= Len(s)  BY <1>1, <1>2, <2>1 DEF ToSet
  <2>2. CASE i > Len(s)
    <3>1. i - Len(s) \in 1..Len(t) /\ (s \o t)[i] = t[i - Len(s)]  BY <1>1, <2>2
    <3> QED  BY <1>2, <3>1 DEF ToSet
  <2> QED  BY <1>1, <2>1, <2>2
<1>4. ToSet(s) \subseteq ToSet(s \o t)  BY <1>1, <1>2 DEF ToSet
<1>5. ASSUME NEW x \in ToSet(t)  PROVE x \in ToSet(s \o t)
  <2>1. PICK i \in 1..Len(t) : x = t[i]  BY <1>2 DEF ToSet
  <2>2. i + Len(s) \in 1..Len(s) + Len(t) /\ (s \o t)[i + Len(s)] = x  BY <1>1, <2>1
  <2> QED  BY <1>2, <2>2 DEF ToSet
<1>6. ASSUME IsInjective(s), IsInjective(t), ToSet(s) \cap ToSet(t) = {}
      PROVE  IsInjective(s \o t)
  <2> SUFFICES ASSUME NEW i \in 1..Len(s) + Len(t), NEW j \in 1..Len(s) + Len(t),
                      (s \o t)[i] = (s \o t)[j]
               PROVE  i = j
    BY <1>2 DEF IsInjective
  <2>1. \A a \in 1..Len(s) : s[a] \in ToSet(s)  BY <1>2 DEF ToSet
  <2>2. \A a \in 1..Len(t) : t[a] \in ToSet(t)  BY <1>2 DEF ToSet
  <2>3. \A a \in 1..Len(s), b \in 1..Len(t) : s[a] # t[b]  BY <1>6, <2>1, <2>2
  <2>4. CASE i <= Len(s) /\ j <= Len(s)  BY <1>1, <1>2, <1>6, <2>4 DEF IsInjective
  <2>5. CASE i <= Len(s) /\ j > Len(s)
    <3>1. i \in 1..Len(s) /\ j - Len(s) \in 1..Len(t)  BY <1>1, <2>5
    <3> QED  BY <1>1, <2>3, <2>5, <3>1
  <2>6. CASE i > Len(s) /\ j <= Len(s)
    <3>1. j \in 1..Len(s) /\ i - Len(s) \in 1..Len(t)  BY <1>1, <2>6
    <3> QED  BY <1>1, <2>3, <2>6, <3>1
  <2>7. CASE i > Len(s) /\ j > Len(s)
    <3>1. j - Len(s) \in 1..Len(t) /\ i - Len(s) \in 1..Len(t)  BY <1>1, <2>7
    <3>2. t[i - Len(s)] = t[j - Len(s)]  BY <1>1, <2>7
    <3>3. i - Len(s) = j - Len(s)  BY <1>2, <1>6, <3>1, <3>2 DEF IsInjective
    <3> QED  BY <1>1, <3>3
  <2> QED  BY <1>1, <2>4, <2>5, <2>6, <2>7
<1> QED  BY <1>1, <1>3, <1>4, <1>5, <1>6

(* Entry i of a queue is taken out. *)
LEMMA RemoveAtSeq ==
  ASSUME NEW S, NEW s \in Seq(S), NEW i \in DOMAIN s
  PROVE  /\ RemoveAt(s, i) \in Seq(S)
         /\ DOMAIN RemoveAt(s, i) = 1..Len(s) - 1
         /\ \A j \in 1..Len(s) - 1 : RemoveAt(s, i)[j] = IF j < i THEN s[j] ELSE s[j + 1]
<1>1. Len(s) \in Nat /\ DOMAIN s = 1..Len(s) /\ i \in 1..Len(s)  OBVIOUS
<1> DEFINE a == SubSeq(s, 1, i - 1)
           b == SubSeq(s, i + 1, Len(s))
<1>2. a \in Seq(S) /\ Len(a) = i - 1 /\ \A j \in 1..i - 1 : a[j] = s[j]
  BY <1>1, SubSeqProperties
<1>3. b \in Seq(S) /\ Len(b) = Len(s) - i /\ \A j \in 1..Len(s) - i : b[j] = s[j + i]
  BY <1>1, SubSeqProperties
<1> HIDE DEF a, b
<1>a. /\ a \o b \in Seq(S) /\ Len(a \o b) = Len(a) + Len(b)
      /\ \A j \in 1..Len(a) + Len(b) : (a \o b)[j] = IF j <= Len(a) THEN a[j] ELSE b[j - Len(a)]
  BY <1>2, <1>3, ConcatProperties
<1>b. Len(a) + Len(b) = Len(s) - 1  BY <1>1, <1>2, <1>3
<1>4. /\ a \o b \in Seq(S) /\ Len(a \o b) = Len(s) - 1
      /\ \A j \in 1..Len(s) - 1 : (a \o b)[j] = IF j < i THEN a[j] ELSE b[j - (i - 1)]
  BY <1>1, <1>2, <1>a, <1>b
<1>5. ASSUME NEW j \in 1..Len(s) - 1  PROVE (a \o b)[j] = IF j < i THEN s[j] ELSE s[j + 1]
  <2>1. CASE j < i  BY <1>1, <1>2, <1>4, <2>1
  <2>2. CASE j >= i
    <3>1. j - (i - 1) \in 1..Len(s) - i  BY <1>1, <2>2
    <3>2. b[j - (i - 1)] = s[j + 1]  BY <1>1, <1>3, <3>1
    <3> QED  BY <1>1, <1>4, <2>2, <3>2
  <2>3. j < i \/ j >= i  BY <1>1
  <2> QED  BY <2>1, <2>2, <2>3
<1>6. RemoveAt(s, i) = a \o b  BY DEF RemoveAt, a, b
<1>7. DOMAIN (a \o b) = 1..Len(s) - 1  BY <1>4
<1> QED  BY <1>4, <1>5, <1>6, <1>7

(* ... and with it its message. *)
LEMMA RemoveAtSet ==
  ASSUME NEW S, NEW s \in Seq(S), NEW i \in DOMAIN s, IsInjective(s)
  PROVE  /\ RemoveAt(s, i) \in Seq(S) /\ IsInjective(RemoveAt(s, i))
         /\ ToSet(RemoveAt(s, i)) = ToSet(s) \ {s[i]}
<1> DEFINE r == RemoveAt(s, i)
<1>1. Len(s) \in Nat /\ DOMAIN s = 1..Len(s) /\ i \in 1..Len(s)  OBVIOUS
<1>2. /\ r \in Seq(S) /\ DOMAIN r = 1..Len(s) - 1
      /\ \A j \in 1..Len(s) - 1 : r[j] = IF j < i THEN s[j] ELSE s[j + 1]
  BY RemoveAtSeq
<1> HIDE DEF r
<1>3. IsInjective(r)
  <2> SUFFICES ASSUME NEW j \in 1..Len(s) - 1, NEW k \in 1..Len(s) - 1, r[j] = r[k]
               PROVE  j = k
    BY <1>2 DEF IsInjective
  <2>1. \A p, q \in 1..Len(s) : s[p] = s[q] => p = q  BY <1>1 DEF IsInjective
  <2> QED  BY <1>1, <1>2, <2>1
<1>4. ToSet(r) \subseteq ToSet(s) \ {s[i]}  BY <1>1, <1>2 DEF ToSet, IsInjective
<1>5. ASSUME NEW x \in ToSet(s), x # s[i]  PROVE x \in ToSet(r)
  <2>1. PICK j \in 1..Len(s) : x = s[j]  BY <1>1 DEF ToSet
  <2>2. CASE j < i
    <3>1. j \in 1..Len(s) - 1 /\ r[j] = x  BY <1>1, <1>2, <2>1, <2>2
    <3> QED  BY <1>2, <3>1 DEF ToSet
  <2>3. CASE j > i
    <3>1. j - 1 \in 1..Len(s) - 1 /\ r[j - 1] = x  BY <1>1, <1>2, <2>1, <2>3
    <3> QED  BY <1>2, <3>1 DEF ToSet
  <2> QED  BY <1>1, <1>5, <2>1, <2>2, <2>3
<1> QED  BY <1>2, <1>3, <1>4, <1>5 DEF r

(* Entry i of a queue is overwritten. *)
Replaced(S, s, i, e, r) ==
  /\ r \in Seq(S) /\ IsInjective(r)
  /\ ToSet(r) = (ToSet(s) \ {s[i]}) \cup {e}

(* Entry i of a queue is replaced. *)
LEMMA ReplaceSet ==
  ASSUME NEW S, NEW s \in Seq(S), NEW i \in DOMAIN s, IsInjective(s), NEW e \in S,
         e \in ToSet(s) => e = s[i], NEW r, r = [s EXCEPT ![i] = e]
  PROVE  Replaced(S, s, i, e, r)
<1>1. Len(s) \in Nat /\ DOMAIN s = 1..Len(s) /\ i \in 1..Len(s)  OBVIOUS
<1>2. /\ r \in Seq(S) /\ DOMAIN r = 1..Len(s) /\ r[i] = e
      /\ \A j \in 1..Len(s) : j # i => r[j] = s[j]
  BY <1>1, ExceptSeq
<1>3. IsInjective(r)  BY <1>1, <1>2 DEF IsInjective, ToSet
<1>4. ToSet(r) \subseteq (ToSet(s) \ {s[i]}) \cup {e}  BY <1>1, <1>2 DEF ToSet, IsInjective
<1>5. (ToSet(s) \ {s[i]}) \cup {e} \subseteq ToSet(r)  BY <1>1, <1>2 DEF ToSet
<1> QED  BY <1>2, <1>3, <1>4, <1>5 DEF Replaced

(* The empty queue. *)
LEMMA EmptySet == ToSet(<<>>) = {} /\ IsInjective(<<>>)
  BY DEF ToSet, IsInjective

(* A queue of one message. *)
LEMMA SingletonSet ==
  ASSUME NEW m PROVE ToSet(<<m>>) = {m} /\ IsInjective(<<m>>) /\ <<m>> # <<>> /\ Head(<<m>>) = m
  BY DEF ToSet, IsInjective

(* A set of at most one message as a queue. *)
LEMMA SetToSeqNone == SetToSeq({}) = <<>>
<1>1. Cardinality({}) = 0  BY FS_EmptySet
<1>2. <<>> \in [1..0 -> {}]  OBVIOUS
<1>3. \A f \in [1..0 -> {}] : f = <<>>  OBVIOUS
<1>4. IsInjective(<<>>)  BY EmptySet
<1>5. SetToSeq({}) \in [1..0 -> {}]  BY <1>1, <1>2, <1>4 DEF SetToSeq
<1> QED  BY <1>3, <1>5

(* ... of exactly one. *)
LEMMA SetToSeqOne == ASSUME NEW m PROVE SetToSeq({m}) = <<m>>
<1>1. Cardinality({m}) = 1  BY FS_Singleton
<1>2. <<m>> \in [1..1 -> {m}]  OBVIOUS
<1>3. \A f \in [1..1 -> {m}] : f = <<m>>  OBVIOUS
<1>4. IsInjective(<<m>>)  BY SingletonSet
<1>5. SetToSeq({m}) \in [1..1 -> {m}]  BY <1>1, <1>2, <1>4 DEF SetToSeq
<1> QED  BY <1>3, <1>5

(* The bag of replies. *)
LEMMA BagOfSet ==
  ASSUME NEW R PROVE BagToSet(SetToBag(R)) = R /\ IsABag(SetToBag(R))
  BY DEF BagToSet, SetToBag, IsABag

(* A reply is sent, *)
LEMMA BagSend ==
  ASSUME NEW R, NEW m, m \notin R
  PROVE  SetToBag(R) (+) SetToBag({m}) = SetToBag(R \cup {m})
  BY DEF SetToBag, (+)

(* ... one is taken, *)
LEMMA BagTake ==
  ASSUME NEW R, NEW m \in R
  PROVE  SetToBag(R) (-) SetToBag({m}) = SetToBag(R \ {m})
  BY DEF SetToBag, (-)

(* ... and nothing is sent. *)
LEMMA BagSendNone ==
  ASSUME NEW R
  PROVE  SetToBag(R) (+) SetToBag({}) = SetToBag(R)
  BY DEF SetToBag, (+)

---------------------------------------------------------------------------

(* The messages of each class, wherever they are. *)
Entries == ToSet(dmaf)
Req(c) == ToSet(request[c])
Stalled == {e \in Entries : e.st # "WaitAck"}
Serving == {e \in Entries : e.st = "WaitAck"}
Queued == UNION {Req(c) : c \in Cores}
PutOff == {e.msg : e \in Stalled}
Pst == Queued \cup PutOff
Srv == {e.msg : e \in Serving}
Sn(c) == ToSet(snoop[c])
Buffered(sb) == ToSet(sb.active) \cup ToSet(sb.waiting) \cup ToSet(sb.waking)
Bf(c) == Buffered(snoops[c])
Tm == ToSet(toMem)
Rp == BagToSet(reply)

(* The cores that a message of P with a type of ts is for. *)
Of(P, ts) == {c \in Cores : \E m \in P : m.requester = c /\ m.type \in ts}

(* The refinement mapping, one variable of CoherenceTokens after the other. *)
copyV == [c \in Cores |-> IF array[c] # "I" THEN array[c] ELSE evict[c].state]
leavingV == {c \in Cores : evict[c].pending}
Wt(c) == maf[c].state = "WaitResponse"
missV == [c \in Cores |-> IF Wt(c) THEN maf[c].op ELSE "None"]
balanceV == [c \in Cores |-> IF Wt(c) THEN maf[c].outstanding ELSE 0]
filledV == {c \in Cores : Wt(c) /\ maf[c].dataReceived}
readsV == Of(Pst, {"ReadReq"})
writesV == Of(Pst, {"WriteReq"})
upgradesV == Of(Pst, {"UpgradeReq"})
cleansV == Of(Pst, {"EvictClean", "EvictWritable"})
dirtiesV == Of(Pst, {"EvictDirty"})
readingV == Of(Srv, {"ReadReq"})
writingV == Of(Srv, {"WriteReq"})
upgradingV == Of(Srv, {"UpgradeReq"})
forwardsV == {p \in Cores \X Cores : p[1] \in Of(Sn(p[2]), {"ReadFwd"})}
heldV == {p \in Cores \X Cores : p[1] \in Of(Bf(p[2]), {"ReadFwd"})}
Snooped(c, t) == \E m \in Sn(c) \cup Bf(c) : m.type = t
fetchesV == {c \in Cores : Snooped(c, "WriteFwd")}
invalsV == {c \in Cores : Snooped(c, "Invalidate")}
atMemoryV == Of(Tm, RequestTypes)
evictAcksV == {c \in Cores : \E m \in Sn(c) : m.type = "EvictAck"}
repliesV == {m \in Rp : m.requester \in Cores}
victimV == IF ceb.present THEN "dirty" ELSE "none"

(* CmpCoherence as CoherenceTokens sees it. *)
T == INSTANCE CoherenceTokensProofs WITH
  copy <- copyV, leaving <- leavingV, miss <- missV, balance <- balanceV, filled <- filledV,
  reads <- readsV, writes <- writesV, upgrades <- upgradesV, cleans <- cleansV,
  dirties <- dirtiesV, reading <- readingV, writing <- writingV, upgrading <- upgradingV,
  forwards <- forwardsV, held <- heldV, fetches <- fetchesV, invals <- invalsV,
  atMemory <- atMemoryV, evictAcks <- evictAcksV, replies <- repliesV,
  bank <- l2.state, victim <- victimV, sharers <- sharers

-----------------------------------------------------------------------------
(* Requests and the entries of the MAF. *)
IsEvict(m) == m.type \in EvictTypes
Posting(m) == m.requester \in Cores /\ m.type \in RequestTypes \cup EvictTypes
EntryType == [msg : Message, st : L2!MafStates]
SameSlot(e, f) ==
  /\ e.msg.requester = f.msg.requester
  /\ IsEvict(e.msg) <=> IsEvict(f.msg)
  /\ e.st = "WaitAck" <=> f.st = "WaitAck"

(* A core has at most one request and one eviction posted, each stored once, *)
(* and the MAF serves at most one request of a core.                         *)
PostInv ==
  /\ request \in [Cores -> Seq(Message)] /\ dmaf \in Seq(EntryType)
  /\ IsInjective(dmaf) /\ \A c \in Cores : IsInjective(request[c])
  /\ \A c \in Cores : \A m \in Req(c) : Posting(m) /\ m.requester = c
  /\ \A e \in Entries : Posting(e.msg) /\ (e.st = "WaitAck" => ~IsEvict(e.msg))
  /\ \A c \in Cores : \A m, n \in Req(c) : (IsEvict(m) <=> IsEvict(n)) => m = n
  /\ \A e, f \in Entries : SameSlot(e, f) => e = f
  /\ \A c \in Cores : \A m \in Req(c), e \in Entries :
       e.st # "WaitAck" /\ e.msg.requester = c => (IsEvict(m) <=> ~IsEvict(e.msg))

(* Nothing of this kind is posted for core c. *)
SlotFree(c, evicts) ==
  \A m \in Pst : m.requester = c => (IsEvict(m) <=> ~evicts)

(* The posted requests: in a Request channel or put off in the MAF. *)
LEMMA PstIs ==
  \A m : m \in Pst <=> (\E c \in Cores : m \in Req(c)) \/ (\E e \in Entries : e.st # "WaitAck" /\ e.msg = m)
<1>1. \A m : m \in PutOff <=> \E e \in Entries : e.st # "WaitAck" /\ e.msg = m
  BY DEF PutOff, Stalled
<1>2. \A m : m \in Queued <=> \E c \in Cores : m \in Req(c)  BY DEF Queued
<1> QED  BY <1>1, <1>2 DEF Pst

(* ... after a step. *)
LEMMA PstIsNext ==
  \A m : m \in Pst' <=> \/ \E c \in Cores : m \in Req(c)'
                       \/ \E e \in Entries' : e.st # "WaitAck" /\ e.msg = m
<1>1. \A m : m \in PutOff' <=> \E e \in Entries' : e.st # "WaitAck" /\ e.msg = m
  BY DEF PutOff, Stalled
<1>2. \A m : m \in Queued' <=> \E c \in Cores : m \in Req(c)'  BY DEF Queued
<1> QED  BY <1>1, <1>2 DEF Pst

(* The requests being served, after a step, *)
LEMMA SrvIsNext ==
  \A m : m \in Srv' <=> \E e \in Entries' : e.st = "WaitAck" /\ e.msg = m
  BY DEF Srv, Serving

(* ... and before it: the MAF entries in WaitAck. *)
LEMMA SrvIs ==
  \A m : m \in Srv <=> \E e \in Entries : e.st = "WaitAck" /\ e.msg = m
  BY DEF Srv, Serving

(* An L1 posts a request or an eviction. *)
LEMMA PostRequest ==
  ASSUME PostInv, NEW c \in Cores, NEW m \in Message, Posting(m), m.requester = c,
         SlotFree(c, IsEvict(m)),
         request' = [request EXCEPT ![c] = Append(@, m)], dmaf' = dmaf
  PROVE  PostInv' /\ Pst' = Pst \cup {m} /\ Srv' = Srv
<1>1. request[c] \in Seq(Message) /\ IsInjective(request[c])  BY DEF PostInv
<1>2. \A n \in Req(c) : n \in Pst /\ n.requester = c  BY PstIs DEF PostInv
<1>3. m \notin Req(c)  BY <1>2 DEF SlotFree
<1>4. /\ request[c]' \in Seq(Message) /\ IsInjective(request[c]')
      /\ Req(c)' = Req(c) \cup {m}
  <2>1. request[c]' = Append(request[c], m)  BY DEF PostInv
  <2> QED  BY <1>1, <1>3, <2>1, AppendSet DEF Req
<1>5. \A d \in Cores : d # c => request[d]' = request[d] /\ Req(d)' = Req(d)  BY DEF PostInv, Req
<1>6. request' \in [Cores -> Seq(Message)]  BY <1>4, <1>5 DEF PostInv
<1>7. Entries' = Entries  BY DEF Entries
<1>8. \A e \in Entries : e.st # "WaitAck" => e.msg \in Pst  BY PstIs
<1>9. PostInv'
  <2> USE DEF PostInv
  <2>1. \A d \in Cores : IsInjective(request[d]') BY <1>4, <1>5
  <2>2. \A d \in Cores : \A n \in Req(d)' : Posting(n) /\ n.requester = d  BY <1>4, <1>5
  <2>3. \A d \in Cores : \A n, q \in Req(d)' : (IsEvict(n) <=> IsEvict(q)) => n = q
    <3> TAKE d \in Cores
    <3>1. CASE d # c  BY <1>5, <3>1
    <3>2. CASE d = c
      <4>1. \A n \in Req(c) : IsEvict(n) <=> ~IsEvict(m)  BY <1>2 DEF SlotFree
      <4> QED  BY <1>4, <3>2, <4>1
    <3> QED  BY <3>1, <3>2
  <2>4. \A d \in Cores : \A n \in Req(d)', e \in Entries :
       e.st # "WaitAck" /\ e.msg.requester = d => (IsEvict(n) <=> ~IsEvict(e.msg))
    <3> SUFFICES ASSUME NEW d \in Cores, NEW n \in Req(d)', NEW e \in Entries,
                        e.st # "WaitAck", e.msg.requester = d
                 PROVE  IsEvict(n) <=> ~IsEvict(e.msg)
      OBVIOUS
    <3>1. CASE d = c /\ n = m  BY <1>8, <3>1 DEF SlotFree
    <3>2. CASE n \in Req(d)  BY <3>2
    <3> QED  BY <1>4, <1>5, <3>1, <3>2
  <2>5. \A e \in Entries : Posting(e.msg) /\ (e.st = "WaitAck" => ~IsEvict(e.msg)) OBVIOUS
  <2>6. \A e, f \in Entries : SameSlot(e, f) => e = f OBVIOUS
  <2> QED  BY <1>6, <1>7, <2>1, <2>2, <2>3, <2>4, <2>5, <2>6 DEF SameSlot, IsEvict, Posting
<1>10. Queued' = Queued \cup {m}  BY <1>4, <1>5 DEF Queued
<1> QED  BY <1>7, <1>9, <1>10 DEF Pst, Srv, PutOff, Stalled, Serving

(* The L2 takes m: the head of a request queue, or entry k of the MAF. *)
Taken(m, k) ==
  \/ /\ k = 0
     /\ \E c \in Cores : /\ request[c] # <<>> /\ m = Head(request[c])
                         /\ request' = [request EXCEPT ![c] = Tail(@)]
  \/ k \in DOMAIN dmaf /\ dmaf[k].st = "Waking" /\ m = dmaf[k].msg /\ request' = request

Others(k) == IF k = 0 THEN Entries ELSE Entries \ {dmaf[k]}

(* What is left when m is out of its queue, with O the other entries. *)
LeftOver(m, O) ==
  /\ request' \in [Cores -> Seq(Message)]
  /\ \A c \in Cores : IsInjective(request[c]')
  /\ O \subseteq Entries
  /\ \A c \in Cores : Req(c)' \subseteq Req(c)
  /\ \A c \in Cores : \A n \in Req(c)' :
       n.requester = m.requester => (IsEvict(n) <=> ~IsEvict(m))
  /\ \A e \in O : e.st # "WaitAck" /\ e.msg.requester = m.requester
                     => (IsEvict(e.msg) <=> ~IsEvict(m))
  /\ \A e \in Entries : e.st = "WaitAck" => e \in O
  /\ \A c \in Cores : \A n \in Req(c) : n = m \/ n \in Req(c)'
  /\ \A e \in Entries : e.st # "WaitAck" => e.msg = m \/ e \in O

(* The request the L2 works on is posted, and the others stay. *)
LEMMA TakenLeaves ==
  ASSUME PostInv, NEW m, NEW k, Taken(m, k)
  PROVE  m \in Pst /\ m \in Message /\ Posting(m) /\ LeftOver(m, Others(k))
<1>1. CASE k = 0
  <2>1. PICK c \in Cores : /\ request[c] # <<>> /\ m = Head(request[c])
                           /\ request' = [request EXCEPT ![c] = Tail(@)]
    BY <1>1 DEF Taken, PostInv
  <2>2. request[c] \in Seq(Message) /\ IsInjective(request[c])  BY DEF PostInv
  <2>3. request[c]' = Tail(request[c])  BY <2>1 DEF PostInv
  <2>4. /\ m \in Message /\ m \in Req(c)
        /\ request[c]' \in Seq(Message) /\ IsInjective(request[c]')
        /\ Req(c)' = Req(c) \ {m}
    BY <2>1, <2>2, <2>3, TailSet DEF Req
  <2>5. \A d \in Cores : d # c => request[d]' = request[d] /\ Req(d)' = Req(d)
    BY <2>1 DEF PostInv, Req
  <2>6. request' \in [Cores -> Seq(Message)]  BY <2>1, <2>4, <2>5 DEF PostInv
  <2>7. \A d \in Cores : IsInjective(request[d]')  BY <2>4, <2>5 DEF PostInv
  <2>8. Posting(m) /\ m.requester = c /\ m \in Pst  BY <2>4, PstIs DEF PostInv
  <2>9. \A d \in Cores : \A n \in Req(d)' :
       n.requester = m.requester => (IsEvict(n) <=> ~IsEvict(m))
    BY <2>4, <2>5, <2>8 DEF PostInv, IsEvict
  <2>10. \A e \in Entries : e.st # "WaitAck" /\ e.msg.requester = m.requester
                     => (IsEvict(e.msg) <=> ~IsEvict(m))
    <3> SUFFICES ASSUME NEW e \in Entries, e.st # "WaitAck", e.msg.requester = c
                 PROVE  IsEvict(e.msg) <=> ~IsEvict(m)
      BY <2>8
    <3>1. IsEvict(m) <=> ~IsEvict(e.msg)  BY <2>4 DEF PostInv
    <3> QED  BY <3>1 DEF IsEvict
  <2>11. Others(k) = Entries  BY <1>1 DEF Others
  <2> QED  BY <2>4, <2>5, <2>6, <2>7, <2>8, <2>9, <2>10, <2>11 DEF LeftOver
<1>2. CASE k # 0
  <2>1. k \in DOMAIN dmaf /\ dmaf[k].st = "Waking" /\ m = dmaf[k].msg /\ request' = request
    BY <1>2 DEF Taken
  <2>2. dmaf[k] \in Entries /\ dmaf[k] \in EntryType  BY <2>1 DEF Entries, ToSet, PostInv
  <2>3. m \in Message /\ Posting(m)  BY <2>1, <2>2 DEF EntryType, PostInv
  <2>4. m \in Pst  BY <2>1, <2>2, PstIs
  <2>5. \A c \in Cores : request[c]' = request[c] /\ Req(c)' = Req(c)  BY <2>1 DEF Req
  <2>6. Others(k) = Entries \ {dmaf[k]}  BY <1>2 DEF Others
  <2>7. \A c \in Cores : \A n \in Req(c) :
       n.requester = m.requester => (IsEvict(n) <=> ~IsEvict(m))
    BY <2>1, <2>2 DEF PostInv
  <2>8. \A e \in Others(k) : e.st # "WaitAck" /\ e.msg.requester = m.requester
                     => (IsEvict(e.msg) <=> ~IsEvict(m))
    BY <2>1, <2>2, <2>6 DEF PostInv, SameSlot, IsEvict
  <2>9. request \in [Cores -> Seq(Message)] /\ \A c \in Cores : IsInjective(request[c])
    BY DEF PostInv
  <2> QED  BY <2>1, <2>2, <2>3, <2>4, <2>5, <2>6, <2>7, <2>8, <2>9 DEF LeftOver
<1> QED  BY <1>1, <1>2

(* The request keeps or gets a MAF entry. *)
LEMMA EntryPut ==
  ASSUME PostInv, NEW m, NEW k, Taken(m, k), NEW n \in Message, NEW st \in L2!MafStates,
         [msg |-> n, st |-> st] \notin Others(k), L2!Put(n, k, st)
  PROVE  /\ dmaf' \in Seq(EntryType) /\ IsInjective(dmaf')
         /\ Entries' = Others(k) \cup {[msg |-> n, st |-> st]}
<1> DEFINE e == [msg |-> n, st |-> st]
<1>1. e \in EntryType  BY DEF EntryType
<1>2. dmaf \in Seq(EntryType) /\ IsInjective(dmaf)  BY DEF PostInv
<1>3. e \notin Others(k)  OBVIOUS
<1>4. dmaf' = IF k = 0 THEN Append(dmaf, e) ELSE [dmaf EXCEPT ![k] = e]  BY DEF L2!Put
<1> HIDE DEF e
<1>5. CASE k = 0  BY <1>1, <1>2, <1>3, <1>4, <1>5, AppendSet DEF Others, Entries, e
<1>6. CASE k # 0
  <2>1. k \in DOMAIN dmaf  BY <1>6 DEF Taken
  <2>2. e \in ToSet(dmaf) => e = dmaf[k]  BY <1>3, <1>6 DEF Others, Entries
  <2>3. dmaf' = [dmaf EXCEPT ![k] = e]  BY <1>4, <1>6
  <2>4. Replaced(EntryType, dmaf, k, e, dmaf')  BY <1>1, <1>2, <2>1, <2>2, <2>3, ReplaceSet, Zenon
  <2> QED  BY <1>6, <2>4 DEF Others, Entries, e, Replaced
<1> QED  BY <1>5, <1>6

(* The request has no MAF entry any more. *)
LEMMA EntryGone ==
  ASSUME PostInv, NEW m, NEW k, Taken(m, k),
         dmaf' = IF k = 0 THEN dmaf ELSE RemoveAt(dmaf, k)
  PROVE  /\ dmaf' \in Seq(EntryType) /\ IsInjective(dmaf')
         /\ Entries' = Others(k)
<1>1. dmaf \in Seq(EntryType) /\ IsInjective(dmaf)  BY DEF PostInv
<1>2. CASE k = 0  BY <1>1, <1>2 DEF Others, Entries
<1>3. CASE k # 0
  <2>1. k \in DOMAIN dmaf  BY <1>3 DEF Taken
  <2> QED  BY <1>1, <1>3, <2>1, RemoveAtSet DEF Others, Entries
<1> QED  BY <1>2, <1>3

(* A request is put off. *)
LEMMA PutOffKeeps ==
  ASSUME PostInv, NEW m, NEW k, Taken(m, k), NEW st \in L2!MafStates, st # "WaitAck",
         L2!Put(m, k, st)
  PROVE  /\ PostInv' /\ Pst' = Pst /\ Srv' = Srv
         /\ Entries' = Others(k) \cup {[msg |-> m, st |-> st]}
<1>1. m \in Pst /\ m \in Message /\ Posting(m) /\ LeftOver(m, Others(k))  BY TakenLeaves
<1> DEFINE e == [msg |-> m, st |-> st]
           O == Others(k)
<1>2. e.msg = m /\ e.st = st /\ e.st # "WaitAck"  OBVIOUS
<1>3. e \notin O  BY <1>1, <1>2 DEF LeftOver, IsEvict
<1>4. /\ dmaf' \in Seq(EntryType) /\ IsInjective(dmaf') /\ Entries' = O \cup {e}
  BY <1>1, <1>3, EntryPut
<1> HIDE DEF e, O
<1>l. LeftOver(m, O)  BY <1>1 DEF O
<1>5. \A n : n \in Pst' <=> n \in Pst
  <2>1. \A n : n \in Pst' <=> \/ \E c \in Cores : n \in Req(c)'
                             \/ \E f \in O \cup {e} : f.st # "WaitAck" /\ f.msg = n
    BY <1>4, PstIsNext
  <2>2. m \in Pst'  BY <1>2, <2>1
  <2>3. ASSUME NEW n \in Pst PROVE n \in Pst'
    <3>1. CASE \E c \in Cores : n \in Req(c)  BY <1>l, <2>1, <2>2, <3>1 DEF LeftOver
    <3>2. CASE \E f \in Entries : f.st # "WaitAck" /\ f.msg = n
      BY <1>l, <2>1, <2>2, <3>2 DEF LeftOver
    <3> QED  BY <3>1, <3>2, PstIs
  <2>4. ASSUME NEW n \in Pst' PROVE n \in Pst
    <3>1. CASE \E c \in Cores : n \in Req(c)'  BY <1>l, <3>1, PstIs DEF LeftOver
    <3>2. CASE \E f \in O \cup {e} : f.st # "WaitAck" /\ f.msg = n
      BY <1>1, <1>2, <1>l, <3>2, PstIs DEF LeftOver
    <3> QED  BY <2>1, <3>1, <3>2
  <2> QED  BY <2>3, <2>4
<1>6. \A n : n \in Srv' <=> n \in Srv
  <2>1. \A n : n \in Srv' <=> \E f \in O \cup {e} : f.st = "WaitAck" /\ f.msg = n  BY <1>4, SrvIsNext
  <2> QED  BY <1>2, <1>l, <2>1, SrvIs DEF LeftOver
<1>7. PostInv'
  <2>1. request' \in [Cores -> Seq(Message)] /\ \A c \in Cores : IsInjective(request[c]')
    BY <1>l DEF LeftOver
  <2>2. \A c \in Cores : \A n \in Req(c)' : Posting(n) /\ n.requester = c
    BY <1>l DEF LeftOver, PostInv
  <2>3. \A f \in Entries' : Posting(f.msg) /\ (f.st = "WaitAck" => ~IsEvict(f.msg))
    BY <1>1, <1>2, <1>4, <1>l DEF LeftOver, PostInv
  <2>4. \A c \in Cores : \A n, q \in Req(c)' : (IsEvict(n) <=> IsEvict(q)) => n = q
    BY <1>l DEF LeftOver, PostInv
  <2>5. \A f, g \in Entries' : SameSlot(f, g) => f = g
    BY <1>1, <1>2, <1>4, <1>l DEF LeftOver, PostInv, SameSlot, IsEvict
  <2>6. \A c \in Cores : \A n \in Req(c)', f \in Entries' :
          f.st # "WaitAck" /\ f.msg.requester = c => (IsEvict(n) <=> ~IsEvict(f.msg))
    BY <1>1, <1>2, <1>4, <1>l DEF LeftOver, PostInv, IsEvict
  <2> QED  BY <1>4, <2>1, <2>2, <2>3, <2>4, <2>5, <2>6 DEF PostInv
<1> QED  BY <1>4, <1>5, <1>6, <1>7 DEF e, O

(* A request is served, as n. *)
LEMMA ServedKeeps ==
  ASSUME PostInv, NEW m, NEW k, Taken(m, k), NEW n \in Message,
         n.requester = m.requester, n.type \in RequestTypes,
         \A q \in Srv : q.requester # m.requester,
         L2!Put(n, k, "WaitAck")
  PROVE  /\ PostInv' /\ Pst' = Pst \ {m} /\ Srv' = Srv \cup {n}
         /\ Entries' = Others(k) \cup {[msg |-> n, st |-> "WaitAck"]}
<1>1. m \in Pst /\ m \in Message /\ Posting(m) /\ LeftOver(m, Others(k))  BY TakenLeaves
<1> DEFINE e == [msg |-> n, st |-> "WaitAck"]
           O == Others(k)
<1>2. e.msg = n /\ e.st = "WaitAck"  OBVIOUS
<1>a. \A f \in Entries : f.st = "WaitAck" => f.msg.requester # m.requester  BY SrvIs
<1>3. e \notin O  BY <1>1, <1>2, <1>a DEF LeftOver
<1>b. "WaitAck" \in L2!MafStates  BY DEF L2!MafStates
<1>4. /\ dmaf' \in Seq(EntryType) /\ IsInjective(dmaf') /\ Entries' = O \cup {e}
  BY <1>3, <1>b, EntryPut
<1> HIDE DEF e, O
<1>l. LeftOver(m, O)  BY <1>1 DEF O
<1>p. \A q \in Pst : q.requester = m.requester /\ (IsEvict(q) <=> IsEvict(m)) => q = m
  <2> SUFFICES ASSUME NEW q \in Pst, q.requester = m.requester, IsEvict(q) <=> IsEvict(m), q # m
               PROVE  FALSE
    OBVIOUS
  <2>1. CASE \E c \in Cores : q \in Req(c)  BY <1>l, <2>1 DEF LeftOver
  <2>2. CASE \E f \in Entries : f.st # "WaitAck" /\ f.msg = q  BY <1>l, <2>2 DEF LeftOver
  <2> QED  BY <2>1, <2>2, PstIs
<1>5. \A q : q \in Pst' <=> q \in Pst /\ q # m
  <2>1. \A q : q \in Pst' <=> \/ \E c \in Cores : q \in Req(c)'
                             \/ \E f \in O \cup {e} : f.st # "WaitAck" /\ f.msg = q
    BY <1>4, PstIsNext
  <2>3. ASSUME NEW q \in Pst, q # m PROVE q \in Pst'
    <3>1. CASE \E c \in Cores : q \in Req(c)  BY <1>l, <2>1, <2>3, <3>1 DEF LeftOver
    <3>2. CASE \E f \in Entries : f.st # "WaitAck" /\ f.msg = q
      BY <1>l, <2>1, <2>3, <3>2 DEF LeftOver
    <3> QED  BY <3>1, <3>2, PstIs
  <2>4. ASSUME NEW q \in Pst' PROVE q \in Pst /\ q # m
    <3>1. CASE \E c \in Cores : q \in Req(c)'  BY <1>l, <3>1, PstIs DEF LeftOver
    <3>2. CASE \E f \in O : f.st # "WaitAck" /\ f.msg = q
      BY <1>l, <3>2, PstIs DEF LeftOver
    <3> QED  BY <1>2, <2>1, <3>1, <3>2
  <2> QED  BY <2>3, <2>4
<1>6. \A q : q \in Srv' <=> q \in Srv \/ q = n
  <2>1. \A q : q \in Srv' <=> \E f \in O \cup {e} : f.st = "WaitAck" /\ f.msg = q
    BY <1>4, SrvIsNext
  <2> QED  BY <1>2, <1>l, <2>1, SrvIs DEF LeftOver
<1>7. PostInv'
  <2>1. Posting(e.msg) /\ ~IsEvict(e.msg)
    BY <1>1, <1>2 DEF Posting, IsEvict, RequestTypes, EvictTypes
  <2>2. \A f \in O : f.st = "WaitAck" => f.msg.requester # e.msg.requester
    BY <1>2, <1>a, <1>l DEF LeftOver
  <2> QED  BY <1>1, <1>2, <1>4, <1>l, <2>1, <2>2 DEF PostInv, LeftOver, SameSlot
<1> QED  BY <1>4, <1>5, <1>6, <1>7 DEF e, O

(* An eviction is done. *)
LEMMA GoneKeeps ==
  ASSUME PostInv, NEW m, NEW k, Taken(m, k),
         dmaf' = IF k = 0 THEN dmaf ELSE RemoveAt(dmaf, k)
  PROVE  /\ PostInv' /\ Pst' = Pst \ {m} /\ Srv' = Srv
         /\ Entries' = Others(k)
<1>1. m \in Pst /\ m \in Message /\ Posting(m) /\ LeftOver(m, Others(k))  BY TakenLeaves
<1> DEFINE O == Others(k)
<1>4. /\ dmaf' \in Seq(EntryType) /\ IsInjective(dmaf') /\ Entries' = O
  BY EntryGone
<1> HIDE DEF O
<1>l. LeftOver(m, O)  BY <1>1 DEF O
<1>5. \A q : q \in Pst' <=> q \in Pst /\ q # m
  <2>1. \A q : q \in Pst' <=> \/ \E c \in Cores : q \in Req(c)'
                             \/ \E f \in O : f.st # "WaitAck" /\ f.msg = q
    BY <1>4, PstIsNext
  <2>3. ASSUME NEW q \in Pst, q # m PROVE q \in Pst'
    <3>1. CASE \E c \in Cores : q \in Req(c)  BY <1>l, <2>1, <2>3, <3>1 DEF LeftOver
    <3>2. CASE \E f \in Entries : f.st # "WaitAck" /\ f.msg = q
      BY <1>l, <2>1, <2>3, <3>2 DEF LeftOver
    <3> QED  BY <3>1, <3>2, PstIs
  <2>4. ASSUME NEW q \in Pst' PROVE q \in Pst /\ q # m
    <3>1. CASE \E c \in Cores : q \in Req(c)'  BY <1>l, <3>1, PstIs DEF LeftOver
    <3>2. CASE \E f \in O : f.st # "WaitAck" /\ f.msg = q
      BY <1>l, <3>2, PstIs DEF LeftOver
    <3> QED  BY <2>1, <3>1, <3>2
  <2> QED  BY <2>3, <2>4
<1>6. \A q : q \in Srv' <=> q \in Srv
  <2>1. \A q : q \in Srv' <=> \E f \in O : f.st = "WaitAck" /\ f.msg = q
    BY <1>4, SrvIsNext
  <2> QED  BY <1>l, <2>1, SrvIs DEF LeftOver
<1>7. PostInv'  BY <1>1, <1>4, <1>l DEF PostInv, LeftOver, SameSlot
<1> QED  BY <1>4, <1>5, <1>6, <1>7 DEF O

(* Only the states of stalled entries change. *)
WokenFrom(e, f, sts) ==
  /\ e.msg = f.msg
  /\ \/ e = f /\ f.st \notin sts
     \/ e.st = "Waking" /\ f.st \in sts

(* wakeMAFs changes the states of stalled entries only. *)
LEMMA WakeAllKeeps ==
  ASSUME NEW d \in Seq(EntryType), IsInjective(d), NEW sts, "WaitAck" \notin sts,
         \A e, f \in ToSet(d) : SameSlot(e, f) => e = f,
         NEW r, r = L2!WakeAll(d, sts)
  PROVE  /\ r \in Seq(EntryType) /\ IsInjective(r)
         /\ \A e \in ToSet(r) : \E f \in ToSet(d) : WokenFrom(e, f, sts)
         /\ \A f \in ToSet(d) : \E e \in ToSet(r) : WokenFrom(e, f, sts)
<1>1. /\ Len(d) \in Nat /\ DOMAIN d = 1..Len(d)
      /\ \A i \in 1..Len(d) : d[i] \in EntryType
  OBVIOUS
<1>2. /\ DOMAIN r = 1..Len(d)
      /\ r = [i \in 1..Len(d) |-> IF d[i].st \in sts THEN [d[i] EXCEPT !.st = "Waking"] ELSE d[i]]
  BY <1>1 DEF L2!WakeAll
<1>3. \A i \in 1..Len(d) : r[i] \in EntryType /\ WokenFrom(r[i], d[i], sts)
  <2> SUFFICES ASSUME NEW i \in 1..Len(d)
               PROVE  r[i] \in EntryType /\ WokenFrom(r[i], d[i], sts)
    OBVIOUS
  <2>1. d[i] \in [msg : Message, st : L2!MafStates]  BY <1>1 DEF EntryType
  <2>2. CASE d[i].st \in sts
    <3>1. r[i] = [d[i] EXCEPT !.st = "Waking"]  BY <1>2, <2>2
    <3>2. r[i].msg = d[i].msg /\ r[i].st = "Waking" /\ r[i] \in [msg : Message, st : L2!MafStates]
      BY <2>1, <3>1 DEF L2!MafStates
    <3> QED  BY <2>2, <3>2 DEF EntryType, WokenFrom
  <2>3. CASE d[i].st \notin sts
    <3>1. r[i] = d[i]  BY <1>2, <2>3
    <3> QED  BY <1>1, <2>3, <3>1 DEF WokenFrom
  <2> QED  BY <2>2, <2>3
<1>4. r \in Seq(EntryType)  BY <1>1, <1>2, <1>3
<1>5. \A i \in 1..Len(d) : d[i] \in ToSet(d) /\ r[i] \in ToSet(r)  BY <1>1, <1>2 DEF ToSet
<1>6. IsInjective(r)
  <2> SUFFICES ASSUME NEW i \in 1..Len(d), NEW j \in 1..Len(d), r[i] = r[j]  PROVE i = j
    BY <1>2 DEF IsInjective
  <2>1. SameSlot(d[i], d[j])  BY <1>3 DEF SameSlot, WokenFrom
  <2>2. d[i] = d[j]  BY <1>5, <2>1
  <2> QED  BY <1>1, <2>2 DEF IsInjective
<1>7. \A e \in ToSet(r) : \E i \in 1..Len(d) : e = r[i]  BY <1>2 DEF ToSet
<1>8. \A f \in ToSet(d) : \E i \in 1..Len(d) : f = d[i]  BY <1>1 DEF ToSet
<1> QED  BY <1>3, <1>4, <1>5, <1>6, <1>7, <1>8

Has(st) == \E e \in Entries : e.st = st

(* Woken entries are still posted requests. *)
LEMMA WokenKeeps ==
  ASSUME PostInv, request' = request, NEW D, D \subseteq Entries,
         \A e \in Entries : e.st # "WaitAck" => e \in D,
         dmaf' \in Seq(EntryType), IsInjective(dmaf'), NEW sts, "WaitAck" \notin sts,
         \A e \in Entries' : \E f \in D : WokenFrom(e, f, sts),
         \A f \in D : \E e \in Entries' : WokenFrom(e, f, sts)
  PROVE  /\ PostInv' /\ Pst' = Pst
         /\ \A q : q \in Srv' <=> \E f \in D : f.st = "WaitAck" /\ f.msg = q
         /\ \A st \in {"WaitRequest", "WaitEvict", "WaitAck"} :
               Has(st)' <=> st \notin sts /\ \E f \in D : f.st = st
<1>1. \A c \in Cores : Req(c)' = Req(c)  BY DEF Req
<1>2. \A e \in Entries' : \E f \in D : WokenFrom(e, f, sts) /\ (e.st = "WaitAck" <=> f.st = "WaitAck")
                                       /\ e.msg = f.msg
  BY DEF WokenFrom
<1>3. \A f \in D : \E e \in Entries' : WokenFrom(e, f, sts) /\ (e.st = "WaitAck" <=> f.st = "WaitAck")
                                       /\ e.msg = f.msg
  BY DEF WokenFrom
<1>4. \A q : q \in Pst' <=> q \in Pst
  <2>1. \A q : (\E e \in Entries' : e.st # "WaitAck" /\ e.msg = q)
                <=> \E f \in Entries : f.st # "WaitAck" /\ f.msg = q
    BY <1>2, <1>3
  <2> QED  BY <1>1, <2>1, PstIs, PstIsNext
<1>5. ASSUME NEW q  PROVE q \in Srv' <=> \E f \in D : f.st = "WaitAck" /\ f.msg = q
  <2>1. q \in Srv' <=> \E e \in Entries' : e.st = "WaitAck" /\ e.msg = q  BY SrvIsNext
  <2> QED  BY <1>2, <1>3, <2>1
<1>6. ASSUME NEW st \in {"WaitRequest", "WaitEvict", "WaitAck"}
      PROVE  Has(st)' <=> st \notin sts /\ \E f \in D : f.st = st
  BY DEF Has, WokenFrom
<1>7. PostInv'
  <2>1. request' \in [Cores -> Seq(Message)] /\ \A c \in Cores : IsInjective(request'[c])
    BY DEF PostInv
  <2>2. \A c \in Cores : \A m \in Req(c)' : Posting(m) /\ m.requester = c  BY <1>1 DEF PostInv
  <2>3. \A e \in Entries' : Posting(e.msg) /\ (e.st = "WaitAck" => ~IsEvict(e.msg))
    BY <1>2 DEF PostInv
  <2>4. \A c \in Cores : \A m, n \in Req(c)' : (IsEvict(m) <=> IsEvict(n)) => m = n
    BY <1>1 DEF PostInv
  <2>5. ASSUME NEW e \in Entries', NEW f \in Entries', SameSlot(e, f)  PROVE e = f
    <3>1. PICK a \in D : WokenFrom(e, a, sts) /\ (e.st = "WaitAck" <=> a.st = "WaitAck")
                          /\ e.msg = a.msg
      BY <1>2
    <3>2. PICK b \in D : WokenFrom(f, b, sts) /\ (f.st = "WaitAck" <=> b.st = "WaitAck")
                          /\ f.msg = b.msg
      BY <1>2
    <3>3. a = b  BY <2>5, <3>1, <3>2 DEF PostInv, SameSlot
    <3>4. e \in EntryType /\ f \in EntryType  BY DEF Entries, ToSet
    <3> QED  BY <3>1, <3>2, <3>3, <3>4 DEF WokenFrom, EntryType
  <2>6. \A c \in Cores : \A m \in Req(c)', e \in Entries' :
         e.st # "WaitAck" /\ e.msg.requester = c => (IsEvict(m) <=> ~IsEvict(e.msg))
    BY <1>1, <1>2 DEF PostInv
  <2> QED  BY <2>1, <2>2, <2>3, <2>4, <2>5, <2>6 DEF PostInv
<1> QED  BY <1>4, <1>5, <1>6, <1>7

(* eRemoveAndWakeMAF *)
LEMMA AckedKeeps ==
  ASSUME PostInv, request' = request, NEW i \in DOMAIN dmaf, dmaf[i].st = "WaitAck",
         L2!RemoveAndWake(i)
  PROVE  /\ PostInv' /\ Pst' = Pst /\ Srv' = Srv \ {dmaf[i].msg}
         /\ Has("WaitEvict")' => Has("WaitEvict")
         /\ Has("WaitRequest")' => Has("WaitAck")'
<1> DEFINE rest == RemoveAt(dmaf, i)
<1>1. dmaf \in Seq(EntryType) /\ IsInjective(dmaf)  BY DEF PostInv
<1>2. rest \in Seq(EntryType) /\ IsInjective(rest) /\ ToSet(rest) = Entries \ {dmaf[i]}
  BY <1>1, RemoveAtSet DEF Entries
<1>3. dmaf' = IF \E j \in DOMAIN rest : rest[j].st = "WaitAck"
              THEN rest ELSE L2!WakeAll(rest, {"WaitRequest"})
  <2>1. L2!RemoveAt(dmaf, i) = RemoveAt(dmaf, i)  BY DEF L2!RemoveAt, RemoveAt
  <2> QED  BY <2>1 DEF L2!RemoveAndWake
<1> HIDE DEF rest
<1> DEFINE D == Entries \ {dmaf[i]}
<1>4. /\ D \subseteq Entries /\ \A e \in Entries : e.st # "WaitAck" => e \in D
      /\ dmaf[i] \in Entries
  BY DEF Entries, ToSet
<1>5. \A q : q \in Srv /\ q # dmaf[i].msg <=> \E f \in D : f.st = "WaitAck" /\ f.msg = q
  BY <1>4, SrvIs DEF PostInv, SameSlot
<1> HIDE DEF D
<1>6. ToSet(rest) = D  BY <1>2 DEF D
<1>7. CASE \E j \in DOMAIN rest : rest[j].st = "WaitAck"
  <2>1. Entries' = D  BY <1>3, <1>6, <1>7 DEF Entries
  <2>2. \E f \in D : f.st = "WaitAck"  BY <1>6, <1>7 DEF ToSet
  <2>3. \A e : WokenFrom(e, e, {})  BY DEF WokenFrom
  <2>4. dmaf' \in Seq(EntryType) /\ IsInjective(dmaf')  BY <1>2, <1>3, <1>7
  <2>5. /\ PostInv' /\ Pst' = Pst
        /\ \A q : q \in Srv' <=> \E f \in D : f.st = "WaitAck" /\ f.msg = q
    BY <1>4, <2>1, <2>3, <2>4, WokenKeeps
  <2>6. Srv' = Srv \ {dmaf[i].msg}  BY <1>5, <2>5
  <2> QED  BY <1>4, <2>1, <2>2, <2>5, <2>6 DEF Has
<1>8. CASE ~ \E j \in DOMAIN rest : rest[j].st = "WaitAck"
  <2>1. dmaf' = L2!WakeAll(rest, {"WaitRequest"})  BY <1>3, <1>8
  <2>2. \A e, f \in ToSet(rest) : SameSlot(e, f) => e = f  BY <1>4, <1>6 DEF PostInv
  <2>3. /\ dmaf' \in Seq(EntryType) /\ IsInjective(dmaf')
        /\ \A e \in Entries' : \E f \in D : WokenFrom(e, f, {"WaitRequest"})
        /\ \A f \in D : \E e \in Entries' : WokenFrom(e, f, {"WaitRequest"})
    BY <1>2, <1>6, <2>1, <2>2, WakeAllKeeps DEF Entries
  <2>4. /\ PostInv' /\ Pst' = Pst
        /\ \A q : q \in Srv' <=> \E f \in D : f.st = "WaitAck" /\ f.msg = q
        /\ ~Has("WaitRequest")'
        /\ Has("WaitEvict")' <=> \E f \in D : f.st = "WaitEvict"
    <3>1. "WaitAck" \notin {"WaitRequest"}  OBVIOUS
    <3>2. /\ PostInv' /\ Pst' = Pst
          /\ \A q : q \in Srv' <=> \E f \in D : f.st = "WaitAck" /\ f.msg = q
          /\ \A st \in {"WaitRequest", "WaitEvict", "WaitAck"} :
               Has(st)' <=> st \notin {"WaitRequest"} /\ \E f \in D : f.st = st
      BY <1>4, <2>3, <3>1, WokenKeeps
    <3> QED  BY <3>2
  <2>5. Srv' = Srv \ {dmaf[i].msg}  BY <1>5, <2>4
  <2> QED  BY <1>4, <2>4, <2>5 DEF Has
<1> QED  BY <1>7, <1>8

(* wakeAfterEvict *)
LEMMA EvictWokenKeeps ==
  ASSUME PostInv, request' = request,
         dmaf' = IF ~Has("WaitEvict") THEN dmaf
                 ELSE L2!WakeAll(dmaf, {"WaitEvict", "WaitRequest"})
  PROVE  /\ PostInv' /\ Pst' = Pst /\ Srv' = Srv
         /\ ~Has("WaitEvict")'
         /\ Has("WaitRequest")' => Has("WaitRequest") /\ ~Has("WaitEvict") /\ Entries' = Entries
<1>1. dmaf \in Seq(EntryType) /\ IsInjective(dmaf)  BY DEF PostInv
<1>2. CASE ~Has("WaitEvict")
  <2>1. dmaf' = dmaf  BY <1>2
  <2>2. Entries' = Entries /\ \A c \in Cores : Req(c)' = Req(c)  BY <2>1 DEF Entries, Req
  <2>3. Pst' = Pst /\ Srv' = Srv
    BY <2>2 DEF Pst, Srv, Queued, PutOff, Stalled, Serving
  <2> QED  BY <1>2, <2>1, <2>2, <2>3 DEF Has, PostInv, SameSlot
<1>3. CASE Has("WaitEvict")
  <2> DEFINE sts == {"WaitEvict", "WaitRequest"}
  <2>1. dmaf' = L2!WakeAll(dmaf, sts)  BY <1>3
  <2>2. \A e, f \in ToSet(dmaf) : SameSlot(e, f) => e = f  BY DEF PostInv, Entries
  <2>a. "WaitAck" \notin sts /\ "WaitRequest" \in sts /\ "WaitEvict" \in sts  OBVIOUS
  <2> HIDE DEF sts
  <2>3. /\ dmaf' \in Seq(EntryType) /\ IsInjective(dmaf')
        /\ \A e \in Entries' : \E f \in Entries : WokenFrom(e, f, sts)
        /\ \A f \in Entries : \E e \in Entries' : WokenFrom(e, f, sts)
    BY <1>1, <2>1, <2>2, <2>a, WakeAllKeeps DEF Entries
  <2>4. /\ PostInv' /\ Pst' = Pst
        /\ \A q : q \in Srv' <=> \E f \in Entries : f.st = "WaitAck" /\ f.msg = q
        /\ ~Has("WaitRequest")' /\ ~Has("WaitEvict")'
    BY <2>3, <2>a, WokenKeeps
  <2>5. Srv' = Srv  BY <2>4, SrvIs
  <2> QED  BY <2>4, <2>5
<1> QED  BY <1>2, <1>3

-----------------------------------------------------------------------------
(* The snoops of one core: q is its Snoop channel, sb its snoop buffer. *)
DirSnoop(m) == m.type \in {"ReadFwd", "WriteFwd", "Invalidate"} /\ m.requester \in Cores
SnoopBuffer == [active : Seq(Message), waiting : Seq(Message), waking : Seq(Message)]

(* No snoop is there twice. *)
SnoopsOnce(c, q, sb) ==
  /\ IsInjective(q) /\ IsInjective(sb.active) /\ IsInjective(sb.waiting) /\ IsInjective(sb.waking)
  /\ ToSet(q) \cap Buffered(sb) = {}
  /\ ToSet(sb.active) \cap ToSet(sb.waiting) = {}
  /\ ToSet(sb.active) \cap ToSet(sb.waking) = {}
  /\ ToSet(sb.waiting) \cap ToSet(sb.waking) = {}
  /\ \A m, n \in ToSet(q) \cup Buffered(sb) : m.type = n.type /\ m.requester = n.requester => m = n

(* An L1 has one active snoop at most, gets snoops of the directory only, the  *)
(* EvictAck as the last of them, and puts only snoops of its core beside them. *)
SnoopsOK(c, q, sb) ==
  /\ q \in Seq(Message) /\ sb \in SnoopBuffer
  /\ Len(sb.active) <= 1
  /\ SnoopsOnce(c, q, sb)
  /\ \A m \in ToSet(q) : DirSnoop(m) \/ (m.type = "EvictAck" /\ m.requester = c)
  /\ \A m \in Buffered(sb) : DirSnoop(m) \/ (m.type = "EvictClean" /\ m.requester = c)
  /\ \A i \in 1..Len(q) : q[i].type = "EvictAck" => i = Len(q)
  /\ sb.active # <<>> => \A m \in ToSet(sb.waking) : m.type # "EvictClean"

(* ... at every L1. *)
SnoopInv ==
  /\ snoop \in [Cores -> Seq(Message)] /\ snoops \in [Cores -> SnoopBuffer]
  /\ \A c \in Cores : SnoopsOK(c, snoop[c], snoops[c])

(* The head of the channel is taken out. *)
LEMMA SnoopTaken ==
  ASSUME NEW c \in Cores, NEW q, NEW sb, SnoopsOK(c, q, sb), q # <<>>
  PROVE  /\ SnoopsOK(c, Tail(q), sb)
         /\ ToSet(Tail(q)) = ToSet(q) \ {Head(q)} /\ Head(q) \in ToSet(q) /\ Head(q) \in Message
         /\ Head(q).type = "EvictAck" => ToSet(q) = {Head(q)}
<1>1. q \in Seq(Message) /\ IsInjective(q)  BY DEF SnoopsOK, SnoopsOnce
<1>2. /\ Tail(q) \in Seq(Message) /\ IsInjective(Tail(q)) /\ ToSet(Tail(q)) = ToSet(q) \ {Head(q)}
      /\ Head(q) \in ToSet(q) /\ Head(q) \in Message
  BY <1>1, TailSet
<1>3. /\ Head(q) = q[1] /\ Len(q) \in Nat \ {0} /\ Len(Tail(q)) = Len(q) - 1
      /\ \A i \in 1..Len(q) - 1 : Tail(q)[i] = q[i + 1]
  BY <1>1, HeadTailProperties, EmptySeq
<1>4. \A i \in 1..Len(Tail(q)) : Tail(q)[i].type = "EvictAck" => i = Len(Tail(q))
  <2> SUFFICES ASSUME NEW i \in 1..Len(q) - 1, q[i + 1].type = "EvictAck"  PROVE i = Len(q) - 1
    BY <1>3
  <2>1. i + 1 \in 1..Len(q)  BY <1>3
  <2>2. i + 1 = Len(q)  BY <2>1 DEF SnoopsOK
  <2>3. Len(q) \in Nat  BY <1>3
  <2> QED  BY <2>2, <2>3
<1>5. ASSUME Head(q).type = "EvictAck"  PROVE ToSet(q) = {Head(q)}
  <2>0. \A i \in 1..Len(q) : q[i].type = "EvictAck" => i = Len(q)  BY DEF SnoopsOK
  <2>a. 1 \in 1..Len(q) /\ q[1].type = "EvictAck"  BY <1>3, <1>5
  <2>1. Len(q) = 1  BY <2>0, <2>a
  <2>2. DOMAIN q = 1..1  BY <1>1, <2>1
  <2> QED  BY <1>3, <2>2 DEF ToSet
<1> QED  BY <1>2, <1>4, <1>5 DEF SnoopsOK, SnoopsOnce

(* The first woken snoop is taken out. *)
Rest(sb) == [sb EXCEPT !.waking = Tail(@)]

(* The first of theWakeList is taken out. *)
LEMMA WokenTaken ==
  ASSUME NEW c \in Cores, NEW q, NEW sb, SnoopsOK(c, q, sb), sb.waking # <<>>,
         NEW r, r = [sb EXCEPT !.waking = Tail(@)]
  PROVE  /\ SnoopsOK(c, q, r) /\ r.active = sb.active /\ r.waiting = sb.waiting
         /\ ToSet(r.waking) = ToSet(sb.waking) \ {Head(sb.waking)}
         /\ Buffered(r) = Buffered(sb) \ {Head(sb.waking)}
         /\ Head(sb.waking) \in Buffered(sb) /\ Head(sb.waking) \in Message
<1>1. /\ sb \in SnoopBuffer /\ sb.waking \in Seq(Message) /\ IsInjective(sb.waking)
  BY DEF SnoopsOK, SnoopsOnce, SnoopBuffer
<1>2. /\ Tail(sb.waking) \in Seq(Message) /\ IsInjective(Tail(sb.waking))
      /\ ToSet(Tail(sb.waking)) = ToSet(sb.waking) \ {Head(sb.waking)}
      /\ Head(sb.waking) \in ToSet(sb.waking) /\ Head(sb.waking) \in Message
  BY <1>1, TailSet
<1>3. /\ r \in SnoopBuffer /\ r.active = sb.active /\ r.waiting = sb.waiting
      /\ r.waking = Tail(sb.waking)
  BY <1>1, <1>2 DEF SnoopBuffer
<1>4. Buffered(r) = Buffered(sb) \ {Head(sb.waking)} /\ Head(sb.waking) \in Buffered(sb)
  BY <1>2, <1>3 DEF Buffered, SnoopsOK, SnoopsOnce
<1>5. SnoopsOnce(c, q, r)  BY <1>2, <1>3, <1>4 DEF SnoopsOK, SnoopsOnce
<1> QED  BY <1>2, <1>3, <1>4, <1>5 DEF SnoopsOK

(* A snoop m goes to the core, or waits for the one that is there. *)
LEMMA SnoopQueued ==
  ASSUME NEW c \in Cores, NEW q, NEW sb, SnoopsOK(c, q, sb), NEW m \in Message,
         DirSnoop(m) \/ (m.type = "EvictClean" /\ m.requester = c),
         \A n \in ToSet(q) \cup Buffered(sb) : n.type # m.type \/ n.requester # m.requester,
         NEW r, r = IF L1!HasEntry(sb) THEN [sb EXCEPT !.waiting = Append(@, m)]
                                       ELSE [sb EXCEPT !.active = <<m>>]
  PROVE  SnoopsOK(c, q, r) /\ Buffered(r) = Buffered(sb) \cup {m} /\ r.waking = sb.waking
<1>1. /\ sb \in SnoopBuffer /\ sb.waking \in Seq(Message) /\ sb.waiting \in Seq(Message)
      /\ sb.active \in Seq(Message) /\ IsInjective(sb.waiting)
  BY DEF SnoopsOK, SnoopsOnce, SnoopBuffer
<1>2. m \notin ToSet(q) /\ m \notin Buffered(sb)  OBVIOUS
<1>3. CASE L1!HasEntry(sb)
  <2>1. /\ Append(sb.waiting, m) \in Seq(Message) /\ IsInjective(Append(sb.waiting, m))
        /\ ToSet(Append(sb.waiting, m)) = ToSet(sb.waiting) \cup {m}
    BY <1>1, <1>2, AppendSet DEF Buffered
  <2>2. /\ r \in SnoopBuffer /\ r.active = sb.active /\ r.waking = sb.waking
        /\ r.waiting = Append(sb.waiting, m)
    BY <1>1, <1>3, <2>1 DEF SnoopBuffer
  <2>3. Buffered(r) = Buffered(sb) \cup {m}  BY <2>1, <2>2 DEF Buffered
  <2>4. SnoopsOnce(c, q, r)
    <3>1. \A a, b \in ToSet(q) \cup Buffered(r) :
            a.type = b.type /\ a.requester = b.requester => a = b
      BY <2>3 DEF SnoopsOK, SnoopsOnce
    <3>2. m \notin ToSet(sb.active) /\ m \notin ToSet(sb.waking)  BY <1>2 DEF Buffered
    <3>3. ToSet(q) \cap Buffered(r) = {}  BY <1>2, <2>3 DEF SnoopsOK, SnoopsOnce
    <3>4. /\ ToSet(r.active) \cap ToSet(r.waiting) = {}
          /\ ToSet(r.active) \cap ToSet(r.waking) = {}
          /\ ToSet(r.waiting) \cap ToSet(r.waking) = {}
      BY <2>1, <2>2, <3>2 DEF SnoopsOK, SnoopsOnce
    <3>5. IsInjective(q) /\ IsInjective(r.active) /\ IsInjective(r.waiting) /\ IsInjective(r.waking)
      BY <2>1, <2>2 DEF SnoopsOK, SnoopsOnce
    <3> QED  BY <3>1, <3>3, <3>4, <3>5 DEF SnoopsOnce
  <2> QED  BY <2>2, <2>3, <2>4 DEF SnoopsOK
<1>4. CASE ~L1!HasEntry(sb)
  <2>1. sb.active = <<>> /\ sb.waiting = <<>> /\ sb.waking = <<>>  BY <1>4 DEF L1!HasEntry
  <2>2. Buffered(sb) = {}  BY <2>1, EmptySet DEF Buffered
  <2>3. <<m>> \in Seq(Message) /\ Len(<<m>>) = 1 /\ ToSet(<<m>>) = {m} /\ IsInjective(<<m>>)
    BY SingletonSet
  <2>4. /\ r \in SnoopBuffer /\ r.active = <<m>> /\ r.waiting = <<>> /\ r.waking = <<>>
    BY <1>1, <1>4, <2>1, <2>3 DEF SnoopBuffer
  <2>5. Buffered(r) = {m}  BY <2>3, <2>4, EmptySet DEF Buffered
  <2>6. SnoopsOnce(c, q, r)
    BY <1>2, <2>3, <2>4, <2>5, EmptySet DEF SnoopsOK, SnoopsOnce
  <2>7. /\ q \in Seq(Message)
        /\ \A n \in ToSet(q) : DirSnoop(n) \/ (n.type = "EvictAck" /\ n.requester = c)
        /\ \A i \in 1..Len(q) : q[i].type = "EvictAck" => i = Len(q)
    BY DEF SnoopsOK
  <2>8. Len(r.active) <= 1 /\ \A n \in ToSet(r.waking) : n.type # "EvictClean"
    BY <2>3, <2>4, EmptySet
  <2>9. SnoopsOK(c, q, r)  BY <2>4, <2>5, <2>6, <2>7, <2>8 DEF SnoopsOK
  <2> QED  BY <2>1, <2>2, <2>4, <2>5, <2>9
<1> QED  BY <1>3, <1>4

(* A woken eviction snoop goes to the core. *)
LEMMA SnoopActivated ==
  ASSUME NEW c \in Cores, NEW q, NEW sb, SnoopsOK(c, q, sb), NEW m \in Message,
         m.type = "EvictClean", m.requester = c, sb.active = <<>>,
         \A n \in ToSet(q) \cup Buffered(sb) : n.type # m.type \/ n.requester # m.requester,
         NEW r, r = [sb EXCEPT !.active = <<m>>]
  PROVE  /\ SnoopsOK(c, q, r) /\ Buffered(r) = Buffered(sb) \cup {m}
         /\ r.active = <<m>> /\ r.waking = sb.waking /\ r.waiting = sb.waiting
<1>1. sb \in SnoopBuffer  BY DEF SnoopsOK
<1>2. m \notin ToSet(q) /\ m \notin Buffered(sb)  OBVIOUS
<1>3. <<m>> \in Seq(Message) /\ Len(<<m>>) = 1 /\ ToSet(<<m>>) = {m} /\ IsInjective(<<m>>)
  BY SingletonSet
<1>4. /\ r \in SnoopBuffer /\ r.active = <<m>> /\ r.waiting = sb.waiting /\ r.waking = sb.waking
  BY <1>1, <1>3 DEF SnoopBuffer
<1>5. Buffered(r) = Buffered(sb) \cup {m}  BY <1>3, <1>4, EmptySet DEF Buffered
<1>6. SnoopsOnce(c, q, r)
  <2>1. \A a, b \in ToSet(q) \cup Buffered(r) :
            a.type = b.type /\ a.requester = b.requester => a = b
    BY <1>5 DEF SnoopsOK, SnoopsOnce
  <2>2. m \notin ToSet(sb.waiting) /\ m \notin ToSet(sb.waking)  BY <1>2 DEF Buffered
  <2>3. ToSet(q) \cap Buffered(r) = {}  BY <1>2, <1>5 DEF SnoopsOK, SnoopsOnce
  <2>4. /\ ToSet(r.active) \cap ToSet(r.waiting) = {}
        /\ ToSet(r.active) \cap ToSet(r.waking) = {}
        /\ ToSet(r.waiting) \cap ToSet(r.waking) = {}
    BY <1>3, <1>4, <2>2 DEF SnoopsOK, SnoopsOnce
  <2>5. IsInjective(q) /\ IsInjective(r.active) /\ IsInjective(r.waiting) /\ IsInjective(r.waking)
    BY <1>3, <1>4 DEF SnoopsOK, SnoopsOnce
  <2> QED  BY <2>1, <2>3, <2>4, <2>5 DEF SnoopsOnce
<1>7. \A n \in ToSet(r.waking) : n.type # "EvictClean"
  <2>1. \A n \in ToSet(sb.waking) : n \in Buffered(sb)  BY DEF Buffered
  <2>2. \A n \in Buffered(sb) : n.type = "EvictClean" => n.requester = c
    BY DEF SnoopsOK, DirSnoop
  <2> QED  BY <1>4, <2>1, <2>2
<1>8. /\ q \in Seq(Message)
      /\ \A n \in ToSet(q) : DirSnoop(n) \/ (n.type = "EvictAck" /\ n.requester = c)
      /\ \A i \in 1..Len(q) : q[i].type = "EvictAck" => i = Len(q)
      /\ \A n \in Buffered(r) : DirSnoop(n) \/ (n.type = "EvictClean" /\ n.requester = c)
  BY <1>5 DEF SnoopsOK
<1>9. Len(r.active) <= 1  BY <1>3, <1>4
<1>10. SnoopsOK(c, q, r)  BY <1>4, <1>6, <1>7, <1>8, <1>9 DEF SnoopsOK
<1> QED  BY <1>4, <1>5, <1>10

(* The core has answered: what waited is woken. *)
LEMMA SnoopFinished ==
  ASSUME NEW c \in Cores, NEW q, NEW sb, SnoopsOK(c, q, sb), sb.active # <<>>,
         NEW r, r = L1!WakeWaitingEntries(sb)
  PROVE  /\ SnoopsOK(c, q, r) /\ Buffered(r) = Buffered(sb) \ {Head(sb.active)}
         /\ r.active = <<>> /\ r.waiting = <<>>
         /\ ToSet(r.waking) = ToSet(sb.waking) \cup ToSet(sb.waiting)
         /\ Head(sb.active) \in Buffered(sb) /\ Head(sb.active) \in Message
         /\ ToSet(sb.active) = {Head(sb.active)}
<1>1. /\ sb \in SnoopBuffer /\ sb.waking \in Seq(Message) /\ sb.waiting \in Seq(Message)
      /\ sb.active \in Seq(Message) /\ Len(sb.active) <= 1
      /\ IsInjective(sb.waiting) /\ IsInjective(sb.waking)
      /\ ToSet(sb.active) \cap ToSet(sb.waiting) = {} /\ ToSet(sb.active) \cap ToSet(sb.waking) = {}
      /\ ToSet(sb.waiting) \cap ToSet(sb.waking) = {}
  BY DEF SnoopsOK, SnoopsOnce, SnoopBuffer
<1>2. ToSet(sb.active) = {Head(sb.active)} /\ Head(sb.active) \in Message
  <2>1. Len(sb.active) \in Nat \ {0} /\ Head(sb.active) = sb.active[1]  BY <1>1, EmptySeq
  <2>2. DOMAIN sb.active = 1..1  BY <1>1, <2>1
  <2>3. ToSet(sb.active) = {sb.active[1]}  BY <2>2 DEF ToSet
  <2>4. sb.active[1] \in Message  BY <1>1, <2>1, <2>2
  <2> QED  BY <2>1, <2>3, <2>4
<1>3. r = [active |-> <<>>, waiting |-> <<>>, waking |-> sb.waking \o sb.waiting]
  BY DEF L1!WakeWaitingEntries
<1>4. /\ sb.waking \o sb.waiting \in Seq(Message) /\ IsInjective(sb.waking \o sb.waiting)
      /\ ToSet(sb.waking \o sb.waiting) = ToSet(sb.waking) \cup ToSet(sb.waiting)
  BY <1>1, ConcatSet
<1>5. /\ r \in SnoopBuffer /\ r.active = <<>> /\ r.waiting = <<>>
      /\ ToSet(r.waking) = ToSet(sb.waking) \cup ToSet(sb.waiting) /\ IsInjective(r.waking)
  BY <1>3, <1>4 DEF SnoopBuffer
<1>6. Buffered(r) = Buffered(sb) \ {Head(sb.active)} /\ Head(sb.active) \in Buffered(sb)
  BY <1>1, <1>2, <1>5, EmptySet DEF Buffered
<1>7. SnoopsOnce(c, q, r)
  <2>1. \A a, b \in ToSet(q) \cup Buffered(r) :
            a.type = b.type /\ a.requester = b.requester => a = b
    BY <1>6 DEF SnoopsOK, SnoopsOnce
  <2>2. ToSet(q) \cap Buffered(r) = {} /\ IsInjective(q)  BY <1>6 DEF SnoopsOK, SnoopsOnce
  <2> QED  BY <1>5, <2>1, <2>2, EmptySet DEF SnoopsOnce
<1>8. /\ q \in Seq(Message)
      /\ \A n \in ToSet(q) : DirSnoop(n) \/ (n.type = "EvictAck" /\ n.requester = c)
      /\ \A i \in 1..Len(q) : q[i].type = "EvictAck" => i = Len(q)
      /\ \A n \in Buffered(r) : DirSnoop(n) \/ (n.type = "EvictClean" /\ n.requester = c)
  BY <1>6 DEF SnoopsOK
<1>9. SnoopsOK(c, q, r)  BY <1>5, <1>7, <1>8 DEF SnoopsOK
<1> QED  BY <1>2, <1>5, <1>6, <1>9

(* The eviction snoop that waits goes with its evict buffer entry. *)
LEMMA EvictSnoopDropped ==
  ASSUME NEW c \in Cores, NEW q, NEW sb, SnoopsOK(c, q, sb),
         NEW r, r = L1!WithoutEvictSnoop(sb)
  PROVE  /\ SnoopsOK(c, q, r) /\ r.active = sb.active /\ r.waking = sb.waking
         /\ Buffered(r) \subseteq Buffered(sb)
         /\ \A n \in ToSet(r.waiting) : n.type # "EvictClean"
         /\ \A n \in Buffered(sb) : n.type # "EvictClean" => n \in Buffered(r)
<1> DEFINE I == {i \in 1..Len(sb.waiting) : sb.waiting[i].type = "EvictClean"}
<1>1. /\ sb \in SnoopBuffer /\ sb.waiting \in Seq(Message) /\ IsInjective(sb.waiting)
      /\ Len(sb.waiting) \in Nat /\ DOMAIN sb.waiting = 1..Len(sb.waiting)
  BY DEF SnoopsOK, SnoopsOnce, SnoopBuffer
<1>2. L1!SelectInSeq(sb.waiting, LAMBDA m : m.type = "EvictClean") = IF I # {} THEN L1!Min(I) ELSE 0
  BY DEF L1!SelectInSeq
<1>3. \A i, j \in I : i = j
  <2>1. \A i \in 1..Len(sb.waiting) : sb.waiting[i] \in Buffered(sb)
    BY <1>1 DEF Buffered, ToSet
  <2>2. \A i \in I : sb.waiting[i].type = "EvictClean" /\ sb.waiting[i].requester = c
    BY <2>1 DEF SnoopsOK, DirSnoop
  <2>3. \A i, j \in I : sb.waiting[i] = sb.waiting[j]
    BY <2>1, <2>2 DEF SnoopsOK, SnoopsOnce
  <2> QED  BY <1>1, <2>3 DEF IsInjective
<1>4. CASE I = {}
  <2>1. r = sb
    BY <1>2, <1>4 DEF L1!WithoutEvictSnoop
  <2>2. \A n \in ToSet(sb.waiting) : n.type # "EvictClean"  BY <1>1, <1>4 DEF ToSet
  <2> QED  BY <2>1, <2>2
<1>5. CASE I # {}
  <2>1. PICK i \in I : TRUE  BY <1>5
  <2>2. I = {i} /\ i \in 1..Len(sb.waiting) /\ i \in Int  BY <1>3, <2>1
  <2>3. L1!Min(I) = i  BY <2>2 DEF L1!Min
  <2>4. L1!SelectInSeq(sb.waiting, LAMBDA m : m.type = "EvictClean") = i  BY <1>2, <1>5, <2>3
  <2>5. r = [sb EXCEPT !.waiting = RemoveAt(@, i)]
    <3>1. i # 0  BY <2>2
    <3>2. L1!RemoveAt(sb.waiting, i) = RemoveAt(sb.waiting, i)  BY DEF L1!RemoveAt, RemoveAt
    <3> QED  BY <2>4, <3>1, <3>2 DEF L1!WithoutEvictSnoop
  <2> DEFINE w == RemoveAt(sb.waiting, i)
  <2>6. w \in Seq(Message) /\ IsInjective(w) /\ ToSet(w) = ToSet(sb.waiting) \ {sb.waiting[i]}
    BY <1>1, <2>2, RemoveAtSet
  <2>7. r = [sb EXCEPT !.waiting = w]  BY <2>5
  <2> HIDE DEF w
  <2>8. /\ r \in SnoopBuffer /\ r.active = sb.active /\ r.waiting = w /\ r.waking = sb.waking
    BY <1>1, <2>6, <2>7 DEF SnoopBuffer
  <2>9. \A n \in ToSet(w) : n.type # "EvictClean"  BY <1>1, <2>2, <2>6 DEF ToSet
  <2>10. Buffered(r) \subseteq Buffered(sb)  BY <2>6, <2>8 DEF Buffered
  <2>11. \A n \in Buffered(sb) : n.type # "EvictClean" => n \in Buffered(r)
    <3>1. sb.waiting[i].type = "EvictClean"  BY <2>2
    <3> QED  BY <2>6, <2>8, <3>1 DEF Buffered
  <2>12. SnoopsOnce(c, q, r)  BY <2>6, <2>8, <2>10 DEF SnoopsOK, SnoopsOnce
  <2>13. SnoopsOK(c, q, r)  BY <2>8, <2>10, <2>12 DEF SnoopsOK
  <2> QED  BY <2>8, <2>9, <2>10, <2>11, <2>13
<1> QED  BY <1>4, <1>5

(* A message is sent to the core. *)
Joined(q, m) == Append(q, m)

(* The directory sends a snoop or an EvictAck to an L1. *)
LEMMA SnoopSent ==
  ASSUME NEW c \in Cores, NEW q, NEW sb, SnoopsOK(c, q, sb), NEW m \in Message,
         DirSnoop(m) \/ (m.type = "EvictAck" /\ m.requester = c),
         \A n \in ToSet(q) \cup Buffered(sb) : n.type # m.type \/ n.requester # m.requester,
         \A n \in ToSet(q) : n.type # "EvictAck",
         NEW r, r = Joined(q, m)
  PROVE  SnoopsOK(c, r, sb) /\ ToSet(r) = ToSet(q) \cup {m}
<1>1. q \in Seq(Message) /\ IsInjective(q) /\ Len(q) \in Nat /\ DOMAIN q = 1..Len(q)
  BY DEF SnoopsOK, SnoopsOnce
<1>2. m \notin ToSet(q) /\ m \notin Buffered(sb)  OBVIOUS
<1>3. r = Append(q, m)  BY DEF Joined
<1>a. /\ Append(q, m) \in Seq(Message) /\ IsInjective(Append(q, m))
      /\ ToSet(Append(q, m)) = ToSet(q) \cup {m}
  BY <1>1, <1>2, AppendSet
<1>4. r \in Seq(Message) /\ IsInjective(r) /\ ToSet(r) = ToSet(q) \cup {m}
  BY <1>3, <1>a
<1>5. Len(r) = Len(q) + 1 /\ \A i \in 1..Len(q) : r[i] = q[i]  BY <1>1, <1>3
<1>6. \A i \in 1..Len(r) : r[i].type = "EvictAck" => i = Len(r)
  <2>1. \A i \in 1..Len(q) : q[i] \in ToSet(q)  BY <1>1 DEF ToSet
  <2> QED  BY <1>1, <1>5, <2>1
<1>7. SnoopsOnce(c, r, sb)
  <2>1. \A a, b \in ToSet(r) \cup Buffered(sb) :
            a.type = b.type /\ a.requester = b.requester => a = b
    BY <1>4 DEF SnoopsOK, SnoopsOnce
  <2>2. ToSet(r) \cap Buffered(sb) = {}  BY <1>2, <1>4 DEF SnoopsOK, SnoopsOnce
  <2> QED  BY <1>4, <2>1, <2>2 DEF SnoopsOK, SnoopsOnce
<1>8. \A n \in ToSet(r) : DirSnoop(n) \/ (n.type = "EvictAck" /\ n.requester = c)
  BY <1>4 DEF SnoopsOK
<1>9. SnoopsOK(c, r, sb)  BY <1>4, <1>6, <1>7, <1>8 DEF SnoopsOK
<1> QED  BY <1>4, <1>9

---------------------------------------------------------------------------

(* The requesters of a class of messages when one is taken, *)
LEMMA OfTake ==
  ASSUME NEW P, NEW m \in P, NEW ts,
         \A n \in P : n.requester = m.requester /\ n.type \in ts /\ m.type \in ts => n = m
  PROVE  Of(P \ {m}, ts) = IF m.type \in ts THEN Of(P, ts) \ {m.requester} ELSE Of(P, ts)
<1>1. CASE m.type \in ts
  <2>1. Of(P \ {m}, ts) \subseteq Of(P, ts) \ {m.requester}  BY <1>1 DEF Of
  <2>2. Of(P, ts) \ {m.requester} \subseteq Of(P \ {m}, ts)  BY <1>1 DEF Of
  <2> QED  BY <1>1, <2>1, <2>2
<1>2. CASE m.type \notin ts
  <2>1. Of(P \ {m}, ts) \subseteq Of(P, ts)  BY DEF Of
  <2>2. Of(P, ts) \subseteq Of(P \ {m}, ts)  BY <1>2 DEF Of
  <2> QED  BY <1>2, <2>1, <2>2
<1> QED  BY <1>1, <1>2

(* ... when one is added, *)
LEMMA OfAdd ==
  ASSUME NEW P, NEW m, NEW ts
  PROVE  Of(P \cup {m}, ts) = IF m.type \in ts /\ m.requester \in Cores
                              THEN Of(P, ts) \cup {m.requester} ELSE Of(P, ts)
  BY DEF Of

(* ... are cores. *)
LEMMA OfSub == ASSUME NEW P, NEW ts PROVE Of(P, ts) \subseteq Cores BY DEF Of

(* A message is posted, taken or neither. *)
LEMMA PostedMore ==
  ASSUME NEW m, m.requester \in Cores, Pst' = Pst \cup {m}
  PROVE  /\ readsV' = IF m.type = "ReadReq" THEN readsV \cup {m.requester} ELSE readsV
         /\ writesV' = IF m.type = "WriteReq" THEN writesV \cup {m.requester} ELSE writesV
         /\ upgradesV' = IF m.type = "UpgradeReq" THEN upgradesV \cup {m.requester} ELSE upgradesV
         /\ cleansV' = IF m.type \in {"EvictClean", "EvictWritable"}
                       THEN cleansV \cup {m.requester} ELSE cleansV
         /\ dirtiesV' = IF m.type = "EvictDirty" THEN dirtiesV \cup {m.requester} ELSE dirtiesV
<1>1. \A ts : Of(Pst, ts)' = Of(Pst \cup {m}, ts)  BY DEF Of
<1>2. \A ts : Of(Pst, ts)' = IF m.type \in ts THEN Of(Pst, ts) \cup {m.requester} ELSE Of(Pst, ts)
  BY <1>1, OfAdd
<1> QED  BY <1>2 DEF readsV, writesV, upgradesV, cleansV, dirtiesV

(* A core has at most one request and one eviction posted. *)
LEMMA PostedOnce ==
  ASSUME PostInv
  PROVE  \A m, n \in Pst : m.requester = n.requester /\ (IsEvict(m) <=> IsEvict(n)) => m = n
  BY PstIs DEF PostInv, SameSlot

(* The token view when a posted message is taken, *)
LEMMA PostedLess ==
  ASSUME PostInv, NEW m \in Pst, Pst' = Pst \ {m}
  PROVE  /\ readsV' = IF m.type = "ReadReq" THEN readsV \ {m.requester} ELSE readsV
         /\ writesV' = IF m.type = "WriteReq" THEN writesV \ {m.requester} ELSE writesV
         /\ upgradesV' = IF m.type = "UpgradeReq" THEN upgradesV \ {m.requester} ELSE upgradesV
         /\ cleansV' = IF m.type \in {"EvictClean", "EvictWritable"}
                       THEN cleansV \ {m.requester} ELSE cleansV
         /\ dirtiesV' = IF m.type = "EvictDirty" THEN dirtiesV \ {m.requester} ELSE dirtiesV
<1>1. \A ts : Of(Pst, ts)' = Of(Pst \ {m}, ts)  BY DEF Of
<1>2. ASSUME NEW ts, (ts \subseteq RequestTypes) \/ (ts \subseteq EvictTypes)
      PROVE  Of(Pst, ts)' = IF m.type \in ts THEN Of(Pst, ts) \ {m.requester} ELSE Of(Pst, ts)
  <2>0. \A t \in RequestTypes : t \notin EvictTypes  BY DEF RequestTypes, EvictTypes
  <2>1. \A n \in Pst : n.type \in ts /\ m.type \in ts => (IsEvict(m) <=> IsEvict(n))
    BY <1>2, <2>0 DEF IsEvict
  <2>2. \A n \in Pst : n.requester = m.requester /\ n.type \in ts /\ m.type \in ts => n = m
    BY <2>1, PostedOnce
  <2> QED  BY <1>1, <2>2, OfTake
<1>3. readsV' = IF m.type = "ReadReq" THEN readsV \ {m.requester} ELSE readsV
  <2>1. {"ReadReq"} \subseteq RequestTypes  BY DEF RequestTypes
  <2> QED  BY <1>2, <2>1 DEF readsV
<1>4. writesV' = IF m.type = "WriteReq" THEN writesV \ {m.requester} ELSE writesV
  <2>1. {"WriteReq"} \subseteq RequestTypes  BY DEF RequestTypes
  <2> QED  BY <1>2, <2>1 DEF writesV
<1>5. upgradesV' = IF m.type = "UpgradeReq" THEN upgradesV \ {m.requester} ELSE upgradesV
  <2>1. {"UpgradeReq"} \subseteq RequestTypes  BY DEF RequestTypes
  <2> QED  BY <1>2, <2>1 DEF upgradesV
<1>6. cleansV' = IF m.type \in {"EvictClean", "EvictWritable"}
                       THEN cleansV \ {m.requester} ELSE cleansV
  <2>1. {"EvictClean", "EvictWritable"} \subseteq EvictTypes  BY DEF EvictTypes
  <2> QED  BY <1>2, <2>1 DEF cleansV
<1>7. dirtiesV' = IF m.type = "EvictDirty" THEN dirtiesV \ {m.requester} ELSE dirtiesV
  <2>1. {"EvictDirty"} \subseteq EvictTypes  BY DEF EvictTypes
  <2> QED  BY <1>2, <2>1 DEF dirtiesV
<1> QED  BY <1>3, <1>4, <1>5, <1>6, <1>7

postViews == <<readsV, writesV, upgradesV, cleansV, dirtiesV>>
serveViews == <<readingV, writingV, upgradingV>>

(* ... and when none is. *)
LEMMA PostedSame == Pst' = Pst => UNCHANGED postViews
  BY DEF postViews, readsV, writesV, upgradesV, cleansV, dirtiesV, Of

(* The token view when a request starts to be served. *)
LEMMA ServedMore ==
  ASSUME NEW m, m.requester \in Cores, Srv' = Srv \cup {m}
  PROVE  /\ readingV' = IF m.type = "ReadReq" THEN readingV \cup {m.requester} ELSE readingV
         /\ writingV' = IF m.type = "WriteReq" THEN writingV \cup {m.requester} ELSE writingV
         /\ upgradingV' = IF m.type = "UpgradeReq" THEN upgradingV \cup {m.requester} ELSE upgradingV
<1>1. \A ts : Of(Srv, ts)' = Of(Srv \cup {m}, ts)  BY DEF Of
<1>2. \A ts : Of(Srv, ts)' = IF m.type \in ts THEN Of(Srv, ts) \cup {m.requester} ELSE Of(Srv, ts)
  BY <1>1, OfAdd
<1> QED  BY <1>2 DEF readingV, writingV, upgradingV

(* A core has at most one request that is being served. *)
LEMMA ServedOnce ==
  ASSUME PostInv
  PROVE  /\ \A m, n \in Srv : m.requester = n.requester => m = n
         /\ \A m \in Srv : m.requester \in Cores /\ m.type \in RequestTypes
  BY SrvIs DEF PostInv, SameSlot, Posting, IsEvict

(* The token view when a request is over, *)
LEMMA ServedLess ==
  ASSUME PostInv, NEW m \in Srv, Srv' = Srv \ {m}
  PROVE  /\ readingV' = IF m.type = "ReadReq" THEN readingV \ {m.requester} ELSE readingV
         /\ writingV' = IF m.type = "WriteReq" THEN writingV \ {m.requester} ELSE writingV
         /\ upgradingV' = IF m.type = "UpgradeReq" THEN upgradingV \ {m.requester} ELSE upgradingV
<1>1. \A ts : Of(Srv, ts)' = Of(Srv \ {m}, ts)  BY DEF Of
<1>2. \A ts : Of(Srv, ts)' = IF m.type \in ts THEN Of(Srv, ts) \ {m.requester} ELSE Of(Srv, ts)
  BY <1>1, ServedOnce, OfTake
<1> QED  BY <1>2 DEF readingV, writingV, upgradingV

(* ... and when none is. *)
LEMMA ServedSame == Srv' = Srv => UNCHANGED serveViews
  BY DEF serveViews, readingV, writingV, upgradingV, Of

(* What the MAF says of the core of a served request. *)
LEMMA ServedIs ==
  ASSUME PostInv, NEW c \in Cores
  PROVE  /\ c \in readingV <=> \E m \in Srv : m.requester = c /\ m.type = "ReadReq"
         /\ c \in writingV <=> \E m \in Srv : m.requester = c /\ m.type = "WriteReq"
         /\ c \in upgradingV <=> \E m \in Srv : m.requester = c /\ m.type = "UpgradeReq"
         /\ T!Served(c) <=> \E m \in Srv : m.requester = c
         /\ T!Storing(c) <=> \E m \in Srv : m.requester = c /\ m.type \in {"WriteReq", "UpgradeReq"}
<1>1. /\ c \in readingV <=> \E m \in Srv : m.requester = c /\ m.type = "ReadReq"
      /\ c \in writingV <=> \E m \in Srv : m.requester = c /\ m.type = "WriteReq"
      /\ c \in upgradingV <=> \E m \in Srv : m.requester = c /\ m.type = "UpgradeReq"
  BY DEF readingV, writingV, upgradingV, Of
<1> QED  BY <1>1, ServedOnce DEF T!Served, T!Storing, RequestTypes

-----------------------------------------------------------------------------
snoopViews == <<forwardsV, heldV, fetchesV, invalsV, evictAcksV>>

(* The snoops of other cores stay. *)
OnlyAt(c) == \A d \in Cores : d # c => Sn(d)' = Sn(d) /\ Bf(d)' = Bf(d)

(* The token view when no snoop moves. *)
LEMMA SnoopSame ==
  ASSUME \A d \in Cores : Sn(d)' = Sn(d) /\ Bf(d)' = Bf(d)
  PROVE  UNCHANGED snoopViews
<1>1. forwardsV' = forwardsV  BY DEF forwardsV, Of
<1>2. heldV' = heldV  BY DEF heldV, Of
<1>3. fetchesV' = fetchesV /\ invalsV' = invalsV  BY DEF fetchesV, invalsV, Snooped
<1>4. evictAcksV' = evictAcksV  BY DEF evictAcksV
<1> QED  BY <1>1, <1>2, <1>3, <1>4 DEF snoopViews

Asks(m) == m.type \in {"WriteFwd", "Invalidate"}

(* Who asks for a copy is being served. *)
AskInv == \A c \in Cores : \A m \in Sn(c) \cup Bf(c) : Asks(m) => T!Storing(m.requester)

(* An L1 is asked once for its copy. *)
LEMMA AskedOnce ==
  ASSUME SnoopInv, AskInv, T!Inv, NEW c \in Cores
  PROVE  /\ \A m \in Sn(c) \cup Bf(c) : Asks(m) => m.requester \in Cores
         /\ \A m, n \in Sn(c) \cup Bf(c) : Asks(m) /\ n.type = m.type => n = m
<1>1. SnoopsOK(c, snoop[c], snoops[c])  BY DEF SnoopInv
<1>2. \A m \in Sn(c) \cup Bf(c) : Asks(m) => m.requester \in Cores
  BY <1>1 DEF SnoopsOK, DirSnoop, Asks, Sn, Bf
<1>3. \A r, d \in Cores : T!Storing(r) /\ T!Storing(d) => d = r
  BY DEF T!Inv, T!WriteServedAlone, T!Served
<1>4. \A m, n \in Sn(c) \cup Bf(c) : m.type = n.type /\ m.requester = n.requester => m = n
  BY <1>1 DEF SnoopsOK, SnoopsOnce, Sn, Bf
<1> QED  BY <1>2, <1>3, <1>4 DEF AskInv, Asks

(* The reads forwarded to core c, waiting at core c. *)
Fw(c) == Of(Sn(c), {"ReadFwd"})
Hd(c) == Of(Bf(c), {"ReadFwd"})

Pairs(f) == {p \in Cores \X Cores : p[1] \in f[p[2]]}
fwF == [d \in Cores |-> Fw(d)]
hdF == [d \in Cores |-> Hd(d)]

(* Forwards and held forwards as pairs of reader and L1, *)
LEMMA PairsIs == forwardsV = Pairs(fwF) /\ heldV = Pairs(hdF)
<1>1. \A p \in Cores \X Cores : fwF[p[2]] = Fw(p[2]) /\ hdF[p[2]] = Hd(p[2])  BY DEF fwF, hdF
<1> QED  BY <1>1 DEF forwardsV, heldV, Pairs, Fw, Hd

(* ... after a step. *)
LEMMA PairsIsNext == forwardsV' = Pairs(fwF') /\ heldV' = Pairs(hdF')
<1>1. \A p \in Cores \X Cores : fwF'[p[2]] = Fw(p[2])' /\ hdF'[p[2]] = Hd(p[2])'  BY DEF fwF, hdF
<1> QED  BY <1>1 DEF forwardsV, heldV, Pairs, Fw, Hd

(* Sets of pairs that agree except at one core. *)
LEMMA PairSame ==
  ASSUME NEW A \in SUBSET (Cores \X Cores), NEW B \in SUBSET (Cores \X Cores),
         \A c, d \in Cores : <<c, d>> \in A <=> <<c, d>> \in B
  PROVE  A = B
  OBVIOUS
(* ... one pair less, *)
LEMMA PairLess ==
  ASSUME NEW A \in SUBSET (Cores \X Cores), NEW B \in SUBSET (Cores \X Cores),
         NEW x \in Cores, NEW c \in Cores,
         \A a, d \in Cores : <<a, d>> \in A <=> <<a, d>> \in B /\ ~(a = x /\ d = c)
  PROVE  A = B \ {<<x, c>>}
  OBVIOUS
(* ... one pair more. *)
LEMMA PairMore ==
  ASSUME NEW A \in SUBSET (Cores \X Cores), NEW B \in SUBSET (Cores \X Cores),
         NEW x \in Cores, NEW c \in Cores,
         \A a, d \in Cores : <<a, d>> \in A <=> <<a, d>> \in B \/ (a = x /\ d = c)
  PROVE  A = B \cup {<<x, c>>}
  OBVIOUS

(* Two families of sets of cores, and two sets of cores, that agree but at c. *)
SameOff(f, g, c) == \A d \in Cores : d # c => f[d] = g[d]
AgreeOff(A, B, c) == \A d \in Cores : d # c => (d \in A <=> d \in B)

(* Pairs given by a function that changes at one core. *)
LEMMA PairsDiffer ==
  ASSUME NEW f \in [Cores -> SUBSET Cores], NEW g \in [Cores -> SUBSET Cores], NEW c \in Cores,
         SameOff(g, f, c)
  PROVE  /\ g[c] = f[c] => Pairs(g) = Pairs(f)
         /\ \A x \in Cores : g[c] = f[c] \ {x} => Pairs(g) = Pairs(f) \ {<<x, c>>}
         /\ \A x \in Cores : g[c] = f[c] \cup {x} => Pairs(g) = Pairs(f) \cup {<<x, c>>}
<1>1. \A h, a, d : <<a, d>> \in Pairs(h) <=> a \in Cores /\ d \in Cores /\ a \in h[d]
  BY DEF Pairs
<1>2. \A h : Pairs(h) \subseteq Cores \X Cores  BY DEF Pairs
<1>3. ASSUME g[c] = f[c]  PROVE Pairs(g) = Pairs(f)
  <2>1. \A d \in Cores : g[d] = f[d]  BY <1>3 DEF SameOff
  <2> QED  BY <2>1 DEF Pairs
<1>4. ASSUME NEW x \in Cores, g[c] = f[c] \ {x}  PROVE Pairs(g) = Pairs(f) \ {<<x, c>>}
  <2>1. \A a, d \in Cores : a \in g[d] <=> a \in f[d] /\ ~(a = x /\ d = c)
    BY <1>4 DEF SameOff
  <2> QED  BY <2>1, PairLess DEF Pairs
<1>5. ASSUME NEW x \in Cores, g[c] = f[c] \cup {x}  PROVE Pairs(g) = Pairs(f) \cup {<<x, c>>}
  <2>1. \A a, d \in Cores : a \in g[d] <=> a \in f[d] \/ (a = x /\ d = c)
    BY <1>5 DEF SameOff
  <2> QED  BY <2>1, PairMore DEF Pairs
<1> QED  BY <1>3, <1>4, <1>5

(* Sets of cores that agree except at one. *)
LEMMA CoresDiffer ==
  ASSUME NEW A \in SUBSET Cores, NEW B \in SUBSET Cores, NEW c \in Cores, AgreeOff(A, B, c)
  PROVE  /\ (c \in A <=> c \in B) => A = B
         /\ c \notin A => A = B \ {c}
         /\ c \in A => A = B \cup {c}
  BY DEF AgreeOff

(* What a core holds, up to its own eviction snoop. *)
SameBuffer(c) == \A n : n.type # "EvictClean" => (n \in Bf(c)' <=> n \in Bf(c))
LessBuffer(c, m) == \A n : n.type # "EvictClean" => (n \in Bf(c)' <=> n \in Bf(c) /\ n # m)
MoreBuffer(c, m) == \A n : n.type # "EvictClean" => (n \in Bf(c)' <=> n \in Bf(c) \/ n = m)

(* The ReadFwds held at an L1 are those in its buffer. *)
LEMMA HdSame == ASSUME NEW c, SameBuffer(c) PROVE Hd(c)' = Hd(c)
<1>1. \A n : n.type \in {"ReadFwd"} => (n \in Bf(c)' <=> n \in Bf(c))  BY DEF SameBuffer
<1> QED  BY <1>1 DEF Hd, Of

(* What one core's snoops say about the tokens when no other core's change. *)
LEMMA ViewsAt ==
  ASSUME NEW c \in Cores, OnlyAt(c)
  PROVE  /\ Fw(c)' = Fw(c) => forwardsV' = forwardsV
         /\ \A x \in Cores : Fw(c)' = Fw(c) \ {x} => forwardsV' = forwardsV \ {<<x, c>>}
         /\ \A x \in Cores : Fw(c)' = Fw(c) \cup {x} => forwardsV' = forwardsV \cup {<<x, c>>}
         /\ Hd(c)' = Hd(c) => heldV' = heldV
         /\ \A x \in Cores : Hd(c)' = Hd(c) \ {x} => heldV' = heldV \ {<<x, c>>}
         /\ \A x \in Cores : Hd(c)' = Hd(c) \cup {x} => heldV' = heldV \cup {<<x, c>>}
<1>1. fwF \in [Cores -> SUBSET Cores] /\ hdF \in [Cores -> SUBSET Cores]
  BY OfSub DEF fwF, hdF, Fw, Hd
<1>2. fwF' \in [Cores -> SUBSET Cores] /\ hdF' \in [Cores -> SUBSET Cores]
  <2>1. \A d \in Cores : Fw(d)' \subseteq Cores /\ Hd(d)' \subseteq Cores  BY DEF Fw, Hd, Of
  <2> QED  BY <2>1 DEF fwF, hdF
<1>3. \A d \in Cores : d # c => Fw(d)' = Fw(d) /\ Hd(d)' = Hd(d)  BY DEF OnlyAt, Fw, Hd, Of
<1>4. \A d \in Cores : /\ fwF[d] = Fw(d) /\ fwF'[d] = Fw(d)'
                       /\ hdF[d] = Hd(d) /\ hdF'[d] = Hd(d)'
  BY DEF fwF, hdF
<1>5. SameOff(fwF', fwF, c) /\ SameOff(hdF', hdF, c)  BY <1>3, <1>4 DEF SameOff
<1>6. /\ Fw(c)' = Fw(c) => Pairs(fwF') = Pairs(fwF)
      /\ \A x \in Cores : Fw(c)' = Fw(c) \ {x} => Pairs(fwF') = Pairs(fwF) \ {<<x, c>>}
      /\ \A x \in Cores : Fw(c)' = Fw(c) \cup {x} => Pairs(fwF') = Pairs(fwF) \cup {<<x, c>>}
  BY <1>1, <1>2, <1>4, <1>5, PairsDiffer
<1>7. /\ Hd(c)' = Hd(c) => Pairs(hdF') = Pairs(hdF)
      /\ \A x \in Cores : Hd(c)' = Hd(c) \ {x} => Pairs(hdF') = Pairs(hdF) \ {<<x, c>>}
      /\ \A x \in Cores : Hd(c)' = Hd(c) \cup {x} => Pairs(hdF') = Pairs(hdF) \cup {<<x, c>>}
  BY <1>1, <1>2, <1>4, <1>5, PairsDiffer
<1>8. forwardsV = Pairs(fwF) /\ heldV = Pairs(hdF)  BY PairsIs
<1>9. forwardsV' = Pairs(fwF') /\ heldV' = Pairs(hdF')  BY PairsIsNext
<1> QED  BY <1>6, <1>7, <1>8, <1>9

(* ... and for WriteFwds, Invalidates and EvictAcks. *)
LEMMA AsksAt ==
  ASSUME NEW c \in Cores, OnlyAt(c)
  PROVE  /\ (c \in fetchesV' <=> c \in fetchesV) => fetchesV' = fetchesV
         /\ c \notin fetchesV' => fetchesV' = fetchesV \ {c}
         /\ c \in fetchesV' => fetchesV' = fetchesV \cup {c}
         /\ (c \in invalsV' <=> c \in invalsV) => invalsV' = invalsV
         /\ c \notin invalsV' => invalsV' = invalsV \ {c}
         /\ c \in invalsV' => invalsV' = invalsV \cup {c}
         /\ (c \in evictAcksV' <=> c \in evictAcksV) => evictAcksV' = evictAcksV
         /\ c \notin evictAcksV' => evictAcksV' = evictAcksV \ {c}
         /\ c \in evictAcksV' => evictAcksV' = evictAcksV \cup {c}
<1>1. \A d \in Cores : d # c => Sn(d)' = Sn(d) /\ Bf(d)' = Bf(d)  BY DEF OnlyAt
<1>2. /\ AgreeOff(fetchesV', fetchesV, c) /\ AgreeOff(invalsV', invalsV, c)
      /\ AgreeOff(evictAcksV', evictAcksV, c)
  BY <1>1 DEF AgreeOff, fetchesV, invalsV, evictAcksV, Snooped
<1>3. /\ fetchesV' \in SUBSET Cores /\ fetchesV \in SUBSET Cores
      /\ invalsV' \in SUBSET Cores /\ invalsV \in SUBSET Cores
      /\ evictAcksV' \in SUBSET Cores /\ evictAcksV \in SUBSET Cores
  BY DEF fetchesV, invalsV, evictAcksV
<1>4. /\ (c \in fetchesV' <=> c \in fetchesV) => fetchesV' = fetchesV
      /\ c \notin fetchesV' => fetchesV' = fetchesV \ {c}
      /\ c \in fetchesV' => fetchesV' = fetchesV \cup {c}
  BY <1>2, <1>3, CoresDiffer
<1>5. /\ (c \in invalsV' <=> c \in invalsV) => invalsV' = invalsV
      /\ c \notin invalsV' => invalsV' = invalsV \ {c}
      /\ c \in invalsV' => invalsV' = invalsV \cup {c}
  BY <1>2, <1>3, CoresDiffer
<1>6. /\ (c \in evictAcksV' <=> c \in evictAcksV) => evictAcksV' = evictAcksV
      /\ c \notin evictAcksV' => evictAcksV' = evictAcksV \ {c}
      /\ c \in evictAcksV' => evictAcksV' = evictAcksV \cup {c}
  BY <1>2, <1>3, CoresDiffer
<1> QED  BY <1>4, <1>5, <1>6

(* The head of the queue of c is taken and done with. *)
LEMMA SnoopLess ==
  ASSUME SnoopInv, AskInv, T!Inv, NEW c \in Cores, NEW m \in Sn(c), OnlyAt(c),
         Sn(c)' = Sn(c) \ {m}, SameBuffer(c)
  PROVE  /\ m.type = "ReadFwd" => forwardsV' = forwardsV \ {<<m.requester, c>>}
         /\ m.type # "ReadFwd" => forwardsV' = forwardsV
         /\ heldV' = heldV
         /\ fetchesV' = IF m.type = "WriteFwd" THEN fetchesV \ {c} ELSE fetchesV
         /\ invalsV' = IF m.type = "Invalidate" THEN invalsV \ {c} ELSE invalsV
         /\ evictAcksV' = IF m.type = "EvictAck" THEN evictAcksV \ {c} ELSE evictAcksV
<1>1. SnoopsOK(c, snoop[c], snoops[c])  BY DEF SnoopInv
<1>2. /\ \A n \in Sn(c) : DirSnoop(n) \/ (n.type = "EvictAck" /\ n.requester = c)
      /\ \A a, b \in Sn(c) \cup Bf(c) : a.type = b.type /\ a.requester = b.requester => a = b
  BY <1>1 DEF SnoopsOK, SnoopsOnce, Sn, Bf
<1>4. Hd(c)' = Hd(c)  BY HdSame
<1>5. Fw(c)' = IF m.type = "ReadFwd" THEN Fw(c) \ {m.requester} ELSE Fw(c)
  <2>1. Fw(c)' = Of(Sn(c) \ {m}, {"ReadFwd"})  BY DEF Fw, Of
  <2> QED  BY <1>2, <2>1, OfTake DEF Fw
<1>6. heldV' = heldV  BY <1>4, ViewsAt
<1>7. m.requester \in Cores  BY <1>2 DEF DirSnoop
<1>8. /\ m.type = "ReadFwd" => forwardsV' = forwardsV \ {<<m.requester, c>>}
      /\ m.type # "ReadFwd" => forwardsV' = forwardsV
  BY <1>5, <1>7, ViewsAt
<1>9. /\ \A n, q \in Sn(c) \cup Bf(c) : Asks(n) /\ q.type = n.type => q = n
  BY AskedOnce
<1>10. \A n : Asks(n) => (n \in Sn(c)' \cup Bf(c)' <=> n \in Sn(c) \cup Bf(c) /\ n # m)
  <2>1. m \notin Bf(c)  BY <1>1 DEF SnoopsOK, SnoopsOnce, Sn, Bf
  <2> QED  BY <2>1 DEF SameBuffer, Asks
<1>11. c \in fetchesV' <=> m.type # "WriteFwd" /\ c \in fetchesV
  BY <1>9, <1>10 DEF fetchesV, Snooped, Asks
<1>12. c \in invalsV' <=> m.type # "Invalidate" /\ c \in invalsV
  BY <1>9, <1>10 DEF invalsV, Snooped, Asks
<1>13. c \in evictAcksV' <=> m.type # "EvictAck" /\ c \in evictAcksV
  BY <1>2 DEF evictAcksV, DirSnoop
<1>15. fetchesV' = IF m.type = "WriteFwd" THEN fetchesV \ {c} ELSE fetchesV  BY <1>11, AsksAt
<1>16. invalsV' = IF m.type = "Invalidate" THEN invalsV \ {c} ELSE invalsV  BY <1>12, AsksAt
<1>17. evictAcksV' = IF m.type = "EvictAck" THEN evictAcksV \ {c} ELSE evictAcksV
  BY <1>13, AsksAt
<1> QED  BY <1>6, <1>8, <1>15, <1>16, <1>17

(* ... and waits for the core. *)
LEMMA SnoopMoved ==
  ASSUME SnoopInv, NEW c \in Cores, NEW m \in Sn(c), DirSnoop(m), OnlyAt(c),
         Sn(c)' = Sn(c) \ {m}, MoreBuffer(c, m)
  PROVE  /\ m.type = "ReadFwd" => /\ forwardsV' = forwardsV \ {<<m.requester, c>>}
                                  /\ heldV' = heldV \cup {<<m.requester, c>>}
         /\ m.type # "ReadFwd" => forwardsV' = forwardsV /\ heldV' = heldV
         /\ fetchesV' = fetchesV /\ invalsV' = invalsV /\ evictAcksV' = evictAcksV
<1>1. SnoopsOK(c, snoop[c], snoops[c])  BY DEF SnoopInv
<1>2. \A a, b \in Sn(c) \cup Bf(c) : a.type = b.type /\ a.requester = b.requester => a = b
  BY <1>1 DEF SnoopsOK, SnoopsOnce, Sn, Bf
<1>3. m.requester \in Cores  BY DEF DirSnoop
<1>5. Fw(c)' = IF m.type = "ReadFwd" THEN Fw(c) \ {m.requester} ELSE Fw(c)
  <2>1. Fw(c)' = Of(Sn(c) \ {m}, {"ReadFwd"})  BY DEF Fw, Of
  <2> QED  BY <1>2, <2>1, OfTake DEF Fw
<1>4. Hd(c)' = IF m.type = "ReadFwd" THEN Hd(c) \cup {m.requester} ELSE Hd(c)
  <2>1. \A n : n.type \in {"ReadFwd"} => (n \in Bf(c)' <=> n \in Bf(c) \cup {m})  BY DEF MoreBuffer
  <2>2. Hd(c)' = Of(Bf(c) \cup {m}, {"ReadFwd"})  BY <2>1 DEF Hd, Of
  <2> QED  BY <1>3, <2>2, OfAdd DEF Hd
<1>7. /\ m.type = "ReadFwd" => forwardsV' = forwardsV \ {<<m.requester, c>>}
      /\ m.type # "ReadFwd" => forwardsV' = forwardsV
  BY <1>3, <1>5, ViewsAt
<1>8. /\ m.type = "ReadFwd" => heldV' = heldV \cup {<<m.requester, c>>}
      /\ m.type # "ReadFwd" => heldV' = heldV
  BY <1>3, <1>4, ViewsAt
<1>10. \A n : n.type # "EvictClean" => (n \in Sn(c)' \cup Bf(c)' <=> n \in Sn(c) \cup Bf(c))
  BY DEF MoreBuffer
<1>11. c \in fetchesV' <=> c \in fetchesV  BY <1>10 DEF fetchesV, Snooped
<1>12. c \in invalsV' <=> c \in invalsV  BY <1>10 DEF invalsV, Snooped
<1>13. c \in evictAcksV' <=> c \in evictAcksV
  BY DEF evictAcksV, DirSnoop
<1>15. fetchesV' = fetchesV /\ invalsV' = invalsV /\ evictAcksV' = evictAcksV
  BY <1>11, <1>12, <1>13, AsksAt
<1> QED  BY <1>7, <1>8, <1>15

(* A snoop in the buffer of c is done with. *)
LEMMA BufferLess ==
  ASSUME SnoopInv, AskInv, T!Inv, NEW c \in Cores, NEW m \in Bf(c), DirSnoop(m), OnlyAt(c),
         Sn(c)' = Sn(c), LessBuffer(c, m)
  PROVE  /\ m.type = "ReadFwd" => heldV' = heldV \ {<<m.requester, c>>}
         /\ m.type # "ReadFwd" => heldV' = heldV
         /\ forwardsV' = forwardsV
         /\ fetchesV' = IF m.type = "WriteFwd" THEN fetchesV \ {c} ELSE fetchesV
         /\ invalsV' = IF m.type = "Invalidate" THEN invalsV \ {c} ELSE invalsV
         /\ evictAcksV' = evictAcksV
<1>1. SnoopsOK(c, snoop[c], snoops[c])  BY DEF SnoopInv
<1>2. \A a, b \in Sn(c) \cup Bf(c) : a.type = b.type /\ a.requester = b.requester => a = b
  BY <1>1 DEF SnoopsOK, SnoopsOnce, Sn, Bf
<1>3. m.requester \in Cores  BY DEF DirSnoop
<1>4. Fw(c)' = Fw(c)  BY DEF Fw, Of
<1>5. Hd(c)' = IF m.type = "ReadFwd" THEN Hd(c) \ {m.requester} ELSE Hd(c)
  <2>0. \A n : n.type \in {"ReadFwd"} => (n \in Bf(c)' <=> n \in Bf(c) \ {m})  BY DEF LessBuffer
  <2>1. Hd(c)' = Of(Bf(c) \ {m}, {"ReadFwd"})  BY <2>0 DEF Hd, Of
  <2> QED  BY <1>2, <2>1, OfTake DEF Hd
<1>6. forwardsV' = forwardsV  BY <1>4, ViewsAt
<1>7. /\ m.type = "ReadFwd" => heldV' = heldV \ {<<m.requester, c>>}
      /\ m.type # "ReadFwd" => heldV' = heldV
  BY <1>3, <1>5, ViewsAt
<1>9. /\ \A n, q \in Sn(c) \cup Bf(c) : Asks(n) /\ q.type = n.type => q = n
  BY AskedOnce
<1>10. \A n : Asks(n) => (n \in Sn(c)' \cup Bf(c)' <=> n \in Sn(c) \cup Bf(c) /\ n # m)
  <2>1. m \notin Sn(c)  BY <1>1 DEF SnoopsOK, SnoopsOnce, Sn, Bf
  <2> QED  BY <2>1 DEF LessBuffer, Asks
<1>11. c \in fetchesV' <=> m.type # "WriteFwd" /\ c \in fetchesV
  BY <1>9, <1>10 DEF fetchesV, Snooped, Asks
<1>12. c \in invalsV' <=> m.type # "Invalidate" /\ c \in invalsV
  BY <1>9, <1>10 DEF invalsV, Snooped, Asks
<1>13. c \in evictAcksV' <=> c \in evictAcksV  BY DEF evictAcksV
<1>15. fetchesV' = IF m.type = "WriteFwd" THEN fetchesV \ {c} ELSE fetchesV  BY <1>11, AsksAt
<1>16. invalsV' = IF m.type = "Invalidate" THEN invalsV \ {c} ELSE invalsV  BY <1>12, AsksAt
<1>17. evictAcksV' = evictAcksV  BY <1>13, AsksAt
<1> QED  BY <1>6, <1>7, <1>15, <1>16, <1>17

(* The buffer changes in the core's own eviction snoop only. *)
LEMMA BufferSame ==
  ASSUME NEW c \in Cores, OnlyAt(c), Sn(c)' = Sn(c), SameBuffer(c)
  PROVE  UNCHANGED snoopViews
<1>4. Fw(c)' = Fw(c)  BY DEF Fw, Of
<1>5. Hd(c)' = Hd(c)  BY HdSame
<1>6. forwardsV' = forwardsV  BY <1>4, ViewsAt
<1>7. heldV' = heldV  BY <1>5, ViewsAt
<1>8. c \in fetchesV' <=> c \in fetchesV  BY DEF fetchesV, Snooped, SameBuffer
<1>9. c \in invalsV' <=> c \in invalsV  BY DEF invalsV, Snooped, SameBuffer
<1>10. c \in evictAcksV' <=> c \in evictAcksV  BY DEF evictAcksV
<1> QED  BY <1>6, <1>7, <1>8, <1>9, <1>10, AsksAt DEF snoopViews

---------------------------------------------------------------------------

(* The messages to memory, and the one write-back of the L2. *)
FromDir(P) == {m \in P : m.requester = Dir}
(* Replies are all different and are for a core, or acknowledge the write-back. *)
ReplyInv ==
  /\ reply = SetToBag(Rp) /\ Rp \subseteq Message
  /\ \A m \in Rp : m.requester \in Cores \/ (m.requester = Dir /\ m.type = "EvictAck" /\ m.dest = Dir)
  /\ \A m \in Rp : m.dest = Dir => m.outstanding = 0

(* Memory has one request of a core at most, and the write-back of the L2 only *)
(* while the evict buffer is pending, the write-back or its EvictAck.           *)
MemInv ==
  /\ toMem \in Seq(Message) /\ IsInjective(toMem)
  /\ \A m \in Tm : \/ m.requester \in Cores /\ m.type \in {"ReadReq", "WriteReq"}
                   \/ m.requester = Dir /\ m.type = "EvictDirty"
  /\ \A m, n \in Tm : m.requester = n.requester => m = n
  /\ FromDir(Tm) # {} => ceb.pending /\ FromDir(Rp) = {}
  /\ FromDir(Rp) # {} => ceb.pending
  /\ \A m, n \in FromDir(Rp) : m = n

(* What a request put off in the MAF waits for is under way. *)
L2Inv ==
  /\ l2 \in [state : {"I", "S", "E", "M"}, ver : Version]
  /\ ceb \in [present : BOOLEAN, pending : BOOLEAN, ver : Version]
  /\ ceb.pending => ceb.present
  /\ Has("WaitEvict") => ceb.pending
  /\ Has("WaitRequest") => Has("WaitAck") \/ Has("WaitEvict")

EvictSnoopIn(P) == \E m \in P : m.type = "EvictClean"
(* The array, the evict buffer, the MAF and the snoop buffer of an L1 agree: the  *)
(* block is in one place, and a snoop of the core goes with the miss or the evict *)
(* buffer entry it was sent for.                                                  *)
L1At(c) ==
  /\ Wt(c) => evict[c] = L1!NoEvict /\ ~maf[c].woken
  /\ array[c] # "I" => evict[c] = L1!NoEvict
  /\ evict[c] # L1!NoEvict => evict[c].state # "I"
  /\ evict[c].pending => evict[c].evictable
  /\ evict[c].evictable => ~evict[c].snoopRequired
  /\ maf[c].state # "None" => maf[c].op \in {"Load", "Store"}
  /\ maf[c].woken => maf[c].state \in {"WaitEvict", "WaitSnoop"}
  /\ maf[c].state = "WaitSnoop" => evict[c] = L1!NoEvict
  /\ EvictSnoopIn(Bf(c)) =>
       \/ maf[c].state = "WaitSnoop"
       \/ evict[c] # L1!NoEvict /\ ~evict[c].snoopRequired /\ ~evict[c].evictable

(* ... in every L1. *)
L1Inv ==
  /\ array \in [Cores -> L1!States] /\ data \in [Cores -> Version]
  /\ evict \in [Cores -> [state : L1!States, pending : BOOLEAN,
                          evictable : BOOLEAN, snoopRequired : BOOLEAN]]
  /\ maf \in [Cores -> [state : {"None", "WaitResponse", "WaitEvict", "WaitSnoop"},
                        op : {"None", "Load", "Store"}, outstanding : Int,
                        dataReceived : BOOLEAN, woken : BOOLEAN]]
  /\ \A c \in Cores : L1At(c)

(* The inductive invariant: the one of the tokens, and how the tokens are stored. *)
CInv ==
  /\ failed = "none" /\ latest \in Version /\ mem \in Version
  /\ T!Inv /\ PostInv /\ SnoopInv /\ AskInv /\ ReplyInv /\ MemInv /\ L2Inv /\ L1Inv

---------------------------------------------------------------------------

(* A message with these fields. *)
Fields(m, type, requester, dest, other, outstanding) ==
  m \in Message /\ T!Is(m, type, requester, dest, other, outstanding)

Nodes == Cores \cup {Dir, Mem}

(* The constants of the components are the same ones. *)
LEMMA Names == /\ L1!Dir = Dir /\ L2!Dir = Dir /\ MC!Dir = Dir /\ T!Dir = Dir
               /\ L2!Mem = Mem /\ MC!Mem = Mem /\ T!Mem = Mem
               /\ Dir # Mem /\ Dir \notin Cores /\ Mem \notin Cores
               /\ 0 \in Version /\ L1!None = "None"
<1>1. Dir \notin Cores /\ Mem \notin Cores  BY CoresAssumption
<1>2. 0 \in Version  BY VersAssumption DEF Version
<1> QED  BY <1>1, <1>2 DEF L1!Dir, L2!Dir, MC!Dir, T!Dir, L2!Mem, MC!Mem, T!Mem, Dir, Mem, L1!None

(* The fields of a message without data, *)
LEMMA MsgFields ==
  ASSUME NEW t \in MessageTypes, NEW r \in Cores \cup {Dir}, NEW d \in Nodes, NEW o \in Nodes
  PROVE  /\ Fields(Msg(t, r, d, o), t, r, d, o, 0)
         /\ L1!Msg(t, r, d, o) = Msg(t, r, d, o) /\ L2!Msg(t, r, d, o) = Msg(t, r, d, o)
<1>1. 0 \in Version  BY Names
<1>2. Msg(t, r, d, o) \in Message  BY <1>1 DEF Msg, Message, Nodes
<1> QED  BY <1>2 DEF Msg, L1!Msg, L2!Msg, Fields, T!Is

(* ... with data, *)
LEMMA MsgDataFields ==
  ASSUME NEW t \in MessageTypes, NEW r \in Cores \cup {Dir}, NEW d \in Nodes, NEW o \in Nodes,
         NEW v \in Version
  PROVE  /\ Fields(MsgWithData(t, r, d, o, v), t, r, d, o, 0)
         /\ L1!MsgWithData(t, r, d, o, v) = MsgWithData(t, r, d, o, v)
         /\ L2!MsgWithData(t, r, d, o, v) = MsgWithData(t, r, d, o, v)
         /\ MC!MsgWithData(t, r, d, o, v) = MsgWithData(t, r, d, o, v)
<1>1. MsgWithData(t, r, d, o, v) =
        [type |-> t, requester |-> r, dest |-> d, other |-> o,
         outstanding |-> 0, needData |-> FALSE, ver |-> v]
  <2> DEFINE n == Msg(t, r, d, o)
  <2>1. n = [type |-> t, requester |-> r, dest |-> d, other |-> o,
             outstanding |-> 0, needData |-> FALSE, ver |-> 0]
    BY DEF Msg
  <2>2. MsgWithData(t, r, d, o, v) = [n EXCEPT !.ver = v]  BY DEF MsgWithData
  <2> HIDE DEF n
  <2> QED  BY <2>1, <2>2
<1>2. MsgWithData(t, r, d, o, v) \in Message  BY <1>1 DEF Message, Nodes
<1> QED  BY <1>1, <1>2 DEF MsgWithData, Msg, L1!MsgWithData, L1!Msg, L2!MsgWithData, L2!Msg,
                           MC!MsgWithData, MC!Msg, Fields, T!Is

(* What an L1 answers to snoop m. *)
LEMMA FwdAnswerFields ==
  ASSUME L1Inv, NEW c \in Cores, NEW m \in Message, NEW t \in MessageTypes
  PROVE  Fields(L1!FwdAnswer(c, m, t), t, m.requester, m.requester, c, 0)
<1>1. m.requester \in Cores \cup {Dir} /\ m.requester \in Nodes /\ c \in Nodes
      /\ m.needData \in BOOLEAN /\ data[c] \in Version
  BY DEF Message, Nodes, L1Inv
<1> DEFINE n == L1!MsgWithData(t, m.requester, m.requester, c, data[c])
<1>2. Fields(n, t, m.requester, m.requester, c, 0)  BY <1>1, MsgDataFields
<1>3. L1!FwdAnswer(c, m, t) = [n EXCEPT !.needData = m.needData]  BY DEF L1!FwdAnswer
<1> HIDE DEF n
<1> QED  BY <1>1, <1>2, <1>3 DEF Fields, T!Is, Message

(* ... of the ack of an Invalidate, *)
LEMMA InvAckFields ==
  ASSUME NEW c \in Cores, NEW m \in Message, NEW t \in MessageTypes
  PROVE  Fields(L1!InvAck(c, m, t), t, m.requester, m.requester, c, 0)
<1>1. m.requester \in Cores \cup {Dir} /\ m.requester \in Nodes /\ c \in Nodes
  BY DEF Message, Nodes
<1> QED  BY <1>1, MsgFields DEF L1!InvAck

(* ... of the eviction snoop to the core, *)
LEMMA EvictSnoopFields ==
  ASSUME NEW c \in Cores
  PROVE  Fields(L1!EvictSnoop(c), "EvictClean", c, c, c, 0)
<1>1. c \in Cores \cup {Dir} /\ c \in Nodes /\ "EvictClean" \in MessageTypes
  BY DEF Nodes, MessageTypes, EvictTypes
<1> QED  BY <1>1, MsgFields DEF L1!EvictSnoop

(* ... of the ack of a load. *)
LEMMA LoadAckFields ==
  ASSUME NEW c \in Cores, NEW m \in Message, NEW t \in MessageTypes, NEW v \in Version
  PROVE  Fields([L1!Msg(t, c, L1!Dir, c) EXCEPT !.needData = m.needData, !.ver = v],
                t, c, Dir, c, 0)
<1>1. c \in Cores \cup {Dir} /\ c \in Nodes /\ Dir \in Nodes /\ m.needData \in BOOLEAN
  BY DEF Nodes, Message
<1> DEFINE n == L1!Msg(t, c, L1!Dir, c)
<1>2. Fields(n, t, c, Dir, c, 0)  BY <1>1, MsgFields, Names
<1> HIDE DEF n
<1> DEFINE p == [n EXCEPT !.needData = m.needData]
<1>3. Fields(p, t, c, Dir, c, 0)  BY <1>1, <1>2 DEF Fields, T!Is, Message
<1>4. [n EXCEPT !.needData = m.needData, !.ver = v] = [p EXCEPT !.ver = v]  OBVIOUS
<1> HIDE DEF p
<1>5. Fields([p EXCEPT !.ver = v], t, c, Dir, c, 0)  BY <1>3 DEF Fields, T!Is, Message
<1> QED  BY <1>4, <1>5 DEF n

(* What the directory sends. *)
LEMMA ForwardFields ==
  ASSUME NEW t \in MessageTypes, NEW m \in Message, NEW c \in Cores, NEW b \in BOOLEAN
  PROVE  Fields(L2!Forward(t, m, c, b), t, m.requester, c, Dir, 0)
<1>1. m.requester \in Cores \cup {Dir} /\ c \in Nodes /\ Dir \in Nodes
  BY DEF Nodes, Message
<1> DEFINE n == L2!Msg(t, m.requester, c, L2!Dir)
<1>2. Fields(n, t, m.requester, c, Dir, 0)  BY <1>1, MsgFields, Names
<1>3. L2!Forward(t, m, c, b) = [n EXCEPT !.needData = b]  BY DEF L2!Forward
<1> HIDE DEF n
<1> QED  BY <1>1, <1>2, <1>3 DEF Fields, T!Is, Message

(* ... in answer to a request, *)
LEMMA AnswerFields ==
  ASSUME NEW t \in MessageTypes, NEW m \in Message, NEW k \in Int, NEW v \in Version
  PROVE  Fields(L2!Answer(t, m, k, v), t, m.requester, m.requester, Dir, k)
<1>1. m.requester \in Cores \cup {Dir} /\ m.requester \in Nodes /\ Dir \in Nodes
  BY DEF Nodes, Message
<1> DEFINE n == L2!MsgWithData(t, m.requester, m.requester, L2!Dir, v)
<1>2. Fields(n, t, m.requester, m.requester, Dir, 0)  BY <1>1, MsgDataFields, Names
<1>3. L2!Answer(t, m, k, v) = [n EXCEPT !.outstanding = k]  BY DEF L2!Answer
<1> HIDE DEF n
<1> QED  BY <1>1, <1>2, <1>3 DEF Fields, T!Is, Message

(* ... or passes on. *)
LEMMA RoutedFields ==
  ASSUME NEW m \in Message, NEW d \in Nodes, NEW o \in Nodes
  PROVE  Fields([m EXCEPT !.dest = d, !.other = o], m.type, m.requester, d, o, m.outstanding)
  BY DEF Fields, T!Is, Message, Nodes

-----------------------------------------------------------------------------
(* One L1 changes. *)
EvictRec == [state : L1!States, pending : BOOLEAN, evictable : BOOLEAN, snoopRequired : BOOLEAN]
MafRec == [state : {"None", "WaitResponse", "WaitEvict", "WaitSnoop"},
           op : {"None", "Load", "Store"}, outstanding : Int,
           dataReceived : BOOLEAN, woken : BOOLEAN]

(* The new values at c: array state a, data v, evict buffer entry e, MAF entry f. *)
L1Becomes(c, a, v, e, f) ==
  /\ a \in L1!States /\ v \in Version /\ e \in EvictRec /\ f \in MafRec
  /\ array' = [array EXCEPT ![c] = a] /\ data' = [data EXCEPT ![c] = v]
  /\ evict' = [evict EXCEPT ![c] = e] /\ maf' = [maf EXCEPT ![c] = f]

(* L1At of the values, s telling whether the snoop buffer has an eviction's snoop. *)
L1OK(a, e, f, s) ==
  /\ f.state = "WaitResponse" => e = L1!NoEvict /\ ~f.woken
  /\ a # "I" => e = L1!NoEvict
  /\ e # L1!NoEvict => e.state # "I"
  /\ e.pending => e.evictable
  /\ e.evictable => ~e.snoopRequired
  /\ f.state # "None" => f.op \in {"Load", "Store"}
  /\ f.woken => f.state \in {"WaitEvict", "WaitSnoop"}
  /\ f.state = "WaitSnoop" => e = L1!NoEvict
  /\ s => f.state = "WaitSnoop" \/ (e # L1!NoEvict /\ ~e.snoopRequired /\ ~e.evictable)

(* What the invariant says of one L1. *)
LEMMA L1AtIs ==
  ASSUME L1Inv, NEW c \in Cores
  PROVE  /\ L1OK(array[c], evict[c], maf[c], EvictSnoopIn(Bf(c)))
         /\ array[c] \in L1!States /\ data[c] \in Version
         /\ evict[c] \in EvictRec /\ maf[c] \in MafRec
  BY DEF L1Inv, L1At, L1OK, Wt, EvictRec, MafRec

(* It holds of all L1s if it holds of the one that changed. *)
LEMMA L1InvBecomes ==
  ASSUME L1Inv, NEW c \in Cores, NEW a, NEW v, NEW e, NEW f, L1Becomes(c, a, v, e, f),
         \A d \in Cores : d # c => Bf(d)' = Bf(d),
         L1OK(a, e, f, EvictSnoopIn(Bf(c))')
  PROVE  L1Inv'
<1>1. /\ array' \in [Cores -> L1!States] /\ data' \in [Cores -> Version]
      /\ evict' \in [Cores -> EvictRec] /\ maf' \in [Cores -> MafRec]
  BY DEF L1Inv, L1Becomes, EvictRec, MafRec
<1>2. array'[c] = a /\ evict'[c] = e /\ maf'[c] = f  BY DEF L1Inv, L1Becomes
<1>3. L1At(c)'  BY <1>2 DEF L1At, L1OK, Wt
<1>4. ASSUME NEW d \in Cores, d # c  PROVE L1At(d)'
  <2>1. array'[d] = array[d] /\ evict'[d] = evict[d] /\ maf'[d] = maf[d] /\ Bf(d)' = Bf(d)
    BY <1>4 DEF L1Inv, L1Becomes
  <2>2. L1At(d)  BY DEF L1Inv
  <2> QED  BY <2>1, <2>2 DEF L1At, Wt, EvictSnoopIn
<1> QED  BY <1>1, <1>3, <1>4 DEF L1Inv, EvictRec, MafRec

(* The token view when one L1 changes. *)
LEMMA L1Views ==
  ASSUME L1Inv, NEW c \in Cores, NEW a, NEW v, NEW e, NEW f, L1Becomes(c, a, v, e, f)
  PROVE  /\ copyV' = [copyV EXCEPT ![c] = IF a # "I" THEN a ELSE e.state]
         /\ leavingV' = IF e.pending THEN leavingV \cup {c} ELSE leavingV \ {c}
         /\ missV' = [missV EXCEPT ![c] = IF f.state = "WaitResponse" THEN f.op ELSE "None"]
         /\ balanceV' = [balanceV EXCEPT ![c] = IF f.state = "WaitResponse" THEN f.outstanding ELSE 0]
         /\ filledV' = IF f.state = "WaitResponse" /\ f.dataReceived
                       THEN filledV \cup {c} ELSE filledV \ {c}
<1>1. /\ array'[c] = a /\ evict'[c] = e /\ maf'[c] = f
      /\ \A d \in Cores : d # c => array'[d] = array[d] /\ evict'[d] = evict[d] /\ maf'[d] = maf[d]
  BY DEF L1Inv, L1Becomes
<1>2. copyV' = [copyV EXCEPT ![c] = IF a # "I" THEN a ELSE e.state]
  BY <1>1 DEF copyV
<1>3. leavingV' = IF e.pending THEN leavingV \cup {c} ELSE leavingV \ {c}
  <2>1. e.pending \in BOOLEAN  BY DEF L1Becomes, EvictRec
  <2> QED  BY <1>1, <2>1 DEF leavingV
<1>4. missV' = [missV EXCEPT ![c] = IF f.state = "WaitResponse" THEN f.op ELSE "None"]
  BY <1>1 DEF missV, Wt
<1>5. balanceV' = [balanceV EXCEPT ![c] = IF f.state = "WaitResponse" THEN f.outstanding ELSE 0]
  BY <1>1 DEF balanceV, Wt
<1>6. filledV' = IF f.state = "WaitResponse" /\ f.dataReceived
                       THEN filledV \cup {c} ELSE filledV \ {c}
  <2>1. AgreeOff(filledV', filledV, c) /\ filledV \in SUBSET Cores /\ filledV' \in SUBSET Cores
    BY <1>1 DEF filledV, Wt, AgreeOff
  <2>2. c \in filledV' <=> f.state = "WaitResponse" /\ f.dataReceived  BY <1>1 DEF filledV, Wt
  <2> QED  BY <2>1, <2>2, CoresDiffer
<1> QED  BY <1>2, <1>3, <1>4, <1>5, <1>6

---------------------------------------------------------------------------

(* The bag operators of the components are the same ones. *)
LEMMA BagNames ==
  /\ \A B : L1!BagToSet(B) = BagToSet(B) /\ L2!BagToSet(B) = BagToSet(B)
  /\ \A S : L1!SetToBag(S) = SetToBag(S) /\ L2!SetToBag(S) = SetToBag(S) /\ MC!SetToBag(S) = SetToBag(S)
  /\ \A A, B : L1!(+)(A, B) = A (+) B /\ L2!(+)(A, B) = A (+) B /\ MC!(+)(A, B) = A (+) B
  /\ \A A, B : L1!(-)(A, B) = A (-) B /\ L2!(-)(A, B) = A (-) B
<1>1. \A B : L1!BagToSet(B) = BagToSet(B) /\ L2!BagToSet(B) = BagToSet(B)
  BY DEF L1!BagToSet, L2!BagToSet, BagToSet
<1>2. \A S : L1!SetToBag(S) = SetToBag(S) /\ L2!SetToBag(S) = SetToBag(S) /\ MC!SetToBag(S) = SetToBag(S)
  BY DEF L1!SetToBag, L2!SetToBag, MC!SetToBag, SetToBag
<1>3. \A A, B : L1!(+)(A, B) = A (+) B /\ L2!(+)(A, B) = A (+) B /\ MC!(+)(A, B) = A (+) B
  BY DEF L1!(+), L2!(+), MC!(+), (+)
<1>4. \A A, B : L1!(-)(A, B) = A (-) B /\ L2!(-)(A, B) = A (-) B
  BY DEF L1!(-), L2!(-), (-)
<1> QED  BY <1>1, <1>2, <1>3, <1>4

(* What the components do to the Reply channel. *)
LEMMA ReplyOps ==
  ASSUME NEW m, NEW S
  PROVE  /\ L1!ReplyBagWith({m}) = reply (+) SetToBag({m})
         /\ L2!ReplyBagWith({m}) = reply (+) SetToBag({m})
         /\ MC!ReplyBagWith({m}) = reply (+) SetToBag({m})
         /\ L1!Consume(m, S) <=> reply' = (reply (-) SetToBag({m})) (+) SetToBag(S)
         /\ L2!DirConsume(m, S) <=> reply' = (reply (-) SetToBag({m})) (+) SetToBag(S)
         /\ L1!InReply(m) <=> m \in Rp
         /\ L2!InReply(m) <=> m \in Rp
  BY BagNames DEF L1!ReplyBagWith, L2!ReplyBagWith, MC!ReplyBagWith, L1!Consume, L2!DirConsume,
                  L1!InReply, L2!InReply, Rp

(* The effect of a step on the bag: out leaves it and in joins it. *)
ReplyStep(out, in) ==
  /\ ReplyInv'
  /\ Rp' = (Rp \ out) \cup in
  /\ repliesV' = {m \in Rp' : m.requester \in Cores}
  /\ FromDir(Rp)' = {m \in Rp' : m.requester = Dir}

DirAck(m) == m.requester = Dir /\ m.type = "EvictAck" /\ m.dest = Dir

(* The replies are a set: none is there twice. *)
LEMMA ReplySet ==
  ASSUME ReplyInv, NEW R, reply' = SetToBag(R), R \subseteq Message,
         \A m \in R : m \in Rp \/ m.requester \in Cores \/ DirAck(m),
         \A m \in R : m \in Rp \/ (m.dest = Dir => m.outstanding = 0)
  PROVE  ReplyInv' /\ Rp' = R
<1>1. Rp' = R  BY BagOfSet DEF Rp
<1> QED  BY <1>1 DEF ReplyInv, DirAck

(* A reply is sent, *)
LEMMA ReplySent ==
  ASSUME ReplyInv, NEW m \in Message, m.requester \in Cores \/ DirAck(m), m \notin Rp,
         m.dest = Dir => m.outstanding = 0,
         reply' = reply (+) SetToBag({m})
  PROVE  ReplyStep({}, {m})
<1>1. reply' = SetToBag(Rp \cup {m})  BY BagSend DEF ReplyInv
<1>2. ReplyInv' /\ Rp' = Rp \cup {m}  BY <1>1, ReplySet DEF ReplyInv
<1> QED  BY <1>2 DEF ReplyStep, repliesV, FromDir

(* ... taken and answered, *)
LEMMA ReplySwapped ==
  ASSUME ReplyInv, NEW m \in Rp, NEW n \in Message, n.requester \in Cores, n \notin Rp,
         n.dest = Dir => n.outstanding = 0,
         reply' = (reply (-) SetToBag({m})) (+) SetToBag({n})
  PROVE  ReplyStep({m}, {n})
<1>1. reply (-) SetToBag({m}) = SetToBag(Rp \ {m})  BY BagTake DEF ReplyInv
<1>2. reply' = SetToBag((Rp \ {m}) \cup {n})  BY <1>1, BagSend
<1>3. ReplyInv' /\ Rp' = (Rp \ {m}) \cup {n}  BY <1>2, ReplySet DEF ReplyInv
<1> QED  BY <1>3 DEF ReplyStep, repliesV, FromDir

(* ... or taken. *)
LEMMA ReplyTaken ==
  ASSUME ReplyInv, NEW m \in Rp,
         reply' = (reply (-) SetToBag({m})) (+) SetToBag({})
  PROVE  ReplyStep({m}, {})
<1>1. reply (-) SetToBag({m}) = SetToBag(Rp \ {m})  BY BagTake DEF ReplyInv
<1>2. reply' = SetToBag(Rp \ {m})  BY <1>1, BagSendNone
<1>3. ReplyInv' /\ Rp' = Rp \ {m}  BY <1>2, ReplySet DEF ReplyInv
<1> QED  BY <1>3 DEF ReplyStep, repliesV, FromDir

(* Nothing is sent or taken. *)
LEMMA ReplySame ==
  ASSUME ReplyInv, reply' = reply
  PROVE  ReplyInv' /\ Rp' = Rp /\ repliesV' = repliesV /\ FromDir(Rp)' = FromDir(Rp)
  BY DEF ReplyInv, Rp, repliesV, FromDir

(* The token view of the change. *)
LEMMA RepliesAre ==
  ASSUME NEW out, NEW in, ReplyStep(out, in), \A m \in out \cup in : m.requester \in Cores
  PROVE  /\ ReplyInv' /\ repliesV' = (repliesV \ out) \cup in /\ FromDir(Rp)' = FromDir(Rp)
         /\ \A m \in in : m \in Rp'
<1>0. Dir \notin Cores  BY Names
<1> QED  BY <1>0 DEF ReplyStep, repliesV, FromDir
-----------------------------------------------------------------------------
(* The queue to memory. *)
LEMMA MemSent ==
  ASSUME MemInv, NEW m \in Message, m.requester \in Cores, m.type \in {"ReadReq", "WriteReq"},
         m.requester \notin atMemoryV, toMem' = Append(toMem, m),
         ceb.pending' <=> ceb.pending, FromDir(Rp)' = FromDir(Rp)
  PROVE  MemInv' /\ atMemoryV' = atMemoryV \cup {m.requester}
<1>0. Dir \notin Cores  BY Names
<1>1. \A n \in Tm : n.requester # m.requester  BY <1>0 DEF MemInv, atMemoryV, Of, RequestTypes
<1>2. m \notin Tm  BY <1>1
<1>3. toMem' \in Seq(Message) /\ IsInjective(toMem') /\ Tm' = Tm \cup {m}
  <2>1. toMem \in Seq(Message) /\ IsInjective(toMem)  BY DEF MemInv
  <2>2. /\ Append(toMem, m) \in Seq(Message) /\ IsInjective(Append(toMem, m))
        /\ ToSet(Append(toMem, m)) = ToSet(toMem) \cup {m}
    BY <1>2, <2>1, AppendSet DEF Tm
  <2> QED  BY <2>2 DEF Tm
<1>4. FromDir(Tm)' = FromDir(Tm)  BY <1>0, <1>3 DEF FromDir
<1>5. MemInv'  BY <1>1, <1>3, <1>4 DEF MemInv
<1>6. atMemoryV' = Of(Tm \cup {m}, RequestTypes)  BY <1>3 DEF atMemoryV, Of
<1>7. atMemoryV' = atMemoryV \cup {m.requester}
  <2>1. m.type \in RequestTypes  BY DEF RequestTypes
  <2> QED  BY <1>6, <2>1, OfAdd DEF atMemoryV
<1> QED  BY <1>5, <1>7

(* The L2 writes its victim back. *)
LEMMA WriteBackSent ==
  ASSUME MemInv, NEW m \in Message, m.requester = Dir, m.type = "EvictDirty", ~ceb.pending,
         toMem' = Append(toMem, m), ceb'.pending, Rp' = Rp
  PROVE  MemInv' /\ atMemoryV' = atMemoryV
<1>1. FromDir(Tm) = {} /\ FromDir(Rp) = {}  BY DEF MemInv
<1>2. \A n \in Tm : n.requester # Dir  BY <1>1 DEF FromDir
<1>3. toMem' \in Seq(Message) /\ IsInjective(toMem') /\ Tm' = Tm \cup {m}
  <2>1. toMem \in Seq(Message) /\ IsInjective(toMem)  BY DEF MemInv
  <2>2. /\ Append(toMem, m) \in Seq(Message) /\ IsInjective(Append(toMem, m))
        /\ ToSet(Append(toMem, m)) = ToSet(toMem) \cup {m}
    BY <1>2, <2>1, AppendSet DEF Tm
  <2> QED  BY <2>2 DEF Tm
<1>4. FromDir(Rp)' = {}  BY <1>1 DEF FromDir
<1>5. MemInv'  BY <1>2, <1>3, <1>4 DEF MemInv
<1>6. atMemoryV' = Of(Tm \cup {m}, RequestTypes)  BY <1>3 DEF atMemoryV, Of
<1>7. m.type \notin RequestTypes  BY DEF RequestTypes
<1> QED  BY <1>5, <1>6, <1>7, OfAdd DEF atMemoryV

(* The token view when memory has answered. *)
LEMMA AtMemoryLess ==
  ASSUME MemInv, NEW m \in Tm, Tm' = Tm \ {m}
  PROVE  atMemoryV' = IF m.requester \in Cores THEN atMemoryV \ {m.requester} ELSE atMemoryV
<1>0. Dir \notin Cores  BY Names
<1>1. \A n \in Tm : n.requester = m.requester => n = m  BY DEF MemInv
<1>2. Of(Tm \ {m}, RequestTypes) = IF m.type \in RequestTypes
        THEN Of(Tm, RequestTypes) \ {m.requester} ELSE Of(Tm, RequestTypes)
  BY <1>1, OfTake
<1>3. atMemoryV' = Of(Tm \ {m}, RequestTypes)  BY DEF atMemoryV, Of
<1>4. m.requester \in Cores <=> m.type \in RequestTypes  BY <1>0 DEF MemInv, RequestTypes
<1> QED  BY <1>2, <1>3, <1>4 DEF atMemoryV

(* Memory takes the head of the queue. *)
LEMMA MemTaken ==
  ASSUME MemInv, toMem # <<>>, toMem' = Tail(toMem), NEW m, m = Head(toMem)
  PROVE  /\ m \in Tm /\ m \in Message /\ Tm' = Tm \ {m}
         /\ toMem' \in Seq(Message) /\ IsInjective(toMem')
         /\ atMemoryV' = IF m.requester \in Cores THEN atMemoryV \ {m.requester} ELSE atMemoryV
<1>0. Dir \notin Cores  BY Names
<1>1. toMem \in Seq(Message) /\ IsInjective(toMem)  BY DEF MemInv
<1>2. /\ m \in Tm /\ m \in Message /\ Tm' = Tm \ {m}
      /\ toMem' \in Seq(Message) /\ IsInjective(toMem')
  BY <1>1, TailSet DEF Tm
<1> QED  BY <1>2, AtMemoryLess

(* Memory is not concerned. *)
LEMMA MemSame ==
  ASSUME MemInv, toMem' = toMem, ceb.pending' <=> ceb.pending, FromDir(Rp)' = FromDir(Rp)
  PROVE  MemInv' /\ atMemoryV' = atMemoryV
<1>1. Tm' = Tm /\ FromDir(Tm)' = FromDir(Tm)  BY DEF Tm, FromDir
<1> QED  BY <1>1 DEF MemInv, atMemoryV, Of

-----------------------------------------------------------------------------
(* The steps of an L1.                                                     *)

(* A step of the protocol is a step of the token protocol or changes nothing there. *)
TStep == [T!Next]_(T!vars)

(* The token protocol has this system's nodes. *)
LEMMA TSetting == T!Setting
  BY CoresAssumption, Names DEF T!Setting, T!IsFiniteSet, IsFiniteSet

(* A step of an L1 keeps the invariant if the parts it can disturb hold. *)
LEMMA L1Keeps ==
  ASSUME CInv, L1Frame, failed' = failed, toMem' = toMem, latest' \in Version, TStep,
         PostInv', SnoopInv', AskInv', ReplyInv', L1Inv', FromDir(Rp)' = FromDir(Rp)
  PROVE  CInv'
<1>1. T!Inv'
  <2>1. T!Inv /\ [T!Next]_(T!vars)  BY DEF CInv, TStep
  <2> QED  BY <2>1, TSetting, T!InvStep
<1>2. ceb' = ceb /\ l2' = l2 /\ dmaf' = dmaf /\ mem' = mem  BY DEF L1Frame, l2Vars
<1>3. MemInv'  BY <1>2, MemSame DEF CInv
<1>4. L2Inv'  BY <1>2 DEF CInv, L2Inv, Has, Entries
<1> QED  BY <1>1, <1>2, <1>3, <1>4 DEF CInv

(* No token moves. *)
LEMMA Stutters == ASSUME UNCHANGED T!vars PROVE TStep  BY DEF TStep

(* No request is posted or served. *)
LEMMA PostSame ==
  ASSUME PostInv, request' = request, dmaf' = dmaf
  PROVE  /\ PostInv' /\ Pst' = Pst /\ Srv' = Srv
         /\ UNCHANGED T!postVars /\ UNCHANGED T!serveVars
<1>1. Entries' = Entries /\ \A c \in Cores : Req(c)' = Req(c)  BY DEF Entries, Req
<1>2. PostInv'  BY <1>1 DEF PostInv
<1>3. Pst' = Pst /\ Srv' = Srv
  BY <1>1 DEF Pst, Queued, PutOff, Stalled, Srv, Serving
<1>4. UNCHANGED postViews /\ UNCHANGED serveViews  BY <1>3, PostedSame, ServedSame
<1> QED  BY <1>2, <1>3, <1>4 DEF postViews, serveViews, T!postVars, T!serveVars

(* No snoop moves. *)
LEMMA SnoopQuiet ==
  ASSUME SnoopInv, snoop' = snoop, snoops' = snoops
  PROVE  SnoopInv' /\ UNCHANGED snoopViews /\ (\A c \in Cores : Sn(c)' = Sn(c) /\ Bf(c)' = Bf(c))
<1>1. \A c \in Cores : Sn(c)' = Sn(c) /\ Bf(c)' = Bf(c)  BY DEF Sn, Bf
<1>2. UNCHANGED snoopViews  BY <1>1, SnoopSame
<1>3. SnoopInv'  BY DEF SnoopInv
<1> QED  BY <1>1, <1>2, <1>3

(* Nobody is asked anew for its copy. *)
LEMMA AskSame ==
  ASSUME AskInv, UNCHANGED T!serveVars,
         \A c \in Cores : \A m \in Sn(c)' \cup Bf(c)' : Asks(m) => m \in Sn(c) \cup Bf(c)
  PROVE  AskInv'
<1>1. \A r : T!Storing(r)' <=> T!Storing(r)  BY DEF T!serveVars, T!Storing
<1> QED  BY <1>1 DEF AskInv

-----------------------------------------------------------------------------
(* The records of an L1. *)
LEMMA NoEvictIs ==
  /\ L1!NoEvict \in EvictRec /\ L1!NoEvict.state = "I"
  /\ ~L1!NoEvict.pending /\ ~L1!NoEvict.evictable /\ ~L1!NoEvict.snoopRequired
  BY DEF L1!NoEvict, EvictRec, L1!States

(* The empty MAF entry, *)
LEMMA NoMafIs ==
  /\ L1!NoMaf \in MafRec /\ L1!NoMaf.state = "None" /\ L1!NoMaf.op = "None"
  /\ L1!NoMaf.outstanding = 0 /\ ~L1!NoMaf.dataReceived /\ ~L1!NoMaf.woken
  BY DEF L1!NoMaf, L1!None, MafRec

(* ... and a new one. *)
LEMMA MafEntryIs ==
  ASSUME NEW st \in {"None", "WaitResponse", "WaitEvict", "WaitSnoop"}, NEW op \in {"Load", "Store"},
         NEW f, f = L1!MafEntry(st, op)
  PROVE  /\ f \in MafRec /\ f.state = st /\ f.op = op
         /\ f.outstanding = 0 /\ ~f.dataReceived /\ ~f.woken
<1>1. f = [[L1!NoMaf EXCEPT !.state = st] EXCEPT !.op = op]  BY DEF L1!MafEntry
<1> DEFINE n == [L1!NoMaf EXCEPT !.state = st]
<1>2. /\ n \in MafRec /\ n.state = st /\ n.outstanding = 0 /\ ~n.dataReceived /\ ~n.woken
  BY NoMafIs DEF MafRec
<1> HIDE DEF n
<1>3. f = [n EXCEPT !.op = op]  BY <1>1 DEF n
<1> QED  BY <1>2, <1>3 DEF MafRec

(* The block of L1 c and the token view of it. *)
LEMMA BlockIs ==
  ASSUME L1Inv, NEW c \in Cores
  PROVE  /\ L1!BlockState(c) = copyV[c] /\ copyV[c] \in L1!States
         /\ L1!FromEB(c) <=> array[c] = "I" /\ copyV[c] # "I"
         /\ array[c] # "I" => copyV[c] = array[c] /\ evict[c] = L1!NoEvict
         /\ array[c] = "I" => copyV[c] = evict[c].state
         /\ c \in leavingV <=> evict[c].pending
         /\ c \in leavingV => L1!FromEB(c) /\ evict[c].evictable
         /\ L1!WaitingMaf(c) <=> Wt(c)
         /\ missV[c] = IF Wt(c) THEN maf[c].op ELSE "None"
         /\ Wt(c) => evict[c] = L1!NoEvict /\ maf[c].op \in {"Load", "Store"} /\ array[c] = copyV[c]
<1>1. /\ L1OK(array[c], evict[c], maf[c], EvictSnoopIn(Bf(c)))
      /\ array[c] \in L1!States /\ evict[c] \in EvictRec /\ maf[c] \in MafRec
  BY L1AtIs
<1>2. /\ copyV[c] = IF array[c] # "I" THEN array[c] ELSE evict[c].state
      /\ c \in leavingV <=> evict[c].pending
      /\ missV[c] = IF Wt(c) THEN maf[c].op ELSE "None"
      /\ L1!WaitingMaf(c) <=> Wt(c)
      /\ L1!BlockState(c) = copyV[c]
      /\ L1!FromEB(c) <=> array[c] = "I" /\ evict[c] # L1!NoEvict
  BY DEF copyV, leavingV, missV, L1!WaitingMaf, Wt, L1!BlockState, L1!FromEB
<1>3. evict[c].state \in L1!States  BY <1>1 DEF EvictRec
<1> QED  BY <1>1, <1>2, <1>3, NoEvictIs DEF L1OK, Wt

-----------------------------------------------------------------------------
(* A step of one L1 that sends and receives nothing but a request. *)
FrontQuiet == UNCHANGED <<snoops, snoop, toMem, reply, failed>> /\ L1Frame

(* An L1 leaves the L2 and memory alone. *)
LEMMA DirSame == ASSUME L1Frame PROVE UNCHANGED T!dirVars /\ dmaf' = dmaf /\ mem' = mem /\ ceb' = ceb
  BY DEF L1Frame, l2Vars, T!dirVars, victimV

(* The MAF of the L2 is left alone. *)
LEMMA ServeSame ==
  ASSUME dmaf' = dmaf PROVE Srv' = Srv /\ Entries' = Entries /\ UNCHANGED T!serveVars
<1>1. Srv' = Srv /\ Entries' = Entries  BY DEF Srv, Serving, Entries
<1>2. UNCHANGED serveViews  BY <1>1, ServedSame
<1> QED  BY <1>1, <1>2 DEF serveViews, T!serveVars

(* What a request of the core leaves alone. *)
LEMMA FrontFrame ==
  ASSUME CInv, FrontQuiet
  PROVE  /\ SnoopInv' /\ AskInv' /\ ReplyInv' /\ FromDir(Rp)' = FromDir(Rp)
         /\ repliesV' = repliesV /\ UNCHANGED T!tokenVars
         /\ UNCHANGED T!serveVars /\ UNCHANGED T!dirVars /\ dmaf' = dmaf
         /\ \A d \in Cores : Bf(d)' = Bf(d)
<1>0. snoops' = snoops /\ snoop' = snoop /\ toMem' = toMem /\ reply' = reply  BY DEF FrontQuiet
<1>1. SnoopInv' /\ UNCHANGED snoopViews /\ (\A c \in Cores : Sn(c)' = Sn(c) /\ Bf(c)' = Bf(c))
  BY <1>0, SnoopQuiet DEF CInv
<1>2. UNCHANGED T!dirVars /\ dmaf' = dmaf /\ ceb' = ceb  BY DirSame DEF FrontQuiet
<1>3. UNCHANGED T!serveVars  BY <1>2, ServeSame
<1>4. AskInv'  BY <1>1, <1>3, AskSame DEF CInv
<1>5. ReplyInv' /\ repliesV' = repliesV /\ FromDir(Rp)' = FromDir(Rp)  BY <1>0, ReplySame DEF CInv
<1>6. atMemoryV' = atMemoryV  BY <1>0, <1>2, <1>5, MemSame DEF CInv
<1>7. UNCHANGED T!tokenVars  BY <1>1, <1>6 DEF snoopViews, T!tokenVars
<1> QED  BY <1>1, <1>2, <1>3, <1>4, <1>5, <1>7

(* The token protocol sees the same L1. *)
LEMMA SameL1 ==
  ASSUME L1Inv, NEW c \in Cores, NEW a, NEW v, NEW e, NEW f, L1Becomes(c, a, v, e, f),
         copyV[c] = IF a # "I" THEN a ELSE e.state,
         e.pending <=> c \in leavingV,
         ~Wt(c), f.state # "WaitResponse"
  PROVE  UNCHANGED T!l1Vars
<1>1. /\ copyV' = [copyV EXCEPT ![c] = IF a # "I" THEN a ELSE e.state]
      /\ leavingV' = IF e.pending THEN leavingV \cup {c} ELSE leavingV \ {c}
      /\ missV' = [missV EXCEPT ![c] = IF f.state = "WaitResponse" THEN f.op ELSE "None"]
      /\ balanceV' = [balanceV EXCEPT ![c] = IF f.state = "WaitResponse" THEN f.outstanding ELSE 0]
      /\ filledV' = IF f.state = "WaitResponse" /\ f.dataReceived
                    THEN filledV \cup {c} ELSE filledV \ {c}
  BY L1Views
<1>2. copyV' = copyV  BY <1>1 DEF copyV
<1>3. missV' = missV  BY <1>1 DEF missV
<1>4. balanceV' = balanceV  BY <1>1 DEF balanceV
<1>5. filledV' = filledV  BY <1>1 DEF filledV
<1>6. leavingV' = leavingV  BY <1>1
<1> QED  BY <1>2, <1>3, <1>4, <1>5, <1>6 DEF T!l1Vars

(* A request of the core that is a hit or has to wait. *)
LEMMA FrontStutter ==
  ASSUME CInv, FrontQuiet, request' = request, latest' \in Version,
         NEW c \in Cores, NEW a, NEW v, NEW e, NEW f, L1Becomes(c, a, v, e, f),
         copyV[c] = IF a # "I" THEN a ELSE e.state,
         e.pending <=> c \in leavingV, ~Wt(c), f.state # "WaitResponse",
         L1OK(a, e, f, EvictSnoopIn(Bf(c)))
  PROVE  CInv' /\ TStep
<1>1. L1Inv /\ PostInv  BY DEF CInv
<1>2. UNCHANGED T!l1Vars  BY <1>1, SameL1
<1>3. /\ SnoopInv' /\ AskInv' /\ ReplyInv' /\ FromDir(Rp)' = FromDir(Rp)
      /\ repliesV' = repliesV /\ UNCHANGED T!tokenVars
      /\ UNCHANGED T!serveVars /\ UNCHANGED T!dirVars /\ dmaf' = dmaf
      /\ \A d \in Cores : Bf(d)' = Bf(d)
  BY FrontFrame
<1>4. PostInv' /\ UNCHANGED T!postVars  BY <1>1, <1>3, PostSame
<1>5. TStep  BY <1>2, <1>3, <1>4, Stutters DEF T!vars
<1>6. EvictSnoopIn(Bf(c))' = EvictSnoopIn(Bf(c))  BY <1>3 DEF EvictSnoopIn
<1>7. L1Inv'  BY <1>1, <1>3, <1>6, L1InvBecomes
<1>8. failed' = failed /\ toMem' = toMem /\ L1Frame  BY DEF FrontQuiet
<1> QED  BY <1>3, <1>4, <1>5, <1>7, <1>8, L1Keeps

(* Nothing of the directory waits for this core. *)
LEMMA NoneHeld ==
  ASSUME SnoopInv, NEW c \in Cores, ~L1!HasEntry(snoops[c])
  PROVE  Bf(c) = {} /\ T!NothingHeld(c) /\ ~EvictSnoopIn(Bf(c))
<1>1. Bf(c) = {}  BY EmptySet DEF L1!HasEntry, Bf, Buffered
<1>2. Hd(c) = {}  BY <1>1 DEF Hd, Of
<1>3. \A x \in Cores : <<x, c>> \notin heldV  BY <1>2 DEF heldV, Hd
<1> QED  BY <1>1, <1>3 DEF T!NothingHeld, EvictSnoopIn

(* A store hits a writable copy. *)
LEMMA StoreHitKeeps ==
  ASSUME CInv, FrontQuiet, request' = request, latest' \in Version,
         NEW c \in Cores, NEW v, L1Becomes(c, "M", v, L1!NoEvict, L1!NoMaf),
         copyV[c] \in {"E", "M"}, c \notin leavingV, ~Wt(c), ~L1!HasEntry(snoops[c])
  PROVE  CInv' /\ TStep
<1>1. L1Inv /\ PostInv /\ SnoopInv  BY DEF CInv
<1>2. /\ copyV' = [copyV EXCEPT ![c] = "M"] /\ leavingV' = leavingV \ {c}
      /\ missV' = [missV EXCEPT ![c] = "None"] /\ balanceV' = [balanceV EXCEPT ![c] = 0]
      /\ filledV' = filledV \ {c}
  BY <1>1, L1Views, NoEvictIs, NoMafIs
<1>3. missV' = missV /\ balanceV' = balanceV /\ filledV' = filledV /\ leavingV' = leavingV
  <2>1. /\ missV = [d \in Cores |-> missV[d]] /\ missV[c] = "None"
        /\ balanceV = [d \in Cores |-> balanceV[d]] /\ balanceV[c] = 0
    BY DEF missV, balanceV
  <2>2. c \notin filledV
    BY DEF filledV
  <2> QED  BY <1>2, <2>1, <2>2
<1>4. /\ SnoopInv' /\ AskInv' /\ ReplyInv' /\ FromDir(Rp)' = FromDir(Rp)
      /\ repliesV' = repliesV /\ UNCHANGED T!tokenVars
      /\ UNCHANGED T!serveVars /\ UNCHANGED T!dirVars /\ dmaf' = dmaf
      /\ \A d \in Cores : Bf(d)' = Bf(d)
  BY FrontFrame
<1>5. PostInv' /\ UNCHANGED T!postVars  BY <1>1, <1>4, PostSame
<1>6. T!NothingHeld(c) /\ ~EvictSnoopIn(Bf(c))  BY <1>1, NoneHeld
<1>7. missV[c] = "None"  BY DEF missV
<1>8. T!StoreHit(c)  BY <1>2, <1>3, <1>4, <1>5, <1>6, <1>7 DEF T!StoreHit, T!Idle
<1>9. TStep  BY <1>8, T!CoreSteps DEF TStep
<1>10. ~EvictSnoopIn(Bf(c))'  BY <1>4, <1>6 DEF EvictSnoopIn
<1>11. L1OK("M", L1!NoEvict, L1!NoMaf, EvictSnoopIn(Bf(c))')  BY <1>10, NoEvictIs, NoMafIs DEF L1OK
<1>12. L1Inv'  BY <1>1, <1>4, <1>11, L1InvBecomes
<1>13. failed' = failed /\ toMem' = toMem /\ L1Frame  BY DEF FrontQuiet
<1> QED  BY <1>4, <1>5, <1>9, <1>12, <1>13, L1Keeps

(* The slot of a core's request is free while it has no miss. *)
LEMMA NoMissFree ==
  ASSUME CInv, NEW c \in Cores, ~Wt(c)
  PROVE  SlotFree(c, FALSE)
<1>1. missV[c] = "None"  BY DEF missV
<1>2. c \notin readsV /\ c \notin writesV /\ c \notin upgradesV
  BY <1>1 DEF CInv, T!Inv, T!PostedMiss
<1>3. \A m \in Pst : Posting(m)  BY PstIs DEF CInv, PostInv
<1> QED  BY <1>2, <1>3 DEF SlotFree, readsV, writesV, upgradesV, Of, Posting, IsEvict, RequestTypes

(* A miss is sent to the directory. *)
LEMMA MissKeeps ==
  ASSUME CInv, FrontQuiet, latest' \in Version, NEW c \in Cores, NEW op \in {"Load", "Store"},
         NEW a, NEW v, NEW f, L1Becomes(c, a, v, L1!NoEvict, f), f = L1!MafEntry("WaitResponse", op),
         copyV[c] = a, c \notin leavingV, ~Wt(c), ~L1!HasEntry(snoops[c]),
         NEW m, NEW t, Fields(m, t, c, Dir, c, 0),
         request' = [request EXCEPT ![c] = Append(@, m)],
         \/ op = "Load" /\ a = "I" /\ t = "ReadReq"
         \/ op = "Store" /\ a = "I" /\ t = "WriteReq"
         \/ op = "Store" /\ a = "S" /\ t = "UpgradeReq"
  PROVE  CInv' /\ TStep
<1>1. L1Inv /\ PostInv /\ SnoopInv  BY DEF CInv
<1>2. f.state = "WaitResponse" /\ f.op = op /\ f.outstanding = 0 /\ ~f.dataReceived /\ ~f.woken
  BY MafEntryIs
<1>3. /\ copyV' = [copyV EXCEPT ![c] = a] /\ leavingV' = leavingV \ {c}
      /\ missV' = [missV EXCEPT ![c] = op] /\ balanceV' = [balanceV EXCEPT ![c] = 0]
      /\ filledV' = filledV \ {c}
  BY <1>1, <1>2, L1Views, NoEvictIs
<1>4. copyV' = copyV /\ balanceV' = balanceV /\ filledV' = filledV /\ leavingV' = leavingV
  <2>1. copyV' = copyV  BY <1>3 DEF copyV
  <2>2. balanceV' = balanceV  BY <1>3 DEF balanceV
  <2>3. filledV' = filledV  BY <1>3 DEF filledV
  <2>4. leavingV' = leavingV  BY <1>3
  <2> QED  BY <2>1, <2>2, <2>3, <2>4
<1>5. /\ SnoopInv' /\ AskInv' /\ ReplyInv' /\ FromDir(Rp)' = FromDir(Rp)
      /\ repliesV' = repliesV /\ UNCHANGED T!tokenVars
      /\ UNCHANGED T!serveVars /\ UNCHANGED T!dirVars /\ dmaf' = dmaf
      /\ \A d \in Cores : Bf(d)' = Bf(d)
  BY FrontFrame
<1>6. m \in Message /\ m.type = t /\ m.requester = c  BY DEF Fields, T!Is
<1>7. Posting(m) /\ ~IsEvict(m)  BY <1>6 DEF Posting, IsEvict, RequestTypes, EvictTypes
<1>8. SlotFree(c, IsEvict(m))  BY <1>7, NoMissFree DEF SlotFree
<1>9. PostInv' /\ Pst' = Pst \cup {m}  BY <1>1, <1>5, <1>6, <1>7, <1>8, PostRequest
<1>10. /\ readsV' = IF t = "ReadReq" THEN readsV \cup {c} ELSE readsV
       /\ writesV' = IF t = "WriteReq" THEN writesV \cup {c} ELSE writesV
       /\ upgradesV' = IF t = "UpgradeReq" THEN upgradesV \cup {c} ELSE upgradesV
       /\ cleansV' = cleansV /\ dirtiesV' = dirtiesV
  BY <1>6, <1>9, PostedMore
<1>11. T!NothingHeld(c) /\ ~EvictSnoopIn(Bf(c))  BY <1>1, NoneHeld
<1>12. missV[c] = "None"  BY DEF missV
<1>13. T!Missed(c, op)
  BY <1>3, <1>4, <1>5, <1>10, <1>11, <1>12 DEF T!Missed, T!Idle
<1>14. T!LoadMiss(c) \/ T!StoreMiss(c) \/ T!UpgradeMiss(c)
  BY <1>10, <1>13 DEF T!LoadMiss, T!StoreMiss, T!UpgradeMiss
<1>15. TStep  BY <1>14, T!CoreSteps DEF TStep
<1>16. ~EvictSnoopIn(Bf(c))'  BY <1>5, <1>11 DEF EvictSnoopIn
<1>17. L1OK(a, L1!NoEvict, f, EvictSnoopIn(Bf(c))')  BY <1>2, <1>16, NoEvictIs DEF L1OK
<1>18. L1Inv'  BY <1>1, <1>5, <1>17, L1InvBecomes
<1>19. failed' = failed /\ toMem' = toMem /\ L1Frame  BY DEF FrontQuiet
<1> QED  BY <1>5, <1>9, <1>15, <1>18, <1>19, L1Keeps

(* Stored values stay in their range. *)
LEMMA NextVersionIs == ASSUME latest \in Version PROVE L1!NextVersion \in Version
<1>1. Vers \in Nat \ {0} /\ latest \in Nat  BY VersAssumption DEF Version
<1>2. (latest + 1) % Vers \in 0 .. Vers - 1  BY <1>1
<1> QED  BY <1>2 DEF L1!NextVersion, Version

(* What DoRequest does at c. *)
LEMMA ExceptSame ==
  ASSUME NEW S, NEW f \in [Cores -> S], NEW c \in Cores, NEW g, g = f
  PROVE  g = [f EXCEPT ![c] = f[c]]
  OBVIOUS

(* ... and the variables of an L1. *)
LEMMA Unmoved ==
  ASSUME L1Inv, NEW c \in Cores
  PROVE  /\ array' = array => array' = [array EXCEPT ![c] = array[c]]
         /\ data' = data => data' = [data EXCEPT ![c] = data[c]]
         /\ evict' = evict => evict' = [evict EXCEPT ![c] = evict[c]]
         /\ maf' = maf => maf' = [maf EXCEPT ![c] = maf[c]]
<1>1. /\ array \in [Cores -> L1!States] /\ data \in [Cores -> Version]
      /\ evict \in [Cores -> EvictRec] /\ maf \in [Cores -> MafRec]
  BY DEF L1Inv, EvictRec, MafRec
<1>2. array' = array => array' = [array EXCEPT ![c] = array[c]]  BY <1>1, ExceptSame
<1>3. data' = data => data' = [data EXCEPT ![c] = data[c]]  BY <1>1, ExceptSame
<1>4. evict' = evict => evict' = [evict EXCEPT ![c] = evict[c]]  BY <1>1, ExceptSame
<1>5. maf' = maf => maf' = [maf EXCEPT ![c] = maf[c]]  BY <1>1, ExceptSame
<1> QED  BY <1>2, <1>3, <1>4, <1>5

(* A request for a block whose eviction is announced waits (kWaitEvict). *)
LEMMA WaitEvictKeeps ==
  ASSUME CInv, FrontQuiet, NEW c \in Cores, NEW op \in {"Load", "Store"}, ~Wt(c),
         L1!FromEB(c) /\ evict[c].pending, L1!DoRequest(c, op)
  PROVE  CInv' /\ TStep
<1> DEFINE f == L1!MafEntry("WaitEvict", op)
<1>1. L1Inv /\ latest \in Version  BY DEF CInv
<1>2. /\ maf' = [maf EXCEPT ![c] = f] /\ array' = array /\ data' = data /\ evict' = evict
      /\ request' = request /\ latest' = latest
  BY DEF L1!DoRequest
<1>3. f \in MafRec /\ f.state = "WaitEvict" /\ f.op = op /\ ~f.woken  BY MafEntryIs
<1> HIDE DEF f
<1>4. /\ L1OK(array[c], evict[c], maf[c], EvictSnoopIn(Bf(c)))
      /\ array[c] \in L1!States /\ data[c] \in Version
      /\ evict[c] \in EvictRec /\ maf[c] \in MafRec
  BY <1>1, L1AtIs
<1>5. L1Becomes(c, array[c], data[c], evict[c], f)  BY <1>1, <1>2, <1>3, <1>4, Unmoved DEF L1Becomes
<1>6. L1OK(array[c], evict[c], f, EvictSnoopIn(Bf(c)))
  BY <1>3, <1>4, NoEvictIs DEF L1OK
<1>7. /\ copyV[c] = IF array[c] # "I" THEN array[c] ELSE evict[c].state
      /\ evict[c].pending <=> c \in leavingV
  BY <1>1, BlockIs
<1> QED  BY <1>1, <1>2, <1>3, <1>5, <1>6, <1>7, FrontStutter

(* The block that is not on its way out moves into the array. *)
LEMMA PulledIs ==
  ASSUME CInv, NEW c \in Cores, ~Wt(c), ~(L1!FromEB(c) /\ evict[c].pending)
  PROVE  c \notin leavingV /\ L1!BlockState(c) = copyV[c] /\ copyV[c] \in L1!States
<1>1. L1Inv  BY DEF CInv
<1> QED  BY <1>1, BlockIs

(* A request for a block with a snoop at the core waits (kWaitSnoop). *)
LEMMA WaitSnoopKeeps ==
  ASSUME CInv, FrontQuiet, NEW c \in Cores, NEW op \in {"Load", "Store"}, ~Wt(c),
         ~(L1!FromEB(c) /\ evict[c].pending), L1!HasEntry(snoops[c]), L1!DoRequest(c, op)
  PROVE  CInv' /\ TStep
<1> DEFINE f == L1!MafEntry("WaitSnoop", op)
<1>1. L1Inv /\ latest \in Version  BY DEF CInv
<1>2. c \notin leavingV /\ L1!BlockState(c) = copyV[c] /\ copyV[c] \in L1!States  BY PulledIs
<1>3. /\ maf' = [maf EXCEPT ![c] = f] /\ array' = [array EXCEPT ![c] = copyV[c]] /\ data' = data
      /\ evict' = [evict EXCEPT ![c] = L1!NoEvict]
      /\ request' = request /\ latest' = latest
  BY <1>2 DEF L1!DoRequest
<1>4. f \in MafRec /\ f.state = "WaitSnoop" /\ f.op = op /\ ~f.woken  BY MafEntryIs
<1> HIDE DEF f
<1>5. data[c] \in Version  BY <1>1, L1AtIs
<1>6. L1Becomes(c, copyV[c], data[c], L1!NoEvict, f)
  BY <1>1, <1>2, <1>3, <1>4, <1>5, Unmoved, NoEvictIs DEF L1Becomes
<1>7. L1OK(copyV[c], L1!NoEvict, f, EvictSnoopIn(Bf(c)))  BY <1>4, NoEvictIs DEF L1OK
<1> QED  BY <1>1, <1>2, <1>3, <1>4, <1>6, <1>7, NoEvictIs, FrontStutter

(* A request that can go on, as a hit or as a miss. *)
LEMMA AccessKeeps ==
  ASSUME CInv, FrontQuiet, NEW c \in Cores, NEW op \in {"Load", "Store"}, ~Wt(c),
         ~(L1!FromEB(c) /\ evict[c].pending), ~L1!HasEntry(snoops[c]), L1!DoRequest(c, op)
  PROVE  CInv' /\ TStep
<1>1. L1Inv /\ latest \in Version /\ SnoopInv  BY DEF CInv
<1>2. c \notin leavingV /\ L1!BlockState(c) = copyV[c] /\ copyV[c] \in L1!States  BY PulledIs
<1>3. evict' = [evict EXCEPT ![c] = L1!NoEvict] /\ L1!Access(c, op, copyV[c])
  BY <1>2 DEF L1!DoRequest
<1>4. data[c] \in Version  BY <1>1, L1AtIs
<1>5. ~EvictSnoopIn(Bf(c))  BY <1>1, NoneHeld
<1>a. CASE /\ op = "Load" /\ copyV[c] # "I"
           /\ array' = [array EXCEPT ![c] = copyV[c]]
           /\ maf' = [maf EXCEPT ![c] = L1!NoMaf]
           /\ UNCHANGED <<request, data, latest>>
  <2>1. L1Becomes(c, copyV[c], data[c], L1!NoEvict, L1!NoMaf)
    BY <1>1, <1>2, <1>3, <1>4, <1>a, Unmoved, NoEvictIs, NoMafIs DEF L1Becomes
  <2>2. L1OK(copyV[c], L1!NoEvict, L1!NoMaf, EvictSnoopIn(Bf(c)))
    BY <1>5, NoEvictIs, NoMafIs DEF L1OK
  <2>3. request' = request /\ latest' = latest  BY <1>a
  <2> QED  BY <1>1, <1>2, <2>1, <2>2, <2>3, NoEvictIs, NoMafIs, FrontStutter
<1>b. CASE /\ op = "Store" /\ copyV[c] \in {"E", "M"}
           /\ L1!PerformStore(c)
           /\ maf' = [maf EXCEPT ![c] = L1!NoMaf]
           /\ UNCHANGED request
  <2>0. L1!NextVersion \in Version  BY <1>1, NextVersionIs
  <2>1. array' = [array EXCEPT ![c] = "M"] /\ data' = [data EXCEPT ![c] = L1!NextVersion]
        /\ latest' = L1!NextVersion /\ request' = request
    BY <1>b DEF L1!PerformStore
  <2>2. L1Becomes(c, "M", L1!NextVersion, L1!NoEvict, L1!NoMaf)
    BY <1>3, <1>b, <2>0, <2>1, NoEvictIs, NoMafIs DEF L1Becomes, L1!States
  <2> QED  BY <1>2, <1>b, <2>0, <2>1, <2>2, StoreHitKeeps
<1>c. CASE /\ copyV[c] = "I" \/ (op = "Store" /\ copyV[c] = "S")
           /\ L1!SendRequest(c, IF op = "Load" THEN "ReadReq"
                             ELSE IF copyV[c] = "I" THEN "WriteReq" ELSE "UpgradeReq")
           /\ array' = [array EXCEPT ![c] = copyV[c]]
           /\ maf' = [maf EXCEPT ![c] = L1!MafEntry("WaitResponse", op)]
           /\ UNCHANGED <<data, latest>>
  <2> DEFINE t == IF op = "Load" THEN "ReadReq"
                  ELSE IF copyV[c] = "I" THEN "WriteReq" ELSE "UpgradeReq"
             m == L1!Msg(t, c, L1!Dir, c)
             f == L1!MafEntry("WaitResponse", op)
  <2>1. request' = [request EXCEPT ![c] = Append(@, m)]  BY <1>c DEF L1!SendRequest
  <2>2. t \in MessageTypes /\ c \in Cores \cup {Dir} /\ c \in Nodes /\ Dir \in Nodes
    BY DEF MessageTypes, RequestTypes, Nodes
  <2>3. \/ op = "Load" /\ copyV[c] = "I" /\ t = "ReadReq"
        \/ op = "Store" /\ copyV[c] = "I" /\ t = "WriteReq"
        \/ op = "Store" /\ copyV[c] = "S" /\ t = "UpgradeReq"
    BY <1>c
  <2>4. f \in MafRec  BY MafEntryIs
  <2> HIDE DEF t
  <2>5. Fields(m, t, c, Dir, c, 0)  BY <2>2, Names, MsgFields
  <2> HIDE DEF m
  <2>6. L1Becomes(c, copyV[c], data[c], L1!NoEvict, f)
    BY <1>1, <1>2, <1>3, <1>4, <1>c, <2>4, Unmoved, NoEvictIs DEF L1Becomes
  <2>7. f = L1!MafEntry("WaitResponse", op)  OBVIOUS
  <2>8. latest' = latest  BY <1>c
  <2> HIDE DEF f
  <2> QED  BY <1>1, <1>2, <2>1, <2>3, <2>5, <2>6, <2>7, <2>8, MissKeeps
<1> QED  BY <1>3, <1>a, <1>b, <1>c DEF L1!Access

(* CoreRequest and L1WakeMaf. *)
LEMMA FrontKeeps ==
  ASSUME CInv, NEW c \in Cores, CoreRequest(c) \/ L1WakeMaf(c)
  PROVE  CInv' /\ TStep
<1>1. L1At(c) /\ L1Inv  BY DEF CInv, L1Inv
<1>2. PICK op \in {"Load", "Store"} : L1!DoRequest(c, op) /\ FrontQuiet /\ ~Wt(c)
  <2>1. CASE CoreRequest(c)
    BY <2>1, Names DEF CoreRequest, L1!FrontRequest, FrontQuiet, Wt
  <2>2. CASE L1WakeMaf(c)
    <3>1. maf[c].woken /\ L1!DoRequest(c, maf[c].op) /\ FrontQuiet
      BY <2>2 DEF L1WakeMaf, L1!WakeMaf, FrontQuiet
    <3>2. ~Wt(c) /\ maf[c].op \in {"Load", "Store"}  BY <1>1, <3>1 DEF L1At, Wt
    <3> QED  BY <3>1, <3>2
  <2> QED  BY <2>1, <2>2
<1> QED  BY <1>2, WaitEvictKeeps, WaitSnoopKeeps, AccessKeeps

-----------------------------------------------------------------------------
(* Replacement in an L1, and the core's own snoop for it. *)
LEMMA EvictEntryIs ==
  ASSUME NEW s \in L1!States, NEW e, e = L1!EvictEntry(s)
  PROVE  e \in EvictRec /\ e.state = s /\ ~e.pending /\ ~e.evictable /\ e.snoopRequired
  BY DEF L1!EvictEntry, EvictRec

(* A block moves to the evict buffer (evictBlock). *)
LEMMA ReplacementKeeps ==
  ASSUME CInv, ~EarlyVictim, NEW c \in Cores, L1Replacement(c)
  PROVE  CInv' /\ TStep
<1> DEFINE e == L1!EvictEntry(array[c])
<1>1. L1Inv /\ latest \in Version  BY DEF CInv
<1>2. /\ array[c] # "I" /\ ~L1!WaitingMaf(c) /\ maf[c].state # "WaitSnoop"
      /\ evict' = [evict EXCEPT ![c] = e] /\ array' = [array EXCEPT ![c] = "I"]
      /\ data' = data /\ maf' = maf /\ request' = request /\ latest' = latest
      /\ FrontQuiet
  BY DEF L1Replacement, L1!Victimize, L1!netVars, FrontQuiet
<1>3. /\ L1OK(array[c], evict[c], maf[c], EvictSnoopIn(Bf(c)))
      /\ array[c] \in L1!States /\ data[c] \in Version
      /\ evict[c] \in EvictRec /\ maf[c] \in MafRec
  BY <1>1, L1AtIs
<1>4. e \in EvictRec /\ e.state = array[c] /\ ~e.pending /\ ~e.evictable /\ e.snoopRequired
  BY <1>3, EvictEntryIs
<1> HIDE DEF e
<1>5. L1Becomes(c, "I", data[c], e, maf[c])
  BY <1>1, <1>2, <1>3, <1>4, Unmoved DEF L1Becomes, L1!States
<1>6. ~Wt(c) /\ maf[c].state # "WaitResponse"  BY <1>2 DEF L1!WaitingMaf, Wt
<1>7. ~EvictSnoopIn(Bf(c))  BY <1>2, <1>3 DEF L1OK
<1>8. L1OK("I", e, maf[c], EvictSnoopIn(Bf(c)))
  BY <1>2, <1>3, <1>4, <1>6, <1>7 DEF L1OK
<1>9. copyV[c] = array[c] /\ c \notin leavingV  BY <1>1, <1>2, BlockIs, NoEvictIs
<1> QED  BY <1>1, <1>2, <1>4, <1>5, <1>6, <1>8, <1>9, FrontStutter

(* The snoop channel and the snoop buffer of one L1 change. *)
SnoopBecomes(c, q, sb) ==
  /\ snoop' = [snoop EXCEPT ![c] = q] /\ snoops' = [snoops EXCEPT ![c] = sb]

(* The snoops of all L1s are in order if those of the changed one are. *)
LEMMA SnoopInvBecomes ==
  ASSUME SnoopInv, NEW c \in Cores, NEW q, NEW sb, SnoopBecomes(c, q, sb), SnoopsOK(c, q, sb)
  PROVE  SnoopInv' /\ OnlyAt(c) /\ Sn(c)' = ToSet(q) /\ Bf(c)' = Buffered(sb)
<1>1. q \in Seq(Message) /\ sb \in SnoopBuffer  BY DEF SnoopsOK
<1>2. snoop' \in [Cores -> Seq(Message)] /\ snoops' \in [Cores -> SnoopBuffer]
  BY <1>1 DEF SnoopInv, SnoopBecomes
<1>3. /\ snoop'[c] = q /\ snoops'[c] = sb
      /\ \A d \in Cores : d # c => snoop'[d] = snoop[d] /\ snoops'[d] = snoops[d]
  BY DEF SnoopInv, SnoopBecomes
<1>4. \A d \in Cores : SnoopsOK(d, snoop'[d], snoops'[d])  BY <1>3 DEF SnoopInv
<1>5. SnoopInv'
  <2>1. \A d \in Cores : SnoopsOK(d, snoop[d], snoops[d])'
    <3>1. ASSUME NEW d, NEW x, NEW y PROVE SnoopsOK(d, x, y) <=> SnoopsOK(d, x, y)  OBVIOUS
    <3> QED  BY <1>4
  <2> QED  BY <1>2, <2>1 DEF SnoopInv
<1> QED  BY <1>3, <1>5 DEF OnlyAt, Sn, Bf

(* What the invariant says of the snoops of one L1. *)
LEMMA SnoopSeqs ==
  ASSUME SnoopInv, NEW c \in Cores
  PROVE  /\ SnoopsOK(c, snoop[c], snoops[c]) /\ snoop[c] \in Seq(Message) /\ snoops[c] \in SnoopBuffer
         /\ snoop' = snoop => snoop' = [snoop EXCEPT ![c] = snoop[c]]
         /\ snoops' = snoops => snoops' = [snoops EXCEPT ![c] = snoops[c]]
         /\ Sn(c) = ToSet(snoop[c]) /\ Bf(c) = Buffered(snoops[c])
<1>1. /\ snoop \in [Cores -> Seq(Message)] /\ snoops \in [Cores -> SnoopBuffer]
      /\ SnoopsOK(c, snoop[c], snoops[c])
  BY DEF SnoopInv
<1>2. snoop' = snoop => snoop' = [snoop EXCEPT ![c] = snoop[c]]  BY <1>1, ExceptSame
<1>3. snoops' = snoops => snoops' = [snoops EXCEPT ![c] = snoops[c]]  BY <1>1, ExceptSame
<1> QED  BY <1>1, <1>2, <1>3 DEF Sn, Bf

(* A step of an L1 that posts no request. *)
BackQuiet == UNCHANGED <<request, toMem, failed, latest>> /\ L1Frame

(* What a snoop leaves alone. *)
LEMMA BackFrame ==
  ASSUME CInv, BackQuiet, FromDir(Rp)' = FromDir(Rp)
  PROVE  /\ PostInv' /\ UNCHANGED T!postVars /\ UNCHANGED T!serveVars /\ UNCHANGED T!dirVars
         /\ atMemoryV' = atMemoryV
<1>1. UNCHANGED T!dirVars /\ dmaf' = dmaf /\ ceb' = ceb  BY DirSame DEF BackQuiet
<1>2. PostInv' /\ UNCHANGED T!postVars /\ UNCHANGED T!serveVars
  BY <1>1, PostSame DEF CInv, BackQuiet
<1>3. atMemoryV' = atMemoryV  BY <1>1, MemSame DEF CInv, BackQuiet
<1> QED  BY <1>1, <1>2, <1>3

(* A snoop keeps the invariant if the parts it can disturb hold. *)
LEMMA BackKeeps ==
  ASSUME CInv, BackQuiet, FromDir(Rp)' = FromDir(Rp), TStep, SnoopInv', AskInv', ReplyInv', L1Inv'
  PROVE  CInv' /\ TStep
<1>1. PostInv'  BY BackFrame
<1>2. failed' = failed /\ toMem' = toMem /\ latest' \in Version /\ L1Frame  BY DEF BackQuiet, CInv
<1> QED  BY <1>1, <1>2, L1Keeps

(* Only the copy changes. *)
LEMMA CopyChanges ==
  ASSUME L1Inv, NEW c \in Cores, NEW a, NEW v, NEW e, NEW f, L1Becomes(c, a, v, e, f),
         e.pending <=> c \in leavingV,
         f.state = maf[c].state, f.op = maf[c].op, f.outstanding = maf[c].outstanding,
         f.dataReceived <=> maf[c].dataReceived
  PROVE  /\ copyV' = [copyV EXCEPT ![c] = IF a # "I" THEN a ELSE e.state]
         /\ UNCHANGED <<leavingV, missV, balanceV, filledV>>
<1>1. /\ copyV' = [copyV EXCEPT ![c] = IF a # "I" THEN a ELSE e.state]
      /\ leavingV' = IF e.pending THEN leavingV \cup {c} ELSE leavingV \ {c}
      /\ missV' = [missV EXCEPT ![c] = IF f.state = "WaitResponse" THEN f.op ELSE "None"]
      /\ balanceV' = [balanceV EXCEPT ![c] = IF f.state = "WaitResponse" THEN f.outstanding ELSE 0]
      /\ filledV' = IF f.state = "WaitResponse" /\ f.dataReceived
                    THEN filledV \cup {c} ELSE filledV \ {c}
  BY L1Views
<1>3. missV' = missV  BY <1>1 DEF missV, Wt
<1>4. balanceV' = balanceV  BY <1>1 DEF balanceV, Wt
<1>5. filledV' = filledV  BY <1>1 DEF filledV, Wt
<1>6. leavingV' = leavingV  BY <1>1
<1> QED  BY <1>1, <1>3, <1>4, <1>5, <1>6

(* The copy is what it was. *)
LEMMA CopySame ==
  ASSUME NEW c \in Cores, NEW s, copyV' = [copyV EXCEPT ![c] = s], s = copyV[c]
  PROVE  copyV' = copyV
  BY DEF copyV

(* Nothing the directory sent goes or comes. *)
LEMMA BackStutter ==
  ASSUME CInv, BackQuiet, reply' = reply,
         NEW c \in Cores, NEW a, NEW v, NEW e, NEW f, L1Becomes(c, a, v, e, f),
         copyV[c] = IF a # "I" THEN a ELSE e.state, e.pending <=> c \in leavingV,
         f.state = maf[c].state, f.op = maf[c].op, f.outstanding = maf[c].outstanding,
         f.dataReceived <=> maf[c].dataReceived,
         OnlyAt(c), SnoopInv', UNCHANGED snoopViews,
         \A m \in Sn(c)' \cup Bf(c)' : Asks(m) => m \in Sn(c) \cup Bf(c),
         L1OK(a, e, f, EvictSnoopIn(Bf(c))')
  PROVE  CInv' /\ TStep
<1>1. L1Inv /\ AskInv  BY DEF CInv
<1>2. ReplyInv' /\ repliesV' = repliesV /\ FromDir(Rp)' = FromDir(Rp)  BY ReplySame DEF CInv
<1>3. /\ PostInv' /\ UNCHANGED T!postVars /\ UNCHANGED T!serveVars /\ UNCHANGED T!dirVars
      /\ atMemoryV' = atMemoryV
  BY <1>2, BackFrame
<1>4. copyV' = copyV /\ UNCHANGED <<leavingV, missV, balanceV, filledV>>
  BY <1>1, CopyChanges, CopySame
<1>5. UNCHANGED T!l1Vars  BY <1>4 DEF T!l1Vars
<1>6. UNCHANGED T!tokenVars  BY <1>3 DEF snoopViews, T!tokenVars
<1>7. TStep  BY <1>2, <1>3, <1>5, <1>6, Stutters DEF T!vars
<1>8. \A d \in Cores : \A m \in Sn(d)' \cup Bf(d)' : Asks(m) => m \in Sn(d) \cup Bf(d)
  BY DEF OnlyAt
<1>9. AskInv'  BY <1>1, <1>3, <1>8, AskSame
<1>10. L1Inv'  BY <1>1, L1InvBecomes DEF OnlyAt
<1> QED  BY <1>2, <1>7, <1>9, <1>10, BackKeeps

(* The eviction's snoop of c is none of the messages c has. *)
LEMMA EvictSnoopNew ==
  ASSUME SnoopInv, NEW c \in Cores, ~EvictSnoopIn(Bf(c))
  PROVE  \A n \in ToSet(snoop[c]) \cup Buffered(snoops[c]) : n.type # "EvictClean"
<1>1. SnoopsOK(c, snoop[c], snoops[c])  BY DEF SnoopInv
<1> QED  BY <1>1 DEF SnoopsOK, DirSnoop, EvictSnoopIn, Bf

(* The core is asked at once, or when it has answered the snoop before. *)
LEMMA CoreSnooped ==
  ASSUME NEW c \in Cores, NEW q, NEW sb, SnoopsOK(c, q, sb), NEW m \in Message,
         DirSnoop(m) \/ (m.type = "EvictClean" /\ m.requester = c),
         \A n \in ToSet(q) \cup Buffered(sb) : n.type # m.type \/ n.requester # m.requester,
         L1!SnoopCore(c, m, sb)
  PROVE  \E r : /\ snoops' = [snoops EXCEPT ![c] = r]
               /\ SnoopsOK(c, q, r) /\ Buffered(r) = Buffered(sb) \cup {m} /\ r.waking = sb.waking
<1> DEFINE r == IF L1!HasEntry(sb) THEN [sb EXCEPT !.waiting = Append(@, m)]
                ELSE [sb EXCEPT !.active = <<m>>]
<1>1. snoops' = [snoops EXCEPT ![c] = r]  BY DEF L1!SnoopCore
<1>2. r = IF L1!HasEntry(sb) THEN [sb EXCEPT !.waiting = Append(@, m)]
          ELSE [sb EXCEPT !.active = <<m>>]
  OBVIOUS
<1> HIDE DEF r
<1>3. SnoopsOK(c, q, r) /\ Buffered(r) = Buffered(sb) \cup {m} /\ r.waking = sb.waking
  BY <1>2, SnoopQueued
<1> QED  BY <1>1, <1>3

(* The core is asked to give up an evicted block (handleIdleWork). *)
LEMMA IdleKeeps ==
  ASSUME CInv, NEW c \in Cores, L1Idle(c)
  PROVE  CInv' /\ TStep
<1> DEFINE m == L1!EvictSnoop(c)
           e == [evict[c] EXCEPT !.snoopRequired = FALSE]
<1>1. L1Inv /\ SnoopInv  BY DEF CInv
<1>2. /\ evict[c].snoopRequired /\ evict' = [evict EXCEPT ![c].snoopRequired = FALSE]
      /\ L1!SnoopCore(c, m, snoops[c])
      /\ array' = array /\ data' = data /\ maf' = maf /\ snoop' = snoop /\ reply' = reply
      /\ BackQuiet
  BY DEF L1Idle, L1!IdleWork, L1!netVars, BackQuiet
<1>3. /\ L1OK(array[c], evict[c], maf[c], EvictSnoopIn(Bf(c)))
      /\ array[c] \in L1!States /\ data[c] \in Version
      /\ evict[c] \in EvictRec /\ maf[c] \in MafRec
  BY <1>1, L1AtIs
<1>4. /\ e \in EvictRec /\ e.state = evict[c].state /\ (e.pending <=> evict[c].pending)
      /\ (e.evictable <=> evict[c].evictable) /\ ~e.snoopRequired
  BY <1>3 DEF EvictRec
<1>5. evict' = [evict EXCEPT ![c] = e]  BY <1>2
<1> HIDE DEF e
<1>6. L1Becomes(c, array[c], data[c], e, maf[c])
  BY <1>1, <1>2, <1>3, <1>4, <1>5, Unmoved DEF L1Becomes
<1>7. ~EvictSnoopIn(Bf(c)) /\ evict[c] # L1!NoEvict /\ evict[c].state # "I" /\ ~evict[c].evictable
  BY <1>2, <1>3, NoEvictIs DEF L1OK
<1>8. L1OK(array[c], e, maf[c], EvictSnoopIn(Bf(c))')
  BY <1>3, <1>4, <1>7, NoEvictIs DEF L1OK
<1>9. m \in Message /\ m.type = "EvictClean" /\ m.requester = c
  BY EvictSnoopFields DEF Fields, T!Is
<1> HIDE DEF m
<1>10. \A n \in ToSet(snoop[c]) \cup Buffered(snoops[c]) : n.type # m.type \/ n.requester # m.requester
  BY <1>1, <1>7, <1>9, EvictSnoopNew
<1>11. SnoopsOK(c, snoop[c], snoops[c])  BY <1>1, SnoopSeqs
<1>12. PICK r : /\ snoops' = [snoops EXCEPT ![c] = r]
                /\ SnoopsOK(c, snoop[c], r) /\ Buffered(r) = Buffered(snoops[c]) \cup {m}
  BY <1>2, <1>9, <1>10, <1>11, CoreSnooped
<1>13. SnoopBecomes(c, snoop[c], r)  BY <1>1, <1>2, <1>12, SnoopSeqs DEF SnoopBecomes
<1>14. SnoopInv' /\ OnlyAt(c) /\ Sn(c)' = Sn(c) /\ Bf(c)' = Bf(c) \cup {m}
  BY <1>1, <1>12, <1>13, SnoopInvBecomes DEF Sn, Bf
<1>15. SameBuffer(c)  BY <1>9, <1>14 DEF SameBuffer
<1>16. UNCHANGED snoopViews  BY <1>14, <1>15, BufferSame
<1>17. \A n \in Sn(c)' \cup Bf(c)' : Asks(n) => n \in Sn(c) \cup Bf(c)  BY <1>9, <1>14 DEF Asks
<1>18. copyV[c] = (IF array[c] # "I" THEN array[c] ELSE e.state) /\ (e.pending <=> c \in leavingV)
  BY <1>1, <1>4, BlockIs
<1> QED  BY <1>2, <1>6, <1>8, <1>14, <1>16, <1>17, <1>18, BackStutter

(* An L1 has one eviction on its way. *)
LEMMA NoEvictFree ==
  ASSUME CInv, NEW c \in Cores, c \notin leavingV
  PROVE  SlotFree(c, TRUE)
<1>2. c \notin cleansV /\ c \notin dirtiesV
  BY DEF CInv, T!Inv, T!LeavingPosted
<1>3. \A m \in Pst : Posting(m)  BY PstIs DEF CInv, PostInv
<1> QED  BY <1>2, <1>3 DEF SlotFree, cleansV, dirtiesV, Of, Posting, IsEvict, EvictTypes

(* An eviction is announced to the directory (doEviction). *)
LEMMA EvictKeeps ==
  ASSUME CInv, NEW c \in Cores, L1Evict(c)
  PROVE  CInv' /\ TStep
<1> DEFINE e == [evict[c] EXCEPT !.pending = TRUE]
           t == L1!EvictTypeOf(evict[c].state)
           v == IF evict[c].state = "M" THEN data[c] ELSE 0
           m == L1!MsgWithData(t, c, L1!Dir, c, v)
<1>1. L1Inv /\ SnoopInv /\ PostInv /\ latest \in Version  BY DEF CInv
<1>2. /\ evict[c].evictable /\ ~evict[c].pending /\ evict' = [evict EXCEPT ![c].pending = TRUE]
      /\ request' = [request EXCEPT ![c] = Append(@, m)]
      /\ array' = array /\ data' = data /\ maf' = maf /\ latest' = latest /\ FrontQuiet
  BY DEF L1Evict, L1!Evict, FrontQuiet
<1>3. /\ L1OK(array[c], evict[c], maf[c], EvictSnoopIn(Bf(c)))
      /\ array[c] \in L1!States /\ data[c] \in Version
      /\ evict[c] \in EvictRec /\ maf[c] \in MafRec
  BY <1>1, L1AtIs
<1>4. /\ e \in EvictRec /\ e.state = evict[c].state /\ e.pending
      /\ (e.evictable <=> evict[c].evictable) /\ (e.snoopRequired <=> evict[c].snoopRequired)
  BY <1>3 DEF EvictRec
<1>5. evict' = [evict EXCEPT ![c] = e]  BY <1>2
<1> HIDE DEF e
<1>6. L1Becomes(c, array[c], data[c], e, maf[c])
  BY <1>1, <1>2, <1>3, <1>4, <1>5, Unmoved DEF L1Becomes
<1>7. evict[c] # L1!NoEvict /\ array[c] = "I" /\ evict[c].state # "I" /\ ~Wt(c)
      /\ maf[c].state # "WaitSnoop" /\ ~EvictSnoopIn(Bf(c))
  BY <1>2, <1>3, NoEvictIs DEF L1OK, Wt
<1>8. copyV[c] = evict[c].state /\ c \notin leavingV /\ evict[c].state \in L1!States
  BY <1>1, <1>2, <1>7, BlockIs
<1>9. t = CASE copyV[c] = "M" -> "EvictDirty" [] copyV[c] = "E" -> "EvictWritable"
            [] OTHER -> "EvictClean"
  BY <1>8 DEF L1!EvictTypeOf
<1>10. t \in EvictTypes /\ (t = "EvictDirty" <=> copyV[c] = "M")  BY <1>9 DEF EvictTypes
<1>11. v \in Version  BY <1>3, Names
<1> HIDE DEF t, v
<1>12. Fields(m, t, c, Dir, c, 0)
  <2>1. t \in MessageTypes /\ c \in Cores \cup {Dir} /\ c \in Nodes /\ Dir \in Nodes
    BY <1>10 DEF MessageTypes, Nodes
  <2> QED  BY <1>11, <2>1, Names, MsgDataFields
<1>13. m \in Message /\ m.type = t /\ m.requester = c  BY <1>12 DEF Fields, T!Is
<1> HIDE DEF m
<1>14. Posting(m) /\ IsEvict(m)  BY <1>10, <1>13 DEF Posting, IsEvict
<1>15. SlotFree(c, IsEvict(m))  BY <1>8, <1>14, NoEvictFree DEF SlotFree
<1>16. /\ SnoopInv' /\ AskInv' /\ ReplyInv' /\ FromDir(Rp)' = FromDir(Rp)
       /\ repliesV' = repliesV /\ UNCHANGED T!tokenVars
       /\ UNCHANGED T!serveVars /\ UNCHANGED T!dirVars /\ dmaf' = dmaf
       /\ \A d \in Cores : Bf(d)' = Bf(d)
  BY <1>2, FrontFrame
<1>17. PostInv' /\ Pst' = Pst \cup {m}  BY <1>1, <1>2, <1>13, <1>14, <1>15, <1>16, PostRequest
<1>18. /\ readsV' = readsV /\ writesV' = writesV /\ upgradesV' = upgradesV
       /\ cleansV' = (IF copyV[c] = "M" THEN cleansV ELSE cleansV \cup {c})
       /\ dirtiesV' = (IF copyV[c] = "M" THEN dirtiesV \cup {c} ELSE dirtiesV)
  BY <1>10, <1>13, <1>17, PostedMore DEF EvictTypes
<1>19. /\ copyV' = [copyV EXCEPT ![c] = copyV[c]] /\ leavingV' = leavingV \cup {c}
       /\ missV' = [missV EXCEPT ![c] = "None"] /\ balanceV' = [balanceV EXCEPT ![c] = 0]
       /\ filledV' = filledV \ {c}
  BY <1>1, <1>4, <1>6, <1>7, <1>8, L1Views DEF Wt
<1>20. copyV' = copyV /\ balanceV' = balanceV /\ filledV' = filledV /\ missV' = missV
  <2>1. copyV' = copyV  BY <1>19 DEF copyV
  <2>2. balanceV' = balanceV  BY <1>7, <1>19 DEF balanceV
  <2>3. filledV' = filledV  BY <1>7, <1>19 DEF filledV
  <2>4. missV' = missV  BY <1>7, <1>19 DEF missV
  <2> QED  BY <2>1, <2>2, <2>3, <2>4
<1>21. missV[c] = "None"  BY <1>7 DEF missV
<1>22. T!Announce(c)
  BY <1>7, <1>8, <1>16, <1>18, <1>19, <1>20, <1>21 DEF T!Announce, T!Idle
<1>23. TStep  BY <1>22, T!CoreSteps DEF TStep
<1>24. ~EvictSnoopIn(Bf(c))'  BY <1>7, <1>16 DEF EvictSnoopIn
<1>25. L1OK(array[c], e, maf[c], EvictSnoopIn(Bf(c))')
  BY <1>2, <1>3, <1>4, <1>7, <1>24, NoEvictIs DEF L1OK, Wt
<1>26. L1Inv'  BY <1>1, <1>6, <1>16, <1>25, L1InvBecomes
<1>27. failed' = failed /\ toMem' = toMem /\ L1Frame  BY <1>2 DEF FrontQuiet
<1> QED  BY <1>1, <1>2, <1>16, <1>17, <1>23, <1>26, <1>27, L1Keeps

-----------------------------------------------------------------------------
(* A snoop of the directory leaves L1 c, or waits there for the core. *)
Gone(c, m) ==
  /\ DirSnoop(m) /\ SnoopInv' /\ OnlyAt(c)
  /\ \/ m \in Sn(c) /\ Sn(c)' = Sn(c) \ {m} /\ SameBuffer(c)
     \/ m \in Bf(c) /\ Sn(c)' = Sn(c) /\ LessBuffer(c, m)

Kept(c, m) ==
  /\ DirSnoop(m) /\ SnoopInv' /\ OnlyAt(c)
  /\ \/ m \in Sn(c) /\ Sn(c)' = Sn(c) \ {m} /\ MoreBuffer(c, m)
     \/ m \in Bf(c) /\ Sn(c)' = Sn(c) /\ SameBuffer(c)

(* The copy of c becomes s. *)
CopyBecomes(c, s) ==
  /\ L1Inv'
  /\ copyV' = [copyV EXCEPT ![c] = s]
  /\ leavingV' = leavingV /\ missV' = missV /\ balanceV' = balanceV /\ filledV' = filledV

(* The tokens when snoop m is answered, *)
LEMMA GoneViews ==
  ASSUME CInv, NEW c \in Cores, NEW m, Gone(c, m)
  PROVE  /\ m.requester \in Cores
         /\ m.type = "ReadFwd" =>
              /\ fetchesV' = fetchesV /\ invalsV' = invalsV /\ evictAcksV' = evictAcksV
              /\ \/ /\ <<m.requester, c>> \in forwardsV /\ heldV' = heldV
                    /\ forwardsV' = forwardsV \ {<<m.requester, c>>}
                 \/ /\ <<m.requester, c>> \in heldV /\ forwardsV' = forwardsV
                    /\ heldV' = heldV \ {<<m.requester, c>>}
         /\ m.type = "WriteFwd" =>
              /\ c \in fetchesV /\ fetchesV' = fetchesV \ {c} /\ invalsV' = invalsV
              /\ evictAcksV' = evictAcksV /\ forwardsV' = forwardsV /\ heldV' = heldV
              /\ T!Storing(m.requester)
         /\ m.type = "Invalidate" =>
              /\ c \in invalsV /\ invalsV' = invalsV \ {c} /\ fetchesV' = fetchesV
              /\ evictAcksV' = evictAcksV /\ forwardsV' = forwardsV /\ heldV' = heldV
              /\ T!Storing(m.requester)
         /\ \A d \in Cores : \A n \in Sn(d)' \cup Bf(d)' : Asks(n) => n \in Sn(d) \cup Bf(d)
<1>1. SnoopInv /\ AskInv /\ T!Inv  BY DEF CInv
<1>2. m.requester \in Cores /\ OnlyAt(c)  BY DEF Gone, DirSnoop
<1>3. m \in Sn(c) \cup Bf(c)  BY DEF Gone
<1>4. Asks(m) => T!Storing(m.requester)  BY <1>1, <1>3 DEF AskInv
<1>5. /\ m.type = "WriteFwd" => c \in fetchesV
      /\ m.type = "Invalidate" => c \in invalsV
      /\ m.type = "ReadFwd" /\ m \in Sn(c) => <<m.requester, c>> \in forwardsV
      /\ m.type = "ReadFwd" /\ m \in Bf(c) => <<m.requester, c>> \in heldV
  BY <1>2, <1>3 DEF fetchesV, invalsV, Snooped, forwardsV, heldV, Of
<1>6. \A n \in Sn(c)' \cup Bf(c)' : Asks(n) => n \in Sn(c) \cup Bf(c)
  BY DEF Gone, Asks, SameBuffer, LessBuffer
<1>7. \A d \in Cores : \A n \in Sn(d)' \cup Bf(d)' : Asks(n) => n \in Sn(d) \cup Bf(d)
  BY <1>2, <1>6 DEF OnlyAt
<1>8. CASE m \in Sn(c) /\ Sn(c)' = Sn(c) \ {m} /\ SameBuffer(c)
  <2>1. /\ m.type = "ReadFwd" => forwardsV' = forwardsV \ {<<m.requester, c>>}
        /\ m.type # "ReadFwd" => forwardsV' = forwardsV
        /\ heldV' = heldV
        /\ fetchesV' = IF m.type = "WriteFwd" THEN fetchesV \ {c} ELSE fetchesV
        /\ invalsV' = IF m.type = "Invalidate" THEN invalsV \ {c} ELSE invalsV
        /\ evictAcksV' = IF m.type = "EvictAck" THEN evictAcksV \ {c} ELSE evictAcksV
    BY <1>1, <1>2, <1>8, SnoopLess
  <2> QED  BY <1>2, <1>4, <1>5, <1>7, <1>8, <2>1 DEF Asks
<1>9. CASE m \in Bf(c) /\ Sn(c)' = Sn(c) /\ LessBuffer(c, m)
  <2>0. DirSnoop(m)  BY DEF Gone
  <2>1. /\ m.type = "ReadFwd" => heldV' = heldV \ {<<m.requester, c>>}
        /\ m.type # "ReadFwd" => heldV' = heldV
        /\ forwardsV' = forwardsV
        /\ fetchesV' = IF m.type = "WriteFwd" THEN fetchesV \ {c} ELSE fetchesV
        /\ invalsV' = IF m.type = "Invalidate" THEN invalsV \ {c} ELSE invalsV
        /\ evictAcksV' = evictAcksV
    BY <1>1, <1>2, <1>9, <2>0, BufferLess
  <2> QED  BY <1>2, <1>4, <1>5, <1>7, <1>9, <2>1 DEF Asks
<1> QED  BY <1>8, <1>9 DEF Gone

(* ... or goes on waiting. *)
LEMMA KeptViews ==
  ASSUME CInv, NEW c \in Cores, NEW m, Kept(c, m)
  PROVE  /\ m.requester \in Cores
         /\ fetchesV' = fetchesV /\ invalsV' = invalsV /\ evictAcksV' = evictAcksV
         /\ \/ forwardsV' = forwardsV /\ heldV' = heldV
            \/ /\ m.type = "ReadFwd" /\ <<m.requester, c>> \in forwardsV
               /\ forwardsV' = forwardsV \ {<<m.requester, c>>}
               /\ heldV' = heldV \cup {<<m.requester, c>>}
         /\ \A d \in Cores : \A n \in Sn(d)' \cup Bf(d)' : Asks(n) => n \in Sn(d) \cup Bf(d)
<1>1. SnoopInv /\ AskInv /\ T!Inv  BY DEF CInv
<1>2. m.requester \in Cores /\ OnlyAt(c) /\ DirSnoop(m)  BY DEF Kept, DirSnoop
<1>5. m.type = "ReadFwd" /\ m \in Sn(c) => <<m.requester, c>> \in forwardsV
  BY <1>2 DEF forwardsV, Of
<1>6. \A n \in Sn(c)' \cup Bf(c)' : Asks(n) => n \in Sn(c) \cup Bf(c)
  BY DEF Kept, Asks, SameBuffer, MoreBuffer
<1>7. \A d \in Cores : \A n \in Sn(d)' \cup Bf(d)' : Asks(n) => n \in Sn(d) \cup Bf(d)
  BY <1>2, <1>6 DEF OnlyAt
<1>8. CASE m \in Sn(c) /\ Sn(c)' = Sn(c) \ {m} /\ MoreBuffer(c, m)
  <2>1. /\ m.type = "ReadFwd" => /\ forwardsV' = forwardsV \ {<<m.requester, c>>}
                                 /\ heldV' = heldV \cup {<<m.requester, c>>}
        /\ m.type # "ReadFwd" => forwardsV' = forwardsV /\ heldV' = heldV
        /\ fetchesV' = fetchesV /\ invalsV' = invalsV /\ evictAcksV' = evictAcksV
    BY <1>1, <1>2, <1>8, SnoopMoved
  <2> QED  BY <1>2, <1>5, <1>7, <1>8, <2>1
<1>9. CASE m \in Bf(c) /\ Sn(c)' = Sn(c) /\ SameBuffer(c)
  <2>1. UNCHANGED snoopViews  BY <1>2, <1>9, BufferSame
  <2> QED  BY <1>2, <1>7, <2>1 DEF snoopViews
<1> QED  BY <1>8, <1>9 DEF Kept

(* The snoop is answered by reply n. *)
LEMMA SendFrame ==
  ASSUME CInv, BackQuiet, NEW n \in Message, n.requester \in Cores, n \notin repliesV,
         n.outstanding = 0, reply' = reply (+) SetToBag({n}),
         \A d \in Cores : \A k \in Sn(d)' \cup Bf(d)' : Asks(k) => k \in Sn(d) \cup Bf(d)
  PROVE  /\ UNCHANGED T!postVars /\ UNCHANGED T!serveVars /\ UNCHANGED T!dirVars
         /\ atMemoryV' = atMemoryV /\ T!Send(n)
         /\ PostInv' /\ ReplyInv' /\ AskInv' /\ FromDir(Rp)' = FromDir(Rp)
<1>1. n \notin Rp /\ ReplyInv /\ (n.dest = Dir => n.outstanding = 0)  BY DEF repliesV, CInv
<1>2. ReplyStep({}, {n})  BY <1>1, ReplySent
<1>3. ReplyInv' /\ repliesV' = repliesV \cup {n} /\ FromDir(Rp)' = FromDir(Rp)
  <2>1. \A m \in {} \cup {n} : m.requester \in Cores  OBVIOUS
  <2>2. repliesV' = (repliesV \ {}) \cup {n} /\ ReplyInv' /\ FromDir(Rp)' = FromDir(Rp)
    BY <1>2, <2>1, RepliesAre
  <2> QED  BY <2>2
<1>4. /\ PostInv' /\ UNCHANGED T!postVars /\ UNCHANGED T!serveVars /\ UNCHANGED T!dirVars
      /\ atMemoryV' = atMemoryV
  BY <1>3, BackFrame
<1>5. AskInv'  BY <1>4, AskSame DEF CInv
<1> QED  BY <1>3, <1>4, <1>5 DEF T!Send

(* The answers of an L1. *)
LEMMA AnswerKeeps ==
  ASSUME CInv, BackQuiet, NEW c \in Cores, NEW m, Gone(c, m), m.type = "ReadFwd",
         NEW t \in {"FwdReply", "FwdReplyOwned"}, NEW n, Fields(n, t, m.requester, m.requester, c, 0),
         reply' = reply (+) SetToBag({n}),
         CopyBecomes(c, IF copyV[c] = "I" THEN "I" ELSE "S")
  PROVE  CInv' /\ TStep
<1> DEFINE x == m.requester
<1>1. T!Inv  BY DEF CInv
<1>2. /\ x \in Cores /\ fetchesV' = fetchesV /\ invalsV' = invalsV /\ evictAcksV' = evictAcksV
      /\ \/ <<x, c>> \in forwardsV /\ heldV' = heldV /\ forwardsV' = forwardsV \ {<<x, c>>}
         \/ <<x, c>> \in heldV /\ forwardsV' = forwardsV /\ heldV' = heldV \ {<<x, c>>}
      /\ \A d \in Cores : \A k \in Sn(d)' \cup Bf(d)' : Asks(k) => k \in Sn(d) \cup Bf(d)
  BY GoneViews
<1>3. n \in Message /\ n.type = t /\ T!Is(n, t, x, x, c, 0) /\ n.requester = x /\ n.outstanding = 0
  BY DEF Fields, T!Is
<1>4. n \notin repliesV
  <2>1. T!Forwarded(x, c)  BY <1>2 DEF T!Forwarded
  <2> QED  BY <1>1, <1>2, <1>3, <2>1, T!ForwardedFresh
<1>5. /\ UNCHANGED T!postVars /\ UNCHANGED T!serveVars /\ UNCHANGED T!dirVars
      /\ atMemoryV' = atMemoryV /\ T!Send(n)
      /\ PostInv' /\ ReplyInv' /\ AskInv' /\ FromDir(Rp)' = FromDir(Rp)
  BY <1>2, <1>3, <1>4, SendFrame
<1>6. <<x, c>> \in forwardsV => copyV[c] # "I"  BY <1>1, <1>2 DEF T!Inv, T!ForwardFindsCopy
<1>7. T!Answered(c, x, n)
  BY <1>2, <1>3, <1>5 DEF T!Answered, CopyBecomes
<1>8. T!AnswerForward(c, x, n) \/ T!AnswerHeld(c, x, n)
  <2>1. CASE <<x, c>> \in forwardsV /\ heldV' = heldV /\ forwardsV' = forwardsV \ {<<x, c>>}
    BY <1>6, <1>7, <2>1 DEF T!AnswerForward, CopyBecomes
  <2>2. CASE <<x, c>> \in heldV /\ forwardsV' = forwardsV /\ heldV' = heldV \ {<<x, c>>}
    <3>1. copyV' = [copyV EXCEPT ![c] = IF @ = "I" THEN "I" ELSE "S"]  BY DEF CopyBecomes
    <3> QED  BY <1>7, <2>2, <3>1 DEF T!AnswerHeld
  <2> QED  BY <1>2, <2>1, <2>2
<1>9. TStep  BY <1>2, <1>8, T!SendSteps DEF TStep
<1>10. SnoopInv' /\ L1Inv'  BY DEF Gone, CopyBecomes
<1> QED  BY <1>5, <1>9, <1>10, BackKeeps

(* A ReadFwd finds no copy: FwdNAck. *)
LEMMA RefuseKeeps ==
  ASSUME CInv, BackQuiet, NEW c \in Cores, NEW m, Gone(c, m), m.type = "ReadFwd",
         NEW n, Fields(n, "FwdNAck", m.requester, Dir, c, 0),
         reply' = reply (+) SetToBag({n}), copyV[c] = "I", CopyBecomes(c, "I")
  PROVE  CInv' /\ TStep
<1> DEFINE x == m.requester
<1>1. T!Inv  BY DEF CInv
<1>2. /\ x \in Cores /\ fetchesV' = fetchesV /\ invalsV' = invalsV /\ evictAcksV' = evictAcksV
      /\ \/ <<x, c>> \in forwardsV /\ heldV' = heldV /\ forwardsV' = forwardsV \ {<<x, c>>}
         \/ <<x, c>> \in heldV /\ forwardsV' = forwardsV /\ heldV' = heldV \ {<<x, c>>}
      /\ \A d \in Cores : \A k \in Sn(d)' \cup Bf(d)' : Asks(k) => k \in Sn(d) \cup Bf(d)
  BY GoneViews
<1>3. n \in Message /\ T!Is(n, "FwdNAck", x, T!Dir, c, 0) /\ n.requester = x
      /\ n.outstanding = 0
  BY Names DEF Fields, T!Is
<1>4. n \notin repliesV
  <2>1. T!Forwarded(x, c)  BY <1>2 DEF T!Forwarded
  <2> QED  BY <1>1, <1>2, <1>3, <2>1, T!ForwardedFresh
<1>5. /\ UNCHANGED T!postVars /\ UNCHANGED T!serveVars /\ UNCHANGED T!dirVars
      /\ atMemoryV' = atMemoryV /\ T!Send(n)
      /\ PostInv' /\ ReplyInv' /\ AskInv' /\ FromDir(Rp)' = FromDir(Rp)
  BY <1>2, <1>3, <1>4, SendFrame
<1>6. <<x, c>> \notin forwardsV  BY <1>1, <1>2 DEF T!Inv, T!ForwardFindsCopy
<1>7. copyV' = copyV  BY CopySame DEF CopyBecomes
<1>8. UNCHANGED T!l1Vars  BY <1>7 DEF T!l1Vars, CopyBecomes
<1>9. T!Refuse(c, x, n)  BY <1>2, <1>3, <1>5, <1>6, <1>8 DEF T!Refuse
<1>10. TStep  BY <1>2, <1>9, T!SendSteps DEF TStep
<1>11. SnoopInv' /\ L1Inv'  BY DEF Gone, CopyBecomes
<1> QED  BY <1>5, <1>10, <1>11, BackKeeps

(* A WriteFwd or an Invalidate takes the copy away. *)
LEMMA GiveUpKeeps ==
  ASSUME CInv, BackQuiet, NEW c \in Cores, NEW m, Gone(c, m), m.type \in {"WriteFwd", "Invalidate"},
         NEW t, NEW n, Fields(n, t, m.requester, m.requester, c, 0),
         m.type = "WriteFwd" => t \in {"FwdReplyOwned", "FwdReplyWritable", "FwdReplyDirty"},
         m.type = "Invalidate" => t = "InvalidateAck",
         reply' = reply (+) SetToBag({n}),
         CopyBecomes(c, IF c \in leavingV THEN copyV[c] ELSE "I")
  PROVE  CInv' /\ TStep
<1> DEFINE r == m.requester
<1>1. T!Inv  BY DEF CInv
<1>2. /\ r \in Cores /\ T!Storing(r)
      /\ evictAcksV' = evictAcksV /\ forwardsV' = forwardsV /\ heldV' = heldV
      /\ m.type = "WriteFwd" => c \in fetchesV /\ fetchesV' = fetchesV \ {c} /\ invalsV' = invalsV
      /\ m.type = "Invalidate" => c \in invalsV /\ invalsV' = invalsV \ {c} /\ fetchesV' = fetchesV
      /\ \A d \in Cores : \A k \in Sn(d)' \cup Bf(d)' : Asks(k) => k \in Sn(d) \cup Bf(d)
  BY GoneViews
<1>3. n \in Message /\ n.type = t /\ T!Is(n, t, r, r, c, 0) /\ n.requester = r /\ n.other = c
      /\ n.outstanding = 0
  BY DEF Fields, T!Is
<1>4. n \notin repliesV
  <2>1. T!Asked(c)  BY <1>2 DEF T!Asked
  <2>2. n.type \in T!FetchTypes \/ n.type = "InvalidateAck"  BY <1>3 DEF T!FetchTypes
  <2> QED  BY <1>1, <1>2, <1>3, <2>1, <2>2, TSetting, T!AskedFresh
<1>5. /\ UNCHANGED T!postVars /\ UNCHANGED T!serveVars /\ UNCHANGED T!dirVars
      /\ atMemoryV' = atMemoryV /\ T!Send(n)
      /\ PostInv' /\ ReplyInv' /\ AskInv' /\ FromDir(Rp)' = FromDir(Rp)
  BY <1>2, <1>3, <1>4, SendFrame
<1>6. copyV' = [copyV EXCEPT ![c] = IF c \in leavingV THEN @ ELSE "I"]  BY DEF CopyBecomes
<1>7. T!GivenUp(c)  BY <1>2, <1>5, <1>6 DEF T!GivenUp, CopyBecomes
<1>8. T!Invalidated(c, r, n) \/ T!Fetched(c, r, n)
  <2>1. CASE m.type = "WriteFwd"
    BY <1>2, <1>3, <1>5, <1>7, <2>1 DEF T!Fetched, T!FetchTypes
  <2>2. CASE m.type = "Invalidate"
    BY <1>2, <1>3, <1>5, <1>7, <2>2 DEF T!Invalidated
  <2> QED  BY <2>1, <2>2
<1>9. TStep  BY <1>2, <1>8, T!SendSteps DEF TStep
<1>10. SnoopInv' /\ L1Inv'  BY DEF Gone, CopyBecomes
<1> QED  BY <1>5, <1>9, <1>10, BackKeeps

(* The core is asked first. *)
LEMMA HoldKeeps ==
  ASSUME CInv, BackQuiet, NEW c \in Cores, NEW m, Kept(c, m), reply' = reply,
         m.type = "ReadFwd" => copyV[c] = "E", CopyBecomes(c, copyV[c])
  PROVE  CInv' /\ TStep
<1> DEFINE x == m.requester
<1>1. ReplyInv' /\ repliesV' = repliesV /\ FromDir(Rp)' = FromDir(Rp)  BY ReplySame DEF CInv
<1>2. /\ PostInv' /\ UNCHANGED T!postVars /\ UNCHANGED T!serveVars /\ UNCHANGED T!dirVars
      /\ atMemoryV' = atMemoryV
  BY <1>1, BackFrame
<1>3. /\ x \in Cores
      /\ fetchesV' = fetchesV /\ invalsV' = invalsV /\ evictAcksV' = evictAcksV
      /\ \/ forwardsV' = forwardsV /\ heldV' = heldV
         \/ /\ m.type = "ReadFwd" /\ <<x, c>> \in forwardsV
            /\ forwardsV' = forwardsV \ {<<x, c>>} /\ heldV' = heldV \cup {<<x, c>>}
      /\ \A d \in Cores : \A k \in Sn(d)' \cup Bf(d)' : Asks(k) => k \in Sn(d) \cup Bf(d)
  BY KeptViews
<1>4. AskInv'  BY <1>2, <1>3, AskSame DEF CInv
<1>5. copyV' = copyV  BY CopySame DEF CopyBecomes
<1>6. UNCHANGED T!l1Vars  BY <1>5 DEF T!l1Vars, CopyBecomes
<1>7. TStep
  <2>1. CASE forwardsV' = forwardsV /\ heldV' = heldV
    <3>1. UNCHANGED T!tokenVars  BY <1>2, <1>3, <2>1 DEF T!tokenVars
    <3> QED  BY <1>1, <1>2, <1>6, <3>1, Stutters DEF T!vars
  <2>2. CASE /\ m.type = "ReadFwd" /\ <<x, c>> \in forwardsV
             /\ forwardsV' = forwardsV \ {<<x, c>>} /\ heldV' = heldV \cup {<<x, c>>}
    <3>1. T!Hold(c, x)  BY <1>1, <1>2, <1>3, <1>6, <2>2 DEF T!Hold
    <3> QED  BY <1>3, <3>1, T!HoldSteps DEF TStep
  <2> QED  BY <1>3, <2>1, <2>2
<1>8. SnoopInv' /\ L1Inv'  BY DEF Kept, CopyBecomes
<1> QED  BY <1>1, <1>4, <1>7, <1>8, BackKeeps

-----------------------------------------------------------------------------
(* Snoop m is taken, q and sb are what is left of the channel and of the buffer. *)
Taking(c, m, q, sb) ==
  /\ DirSnoop(m) /\ m \in Message
  /\ snoop' = [snoop EXCEPT ![c] = q] /\ SnoopsOK(c, q, sb)
  /\ \/ m \in Sn(c) /\ ToSet(q) = Sn(c) \ {m} /\ Buffered(sb) = Bf(c)
     \/ m \in Bf(c) /\ ToSet(q) = Sn(c) /\ Buffered(sb) = Bf(c) \ {m}

NoNewEvictSnoop(c) == EvictSnoopIn(Bf(c))' => EvictSnoopIn(Bf(c))

(* A snoop that is answered at once, *)
LEMMA TakingGone ==
  ASSUME SnoopInv, NEW c \in Cores, NEW m, NEW q, NEW sb, Taking(c, m, q, sb),
         snoops' = [snoops EXCEPT ![c] = sb]
  PROVE  Gone(c, m) /\ NoNewEvictSnoop(c)
<1>1. SnoopBecomes(c, q, sb) /\ SnoopsOK(c, q, sb)  BY DEF Taking, SnoopBecomes
<1>2. SnoopInv' /\ OnlyAt(c) /\ Sn(c)' = ToSet(q) /\ Bf(c)' = Buffered(sb)  BY <1>1, SnoopInvBecomes
<1> QED  BY <1>2 DEF Taking, Gone, SameBuffer, LessBuffer, NoNewEvictSnoop, EvictSnoopIn

(* ... or sent on to the core. *)
LEMMA TakingKept ==
  ASSUME SnoopInv, NEW c \in Cores, NEW m, NEW q, NEW sb, Taking(c, m, q, sb),
         L1!SnoopCore(c, m, sb)
  PROVE  Kept(c, m) /\ NoNewEvictSnoop(c)
<1>1. SnoopsOK(c, q, sb) /\ DirSnoop(m) /\ m \in Message  BY DEF Taking
<1>2. m \notin ToSet(q) \cup Buffered(sb) /\ m \in Sn(c) \cup Bf(c)
      /\ ToSet(q) \cup Buffered(sb) \subseteq Sn(c) \cup Bf(c)
  <2>1. Sn(c) \cap Bf(c) = {}
    BY SnoopSeqs DEF SnoopsOK, SnoopsOnce
  <2> QED  BY <2>1 DEF Taking
<1>3. \A n \in Sn(c) \cup Bf(c) : n.type = m.type /\ n.requester = m.requester => n = m
  BY <1>2, SnoopSeqs DEF SnoopsOK, SnoopsOnce
<1>4. \A n \in ToSet(q) \cup Buffered(sb) : n.type # m.type \/ n.requester # m.requester
  BY <1>2, <1>3
<1>5. PICK r : /\ snoops' = [snoops EXCEPT ![c] = r]
               /\ SnoopsOK(c, q, r) /\ Buffered(r) = Buffered(sb) \cup {m}
  BY <1>1, <1>4, CoreSnooped
<1>6. SnoopBecomes(c, q, r)  BY <1>5 DEF Taking, SnoopBecomes
<1>7. SnoopInv' /\ OnlyAt(c) /\ Sn(c)' = ToSet(q) /\ Bf(c)' = Buffered(r)
  BY <1>5, <1>6, SnoopInvBecomes
<1>8. m.type # "EvictClean"  BY <1>1 DEF DirSnoop
<1> QED  BY <1>5, <1>7, <1>8 DEF Taking, Kept, SameBuffer, MoreBuffer, NoNewEvictSnoop, EvictSnoopIn

(* MAF entry f is the one of c, or the same one woken. *)
MafLike(c, f) ==
  /\ f \in MafRec /\ maf' = [maf EXCEPT ![c] = f]
  /\ f.state = maf[c].state /\ f.op = maf[c].op /\ f.outstanding = maf[c].outstanding
  /\ f.dataReceived <=> maf[c].dataReceived
  /\ f.woken => maf[c].woken \/ f.state \in {"WaitEvict", "WaitSnoop"}

(* The MAF entry of the L1 stays, *)
LEMMA MafSame ==
  ASSUME L1Inv, NEW c \in Cores, maf' = maf
  PROVE  MafLike(c, maf[c])
  BY L1AtIs, Unmoved DEF MafLike

(* ... or is woken. *)
LEMMA MafWoken ==
  ASSUME L1Inv, NEW c \in Cores, NEW why \in {"WaitEvict", "WaitSnoop"}, L1!Wake(c, why)
  PROVE  \E f : MafLike(c, f)
<1> DEFINE f == [maf[c] EXCEPT !.woken = @ \/ maf[c].state = why]
<1>1. maf[c] \in MafRec /\ maf \in [Cores -> MafRec]  BY L1AtIs DEF L1Inv, MafRec
<1>2. maf' = [maf EXCEPT ![c] = f]  BY DEF L1!Wake
<1>3. /\ f \in MafRec /\ f.state = maf[c].state /\ f.op = maf[c].op
      /\ f.outstanding = maf[c].outstanding
      /\ (f.dataReceived <=> maf[c].dataReceived)
      /\ (f.woken <=> maf[c].woken \/ maf[c].state = why)
  BY <1>1 DEF MafRec
<1> HIDE DEF f
<1> QED  BY <1>2, <1>3 DEF MafLike

(* The tokens of an L1 whose block changes, *)
LEMMA L1Changes ==
  ASSUME L1Inv, NEW c \in Cores, NEW a \in L1!States, NEW e \in EvictRec, NEW f, MafLike(c, f),
         data' = data, array' = [array EXCEPT ![c] = a], evict' = [evict EXCEPT ![c] = e],
         e.pending <=> c \in leavingV, OnlyAt(c), L1OK(a, e, f, EvictSnoopIn(Bf(c))'),
         NEW s, s = IF a # "I" THEN a ELSE e.state
  PROVE  CopyBecomes(c, s)
<1>1. L1Becomes(c, a, data[c], e, f)
  BY L1AtIs, Unmoved DEF L1Becomes, MafLike
<1>2. copyV' = [copyV EXCEPT ![c] = s] /\ UNCHANGED <<leavingV, missV, balanceV, filledV>>
  BY <1>1, CopyChanges DEF MafLike
<1>3. L1Inv'  BY <1>1, L1InvBecomes DEF OnlyAt
<1> QED  BY <1>2, <1>3 DEF CopyBecomes

(* ... or does not change. *)
LEMMA L1Stays ==
  ASSUME L1Inv, NEW c \in Cores, NEW f, MafLike(c, f), OnlyAt(c), NoNewEvictSnoop(c),
         data' = data, array' = array, evict' = evict
  PROVE  CopyBecomes(c, copyV[c])
<1>1. /\ L1OK(array[c], evict[c], maf[c], EvictSnoopIn(Bf(c)))
      /\ array[c] \in L1!States /\ evict[c] \in EvictRec
  BY L1AtIs
<1>2. L1OK(array[c], evict[c], f, EvictSnoopIn(Bf(c))')
  BY <1>1 DEF L1OK, MafLike, NoNewEvictSnoop
<1>3. /\ array' = [array EXCEPT ![c] = array[c]] /\ evict' = [evict EXCEPT ![c] = evict[c]]
  BY Unmoved
<1>4. (evict[c].pending <=> c \in leavingV)
      /\ copyV[c] = IF array[c] # "I" THEN array[c] ELSE evict[c].state
  BY BlockIs
<1> QED  BY <1>1, <1>2, <1>3, <1>4, L1Changes

(* The block becomes Shared, in the array or in the evict buffer. *)
LEMMA StateSet ==
  ASSUME L1Inv, NEW c \in Cores, NEW f, MafLike(c, f), OnlyAt(c), NoNewEvictSnoop(c),
         data' = data, copyV[c] # "I", L1!SetBlockState(c, "S")
  PROVE  CopyBecomes(c, "S")
<1>1. /\ L1OK(array[c], evict[c], maf[c], EvictSnoopIn(Bf(c)))
      /\ array[c] \in L1!States /\ evict[c] \in EvictRec /\ evict \in [Cores -> EvictRec]
  BY L1AtIs DEF L1Inv, EvictRec
<1>2. "S" \in L1!States /\ "I" \in L1!States BY DEF L1!States
<1>3. evict[c].pending <=> c \in leavingV  BY BlockIs
<1>4. CASE array[c] # "I"
  <2>1. array' = [array EXCEPT ![c] = "S"] /\ evict' = [evict EXCEPT ![c] = evict[c]]
    BY <1>4, Unmoved DEF L1!SetBlockState
  <2>2. L1OK("S", evict[c], f, EvictSnoopIn(Bf(c))')
    BY <1>1, <1>4 DEF L1OK, MafLike, NoNewEvictSnoop
  <2> QED  BY <1>1, <1>2, <1>3, <2>1, <2>2, L1Changes
<1>5. CASE array[c] = "I"
  <2> DEFINE e == [evict[c] EXCEPT !.state = "S"]
  <2>1. evict' = [evict EXCEPT ![c] = e] /\ array' = [array EXCEPT ![c] = array[c]]
    BY <1>5, Unmoved DEF L1!SetBlockState
  <2>2. /\ e \in EvictRec /\ e.state = "S" /\ (e.pending <=> evict[c].pending)
        /\ (e.evictable <=> evict[c].evictable) /\ (e.snoopRequired <=> evict[c].snoopRequired)
    BY <1>1, <1>2 DEF EvictRec
  <2> HIDE DEF e
  <2>3. evict[c] # L1!NoEvict /\ e # L1!NoEvict
    <3>1. copyV[c] = evict[c].state  BY <1>5, BlockIs
    <3> QED  BY <2>2, <3>1, NoEvictIs
  <2>4. L1OK(array[c], e, f, EvictSnoopIn(Bf(c))')
    BY <1>1, <1>5, <2>2, <2>3 DEF L1OK, MafLike, NoNewEvictSnoop
  <2> QED  BY <1>1, <1>2, <1>3, <1>5, <2>1, <2>2, <2>4, L1Changes
<1> QED  BY <1>4, <1>5

-----------------------------------------------------------------------------
(* The handlers of the directory's snoops. *)
SnoopQuietly == UNCHANGED <<request, toMem, latest, data, maf>> /\ L1Frame

(* The snoop is a token of its class. *)
LEMMA SnoopPresent ==
  ASSUME SnoopInv, NEW c \in Cores, NEW m, NEW q, NEW sb, Taking(c, m, q, sb)
  PROVE  /\ m \in Message /\ m.requester \in Cores
         /\ m.type = "WriteFwd" => c \in fetchesV
         /\ m.type = "Invalidate" => c \in invalsV
  BY DEF Taking, DirSnoop, fetchesV, invalsV, Snooped

(* ReadFwd, in each state of the block. *)
LEMMA ReadFwdKeeps ==
  ASSUME CInv, SnoopQuietly, NEW c \in Cores, NEW m, NEW q, NEW sb, Taking(c, m, q, sb),
         m.type = "ReadFwd", L1!HandleReadFwd(c, m, sb)
  PROVE  CInv' /\ TStep
<1>1. L1Inv /\ SnoopInv /\ L1!BlockState(c) = copyV[c] /\ copyV[c] \in L1!States
  BY BlockIs DEF CInv
<1>2. m \in Message /\ m.requester \in Cores  BY <1>1, SnoopPresent
<1>3. BackQuiet /\ data' = data /\ maf' = maf  BY DEF SnoopQuietly, BackQuiet, L1!HandleReadFwd
<1>4. MafLike(c, maf[c])  BY <1>1, <1>3, MafSame
<1>5. CASE /\ copyV[c] = "I"
           /\ L1!Reply(L1!Msg("FwdNAck", m.requester, L1!Dir, c))
           /\ snoops' = [snoops EXCEPT ![c] = sb]
           /\ UNCHANGED <<array, evict>>
  <2> DEFINE n == L1!Msg("FwdNAck", m.requester, L1!Dir, c)
  <2>1. reply' = reply (+) SetToBag({n})  BY <1>5, ReplyOps DEF L1!Reply
  <2>2. Fields(n, "FwdNAck", m.requester, Dir, c, 0)
    <3>1. "FwdNAck" \in MessageTypes /\ m.requester \in Cores \cup {Dir} /\ c \in Nodes /\ Dir \in Nodes
      BY <1>2 DEF MessageTypes, NackTypes, Nodes
    <3> QED  BY <3>1, MsgFields, Names
  <2> HIDE DEF n
  <2>3. Gone(c, m) /\ NoNewEvictSnoop(c)  BY <1>1, <1>5, TakingGone
  <2>4. OnlyAt(c)  BY <2>3 DEF Gone
  <2>5. CopyBecomes(c, copyV[c])  BY <1>1, <1>3, <1>4, <1>5, <2>3, <2>4, L1Stays
  <2> QED  BY <1>3, <1>5, <2>1, <2>2, <2>3, <2>5, RefuseKeeps
<1>6. CASE /\ copyV[c] = "S"
           /\ L1!Reply(L1!FwdAnswer(c, m, "FwdReply"))
           /\ snoops' = [snoops EXCEPT ![c] = sb]
           /\ UNCHANGED <<array, evict>>
  <2> DEFINE n == L1!FwdAnswer(c, m, "FwdReply")
  <2>1. reply' = reply (+) SetToBag({n})  BY <1>6, ReplyOps DEF L1!Reply
  <2>2. Fields(n, "FwdReply", m.requester, m.requester, c, 0)
    <3>1. "FwdReply" \in MessageTypes  BY DEF MessageTypes, FwdReplies
    <3> QED  BY <1>1, <1>2, <3>1, FwdAnswerFields
  <2> HIDE DEF n
  <2>3. Gone(c, m) /\ NoNewEvictSnoop(c)  BY <1>1, <1>6, TakingGone
  <2>4. OnlyAt(c)  BY <2>3 DEF Gone
  <2>5. CopyBecomes(c, copyV[c])  BY <1>1, <1>3, <1>4, <1>6, <2>3, <2>4, L1Stays
  <2>6. CopyBecomes(c, IF copyV[c] = "I" THEN "I" ELSE "S")  BY <1>6, <2>5
  <2> QED  BY <1>3, <2>1, <2>2, <2>3, <2>6, AnswerKeeps
<1>7. CASE /\ copyV[c] = "E"
           /\ L1!SnoopCore(c, m, sb)
           /\ UNCHANGED <<array, evict, reply>>
  <2>1. Kept(c, m) /\ NoNewEvictSnoop(c)  BY <1>1, <1>7, TakingKept
  <2>2. OnlyAt(c)  BY <2>1 DEF Kept
  <2>3. CopyBecomes(c, copyV[c])  BY <1>1, <1>3, <1>4, <1>7, <2>1, <2>2, L1Stays
  <2>4. reply' = reply  BY <1>7
  <2> QED  BY <1>3, <1>7, <2>1, <2>3, <2>4, HoldKeeps
<1>8. CASE /\ copyV[c] = "M"
           /\ L1!SetBlockState(c, "S")
           /\ L1!Reply(L1!FwdAnswer(c, m, "FwdReplyOwned"))
           /\ snoops' = [snoops EXCEPT ![c] = sb]
  <2> DEFINE n == L1!FwdAnswer(c, m, "FwdReplyOwned")
  <2>1. reply' = reply (+) SetToBag({n})  BY <1>8, ReplyOps DEF L1!Reply
  <2>2. Fields(n, "FwdReplyOwned", m.requester, m.requester, c, 0)
    <3>1. "FwdReplyOwned" \in MessageTypes  BY DEF MessageTypes, FwdReplies
    <3> QED  BY <1>1, <1>2, <3>1, FwdAnswerFields
  <2> HIDE DEF n
  <2>3. Gone(c, m) /\ NoNewEvictSnoop(c)  BY <1>1, <1>8, TakingGone
  <2>4. OnlyAt(c)  BY <2>3 DEF Gone
  <2>5. CopyBecomes(c, "S")  BY <1>1, <1>3, <1>4, <1>8, <2>3, <2>4, StateSet
  <2>6. CopyBecomes(c, IF copyV[c] = "I" THEN "I" ELSE "S")  BY <1>8, <2>5
  <2> QED  BY <1>3, <2>1, <2>2, <2>3, <2>6, AnswerKeeps
<1> QED  BY <1>1, <1>5, <1>6, <1>7, <1>8 DEF L1!HandleReadFwd

(* WriteFwd: it finds a copy, so that it is always answered. *)
LEMMA WriteFwdKeeps ==
  ASSUME CInv, SnoopQuietly, NEW c \in Cores, NEW m, NEW q, NEW sb, Taking(c, m, q, sb),
         m.type = "WriteFwd", L1!HandleWriteFwd(c, m, sb)
  PROVE  CInv' /\ TStep
<1>1. L1Inv /\ SnoopInv /\ L1!BlockState(c) = copyV[c] /\ copyV[c] \in L1!States
  BY BlockIs DEF CInv
<1>2. m \in Message /\ m.requester \in Cores /\ c \in fetchesV  BY <1>1, SnoopPresent
<1>3. BackQuiet /\ data' = data /\ maf' = maf /\ array' = array /\ evict' = evict
  BY DEF SnoopQuietly, BackQuiet, L1!HandleWriteFwd
<1>4. MafLike(c, maf[c])  BY <1>1, <1>3, MafSame
<1>5. copyV[c] # "I"  BY <1>2 DEF CInv, T!Inv, T!SnoopFindsCopy, T!Asked
<1>6. CASE L1!FromEB(c) /\ evict[c].pending
  <2> DEFINE t == IF copyV[c] = "M" THEN "FwdReplyDirty" ELSE "FwdReplyWritable"
             n == L1!FwdAnswer(c, m, t)
  <2>0. reply' = L1!ReplyBagWith({n}) /\ snoops' = [snoops EXCEPT ![c] = sb]
    BY <1>1, <1>5, <1>6 DEF L1!HandleWriteFwd, L1!Reply
  <2>1. reply' = reply (+) SetToBag({n})  BY <2>0, ReplyOps
  <2>2. t \in MessageTypes /\ t \in {"FwdReplyOwned", "FwdReplyWritable", "FwdReplyDirty"}
    BY DEF MessageTypes, FwdReplies
  <2> HIDE DEF t
  <2>3. Fields(n, t, m.requester, m.requester, c, 0)
    BY <1>1, <1>2, <2>2, FwdAnswerFields
  <2> HIDE DEF n
  <2>4. Gone(c, m) /\ NoNewEvictSnoop(c)  BY <1>1, <2>0, TakingGone
  <2>5. OnlyAt(c)  BY <2>4 DEF Gone
  <2>6. CopyBecomes(c, copyV[c])  BY <1>1, <1>3, <1>4, <2>4, <2>5, L1Stays
  <2>7. c \in leavingV  BY <1>1, <1>6, BlockIs
  <2>8. CopyBecomes(c, IF c \in leavingV THEN copyV[c] ELSE "I")  BY <2>6, <2>7
  <2> QED  BY <1>3, <2>1, <2>2, <2>3, <2>4, <2>8, GiveUpKeeps
<1>7. CASE ~(L1!FromEB(c) /\ evict[c].pending)
  <2>0. L1!SnoopCore(c, m, sb) /\ reply' = reply
    BY <1>1, <1>5, <1>7 DEF L1!HandleWriteFwd
  <2>1. Kept(c, m) /\ NoNewEvictSnoop(c)  BY <1>1, <2>0, TakingKept
  <2>2. OnlyAt(c)  BY <2>1 DEF Kept
  <2>3. CopyBecomes(c, copyV[c])  BY <1>1, <1>3, <1>4, <2>1, <2>2, L1Stays
  <2> QED  BY <1>3, <2>0, <2>1, <2>3, HoldKeeps
<1> QED  BY <1>6, <1>7

(* Invalidate: it finds a Shared copy, and no read that waits. *)
LEMMA InvalidateKeeps ==
  ASSUME CInv, SnoopQuietly, NEW c \in Cores, NEW m, NEW q, NEW sb, Taking(c, m, q, sb),
         m.type = "Invalidate", L1!HandleInvalidate(c, m, sb)
  PROVE  CInv' /\ TStep
<1>1. L1Inv /\ SnoopInv /\ L1!BlockState(c) = copyV[c] /\ copyV[c] \in L1!States
  BY BlockIs DEF CInv
<1>2. m \in Message /\ m.requester \in Cores /\ c \in invalsV  BY <1>1, SnoopPresent
<1>3. copyV[c] = "S"  BY <1>2 DEF CInv, T!Inv, T!SnoopFindsCopy
<1>4. ~(L1!WaitingMaf(c) /\ maf[c].op = "Load")
  <2>1. missV[c] # "Load"  BY <1>3 DEF CInv, T!Inv, T!LoadHasNone
  <2> QED  BY <1>1, <2>1, BlockIs
<1>5. /\ failed' = failed /\ array' = array
      /\ IF L1!FromEB(c) /\ (evict[c].pending \/ evict[c].evictable)
         THEN /\ L1!Reply(L1!InvAck(c, m, "InvalidateAck"))
              /\ evict' = [evict EXCEPT ![c] = IF @.pending THEN @ ELSE L1!NoEvict]
              /\ snoops' = [snoops EXCEPT ![c] = sb]
         ELSE L1!SnoopCore(c, m, sb) /\ UNCHANGED <<reply, evict>>
  BY <1>1, <1>3, <1>4 DEF L1!HandleInvalidate
<1>6. BackQuiet /\ data' = data /\ maf' = maf  BY <1>5 DEF SnoopQuietly, BackQuiet
<1>7. MafLike(c, maf[c])  BY <1>1, <1>6, MafSame
<1>8. CASE L1!FromEB(c) /\ (evict[c].pending \/ evict[c].evictable)
  <2> DEFINE n == L1!InvAck(c, m, "InvalidateAck")
             e == IF evict[c].pending THEN evict[c] ELSE L1!NoEvict
  <2>0. reply' = L1!ReplyBagWith({n}) /\ snoops' = [snoops EXCEPT ![c] = sb]
    BY <1>5, <1>8 DEF L1!Reply
  <2>1. reply' = reply (+) SetToBag({n})  BY <2>0, ReplyOps
  <2>2. Fields(n, "InvalidateAck", m.requester, m.requester, c, 0)
    <3>1. "InvalidateAck" \in MessageTypes  BY DEF MessageTypes, NackTypes
    <3> QED  BY <1>2, <3>1, InvAckFields
  <2> HIDE DEF n
  <2>3. Gone(c, m) /\ NoNewEvictSnoop(c)  BY <1>1, <2>0, TakingGone
  <2>4. OnlyAt(c)  BY <2>3 DEF Gone
  <2>5. evict' = [evict EXCEPT ![c] = e] /\ array' = [array EXCEPT ![c] = array[c]]
    BY <1>1, <1>5, <1>8, Unmoved
  <2>6. /\ L1OK(array[c], evict[c], maf[c], EvictSnoopIn(Bf(c)))
        /\ array[c] \in L1!States /\ evict[c] \in EvictRec
    BY <1>1, L1AtIs
  <2>7. array[c] = "I" /\ evict[c] # L1!NoEvict  BY <1>8 DEF L1!FromEB
  <2>8. ~EvictSnoopIn(Bf(c))'  BY <1>8, <2>3, <2>6, <2>7 DEF NoNewEvictSnoop, L1OK
  <2>9. e \in EvictRec /\ (e.pending <=> evict[c].pending)  BY <2>6, NoEvictIs
  <2>10. L1OK(array[c], e, maf[c], EvictSnoopIn(Bf(c))')
    BY <2>6, <2>7, <2>8, NoEvictIs DEF L1OK
  <2>11. evict[c].pending <=> c \in leavingV  BY <1>1, BlockIs
  <2>12. copyV[c] = evict[c].state  BY <1>1, <2>7, BlockIs
  <2>13. (IF c \in leavingV THEN copyV[c] ELSE "I") = IF array[c] # "I" THEN array[c] ELSE e.state
    BY <2>7, <2>11, <2>12, NoEvictIs
  <2> HIDE DEF e
  <2>14. CopyBecomes(c, IF c \in leavingV THEN copyV[c] ELSE "I")
    BY <1>1, <1>6, <1>7, <2>4, <2>5, <2>6, <2>9, <2>10, <2>11, <2>13, L1Changes
  <2> QED  BY <1>6, <2>1, <2>2, <2>3, <2>14, GiveUpKeeps
<1>9. CASE ~(L1!FromEB(c) /\ (evict[c].pending \/ evict[c].evictable))
  <2>0. L1!SnoopCore(c, m, sb) /\ reply' = reply /\ evict' = evict  BY <1>5, <1>9
  <2>1. Kept(c, m) /\ NoNewEvictSnoop(c)  BY <1>1, <2>0, TakingKept
  <2>2. OnlyAt(c)  BY <2>1 DEF Kept
  <2>3. CopyBecomes(c, copyV[c])  BY <1>1, <1>5, <1>6, <1>7, <2>0, <2>1, <2>2, L1Stays
  <2> QED  BY <1>6, <2>0, <2>1, <2>3, HoldKeeps
<1> QED  BY <1>8, <1>9

(* A forward or an invalidate of the directory. *)
LEMMA SnoopedKeeps ==
  ASSUME CInv, SnoopQuietly, NEW c \in Cores, NEW m, NEW q, NEW sb, Taking(c, m, q, sb),
         L1!HandleSnooped(c, m, sb)
  PROVE  CInv' /\ TStep
  BY ReadFwdKeeps, WriteFwdKeeps, InvalidateKeeps DEF L1!HandleSnooped

-----------------------------------------------------------------------------
(* The head of the snoop channel. *)
LEMMA EvictAckKeeps ==
  ASSUME CInv, NEW c \in Cores, NEW m, NEW q, m \in Sn(c), m.type = "EvictAck", Sn(c) = {m},
         snoop' = [snoop EXCEPT ![c] = q], SnoopsOK(c, q, snoops[c]), ToSet(q) = Sn(c) \ {m},
         L1!HandleEvictAck(c), UNCHANGED <<array, snoops, reply, data, request, toMem, latest>>, L1Frame
  PROVE  CInv' /\ TStep
<1>1. L1Inv /\ SnoopInv /\ AskInv /\ T!Inv  BY DEF CInv
<1>2. c \in evictAcksV  BY DEF evictAcksV
<1>3. c \in leavingV  BY <1>1, <1>2 DEF T!Inv, T!LeavingPosted
<1>4. L1!FromEB(c) /\ evict[c].evictable  BY <1>1, <1>3, BlockIs
<1>5. evict' = [evict EXCEPT ![c] = L1!NoEvict] /\ L1!Wake(c, "WaitEvict") /\ failed' = failed
  BY <1>4 DEF L1!HandleEvictAck
<1>6. PICK f : MafLike(c, f)  BY <1>1, <1>5, MafWoken
<1>7. /\ L1OK(array[c], evict[c], maf[c], EvictSnoopIn(Bf(c)))
      /\ array[c] \in L1!States /\ data[c] \in Version
  BY <1>1, L1AtIs
<1>8. array[c] = "I" /\ evict[c] # L1!NoEvict /\ ~EvictSnoopIn(Bf(c))
      /\ ~Wt(c) /\ maf[c].state # "WaitSnoop"
  BY <1>4, <1>7 DEF L1!FromEB, L1OK, Wt
<1>9. L1Becomes(c, array[c], data[c], L1!NoEvict, f)
  BY <1>1, <1>5, <1>6, <1>7, Unmoved, NoEvictIs DEF L1Becomes, MafLike
<1>10. SnoopBecomes(c, q, snoops[c])  BY <1>1, SnoopSeqs DEF SnoopBecomes
<1>11. SnoopInv' /\ OnlyAt(c) /\ Sn(c)' = Sn(c) \ {m} /\ Bf(c)' = Bf(c)
  BY <1>1, <1>10, SnoopInvBecomes DEF Bf
<1>12. L1OK(array[c], L1!NoEvict, f, EvictSnoopIn(Bf(c))')
  <2>1. ~EvictSnoopIn(Bf(c))'  BY <1>8, <1>11 DEF EvictSnoopIn
  <2> QED  BY <1>6, <1>7, <1>8, <2>1, NoEvictIs DEF L1OK, MafLike, Wt
<1>13. L1Inv'  BY <1>1, <1>9, <1>11, <1>12, L1InvBecomes DEF OnlyAt
<1>14. f.state # "WaitResponse"  BY <1>6, <1>8 DEF MafLike, Wt
<1>15. /\ copyV' = [copyV EXCEPT ![c] = "I"] /\ leavingV' = leavingV \ {c}
       /\ missV' = [missV EXCEPT ![c] = "None"] /\ balanceV' = [balanceV EXCEPT ![c] = 0]
       /\ filledV' = filledV \ {c}
  BY <1>1, <1>8, <1>9, <1>14, L1Views, NoEvictIs
<1>16. missV' = missV /\ balanceV' = balanceV /\ filledV' = filledV
  <2>1. [missV EXCEPT ![c] = "None"] = missV  BY ONLY <1>8, c \in Cores DEF missV
  <2>2. [balanceV EXCEPT ![c] = 0] = balanceV  BY ONLY <1>8, c \in Cores DEF balanceV
  <2>3. filledV \ {c} = filledV  BY ONLY <1>8 DEF filledV
  <2> QED  BY ONLY <1>15, <2>1, <2>2, <2>3
<1>17. SameBuffer(c)  BY <1>11 DEF SameBuffer
<1>18. /\ forwardsV' = forwardsV /\ heldV' = heldV /\ fetchesV' = fetchesV /\ invalsV' = invalsV
       /\ evictAcksV' = evictAcksV \ {c}
  BY <1>1, <1>11, <1>17, SnoopLess
<1>19. BackQuiet /\ reply' = reply  BY <1>5 DEF BackQuiet
<1>20. ReplyInv' /\ repliesV' = repliesV /\ FromDir(Rp)' = FromDir(Rp)  BY <1>19, ReplySame DEF CInv
<1>21. /\ PostInv' /\ UNCHANGED T!postVars /\ UNCHANGED T!serveVars /\ UNCHANGED T!dirVars
       /\ atMemoryV' = atMemoryV
  BY <1>19, <1>20, BackFrame
<1>22. \A x \in Cores : <<x, c>> \notin forwardsV
  <2>1. Fw(c) = {}  BY DEF Fw, Of
  <2> QED  BY <2>1 DEF forwardsV, Fw
<1>23. T!EvictAcked(c)
  BY <1>2, <1>15, <1>16, <1>18, <1>20, <1>21, <1>22 DEF T!EvictAcked
<1>24. TStep  BY <1>23, T!CoreSteps DEF TStep
<1>25. \A d \in Cores : \A n \in Sn(d)' \cup Bf(d)' : Asks(n) => n \in Sn(d) \cup Bf(d)
  BY <1>11 DEF OnlyAt
<1>26. AskInv'  BY <1>1, <1>21, <1>25, AskSame
<1> QED  BY <1>11, <1>13, <1>19, <1>20, <1>24, <1>26, BackKeeps

(* The head of the Snoop channel is taken. *)
LEMMA BackRequestIs ==
  ASSUME SnoopInv, NEW c \in Cores, L1Back(c)
  PROVE  \E m, q :
        /\ m \in Sn(c) /\ m \in Message /\ (m.type = "EvictAck" => Sn(c) = {m})
        /\ SnoopsOK(c, q, snoops[c]) /\ ToSet(q) = Sn(c) \ {m}
        /\ snoop' = [snoop EXCEPT ![c] = q]
        /\ \/ L1!HandleSnooped(c, m, snoops[c]) /\ UNCHANGED maf
           \/ /\ m.type = "EvictAck" /\ L1!HandleEvictAck(c) /\ UNCHANGED <<array, snoops, reply>>
        /\ UNCHANGED <<data, request, toMem, latest>> /\ L1Frame
<1>0. SnoopsOK(c, snoop[c], snoops[c])  BY DEF SnoopInv
<1> DEFINE m == Head(snoop[c])
           q == Tail(snoop[c])
<1>1. /\ snoop[c] # <<>> /\ snoop' = [snoop EXCEPT ![c] = q]
      /\ \/ L1!HandleSnooped(c, m, snoops[c]) /\ UNCHANGED maf
         \/ /\ m.type = "EvictAck" /\ L1!HandleEvictAck(c) /\ UNCHANGED <<array, snoops, reply>>
      /\ UNCHANGED <<data, request, toMem, latest>> /\ L1Frame
  BY DEF L1Back, L1!BackRequest
<1>2. /\ SnoopsOK(c, q, snoops[c])
      /\ ToSet(q) = ToSet(snoop[c]) \ {m} /\ m \in ToSet(snoop[c]) /\ m \in Message
      /\ m.type = "EvictAck" => ToSet(snoop[c]) = {m}
  BY <1>0, <1>1, SnoopTaken
<1> HIDE DEF m, q
<1> QED  BY <1>1, <1>2 DEF Sn

(* A forward, an invalidate or an EvictAck of the directory arrives. *)
LEMMA BackRequestKeeps ==
  ASSUME CInv, NEW c \in Cores, L1Back(c)
  PROVE  CInv' /\ TStep
<1>1. L1Inv /\ SnoopInv  BY DEF CInv
<1>2. SnoopsOK(c, snoop[c], snoops[c]) /\ snoop \in [Cores -> Seq(Message)]
  BY <1>1 DEF SnoopInv
<1>3. PICK m, q :
        /\ m \in Sn(c) /\ m \in Message /\ (m.type = "EvictAck" => Sn(c) = {m})
        /\ SnoopsOK(c, q, snoops[c]) /\ ToSet(q) = Sn(c) \ {m}
        /\ snoop' = [snoop EXCEPT ![c] = q]
        /\ \/ L1!HandleSnooped(c, m, snoops[c]) /\ UNCHANGED maf
           \/ /\ m.type = "EvictAck" /\ L1!HandleEvictAck(c) /\ UNCHANGED <<array, snoops, reply>>
        /\ UNCHANGED <<data, request, toMem, latest>> /\ L1Frame
  BY <1>1, BackRequestIs
<1>4. CASE L1!HandleSnooped(c, m, snoops[c]) /\ UNCHANGED maf
  <2>1. m.type \in {"ReadFwd", "WriteFwd", "Invalidate"}  BY <1>4 DEF L1!HandleSnooped
  <2>2. DirSnoop(m)  BY <1>2, <1>3, <2>1 DEF SnoopsOK, Sn
  <2>3. Taking(c, m, q, snoops[c])  BY <1>3, <2>2 DEF Taking, Bf
  <2>4. SnoopQuietly  BY <1>3, <1>4 DEF SnoopQuietly
  <2> QED  BY <1>4, <2>3, <2>4, SnoopedKeeps
<1>5. CASE m.type = "EvictAck" /\ L1!HandleEvictAck(c) /\ UNCHANGED <<array, snoops, reply>>
  BY <1>3, <1>5, EvictAckKeeps
<1> QED  BY <1>3, <1>4, <1>5

(* A snoop that waited starts over. *)
LEMMA EvictSnoopWokenKeeps ==
  ASSUME CInv, NEW c \in Cores, NEW m \in Message, NEW sb, SnoopsOK(c, snoop[c], sb),
         m.type = "EvictClean", m \in Bf(c), Buffered(sb) = Bf(c) \ {m}, sb.active = <<>>,
         snoops' = [snoops EXCEPT ![c] = [sb EXCEPT !.active = <<m>>]],
         UNCHANGED <<array, evict, reply, data, maf, request, snoop, toMem, latest, failed>>, L1Frame
  PROVE  CInv' /\ TStep
<1>1. L1Inv /\ SnoopInv  BY DEF CInv
<1> DEFINE r == [sb EXCEPT !.active = <<m>>]
<1>2. SnoopsOK(c, snoop[c], snoops[c])  BY <1>1, SnoopSeqs
<1>3. m.requester = c  BY <1>2 DEF SnoopsOK, DirSnoop, Bf
<1>4. \A n \in ToSet(snoop[c]) \cup Buffered(sb) : n.type # m.type \/ n.requester # m.requester
  <2>1. \A n \in ToSet(snoop[c]) \cup Bf(c) : n.type = m.type /\ n.requester = m.requester => n = m
    BY <1>2 DEF SnoopsOK, SnoopsOnce, Bf
  <2>2. m \notin ToSet(snoop[c])  BY <1>2 DEF SnoopsOK, SnoopsOnce, Bf
  <2> QED  BY <2>1, <2>2
<1>5. r = [sb EXCEPT !.active = <<m>>]  OBVIOUS
<1>6. snoops' = [snoops EXCEPT ![c] = r]  OBVIOUS
<1> HIDE DEF r
<1>7. SnoopsOK(c, snoop[c], r) /\ Buffered(r) = Buffered(sb) \cup {m}
  BY <1>3, <1>4, <1>5, SnoopActivated
<1>8. SnoopBecomes(c, snoop[c], r)  BY <1>1, <1>6, SnoopSeqs DEF SnoopBecomes
<1>9. SnoopInv' /\ OnlyAt(c) /\ Sn(c)' = Sn(c) /\ Bf(c)' = Bf(c)
  <2>1. SnoopInv' /\ OnlyAt(c) /\ Sn(c)' = ToSet(snoop[c]) /\ Bf(c)' = Buffered(r)
    BY <1>1, <1>7, <1>8, SnoopInvBecomes
  <2>2. Buffered(r) = Bf(c)  BY <1>7
  <2> QED  BY <2>1, <2>2 DEF Sn
<1>10. UNCHANGED snoopViews  BY <1>9, BufferSame DEF SameBuffer
<1>11. /\ L1OK(array[c], evict[c], maf[c], EvictSnoopIn(Bf(c)))
       /\ array[c] \in L1!States /\ data[c] \in Version
       /\ evict[c] \in EvictRec /\ maf[c] \in MafRec
  BY <1>1, L1AtIs
<1>12. L1OK(array[c], evict[c], maf[c], EvictSnoopIn(Bf(c))')
  <2>1. EvictSnoopIn(Bf(c))' = EvictSnoopIn(Bf(c))  BY <1>9 DEF EvictSnoopIn
  <2> QED  BY <1>11, <2>1
<1>13. L1Becomes(c, array[c], data[c], evict[c], maf[c])
  BY <1>1, <1>11, Unmoved DEF L1Becomes
<1>14. (evict[c].pending <=> c \in leavingV)
       /\ copyV[c] = IF array[c] # "I" THEN array[c] ELSE evict[c].state
  BY <1>1, BlockIs
<1>15. BackQuiet /\ reply' = reply  BY DEF BackQuiet
<1>16. \A n \in Sn(c)' \cup Bf(c)' : Asks(n) => n \in Sn(c) \cup Bf(c)  BY <1>9
<1> QED  BY <1>9, <1>10, <1>12, <1>13, <1>14, <1>15, <1>16, BackStutter

(* The first snoop of theWakeList is taken. *)
LEMMA WakeSnoopIs ==
  ASSUME SnoopInv, NEW c \in Cores, L1WakeSnoop(c)
  PROVE  \E m, sb :
        /\ m \in Bf(c) /\ m \in Message /\ m \in ToSet(snoops[c].waking)
        /\ SnoopsOK(c, snoop[c], sb) /\ Buffered(sb) = Bf(c) \ {m} /\ sb.active = snoops[c].active
        /\ sb.waiting = snoops[c].waiting /\ ToSet(sb.waking) = ToSet(snoops[c].waking) \ {m}
        /\ \/ L1!HandleSnooped(c, m, sb)
           \/ /\ m.type = "EvictClean"
              /\ UNCHANGED <<array, evict, reply>>
              /\ IF sb.active = <<>>
                 THEN /\ snoops' = [snoops EXCEPT ![c] = [sb EXCEPT !.active = <<m>>]]
                      /\ UNCHANGED failed
                 ELSE L1!Abort("waking evict finds an active snoop") /\ UNCHANGED snoops
        /\ UNCHANGED <<data, maf, request, snoop, toMem, latest>> /\ L1Frame
<1>0. SnoopsOK(c, snoop[c], snoops[c])  BY DEF SnoopInv
<1> DEFINE m == Head(snoops[c].waking)
           sb == [snoops[c] EXCEPT !.waking = Tail(@)]
<1>1. /\ snoops[c].waking # <<>>
      /\ \/ L1!HandleSnooped(c, m, sb)
         \/ /\ m.type = "EvictClean"
            /\ UNCHANGED <<array, evict, reply>>
            /\ IF sb.active = <<>>
               THEN /\ snoops' = [snoops EXCEPT ![c] = [sb EXCEPT !.active = <<m>>]]
                    /\ UNCHANGED failed
               ELSE L1!Abort("waking evict finds an active snoop") /\ UNCHANGED snoops
      /\ UNCHANGED <<data, maf, request, snoop, toMem, latest>> /\ L1Frame
  BY DEF L1WakeSnoop, L1!WakeSnoop
<1>2. sb = [snoops[c] EXCEPT !.waking = Tail(@)]  OBVIOUS
<1> HIDE DEF sb
<1>3. /\ SnoopsOK(c, snoop[c], sb) /\ sb.active = snoops[c].active
      /\ Buffered(sb) = Buffered(snoops[c]) \ {m}
      /\ m \in Buffered(snoops[c]) /\ m \in Message
  <2>1. PICK s0 : s0 = snoops[c]  OBVIOUS
  <2>2. PICK q0 : q0 = snoop[c]  OBVIOUS
  <2>3. SnoopsOK(c, q0, s0) /\ s0.waking # <<>> /\ sb = [s0 EXCEPT !.waking = Tail(@)]
        /\ m = Head(s0.waking)
    BY <1>0, <1>1, <1>2, <2>1, <2>2
  <2> HIDE DEF m
  <2>4. /\ SnoopsOK(c, q0, sb) /\ sb.active = s0.active
        /\ Buffered(sb) = Buffered(s0) \ {Head(s0.waking)}
        /\ Head(s0.waking) \in Buffered(s0) /\ Head(s0.waking) \in Message
    BY <2>3, WokenTaken
  <2> QED  BY <2>1, <2>2, <2>3, <2>4
<1>4. m \in ToSet(snoops[c].waking) /\ ToSet(Tail(snoops[c].waking)) = ToSet(snoops[c].waking) \ {m}
  <2>1. snoops[c].waking \in Seq(Message) /\ IsInjective(snoops[c].waking)
    BY <1>0 DEF SnoopsOK, SnoopsOnce, SnoopBuffer
  <2> QED  BY <1>1, <2>1, TailSet
<1>5. sb.waiting = snoops[c].waiting /\ sb.waking = Tail(snoops[c].waking)
  BY <1>0, <1>2 DEF SnoopsOK, SnoopBuffer
<1> HIDE DEF m
<1> QED  BY <1>1, <1>3, <1>4, <1>5 DEF Bf

(* The snoop is handled anew, or the core is asked to give up the block. *)
LEMMA WakeSnoopKeeps ==
  ASSUME CInv, NEW c \in Cores, L1WakeSnoop(c)
  PROVE  CInv' /\ TStep
<1>1. L1Inv /\ SnoopInv  BY DEF CInv
<1>2. SnoopsOK(c, snoop[c], snoops[c])  BY <1>1 DEF SnoopInv
<1>3. PICK m, sb :
        /\ m \in Bf(c) /\ m \in Message /\ m \in ToSet(snoops[c].waking)
        /\ SnoopsOK(c, snoop[c], sb) /\ Buffered(sb) = Bf(c) \ {m} /\ sb.active = snoops[c].active
        /\ sb.waiting = snoops[c].waiting /\ ToSet(sb.waking) = ToSet(snoops[c].waking) \ {m}
        /\ \/ L1!HandleSnooped(c, m, sb)
           \/ /\ m.type = "EvictClean"
              /\ UNCHANGED <<array, evict, reply>>
              /\ IF sb.active = <<>>
                 THEN /\ snoops' = [snoops EXCEPT ![c] = [sb EXCEPT !.active = <<m>>]]
                      /\ UNCHANGED failed
                 ELSE L1!Abort("waking evict finds an active snoop") /\ UNCHANGED snoops
        /\ UNCHANGED <<data, maf, request, snoop, toMem, latest>> /\ L1Frame
  BY <1>1, WakeSnoopIs
<1>4. CASE L1!HandleSnooped(c, m, sb)
  <2>1. m.type \in {"ReadFwd", "WriteFwd", "Invalidate"}  BY <1>4 DEF L1!HandleSnooped
  <2>2. DirSnoop(m)  BY <1>2, <1>3, <2>1 DEF SnoopsOK, Bf
  <2>3. snoop' = [snoop EXCEPT ![c] = snoop[c]]  BY <1>1, <1>3, SnoopSeqs
  <2>4. Taking(c, m, snoop[c], sb)  BY <1>3, <2>2, <2>3 DEF Taking, Sn
  <2>5. SnoopQuietly  BY <1>3 DEF SnoopQuietly
  <2> QED  BY <1>4, <2>4, <2>5, SnoopedKeeps
<1>5. CASE /\ m.type = "EvictClean"
           /\ UNCHANGED <<array, evict, reply>>
           /\ IF sb.active = <<>>
              THEN /\ snoops' = [snoops EXCEPT ![c] = [sb EXCEPT !.active = <<m>>]]
                   /\ UNCHANGED failed
              ELSE L1!Abort("waking evict finds an active snoop") /\ UNCHANGED snoops
  <2>1. sb.active = <<>>  BY <1>2, <1>3, <1>5 DEF SnoopsOK
  <2>2. snoops' = [snoops EXCEPT ![c] = [sb EXCEPT !.active = <<m>>]] /\ failed' = failed
    BY <1>5, <2>1
  <2> QED  BY <1>3, <1>5, <2>1, <2>2, EvictSnoopWokenKeeps
<1> QED  BY <1>3, <1>4, <1>5

-----------------------------------------------------------------------------
(* The core has answered snoop m, and r is what is left of the buffer. *)
Answering(c, m, r) ==
  /\ m \in Bf(c) /\ m \in Message /\ DirSnoop(m)
  /\ SnoopsOK(c, snoop[c], r)
  /\ Buffered(r) \subseteq Bf(c) \ {m}
  /\ \A n \in Bf(c) : n.type # "EvictClean" /\ n # m => n \in Buffered(r)

(* The core has answered snoop m. *)
LEMMA AnsweringGone ==
  ASSUME SnoopInv, NEW c \in Cores, NEW m, NEW r, Answering(c, m, r),
         snoop' = snoop, snoops' = [snoops EXCEPT ![c] = r]
  PROVE  Gone(c, m) /\ NoNewEvictSnoop(c) /\ OnlyAt(c) /\ Bf(c)' = Buffered(r)
<1>1. SnoopBecomes(c, snoop[c], r)  BY SnoopSeqs DEF SnoopBecomes
<1>2. SnoopInv' /\ OnlyAt(c) /\ Sn(c)' = Sn(c) /\ Bf(c)' = Buffered(r)
  BY <1>1, SnoopInvBecomes DEF Answering, Sn
<1> QED  BY <1>2 DEF Answering, Gone, LessBuffer, NoNewEvictSnoop, EvictSnoopIn

(* The snoop buffer after finalizeSnoop, *)
LEMMA FinishedIs ==
  ASSUME NEW c \in Cores, NEW q, NEW sb, SnoopsOK(c, q, sb), sb.active # <<>>,
         NEW m, m = Head(sb.active), NEW r, r = L1!WakeWaitingEntries(sb)
  PROVE  /\ SnoopsOK(c, q, r) /\ Buffered(r) = Buffered(sb) \ {m}
         /\ m \in Buffered(sb) /\ m \in Message
         /\ ToSet(r.waking) = Buffered(r)
<1>1. /\ SnoopsOK(c, q, r) /\ Buffered(r) = Buffered(sb) \ {Head(sb.active)}
      /\ r.active = <<>> /\ r.waiting = <<>>
      /\ Head(sb.active) \in Buffered(sb) /\ Head(sb.active) \in Message
  BY SnoopFinished
<1>2. ToSet(r.waking) = Buffered(r)  BY <1>1, EmptySet DEF Buffered
<1> QED  BY <1>1, <1>2

(* ... when the eviction snoop goes with its evict buffer entry. *)
LEMMA DroppedIs ==
  ASSUME NEW c \in Cores, NEW q, NEW sb, SnoopsOK(c, q, sb), sb.active # <<>>,
         NEW m, m = Head(sb.active), DirSnoop(m),
         NEW r, r = L1!WakeWaitingEntries(L1!WithoutEvictSnoop(sb))
  PROVE  /\ SnoopsOK(c, q, r) /\ Buffered(r) \subseteq Buffered(sb) \ {m}
         /\ m \in Buffered(sb) /\ m \in Message
         /\ \A n \in Buffered(sb) : n.type # "EvictClean" /\ n # m => n \in Buffered(r)
         /\ \A n \in Buffered(r) : n.type # "EvictClean"
<1>1. PICK t : t = L1!WithoutEvictSnoop(sb)  OBVIOUS
<1>2. /\ SnoopsOK(c, q, t) /\ t.active = sb.active /\ t.waking = sb.waking
      /\ Buffered(t) \subseteq Buffered(sb)
      /\ \A n \in ToSet(t.waiting) : n.type # "EvictClean"
      /\ \A n \in Buffered(sb) : n.type # "EvictClean" => n \in Buffered(t)
  BY <1>1, EvictSnoopDropped
<1>3. r = L1!WakeWaitingEntries(t) /\ m = Head(t.active) /\ t.active # <<>>  BY <1>1, <1>2
<1>4. /\ SnoopsOK(c, q, r) /\ Buffered(r) = Buffered(t) \ {m}
      /\ m \in Buffered(t) /\ m \in Message /\ ToSet(r.waking) = Buffered(r)
  BY <1>2, <1>3, FinishedIs
<1>5. ToSet(t.active) = {m}  BY <1>2, <1>3, SnoopFinished
<1>6. \A n \in ToSet(t.waking) : n.type # "EvictClean"  BY <1>2 DEF SnoopsOK
<1>7. \A n \in Buffered(r) : n.type # "EvictClean"
  BY <1>2, <1>4, <1>5, <1>6 DEF Buffered
<1> QED  BY <1>2, <1>4, <1>7

DoneQuietly == UNCHANGED <<data, request, snoop, toMem, latest>> /\ L1Frame

(* The core has downgraded its copy. *)
LEMMA FinalizeReadKeeps ==
  ASSUME CInv, DoneQuietly, NEW c \in Cores, NEW m, m.type = "ReadFwd", NEW r, Answering(c, m, r),
         NEW f, MafLike(c, f), snoops' = [snoops EXCEPT ![c] = r],
         \E s \in L1!SnoopedStates(c) :
           L1!Reply(L1!FwdAnswer(c, m, IF s = "M" THEN "FwdReplyOwned" ELSE "FwdReply")),
         IF array[c] # "I" \/ evict[c] # L1!NoEvict
         THEN L1!SetBlockState(c, "S")
         ELSE UNCHANGED <<array, evict>>,
         failed' = failed
  PROVE  CInv' /\ TStep
<1>1. L1Inv /\ SnoopInv  BY DEF CInv
<1>2. BackQuiet /\ data' = data /\ snoop' = snoop  BY DEF DoneQuietly, BackQuiet
<1>3. Gone(c, m) /\ NoNewEvictSnoop(c) /\ OnlyAt(c)  BY <1>1, <1>2, AnsweringGone
<1>4. PICK t \in {"FwdReply", "FwdReplyOwned"} : L1!Reply(L1!FwdAnswer(c, m, t))  OBVIOUS
<1>5. PICK n : n = L1!FwdAnswer(c, m, t)  OBVIOUS
<1>6. reply' = reply (+) SetToBag({n})  BY <1>4, <1>5, ReplyOps DEF L1!Reply
<1>7. Fields(n, t, m.requester, m.requester, c, 0)
  <2>1. t \in MessageTypes /\ m \in Message  BY DEF MessageTypes, FwdReplies, Answering
  <2> QED  BY <1>1, <1>5, <2>1, FwdAnswerFields
<1>8. copyV[c] # "I" <=> array[c] # "I" \/ evict[c] # L1!NoEvict
  <2>1. L1!FromEB(c) <=> array[c] = "I" /\ evict[c] # L1!NoEvict  BY DEF L1!FromEB
  <2> QED  BY <1>1, <2>1, BlockIs
<1>9. CopyBecomes(c, IF copyV[c] = "I" THEN "I" ELSE "S")
  <2>1. CASE copyV[c] = "I"
    <3>1. array' = array /\ evict' = evict  BY <1>8, <2>1
    <3>2. CopyBecomes(c, copyV[c])  BY <1>1, <1>2, <1>3, <3>1, L1Stays
    <3> QED  BY <2>1, <3>2
  <2>2. CASE copyV[c] # "I"
    <3>1. L1!SetBlockState(c, "S")  BY <1>8, <2>2
    <3>2. CopyBecomes(c, "S")  BY <1>1, <1>2, <1>3, <2>2, <3>1, StateSet
    <3> QED  BY <2>2, <3>2
  <2> QED  BY <2>1, <2>2
<1> QED  BY <1>2, <1>3, <1>6, <1>7, <1>9, AnswerKeeps

(* The core has given up its copy: the block is still there. *)
LEMMA FinalizeInvalidationKeeps ==
  ASSUME CInv, DoneQuietly, NEW c \in Cores, NEW m, m.type \in {"WriteFwd", "Invalidate"},
         snoops[c].active # <<>>, m = Head(snoops[c].active), DirSnoop(m),
         NEW f, MafLike(c, f), L1!FinalizeInvalidation(c, m)
  PROVE  CInv' /\ TStep
<1>1. L1Inv /\ SnoopInv  BY DEF CInv
<1>2. SnoopsOK(c, snoop[c], snoops[c])  BY <1>1 DEF SnoopInv
<1>a. m \in Bf(c) /\ m \in Message  BY <1>2, SnoopFinished DEF Bf
<1>3. copyV[c] # "I"
  <2>1. c \in fetchesV \/ c \in invalsV  BY <1>a DEF fetchesV, invalsV, Snooped
  <2> QED  BY <2>1 DEF CInv, T!Inv, T!SnoopFindsCopy, T!Asked
<1>4. ~(array[c] = "I" /\ evict[c] = L1!NoEvict)  BY <1>1, <1>3, BlockIs, NoEvictIs
<1> DEFINE drop == array[c] = "I" /\ ~evict[c].pending
           t == IF m.type = "Invalidate" THEN "InvalidateAck"
                ELSE IF L1!BlockState(c) = "M" THEN "FwdReplyOwned" ELSE "FwdReplyWritable"
           n == IF m.type = "Invalidate" THEN L1!InvAck(c, m, "InvalidateAck")
                ELSE L1!FwdAnswer(c, m, IF L1!BlockState(c) = "M" THEN "FwdReplyOwned"
                                        ELSE "FwdReplyWritable")
           e == IF drop THEN L1!NoEvict ELSE evict[c]
           r == L1!WakeWaitingEntries(IF drop THEN L1!WithoutEvictSnoop(snoops[c]) ELSE snoops[c])
<1>5. /\ failed' = failed /\ L1!Reply(n)
      /\ array' = [array EXCEPT ![c] = "I"]
      /\ evict' = [evict EXCEPT ![c] = e]
      /\ snoops' = [snoops EXCEPT ![c] = r]
  BY <1>4 DEF L1!FinalizeInvalidation
<1>6. Fields(n, t, m.requester, m.requester, c, 0)
  <2>1. CASE m.type = "Invalidate"
    <3>1. "InvalidateAck" \in MessageTypes  BY DEF MessageTypes, NackTypes
    <3> QED  BY <1>a, <2>1, <3>1, InvAckFields
  <2>2. CASE m.type # "Invalidate"
    <3>1. t \in MessageTypes  BY <2>2 DEF MessageTypes, FwdReplies
    <3>2. n = L1!FwdAnswer(c, m, t)  BY <2>2
    <3> HIDE DEF n, t
    <3> QED  BY <1>1, <1>a, <3>1, <3>2, FwdAnswerFields
  <2> QED  BY <2>1, <2>2
<1>7. /\ m.type = "WriteFwd" => t \in {"FwdReplyOwned", "FwdReplyWritable", "FwdReplyDirty"}
      /\ m.type = "Invalidate" => t = "InvalidateAck"
  OBVIOUS
<1>8. reply' = reply (+) SetToBag({n})
  <2> HIDE DEF n
  <2> QED  BY <1>5, ReplyOps DEF L1!Reply
<1> HIDE DEF n, t
<1>9. BackQuiet /\ data' = data /\ snoop' = snoop  BY <1>5 DEF DoneQuietly, BackQuiet
<1>10. /\ L1OK(array[c], evict[c], maf[c], EvictSnoopIn(Bf(c)))
       /\ array[c] \in L1!States /\ evict[c] \in EvictRec
  BY <1>1, L1AtIs
<1>11. (evict[c].pending <=> c \in leavingV)
       /\ copyV[c] = IF array[c] # "I" THEN array[c] ELSE evict[c].state
  BY <1>1, BlockIs
<1>12. "I" \in L1!States  BY DEF L1!States
<1>13. CASE drop
  <2>1. Answering(c, m, r) /\ \A k \in Buffered(r) : k.type # "EvictClean"
    <3>1. PICK s0 : s0 = snoops[c]  OBVIOUS
    <3>2. SnoopsOK(c, snoop[c], s0) /\ s0.active # <<>> /\ m = Head(s0.active)  BY <1>2, <3>1
    <3>3. r = L1!WakeWaitingEntries(L1!WithoutEvictSnoop(s0))  BY <1>13, <3>1
    <3> HIDE DEF r
    <3>4. /\ SnoopsOK(c, snoop[c], r) /\ Buffered(r) \subseteq Buffered(s0) \ {m}
          /\ m \in Buffered(s0) /\ m \in Message
          /\ \A k \in Buffered(s0) : k.type # "EvictClean" /\ k # m => k \in Buffered(r)
          /\ \A k \in Buffered(r) : k.type # "EvictClean"
      BY <3>2, <3>3, DroppedIs
    <3> QED  BY <3>1, <3>4 DEF Answering, Bf
  <2> HIDE DEF r
  <2>2. Gone(c, m) /\ OnlyAt(c) /\ Bf(c)' = Buffered(r)  BY <1>1, <1>5, <1>9, <2>1, AnsweringGone
  <2>3. ~EvictSnoopIn(Bf(c))'  BY <2>1, <2>2 DEF EvictSnoopIn
  <2>4. e = L1!NoEvict  BY <1>13
  <2> HIDE DEF e
  <2>4a. f.state # "WaitResponse" \/ ~f.woken
    BY <1>10 DEF L1OK, MafLike
  <2>5. L1OK("I", e, f, EvictSnoopIn(Bf(c))')
    BY <1>10, <2>3, <2>4, <2>4a, NoEvictIs DEF L1OK, MafLike
  <2>6. e \in EvictRec /\ ~e.pending /\ e.state = "I" /\ c \notin leavingV
    BY <1>11, <1>13, <2>4, NoEvictIs
  <2>7. CopyBecomes(c, "I")
    BY <1>1, <1>5, <1>9, <1>12, <2>2, <2>5, <2>6, L1Changes
  <2>8. CopyBecomes(c, IF c \in leavingV THEN copyV[c] ELSE "I")  BY <2>6, <2>7
  <2> QED  BY <1>6, <1>7, <1>8, <1>9, <2>2, <2>8, GiveUpKeeps
<1>14. CASE ~drop
  <2>1. Answering(c, m, r)
    <3>1. PICK s0 : s0 = snoops[c]  OBVIOUS
    <3>2. SnoopsOK(c, snoop[c], s0) /\ s0.active # <<>> /\ m = Head(s0.active)  BY <1>2, <3>1
    <3>3. r = L1!WakeWaitingEntries(s0)  BY <1>14, <3>1
    <3> HIDE DEF r
    <3>4. /\ SnoopsOK(c, snoop[c], r) /\ Buffered(r) = Buffered(s0) \ {m}
          /\ m \in Buffered(s0) /\ m \in Message
      BY <3>2, <3>3, FinishedIs
    <3> QED  BY <3>1, <3>4 DEF Answering, Bf
  <2> HIDE DEF r
  <2>2. Gone(c, m) /\ OnlyAt(c) /\ NoNewEvictSnoop(c)  BY <1>1, <1>5, <1>9, <2>1, AnsweringGone
  <2>4. e = evict[c]  BY <1>14
  <2>4a. array[c] # "I" \/ evict[c].pending  BY <1>14
  <2> HIDE DEF e
  <2>5. L1OK("I", e, f, EvictSnoopIn(Bf(c))')
    BY <1>10, <2>2, <2>4 DEF L1OK, MafLike, NoNewEvictSnoop
  <2>6. CopyBecomes(c, evict[c].state)
    BY <1>1, <1>5, <1>9, <1>10, <1>11, <1>12, <2>2, <2>4, <2>5, L1Changes
  <2>7. evict[c].state = IF c \in leavingV THEN copyV[c] ELSE "I"
    <3>1. CASE array[c] # "I"
      BY <1>10, <1>11, <3>1, NoEvictIs DEF L1OK
    <3>2. CASE array[c] = "I"  BY <1>11, <2>4a, <3>2
    <3> QED  BY <3>1, <3>2
  <2>8. CopyBecomes(c, IF c \in leavingV THEN copyV[c] ELSE "I")  BY <2>6, <2>7
  <2> QED  BY <1>6, <1>7, <1>8, <1>9, <2>2, <2>8, GiveUpKeeps
<1> QED  BY <1>13, <1>14

(* The core has given an evicted block up. *)
LEMMA FinalizeEvictSnoopKeeps ==
  ASSUME CInv, DoneQuietly, NEW c \in Cores, NEW m, m.type = "EvictClean",
         snoops[c].active # <<>>, m = Head(snoops[c].active),
         NEW f, MafLike(c, f), L1!FinalizeEvictSnoop(c)
  PROVE  CInv' /\ TStep
<1>1. L1Inv /\ SnoopInv  BY DEF CInv
<1>2. SnoopsOK(c, snoop[c], snoops[c])  BY <1>1 DEF SnoopInv
<1> DEFINE r == L1!WakeWaitingEntries(snoops[c])
           e == IF evict[c] = L1!NoEvict THEN evict[c] ELSE [evict[c] EXCEPT !.evictable = TRUE]
<1>3. /\ snoops' = [snoops EXCEPT ![c] = r]
      /\ evict' = [evict EXCEPT ![c] = e]
      /\ UNCHANGED <<array, reply, failed>>
  BY DEF L1!FinalizeEvictSnoop
<1>4. SnoopsOK(c, snoop[c], r) /\ Buffered(r) = Bf(c) \ {m} /\ m \in Bf(c) /\ m \in Message
  <2>1. PICK s0 : s0 = snoops[c]  OBVIOUS
  <2>2. SnoopsOK(c, snoop[c], s0) /\ s0.active # <<>> /\ m = Head(s0.active)  BY <1>2, <2>1
  <2>3. r = L1!WakeWaitingEntries(s0)  BY <2>1
  <2> HIDE DEF r
  <2>4. SnoopsOK(c, snoop[c], r) /\ Buffered(r) = Buffered(s0) \ {m} /\ m \in Buffered(s0) /\ m \in Message
    BY <2>2, <2>3, FinishedIs
  <2> QED  BY <2>1, <2>4 DEF Bf
<1> HIDE DEF r
<1>5. DoneQuietly  OBVIOUS
<1>6. BackQuiet /\ data' = data /\ snoop' = snoop /\ reply' = reply  BY <1>3, <1>5 DEF DoneQuietly, BackQuiet
<1>7. SnoopBecomes(c, snoop[c], r)  BY <1>1, <1>3, <1>6, SnoopSeqs DEF SnoopBecomes
<1>8. SnoopInv' /\ OnlyAt(c) /\ Sn(c)' = Sn(c) /\ Bf(c)' = Bf(c) \ {m}
  <2>1. SnoopInv' /\ OnlyAt(c) /\ Sn(c)' = ToSet(snoop[c]) /\ Bf(c)' = Buffered(r)
    BY <1>1, <1>4, <1>7, SnoopInvBecomes
  <2> QED  BY <1>4, <2>1 DEF Sn
<1>9. SameBuffer(c)  BY <1>8 DEF SameBuffer
<1>10. UNCHANGED snoopViews  BY <1>8, <1>9, BufferSame
<1>11. ~EvictSnoopIn(Bf(c))'
  <2>1. \A n \in Bf(c) : n.type = "EvictClean" => n.requester = c  BY <1>2 DEF SnoopsOK, DirSnoop, Bf
  <2>2. \A n \in Bf(c) : n.type = m.type /\ n.requester = m.requester => n = m
    BY <1>2, <1>4 DEF SnoopsOK, SnoopsOnce, Bf
  <2>3. \A n \in Bf(c) : n.type = "EvictClean" => n = m  BY <1>4, <2>1, <2>2
  <2> QED  BY <1>8, <2>3 DEF EvictSnoopIn
<1>12. /\ L1OK(array[c], evict[c], maf[c], EvictSnoopIn(Bf(c)))
       /\ array[c] \in L1!States /\ data[c] \in Version
       /\ evict[c] \in EvictRec /\ maf[c] \in MafRec
  BY <1>1, L1AtIs
<1>13. EvictSnoopIn(Bf(c))  BY <1>4 DEF EvictSnoopIn
<1>14. /\ e \in EvictRec /\ e.state = evict[c].state /\ (e.pending <=> evict[c].pending)
       /\ (e.snoopRequired <=> evict[c].snoopRequired)
       /\ (evict[c] = L1!NoEvict => e = L1!NoEvict)
       /\ (evict[c] # L1!NoEvict => e.evictable)
  BY <1>12 DEF EvictRec
<1> HIDE DEF e
<1>15. L1OK(array[c], e, f, EvictSnoopIn(Bf(c))')
  BY <1>11, <1>12, <1>13, <1>14, NoEvictIs DEF L1OK, MafLike
<1>16. L1Becomes(c, array[c], data[c], e, f)
  BY <1>1, <1>3, <1>6, <1>12, <1>14, Unmoved DEF L1Becomes, MafLike
<1>17. (e.pending <=> c \in leavingV)
       /\ copyV[c] = IF array[c] # "I" THEN array[c] ELSE e.state
  BY <1>1, <1>14, BlockIs
<1>18. \A n \in Sn(c)' \cup Bf(c)' : Asks(n) => n \in Sn(c) \cup Bf(c)  BY <1>8
<1>19. /\ f.state = maf[c].state /\ f.op = maf[c].op /\ f.outstanding = maf[c].outstanding
       /\ (f.dataReceived <=> maf[c].dataReceived)
  BY DEF MafLike
<1> QED  BY <1>6, <1>8, <1>10, <1>15, <1>16, <1>17, <1>18, <1>19, BackStutter

(* finalizeSnoop, for each kind of snoop. *)
LEMMA SnoopDoneKeeps ==
  ASSUME CInv, NEW c \in Cores, L1SnoopDone(c)
  PROVE  CInv' /\ TStep
<1>1. L1Inv /\ SnoopInv  BY DEF CInv
<1>2. SnoopsOK(c, snoop[c], snoops[c])  BY <1>1 DEF SnoopInv
<1>3. PICK m : /\ snoops[c].active # <<>> /\ m = Head(snoops[c].active)
               /\ \/ m.type = "ReadFwd" /\ L1!FinalizeReadFwd(c, m)
                  \/ m.type \in {"WriteFwd", "Invalidate"} /\ L1!FinalizeInvalidation(c, m)
                  \/ m.type = "EvictClean" /\ L1!FinalizeEvictSnoop(c)
               /\ L1!Wake(c, "WaitSnoop") /\ DoneQuietly
  BY DEF L1SnoopDone, L1!FinalizeSnoop, DoneQuietly
<1>4. PICK f : MafLike(c, f)  BY <1>1, <1>3, MafWoken
<1>5. m \in Bf(c) /\ m \in Message  BY <1>2, <1>3, SnoopFinished DEF Bf
<1>6. m.type # "EvictClean" => DirSnoop(m)  BY <1>2, <1>5 DEF SnoopsOK, Bf
<1>7. CASE m.type = "ReadFwd" /\ L1!FinalizeReadFwd(c, m)
  <2> DEFINE r == L1!WakeWaitingEntries(snoops[c])
  <2>1. /\ snoops' = [snoops EXCEPT ![c] = r]
        /\ \E s \in L1!SnoopedStates(c) :
             L1!Reply(L1!FwdAnswer(c, m, IF s = "M" THEN "FwdReplyOwned" ELSE "FwdReply"))
        /\ IF array[c] # "I" \/ evict[c] # L1!NoEvict
           THEN L1!SetBlockState(c, "S")
           ELSE UNCHANGED <<array, evict>>
        /\ failed' = failed
    BY <1>7 DEF L1!FinalizeReadFwd
  <2>2. Answering(c, m, r)
    <3>1. PICK s0 : s0 = snoops[c]  OBVIOUS
    <3>2. SnoopsOK(c, snoop[c], s0) /\ s0.active # <<>> /\ m = Head(s0.active)  BY <1>2, <1>3, <3>1
    <3>3. r = L1!WakeWaitingEntries(s0)  BY <3>1
    <3> HIDE DEF r
    <3>4. SnoopsOK(c, snoop[c], r) /\ Buffered(r) = Buffered(s0) \ {m}
      BY <3>2, <3>3, FinishedIs
    <3>5. DirSnoop(m)  BY <1>6, <1>7
    <3> QED  BY <1>5, <3>1, <3>4, <3>5 DEF Answering, Bf
  <2> HIDE DEF r
  <2> QED  BY <1>3, <1>4, <1>7, <2>1, <2>2, FinalizeReadKeeps
<1>8. CASE m.type \in {"WriteFwd", "Invalidate"} /\ L1!FinalizeInvalidation(c, m)
  <2>1. DirSnoop(m)  BY <1>6, <1>8
  <2> QED  BY <1>3, <1>4, <1>8, <2>1, FinalizeInvalidationKeeps
<1>9. CASE m.type = "EvictClean" /\ L1!FinalizeEvictSnoop(c)
  BY <1>3, <1>4, <1>9, FinalizeEvictSnoopKeeps
<1> QED  BY <1>3, <1>7, <1>8, <1>9

-----------------------------------------------------------------------------
(* A reply arrives at the L1 that waits for it. *)
ReplyQuiet == UNCHANGED <<evict, snoops, request, snoop, toMem, failed>> /\ L1Frame

(* What a reply leaves alone. *)
LEMMA ReplyFrame ==
  ASSUME CInv, ReplyQuiet, FromDir(Rp)' = FromDir(Rp)
  PROVE  /\ PostInv' /\ SnoopInv' /\ AskInv'
         /\ UNCHANGED T!postVars /\ UNCHANGED T!serveVars /\ UNCHANGED T!tokenVars
         /\ UNCHANGED T!dirVars
         /\ \A d \in Cores : Bf(d)' = Bf(d)
<1>0. snoops' = snoops /\ snoop' = snoop /\ toMem' = toMem /\ request' = request  BY DEF ReplyQuiet
<1>1. SnoopInv' /\ UNCHANGED snoopViews /\ (\A c \in Cores : Sn(c)' = Sn(c) /\ Bf(c)' = Bf(c))
  BY <1>0, SnoopQuiet DEF CInv
<1>2. UNCHANGED T!dirVars /\ dmaf' = dmaf /\ ceb' = ceb  BY DirSame DEF ReplyQuiet
<1>3. PostInv' /\ UNCHANGED T!postVars /\ UNCHANGED T!serveVars  BY <1>0, <1>2, PostSame DEF CInv
<1>4. AskInv'  BY <1>1, <1>3, AskSame DEF CInv
<1>5. atMemoryV' = atMemoryV  BY <1>0, <1>2, MemSame DEF CInv
<1>6. UNCHANGED T!tokenVars  BY <1>1, <1>5 DEF snoopViews, T!tokenVars
<1> QED  BY <1>1, <1>2, <1>3, <1>4, <1>6

(* An L1 that waits for a reply has nothing in its evict buffer. *)
LEMMA WaitingIs ==
  ASSUME L1Inv, NEW c \in Cores, Wt(c)
  PROVE  /\ evict[c] = L1!NoEvict /\ ~EvictSnoopIn(Bf(c)) /\ c \notin leavingV
         /\ array[c] = copyV[c] /\ missV[c] = maf[c].op /\ maf[c].op \in {"Load", "Store"}
         /\ balanceV[c] = maf[c].outstanding /\ (c \in filledV <=> maf[c].dataReceived)
         /\ evict' = evict => evict' = [evict EXCEPT ![c] = L1!NoEvict]
         /\ ~maf[c].woken
<1>1. L1OK(array[c], evict[c], maf[c], EvictSnoopIn(Bf(c)))  BY L1AtIs
<1>2. evict[c] = L1!NoEvict /\ ~EvictSnoopIn(Bf(c)) /\ ~maf[c].woken  BY <1>1 DEF L1OK, Wt
<1>3. c \notin leavingV /\ array[c] = copyV[c] /\ missV[c] = maf[c].op /\ maf[c].op \in {"Load", "Store"}
  BY <1>2, BlockIs, NoEvictIs
<1>4. balanceV[c] = maf[c].outstanding /\ (c \in filledV <=> maf[c].dataReceived)
  BY DEF balanceV, filledV
<1>5. evict' = evict => evict' = [evict EXCEPT ![c] = L1!NoEvict]  BY <1>2, Unmoved
<1> QED  BY <1>2, <1>3, <1>4, <1>5

(* A reply keeps the invariant if the parts it can disturb hold. *)
LEMMA ReplyKeeps ==
  ASSUME CInv, ReplyQuiet, latest' \in Version, ReplyInv', FromDir(Rp)' = FromDir(Rp), TStep,
         NEW c \in Cores, Wt(c), NEW a, NEW v, NEW f, L1Becomes(c, a, v, L1!NoEvict, f),
         L1OK(a, L1!NoEvict, f, FALSE)
  PROVE  CInv' /\ TStep
<1>1. L1Inv  BY DEF CInv
<1>2. PostInv' /\ SnoopInv' /\ AskInv' /\ (\A d \in Cores : Bf(d)' = Bf(d))  BY ReplyFrame
<1>3. ~EvictSnoopIn(Bf(c))  BY <1>1, WaitingIs
<1>4. ~EvictSnoopIn(Bf(c))'  BY <1>2, <1>3 DEF EvictSnoopIn
<1>5. L1OK(a, L1!NoEvict, f, EvictSnoopIn(Bf(c))')  BY <1>4 DEF L1OK
<1>6. L1Inv'  BY <1>1, <1>2, <1>5, L1InvBecomes
<1>7. failed' = failed /\ toMem' = toMem /\ L1Frame  BY DEF ReplyQuiet
<1> QED  BY <1>2, <1>6, <1>7, L1Keeps

(* The state a reply to a load brings. *)
LEMMA FillStates == \A t : L1!FillState(t) = T!FillState(t) /\ T!FillState(t) \in {"E", "M", "S"}
  BY DEF L1!FillState, T!FillState

(* A load is filled and acknowledged. *)
LEMMA LoadReplyKeeps ==
  ASSUME CInv, ReplyQuiet, latest' = latest, NEW c \in Cores, Wt(c), maf[c].op = "Load",
         NEW m \in repliesV, m.dest = c, NEW v,
         L1Becomes(c, T!FillState(m.type), v, L1!NoEvict, L1!NoMaf),
         NEW n, Fields(n, IF m.type = "FwdReplyOwned" THEN "ReadAckDirty" ELSE "ReadAck", c, Dir, c, 0),
         reply' = (reply (-) SetToBag({m})) (+) SetToBag({n})
  PROVE  CInv' /\ TStep
<1>1. L1Inv /\ T!Inv /\ ReplyInv /\ m \in Rp /\ latest' \in Version  BY DEF CInv, repliesV
<1>2. missV[c] = "Load" /\ c \notin leavingV  BY <1>1, WaitingIs
<1>3. m.requester = c  BY <1>1, TSetting, T!ReplyFindsMiss
<1>4. n \in Message /\ n.requester = c /\ T!IsAck(n) /\ (n.dest = Dir => n.outstanding = 0)
  BY DEF Fields, T!Is, T!IsAck, T!ReadAckTypes
<1>5. n \notin repliesV  BY <1>1, <1>4, TSetting, T!AckFresh
<1>6. n \notin Rp  BY <1>4, <1>5 DEF repliesV
<1>7. ReplyStep({m}, {n})  BY <1>1, <1>4, <1>6, ReplySwapped
<1>8. ReplyInv' /\ repliesV' = (repliesV \ {m}) \cup {n} /\ FromDir(Rp)' = FromDir(Rp)
  <2>1. \A k \in {m} \cup {n} : k.requester \in Cores  BY <1>3, <1>4
  <2> QED  BY <1>7, <2>1, RepliesAre
<1>9. T!Swap(m, n)  BY <1>5, <1>8 DEF T!Swap
<1>10. /\ UNCHANGED T!postVars /\ UNCHANGED T!serveVars /\ UNCHANGED T!tokenVars
       /\ UNCHANGED T!dirVars
  BY <1>8, ReplyFrame
<1>11. T!FillState(m.type) \in {"E", "M", "S"}  BY FillStates
<1>12. /\ copyV' = [copyV EXCEPT ![c] = T!FillState(m.type)]
       /\ leavingV' = leavingV \ {c}
       /\ missV' = [missV EXCEPT ![c] = "None"]
       /\ balanceV' = [balanceV EXCEPT ![c] = 0]
       /\ filledV' = filledV \ {c}
  BY <1>1, <1>11, L1Views, NoEvictIs, NoMafIs
<1>13. leavingV' = leavingV  BY <1>2, <1>12
<1>14. T!MissOver(c)  BY <1>10, <1>12, <1>13 DEF T!MissOver
<1>15. T!Is(n, IF m.type = "FwdReplyOwned" THEN "ReadAckDirty" ELSE "ReadAck", c, T!Dir, c, 0)
  BY Names DEF Fields
<1>16. T!LoadReply(c, m, n)
  BY <1>2, <1>3, <1>9, <1>12, <1>14, <1>15 DEF T!LoadReply
<1>17. TStep  BY <1>16, T!ReceiveSteps DEF TStep
<1>18. L1OK(T!FillState(m.type), L1!NoEvict, L1!NoMaf, FALSE)  BY NoEvictIs, NoMafIs DEF L1OK
<1> QED  BY <1>1, <1>8, <1>17, <1>18, ReplyKeeps

(* A store has its last reply. *)
LEMMA StoreDoneKeeps ==
  ASSUME CInv, ReplyQuiet, latest' \in Version, NEW c \in Cores, Wt(c), maf[c].op = "Store",
         NEW m \in repliesV, m.dest = c, NEW v, T!Balance(c, m) = 0,
         L1Becomes(c, "M", v, L1!NoEvict, L1!NoMaf),
         NEW n, Fields(n, IF T!HasData(c, m) THEN "WriteAck" ELSE "UpgradeAck", c, Dir, c, 0),
         reply' = (reply (-) SetToBag({m})) (+) SetToBag({n})
  PROVE  CInv' /\ TStep
<1>1. L1Inv /\ T!Inv /\ ReplyInv /\ m \in Rp  BY DEF CInv, repliesV
<1>2. missV[c] = "Store" /\ c \notin leavingV  BY <1>1, WaitingIs
<1>3. m.requester = c  BY <1>1, TSetting, T!ReplyFindsMiss
<1>4. n \in Message /\ n.requester = c /\ T!IsAck(n) /\ (n.dest = Dir => n.outstanding = 0)
  BY DEF Fields, T!Is, T!IsAck, T!WriteAckTypes
<1>5. n \notin repliesV  BY <1>1, <1>4, TSetting, T!AckFresh
<1>6. n \notin Rp  BY <1>4, <1>5 DEF repliesV
<1>7. ReplyStep({m}, {n})  BY <1>1, <1>4, <1>6, ReplySwapped
<1>8. ReplyInv' /\ repliesV' = (repliesV \ {m}) \cup {n} /\ FromDir(Rp)' = FromDir(Rp)
  <2>1. \A k \in {m} \cup {n} : k.requester \in Cores  BY <1>3, <1>4
  <2> QED  BY <1>7, <2>1, RepliesAre
<1>9. T!Swap(m, n)  BY <1>5, <1>8 DEF T!Swap
<1>10. /\ UNCHANGED T!postVars /\ UNCHANGED T!serveVars /\ UNCHANGED T!tokenVars
       /\ UNCHANGED T!dirVars
  BY <1>8, ReplyFrame
<1>12. /\ copyV' = [copyV EXCEPT ![c] = "M"]
       /\ leavingV' = leavingV \ {c}
       /\ missV' = [missV EXCEPT ![c] = "None"]
       /\ balanceV' = [balanceV EXCEPT ![c] = 0]
       /\ filledV' = filledV \ {c}
  BY <1>1, L1Views, NoEvictIs, NoMafIs
<1>13. leavingV' = leavingV  BY <1>2, <1>12
<1>14. T!MissOver(c)  BY <1>10, <1>12, <1>13 DEF T!MissOver
<1>15. T!Is(n, IF T!HasData(c, m) THEN "WriteAck" ELSE "UpgradeAck", c, T!Dir, c, 0)
  BY Names DEF Fields
<1>16. T!StoreDone(c, m, n)
  BY <1>2, <1>3, <1>9, <1>12, <1>14, <1>15 DEF T!StoreDone
<1>17. TStep  BY <1>16, T!ReceiveSteps DEF TStep
<1>18. L1OK("M", L1!NoEvict, L1!NoMaf, FALSE)  BY NoEvictIs, NoMafIs DEF L1OK
<1> QED  BY <1>1, <1>8, <1>17, <1>18, ReplyKeeps

(* A store waits for more replies. *)
LEMMA StoreReplyKeeps ==
  ASSUME CInv, ReplyQuiet, latest' = latest, NEW c \in Cores, Wt(c), maf[c].op = "Store",
         NEW m \in repliesV, m.dest = c, T!Balance(c, m) # 0,
         NEW a, NEW v, NEW f, L1Becomes(c, a, v, L1!NoEvict, f),
         IF m.type \in T!DataTypes THEN a \in {"E", "M"} ELSE a = copyV[c],
         f.state = "WaitResponse", f.op = "Store", f.outstanding = T!Balance(c, m), ~f.woken,
         f.dataReceived <=> T!HasData(c, m),
         reply' = (reply (-) SetToBag({m})) (+) SetToBag({})
  PROVE  CInv' /\ TStep
<1>1. L1Inv /\ T!Inv /\ ReplyInv /\ m \in Rp /\ latest' \in Version  BY DEF CInv, repliesV
<1>2. missV[c] = "Store" /\ c \notin leavingV  BY <1>1, WaitingIs
<1>3. m.requester = c  BY <1>1, TSetting, T!ReplyFindsMiss
<1>7. ReplyStep({m}, {})  BY <1>1, ReplyTaken
<1>8. ReplyInv' /\ repliesV' = (repliesV \ {m}) \cup {} /\ FromDir(Rp)' = FromDir(Rp)
  <2>1. \A k \in {m} \cup {} : k.requester \in Cores  BY <1>3
  <2> QED  BY <1>7, <2>1, RepliesAre
<1>9. T!Take(m)  BY <1>8 DEF T!Take
<1>10. /\ UNCHANGED T!postVars /\ UNCHANGED T!serveVars /\ UNCHANGED T!tokenVars
       /\ UNCHANGED T!dirVars
  BY <1>8, ReplyFrame
<1>11. /\ copyV' = [copyV EXCEPT ![c] = IF a # "I" THEN a ELSE "I"]
       /\ leavingV' = leavingV \ {c}
       /\ missV' = [missV EXCEPT ![c] = "Store"]
       /\ balanceV' = [balanceV EXCEPT ![c] = T!Balance(c, m)]
       /\ filledV' = IF f.dataReceived THEN filledV \cup {c} ELSE filledV \ {c}
  BY <1>1, L1Views, NoEvictIs
<1>12. copyV' = [copyV EXCEPT ![c] = a]  BY <1>11
<1>13. leavingV' = leavingV  BY <1>2, <1>11
<1>14. missV' = missV  BY <1>2, <1>11 DEF missV
<1>15. ASSUME m.type \in T!DataTypes PROVE T!StoreReply(c, m)
  <2>1. filledV' = IF copyV[c] = "I" THEN filledV \cup {c} ELSE filledV
    BY <1>11, <1>15 DEF T!HasData
  <2>2. \E s \in {"E", "M"} : copyV' = [copyV EXCEPT ![c] = s]  BY <1>12, <1>15
  <2>3. T!StoreReply(c, m)
    BY <1>2, <1>3, <1>9, <1>10, <1>11, <1>13, <1>14, <1>15, <2>1, <2>2 DEF T!StoreReply
  <2> QED  BY <2>3
<1>16. ASSUME m.type \notin T!DataTypes PROVE T!StoreReply(c, m)
  <2>1. filledV' = filledV  BY <1>11, <1>16 DEF T!HasData
  <2>2. copyV' = copyV  BY <1>12, <1>16, CopySame
  <2>3. T!StoreReply(c, m)
    BY <1>2, <1>3, <1>9, <1>10, <1>11, <1>13, <1>14, <1>16, <2>1, <2>2 DEF T!StoreReply
  <2> QED  BY <2>3
<1>17. TStep
  <2>1. T!StoreReply(c, m)  BY <1>15, <1>16
  <2> QED  BY <2>1, T!ReceiveSteps DEF TStep
<1>18. L1OK(a, L1!NoEvict, f, FALSE)  BY NoEvictIs DEF L1OK
<1> QED  BY <1>1, <1>8, <1>17, <1>18, ReplyKeeps

(* A reply to a load is one of those the code expects. *)
LEMMA HandleLoadReplyKeeps ==
  ASSUME CInv, UNCHANGED <<evict, snoops, request, snoop, toMem>>, L1Frame,
         NEW c \in Cores, Wt(c), maf[c].op = "Load",
         NEW m \in repliesV, m.dest = c, L1!HandleLoadReply(c, m)
  PROVE  CInv' /\ TStep
<1>1. L1Inv /\ T!Inv /\ ReplyInv /\ m \in Message  BY DEF CInv, repliesV, ReplyInv
<1>2. missV[c] = "Load"  BY <1>1, WaitingIs
<1>3. copyV[c] = "I"  BY <1>1, <1>2 DEF T!Inv, T!LoadHasNone
<1>4. m.type \in L1!LoadReplies
  <2>1. m.type \in {"MissReply", "MissReplyWritable", "MissReplyDirty", "FwdReply", "FwdReplyOwned"}
    BY <1>1, <1>2, TSetting, T!ReplyFindsMiss
  <2> QED  BY <2>1 DEF L1!LoadReplies
<1>5. L1!BlockState(c) = "I"  BY <1>1, <1>3, BlockIs
<1> DEFINE t == IF m.type = "FwdReplyOwned" THEN "ReadAckDirty" ELSE "ReadAck"
           v == IF m.needData THEN m.ver ELSE 0
           n == [L1!Msg(t, c, L1!Dir, c) EXCEPT !.needData = m.needData, !.ver = v]
<1>6. /\ array' = [array EXCEPT ![c] = L1!FillState(m.type)]
      /\ data' = [data EXCEPT ![c] = m.ver]
      /\ maf' = [maf EXCEPT ![c] = L1!NoMaf]
      /\ L1!Consume(m, {n}) /\ latest' = latest /\ failed' = failed
  BY <1>4, <1>5 DEF L1!HandleLoadReply
<1>7. Fields(n, t, c, Dir, c, 0)
  <2>1. t \in MessageTypes  BY DEF MessageTypes, AckTypes
  <2>2. v \in Version  BY <1>1, Names DEF Message
  <2> HIDE DEF t, v
  <2> QED  BY <1>1, <2>1, <2>2, LoadAckFields
<1>8. reply' = (reply (-) SetToBag({m})) (+) SetToBag({n})  BY <1>6, ReplyOps
<1> HIDE DEF n
<1>9. m.ver \in Version  BY <1>1 DEF Message
<1>10. L1Becomes(c, T!FillState(m.type), m.ver, L1!NoEvict, L1!NoMaf)
  <2>1. evict' = [evict EXCEPT ![c] = L1!NoEvict]  BY <1>1, WaitingIs
  <2>2. T!FillState(m.type) \in L1!States /\ array' = [array EXCEPT ![c] = T!FillState(m.type)]
    BY <1>6, FillStates DEF L1!States
  <2> QED  BY <1>6, <1>9, <2>1, <2>2, NoEvictIs, NoMafIs DEF L1Becomes
<1>11. ReplyQuiet  BY <1>6 DEF ReplyQuiet
<1> QED  BY <1>6, <1>7, <1>8, <1>10, <1>11, LoadReplyKeeps

(* What the L1 makes of a reply to its store. *)
LEMMA StoreReplyIs ==
  ASSUME CInv, NEW c \in Cores, Wt(c), maf[c].op = "Store", NEW m \in repliesV, m.dest = c
  PROVE  /\ m.type \in L1!StoreReplies /\ ~L1!FromEB(c)
         /\ m.type \in L1!DataReplies <=> m.type \in T!DataTypes
         /\ L1!Outstanding(c, m) = T!Balance(c, m) /\ T!Balance(c, m) \in Int
         /\ (maf[c].dataReceived \/ (m.type \in L1!DataReplies /\ array[c] = "I")) <=> T!HasData(c, m)
         /\ T!Balance(c, m) = 0 => T!HasData(c, m) \/ array[c] # "I"
         /\ array[c] = copyV[c]
<1>1. L1Inv /\ T!Inv /\ ReplyInv /\ m \in Message  BY DEF CInv, repliesV, ReplyInv
<1>2. /\ missV[c] = "Store" /\ evict[c] = L1!NoEvict /\ array[c] = copyV[c]
      /\ balanceV[c] = maf[c].outstanding /\ (c \in filledV <=> maf[c].dataReceived)
  BY <1>1, WaitingIs
<1>3. T!StoreReplyFor(m, c)  BY <1>1, <1>2, TSetting, T!ReplyFindsMiss
<1>4. m.dest # T!Dir  BY Names
<1>5. \/ m.type \in T!GrantTypes /\ m.outstanding = -1
      \/ m.type = "UpgradeReply" /\ m.outstanding = -1
      \/ m.type = "MissReplyWritable" /\ m.outstanding = 0
      \/ m.type \in T!NotifyTypes /\ m.outstanding > 0
      \/ m.type \in T!FetchTypes /\ m.outstanding = 0
      \/ m.type = "InvalidateAck" /\ m.outstanding = 0
  BY <1>3, <1>4 DEF T!StoreReplyFor
<1>6. m.type \in L1!StoreReplies
  BY <1>5 DEF L1!StoreReplies, L1!DataReplies, L1!DirtyReplies, T!GrantTypes, T!NotifyTypes, T!FetchTypes
<1>7. m.type \in L1!DataReplies <=> m.type \in T!DataTypes
  BY DEF L1!DataReplies, L1!DirtyReplies, T!DataTypes, T!GrantTypes, T!FetchTypes
<1>8. ~L1!FromEB(c)  BY <1>2 DEF L1!FromEB
<1>9. L1!Outstanding(c, m) = T!Balance(c, m) /\ T!Balance(c, m) \in Int
  <2>1. m.outstanding \in Int  BY <1>1 DEF Message
  <2>2. maf[c].outstanding \in Int  BY <1>1, L1AtIs DEF MafRec
  <2>3. ~(m.type \in {"MissNotify", "MissNotifyData"} /\ (m.type = "UpgradeReply" \/ m.outstanding = -1))
    BY <1>5, <2>1 DEF T!GrantTypes, T!NotifyTypes, T!FetchTypes
  <2>4. m.type = "UpgradeReply" => m.outstanding = -1
    BY <1>5 DEF T!GrantTypes, T!NotifyTypes, T!FetchTypes
  <2> QED  BY <1>2, <2>1, <2>2, <2>3, <2>4 DEF L1!Outstanding, T!Balance, T!NotifyTypes
<1>10. (maf[c].dataReceived \/ (m.type \in L1!DataReplies /\ array[c] = "I")) <=> T!HasData(c, m)
  BY <1>2, <1>7 DEF T!HasData
<1>11. T!Balance(c, m) = 0 => T!HasData(c, m) \/ array[c] # "I"
  BY <1>1, <1>2, TSetting, T!StoreHasBlock
<1> QED  BY <1>2, <1>6, <1>7, <1>8, <1>9, <1>10, <1>11

(* A reply to a store: the same cases as those of the token protocol. *)
LEMMA HandleStoreReplyKeeps ==
  ASSUME CInv, UNCHANGED <<evict, snoops, request, snoop, toMem>>, L1Frame,
         NEW c \in Cores, Wt(c), maf[c].op = "Store",
         NEW m \in repliesV, m.dest = c, L1!HandleStoreReply(c, m)
  PROVE  CInv' /\ TStep
<1>1. L1Inv /\ T!Inv /\ ReplyInv /\ m \in Message /\ latest \in Version
  BY DEF CInv, repliesV, ReplyInv
<1> DEFINE n     == L1!Outstanding(c, m)
           fills == m.type \in L1!DataReplies
           dirty == m.type \in L1!DirtyReplies
           state == IF ~fills THEN array[c] ELSE IF dirty THEN "M" ELSE "E"
           got   == maf[c].dataReceived \/ (fills /\ array[c] = "I")
           ver   == IF fills /\ (dirty \/ array[c] = "I") THEN m.ver ELSE data[c]
           ack   == IF got THEN "WriteAck" ELSE "UpgradeAck"
<1>2. /\ m.type \in L1!StoreReplies /\ ~L1!FromEB(c)
      /\ (fills <=> m.type \in T!DataTypes)
      /\ n = T!Balance(c, m) /\ T!Balance(c, m) \in Int
      /\ (got <=> T!HasData(c, m))
      /\ (T!Balance(c, m) = 0 => T!HasData(c, m) \/ array[c] # "I")
      /\ array[c] = copyV[c]
  BY StoreReplyIs
<1>3. /\ L1OK(array[c], evict[c], maf[c], EvictSnoopIn(Bf(c)))
      /\ array[c] \in L1!States /\ data[c] \in Version /\ maf[c] \in MafRec
  BY <1>1, L1AtIs
<1>4. state \in L1!States /\ ver \in Version /\ m.ver \in Version
      /\ IF m.type \in T!DataTypes THEN state \in {"E", "M"} ELSE state = copyV[c]
  BY <1>1, <1>2, <1>3 DEF Message, L1!States
<1>5. ~(n = 0 /\ ~got /\ state = "I")  BY <1>2
<1>6. /\ failed' = failed
      /\ IF n = 0
         THEN /\ L1!PerformStore(c)
              /\ maf' = [maf EXCEPT ![c] = L1!NoMaf]
              /\ L1!Consume(m, {L1!Msg(ack, c, L1!Dir, c)})
         ELSE /\ array' = [array EXCEPT ![c] = state]
              /\ data' = [data EXCEPT ![c] = ver]
              /\ maf' = [maf EXCEPT ![c].outstanding = n, ![c].dataReceived = got]
              /\ L1!Consume(m, {})
              /\ latest' = latest
  BY <1>2, <1>5 DEF L1!HandleStoreReply
<1>7. ReplyQuiet  BY <1>6 DEF ReplyQuiet
<1>8. evict' = [evict EXCEPT ![c] = L1!NoEvict] /\ ~maf[c].woken  BY <1>1, WaitingIs
<1>9. CASE n = 0
  <2>1. /\ array' = [array EXCEPT ![c] = "M"] /\ latest' = L1!NextVersion
        /\ data' = [data EXCEPT ![c] = L1!NextVersion]
        /\ maf' = [maf EXCEPT ![c] = L1!NoMaf]
        /\ L1!Consume(m, {L1!Msg(ack, c, L1!Dir, c)})
    BY <1>6, <1>9 DEF L1!PerformStore
  <2>2. L1!NextVersion \in Version  BY <1>1, NextVersionIs
  <2>3. L1Becomes(c, "M", L1!NextVersion, L1!NoEvict, L1!NoMaf)
    BY <1>8, <2>1, <2>2, NoEvictIs, NoMafIs DEF L1Becomes, L1!States
  <2> DEFINE k == L1!Msg(ack, c, L1!Dir, c)
  <2>4. Fields(k, ack, c, Dir, c, 0)
    <3>1. ack \in MessageTypes  BY DEF MessageTypes, AckTypes
    <3>2. c \in Cores \cup {Dir} /\ Dir \in Nodes /\ c \in Nodes  BY DEF Nodes
    <3> HIDE DEF ack
    <3> QED  BY <3>1, <3>2, MsgFields, Names
  <2>5. reply' = (reply (-) SetToBag({m})) (+) SetToBag({k})  BY <2>1, ReplyOps
  <2>6. ack = IF T!HasData(c, m) THEN "WriteAck" ELSE "UpgradeAck"  BY <1>2
  <2>7. T!Balance(c, m) = 0  BY <1>2, <1>9
  <2>8. latest' \in Version  BY <2>1, <2>2
  <2> HIDE DEF k, ack
  <2> QED  BY <1>7, <2>3, <2>4, <2>5, <2>6, <2>7, <2>8, StoreDoneKeeps
<1>10. CASE n # 0
  <2>1. /\ array' = [array EXCEPT ![c] = state] /\ latest' = latest
        /\ data' = [data EXCEPT ![c] = ver]
        /\ maf' = [maf EXCEPT ![c].outstanding = n, ![c].dataReceived = got]
        /\ L1!Consume(m, {})
    BY <1>6, <1>10
  <2>2. reply' = (reply (-) SetToBag({m})) (+) SetToBag({})  BY <2>1, ReplyOps
  <2>3. n \in Int /\ got \in BOOLEAN  BY <1>2
  <2>4. T!Balance(c, m) # 0 /\ n = T!Balance(c, m) /\ (got <=> T!HasData(c, m))  BY <1>2, <1>10
  <2> HIDE DEF n, fills, dirty, state, got, ver
  <2> DEFINE g == [maf[c] EXCEPT !.outstanding = n]
             f == [g EXCEPT !.dataReceived = got]
  <2>5. maf' = [maf EXCEPT ![c] = f]  BY <1>1, <2>1 DEF L1Inv
  <2>6. g \in MafRec /\ g.state = "WaitResponse" /\ g.op = "Store" /\ g.outstanding = n /\ ~g.woken
    BY <1>3, <1>8, <2>3 DEF MafRec, Wt
  <2> HIDE DEF g
  <2>7. f \in MafRec /\ f.state = "WaitResponse" /\ f.op = "Store" /\ f.outstanding = n /\ ~f.woken
        /\ (f.dataReceived <=> got)
    BY <2>3, <2>6 DEF MafRec
  <2> HIDE DEF f
  <2>8. L1Becomes(c, state, ver, L1!NoEvict, f)
    BY <1>4, <1>8, <2>1, <2>5, <2>7, NoEvictIs DEF L1Becomes
  <2> QED  BY <1>4, <1>7, <2>1, <2>2, <2>4, <2>7, <2>8, StoreReplyKeeps
<1> QED  BY <1>9, <1>10

(* Every reply finds the miss it answers. *)
LEMMA BackReplyKeeps ==
  ASSUME CInv, NEW c \in Cores, L1Reply(c)
  PROVE  CInv' /\ TStep
<1>1. PICK m \in Rp : L1!BackReply(c, m)  BY DEF L1Reply, Rp
<1>2. L1Frame  BY DEF L1Reply
<1>3. L1Inv /\ T!Inv /\ ReplyInv  BY DEF CInv
<1>4. m.dest = c /\ UNCHANGED <<evict, snoops, request, snoop, toMem>>  BY <1>1 DEF L1!BackReply
<1>5. m \in repliesV  BY <1>3, <1>4, Names DEF repliesV, ReplyInv
<1>6. missV[c] # "None"  BY <1>3, <1>4, <1>5, TSetting, T!ReplyFindsMiss
<1>7. Wt(c) /\ L1!WaitingMaf(c)  BY <1>3, <1>6, BlockIs
<1>8. \/ maf[c].op = "Load" /\ L1!HandleLoadReply(c, m)
      \/ maf[c].op = "Store" /\ L1!HandleStoreReply(c, m)
  BY <1>1, <1>7 DEF L1!BackReply
<1> QED  BY <1>2, <1>4, <1>5, <1>7, <1>8, HandleLoadReplyKeeps, HandleStoreReplyKeeps

---------------------------------------------------------------------------
(* A snoop that waits at an L1 is woken. *)
WakingEvict(sb) == EvictSnoopIn(ToSet(sb.waking))
(* Snoops wait only behind one that is active or a snoop of the core that is to *)
(* be sent.                                                                     *)
Woken(sb) == sb.waiting # <<>> => sb.active # <<>> \/ WakingEvict(sb)
(* A snoop of the directory that wakes up with nothing before it finds no copy *)
(* that its core would have to be asked about.                                 *)
Settled(sb, a, e, f) ==
  sb.active = <<>> /\ sb.waking # <<>> /\ ~WakingEvict(sb) =>
    /\ ~e.snoopRequired
    /\ a # "I" => f.state = "WaitSnoop"
    /\ f.state # "WaitResponse"
WakeAt(sb, a, e, f) == Woken(sb) /\ Settled(sb, a, e, f)
(* The inductive part of NoOrphanSnoop, at every L1. *)
WakeInv == \A c \in Cores : WakeAt(snoops[c], array[c], evict[c], maf[c])

(* It holds of all L1s if it holds of the one that changed. *)
LEMMA WakeOnly ==
  ASSUME WakeInv, NEW c \in Cores,
         \A d \in Cores : d # c => /\ snoops'[d] = snoops[d] /\ array'[d] = array[d]
                                   /\ evict'[d] = evict[d] /\ maf'[d] = maf[d],
         WakeAt(snoops[c], array[c], evict[c], maf[c])'
  PROVE  WakeInv'
<1>1. ASSUME NEW d \in Cores, d # c PROVE WakeAt(snoops[d], array[d], evict[d], maf[d])'
  BY <1>1 DEF WakeInv
<1> QED  BY <1>1 DEF WakeInv

(* Only one snoop of the directory is ever in the buffer of an L1, and then *)
(* none is on its way there.                                                *)
LEMMA OneDirSnoop ==
  ASSUME CInv, NEW c \in Cores, NEW m \in Bf(c), DirSnoop(m), NEW n \in Sn(c) \cup Bf(c), DirSnoop(n)
  PROVE  n = m
<1>1. SnoopInv /\ AskInv /\ T!HeldAlone /\ T!ForwardToken /\ T!WriteServedAlone /\ T!AskedToken /\ T!ForwardOnce
  BY DEF CInv, T!Inv
<1>2. \A a, b \in Sn(c) \cup Bf(c) : a.type = b.type /\ a.requester = b.requester => a = b
  BY <1>1 DEF SnoopInv, SnoopsOK, SnoopsOnce, Sn, Bf
<1>3. m.requester \in Cores /\ n.requester \in Cores  BY DEF DirSnoop
<1>4. CASE m.type = "ReadFwd"
  <2>1. <<m.requester, c>> \in heldV  BY <1>3, <1>4 DEF heldV, Of
  <2>2. T!OnlyServed(m.requester)  BY <1>1, <1>3, <2>1 DEF T!HeldAlone, T!Waits
  <2>3. m.requester \in readingV  BY <1>1, <1>3, <2>1 DEF T!ForwardToken, T!Forwarded
  <2>4. CASE n.type = "ReadFwd"
    <3>1. <<n.requester, c>> \in forwardsV \/ <<n.requester, c>> \in heldV
      BY <1>3, <2>4 DEF forwardsV, heldV, Of
    <3>2. n.requester \in readingV  BY <1>1, <1>3, <3>1 DEF T!ForwardToken, T!Forwarded
    <3>3. n.requester = m.requester  BY <1>3, <2>2, <3>2 DEF T!OnlyServed, T!Served
    <3> QED  BY <1>2, <1>4, <2>4, <3>3
  <2>5. CASE Asks(n)
    <3>1. T!Storing(n.requester)  BY <1>1, <2>5 DEF AskInv
    <3>2. n.requester = m.requester  BY <1>3, <2>2, <3>1 DEF T!OnlyServed, T!Served
    <3> QED  BY <1>1, <1>3, <2>3, <3>1, <3>2 DEF T!WriteServedAlone
  <2> QED  BY <2>4, <2>5 DEF DirSnoop, Asks
<1>5. CASE Asks(m)
  <2>1. T!Storing(m.requester)  BY <1>1, <1>5 DEF AskInv
  <2>2. CASE n.type = "ReadFwd"
    <3>1. <<n.requester, c>> \in forwardsV \/ <<n.requester, c>> \in heldV
      BY <1>3, <2>2 DEF forwardsV, heldV, Of
    <3>2. n.requester \in readingV  BY <1>1, <1>3, <3>1 DEF T!ForwardToken, T!Forwarded
    <3> QED  BY <1>1, <1>3, <2>1, <3>2 DEF T!WriteServedAlone, T!Served
  <2>3. CASE Asks(n)
    <3>1. T!Storing(n.requester)  BY <1>1, <2>3 DEF AskInv
    <3>2. n.requester = m.requester  BY <1>1, <1>3, <2>1, <3>1 DEF T!WriteServedAlone, T!Served
    <3>3. n.type = m.type
      <4>1. (m.type = "WriteFwd" => c \in fetchesV) /\ (m.type = "Invalidate" => c \in invalsV)
        BY DEF fetchesV, invalsV, Snooped
      <4>2. (n.type = "WriteFwd" => c \in fetchesV) /\ (n.type = "Invalidate" => c \in invalsV)
        BY DEF fetchesV, invalsV, Snooped
      <4>3. ~(c \in fetchesV /\ c \in invalsV)  BY <1>1 DEF T!AskedToken, T!Asked
      <4> QED  BY <1>5, <2>3, <4>1, <4>2, <4>3 DEF Asks
    <3> QED  BY <1>2, <3>2, <3>3
  <2> QED  BY <2>2, <2>3 DEF DirSnoop, Asks
<1> QED  BY <1>4, <1>5 DEF DirSnoop, Asks

(* It stays true when the block only goes away and the request waits for *)
(* the same.                                                             *)
LEMMA WakeAlike ==
  ASSUME NEW sb, NEW a, NEW e, NEW f, WakeAt(sb, a, e, f), NEW a2, NEW e2, NEW f2,
         a2 # "I" => a # "I", e2.snoopRequired => e.snoopRequired,
         f2.state = f.state
  PROVE  WakeAt(sb, a2, e2, f2)
  BY DEF WakeAt, Woken, Settled

(* Snoops of the core's own evictions only. *)
EvictsOnly(P) == \A m \in P : m.type = "EvictClean"

(* The three parts of the snoop buffer. *)
LEMMA BufferParts ==
  ASSUME NEW sb \in SnoopBuffer
  PROVE  /\ sb.active # <<>> => \E m \in ToSet(sb.active) : TRUE
         /\ sb.waiting # <<>> => \E m \in ToSet(sb.waiting) : TRUE
         /\ sb.waking # <<>> => \E m \in ToSet(sb.waking) : TRUE
         /\ ToSet(sb.active) \subseteq Buffered(sb) /\ ToSet(sb.waiting) \subseteq Buffered(sb)
         /\ ToSet(sb.waking) \subseteq Buffered(sb)
<1>1. sb.active \in Seq(Message) /\ sb.waiting \in Seq(Message) /\ sb.waking \in Seq(Message)
  BY DEF SnoopBuffer
<1>2. \A s \in Seq(Message) : s # <<>> => s[1] \in ToSet(s)  BY DEF ToSet
<1> QED  BY <1>1, <1>2 DEF Buffered

(* A snoop of the directory starts, or joins those that wait. *)
LEMMA WakeSnooped ==
  ASSUME NEW c \in Cores, NEW q, NEW sb, SnoopsOK(c, q, sb), EvictsOnly(Buffered(sb)), NEW f, Woken(sb),
         NEW m \in Message, NEW r, r = IF L1!HasEntry(sb) THEN [sb EXCEPT !.waiting = Append(@, m)]
                                       ELSE [sb EXCEPT !.active = <<m>>]
  PROVE  \A a, e : WakeAt(r, a, e, f)
<1>1. sb \in SnoopBuffer  BY DEF SnoopsOK
<1>2. r.waking = sb.waking  BY <1>1 DEF SnoopBuffer
<1>3. sb.waking # <<>> => WakingEvict(sb)
  BY <1>1, BufferParts DEF EvictsOnly, WakingEvict, EvictSnoopIn
<1>4. WakingEvict(r) <=> WakingEvict(sb)  BY <1>2 DEF WakingEvict
<1>5. CASE L1!HasEntry(sb)
  <2>1. r.active = sb.active  BY <1>1, <1>5 DEF SnoopBuffer
  <2>2. sb.active # <<>> \/ WakingEvict(sb)  BY <1>3, <1>5 DEF L1!HasEntry, Woken
  <2> QED  BY <1>2, <1>3, <1>4, <2>1, <2>2 DEF WakeAt, Woken, Settled
<1>6. CASE ~L1!HasEntry(sb)
  <2>1. r.active = <<m>>  BY <1>1, <1>6 DEF SnoopBuffer
  <2>2. r.active # <<>>  BY <2>1
  <2> QED  BY <2>2 DEF WakeAt, Woken, Settled
<1> QED  BY <1>5, <1>6


(* The L1s of the other cores do not change. *)
Elsewhere(c) ==
  \A d \in Cores : d # c => /\ snoops'[d] = snoops[d] /\ array'[d] = array[d]
                            /\ evict'[d] = evict[d] /\ maf'[d] = maf[d]

(* The request that starts is a load or a store. *)
LEMMA FrontIs ==
  ASSUME L1Inv, NEW c \in Cores, CoreRequest(c) \/ L1WakeMaf(c)
  PROVE  \E op \in {"Load", "Store"} : L1!DoRequest(c, op)
<1>1. ASSUME L1WakeMaf(c) PROVE maf[c].op \in {"Load", "Store"}
  <2>1. maf[c].woken  BY <1>1 DEF L1WakeMaf, L1!WakeMaf
  <2> QED  BY <2>1 DEF L1Inv, L1At
<1> QED  BY <1>1 DEF CoreRequest, L1WakeMaf, L1!FrontRequest, L1!WakeMaf

(* A request that finds a snoop of its block waits for it, or for the *)
(* eviction of the block.                                             *)
LEMMA WaitsForSnoop ==
  ASSUME L1Inv, NEW c \in Cores, NEW op \in {"Load", "Store"}, L1!DoRequest(c, op), snoops' = snoops
  PROVE  /\ Elsewhere(c)
         /\ L1!HasEntry(snoops[c]) =>
              \/ maf'[c].state = "WaitSnoop" /\ ~evict'[c].snoopRequired
              \/ maf'[c].state = "WaitEvict" /\ array'[c] = "I" /\ evict'[c] = evict[c]
<1>1. /\ array \in [Cores -> L1!States] /\ evict \in [Cores -> EvictRec] /\ maf \in [Cores -> MafRec]
  BY DEF L1Inv, EvictRec, MafRec
<1>2. CASE L1!FromEB(c) /\ evict[c].pending
  <2>1. maf' = [maf EXCEPT ![c] = L1!MafEntry("WaitEvict", op)] /\ array' = array /\ evict' = evict
    BY <1>2 DEF L1!DoRequest
  <2>2. PICK f : f = L1!MafEntry("WaitEvict", op)  OBVIOUS
  <2>3. f.state = "WaitEvict"  BY <2>2, MafEntryIs
  <2>4. array[c] = "I"  BY <1>2 DEF L1!FromEB
  <2> QED  BY <1>1, <2>1, <2>2, <2>3, <2>4 DEF Elsewhere
<1>3. CASE ~(L1!FromEB(c) /\ evict[c].pending)
  <2> PICK s : s = L1!BlockState(c)  OBVIOUS
  <2>1. evict' = [evict EXCEPT ![c] = L1!NoEvict]  BY <1>3 DEF L1!DoRequest
  <2>2. CASE L1!HasEntry(snoops[c])
    <3>1. /\ array' = [array EXCEPT ![c] = L1!BlockState(c)]
          /\ maf' = [maf EXCEPT ![c] = L1!MafEntry("WaitSnoop", op)]
      BY <1>3, <2>2 DEF L1!DoRequest
    <3>2. PICK f : f = L1!MafEntry("WaitSnoop", op)  OBVIOUS
    <3>3. f.state = "WaitSnoop"  BY <3>2, MafEntryIs
    <3> QED  BY <1>1, <2>1, <3>1, <3>2, <3>3, NoEvictIs DEF Elsewhere
  <2>3. CASE ~L1!HasEntry(snoops[c])
    <3>1. L1!Access(c, op, s)  BY <1>3, <2>3 DEF L1!DoRequest
    <3>2. \E t : array' = [array EXCEPT ![c] = t]  BY <3>1 DEF L1!Access, L1!PerformStore
    <3>3. \/ maf' = [maf EXCEPT ![c] = L1!NoMaf]
          \/ maf' = [maf EXCEPT ![c] = L1!MafEntry("WaitResponse", op)]
      BY <3>1 DEF L1!Access
    <3> QED  BY <1>1, <2>1, <2>3, <3>2, <3>3 DEF Elsewhere
  <2> QED  BY <2>2, <2>3
<1> QED  BY <1>2, <1>3

(* ... with the L1s that did not change. *)
LEMMA WakeHere ==
  ASSUME WakeInv, NEW c \in Cores, Elsewhere(c), WakeAt(snoops'[c], array'[c], evict'[c], maf'[c])
  PROVE  WakeInv'
<1>1. WakeAt(snoops[c], array[c], evict[c], maf[c])'  OBVIOUS
<1> QED  BY <1>1, WakeOnly DEF Elsewhere

(* A request, new or woken, that finds a snoop of its block is put off; *)
(* otherwise no snoop of the block is in theWakeList.                   *)
LEMMA FrontWakes ==
  ASSUME CInv, WakeInv, NEW c \in Cores, CoreRequest(c) \/ L1WakeMaf(c)
  PROVE  WakeInv'
<1>1. L1Inv /\ snoops' = snoops
  BY DEF CInv, CoreRequest, L1WakeMaf, L1!FrontRequest, L1!WakeMaf
<1>2. PICK op \in {"Load", "Store"} : L1!DoRequest(c, op)  BY <1>1, FrontIs
<1>3. /\ Elsewhere(c)
      /\ L1!HasEntry(snoops[c]) =>
           \/ maf'[c].state = "WaitSnoop" /\ ~evict'[c].snoopRequired
           \/ maf'[c].state = "WaitEvict" /\ array'[c] = "I" /\ evict'[c] = evict[c]
  BY <1>1, <1>2, WaitsForSnoop
<1> PICK sb : sb = snoops[c]  OBVIOUS
<1>4. WakeAt(sb, array[c], evict[c], maf[c])  BY DEF WakeInv
<1>5. CASE L1!HasEntry(sb)
  <2>1. WakeAt(sb, array'[c], evict'[c], maf'[c])  BY <1>3, <1>4, <1>5 DEF WakeAt, Settled
  <2> QED  BY <1>1, <1>3, <2>1, WakeHere
<1>6. CASE ~L1!HasEntry(sb)
  <2>1. sb.waking = <<>>  BY <1>6 DEF L1!HasEntry
  <2>2. WakeAt(sb, array'[c], evict'[c], maf'[c])  BY <1>4, <2>1 DEF WakeAt, Settled
  <2> QED  BY <1>1, <1>3, <2>2, WakeHere
<1> QED  BY <1>5, <1>6


(* A snoop at the core wakes all that wait. *)
LEMMA ActiveWakes ==
  ASSUME NEW sb, sb.active # <<>> PROVE \A a, e, f : WakeAt(sb, a, e, f)
  BY DEF WakeAt, Woken, Settled

(* No block leaves the array while the snoop of its block is in *)
(* theWakeList.                                                 *)
LEMMA ReplacementWakes ==
  ASSUME CInv, WakeInv, ~EarlyVictim, NEW c \in Cores, L1Replacement(c)
  PROVE  WakeInv'
<1>1. L1Inv  BY DEF CInv
<1>2. /\ snoops' = snoops /\ maf' = maf /\ array[c] # "I" /\ maf[c].state # "WaitSnoop"
      /\ array' = [array EXCEPT ![c] = "I"] /\ evict' = [evict EXCEPT ![c] = L1!EvictEntry(array[c])]
  BY DEF L1Replacement, L1!Victimize
<1>3. Elsewhere(c)  BY <1>1, <1>2 DEF L1Inv, Elsewhere
<1>4. WakeAt(snoops[c], array[c], evict[c], maf[c])  BY DEF WakeInv
<1>5. \A a, e : WakeAt(snoops[c], a, e, maf[c])  BY <1>2, <1>4 DEF WakeAt, Woken, Settled
<1> QED  BY <1>2, <1>3, <1>5, WakeHere

(* The eviction snoop goes to the core or waits for one that is there. *)
LEMMA IdleWakes ==
  ASSUME CInv, WakeInv, NEW c \in Cores, L1Idle(c)
  PROVE  WakeInv'
<1>1. L1Inv /\ SnoopInv /\ L1At(c)  BY DEF CInv, L1Inv
<1>2. /\ evict[c].snoopRequired /\ array' = array /\ maf' = maf
      /\ evict' = [evict EXCEPT ![c].snoopRequired = FALSE]
      /\ L1!SnoopCore(c, L1!EvictSnoop(c), snoops[c])
  BY DEF L1Idle, L1!IdleWork
<1>3. snoops[c] \in SnoopBuffer /\ Bf(c) = Buffered(snoops[c])  BY <1>1, SnoopSeqs
<1> PICK sb : sb = snoops[c]  OBVIOUS
<1> PICK m : m = L1!EvictSnoop(c)  OBVIOUS
<1>4. sb \in SnoopBuffer  BY <1>3
<1>5. ~WakingEvict(sb)
  <2>1. ~EvictSnoopIn(Bf(c))  BY <1>1, <1>2, NoEvictIs DEF L1At
  <2>2. ToSet(sb.waking) \subseteq Bf(c)  BY <1>3, <1>4, BufferParts
  <2> QED  BY <2>1, <2>2 DEF WakingEvict, EvictSnoopIn
<1>6. WakeAt(sb, array[c], evict[c], maf[c])  BY DEF WakeInv
<1>7. L1!HasEntry(sb) => sb.active # <<>>
  BY <1>2, <1>5, <1>6 DEF WakeAt, Woken, Settled, L1!HasEntry
<1> DEFINE r == IF L1!HasEntry(sb) THEN [sb EXCEPT !.waiting = Append(@, m)]
                ELSE [sb EXCEPT !.active = <<m>>]
<1>8. r.active # <<>>
  <2>1. L1!HasEntry(sb) => r.active = sb.active  BY <1>4 DEF SnoopBuffer
  <2>2. ~L1!HasEntry(sb) => r.active = <<m>>  BY <1>4 DEF SnoopBuffer
  <2> QED  BY <1>7, <2>1, <2>2
<1>9. snoops' = [snoops EXCEPT ![c] = r]  BY <1>2 DEF L1!SnoopCore
<1> HIDE DEF r
<1>10. snoops'[c] = r /\ Elsewhere(c)
  BY <1>1, <1>2, <1>9 DEF L1Inv, SnoopInv, Elsewhere
<1>11. WakeAt(snoops'[c], array'[c], evict'[c], maf'[c])  BY <1>8, <1>10, ActiveWakes
<1> QED  BY <1>10, <1>11, WakeHere

(* An eviction is announced. *)
LEMMA EvictWakes ==
  ASSUME CInv, WakeInv, NEW c \in Cores, L1Evict(c)
  PROVE  WakeInv'
<1>1. L1Inv  BY DEF CInv
<1>2. /\ snoops' = snoops /\ maf' = maf /\ array' = array
      /\ evict' = [evict EXCEPT ![c].pending = TRUE]
  BY DEF L1Evict, L1!Evict
<1>3. Elsewhere(c)  BY <1>1, <1>2 DEF L1Inv, Elsewhere
<1>4. WakeAt(snoops[c], array[c], evict[c], maf[c])  BY DEF WakeInv
<1>5. evict'[c].snoopRequired => evict[c].snoopRequired  BY <1>1, <1>2 DEF L1Inv
<1>6. WakeAt(snoops[c], array[c], evict'[c], maf[c])  BY <1>4, <1>5, WakeAlike
<1> QED  BY <1>2, <1>3, <1>6, WakeHere

(* No reply comes while a snoop is in theWakeList. *)
LEMMA ReplyWakes ==
  ASSUME CInv, WakeInv, NEW c \in Cores, L1Reply(c)
  PROVE  WakeInv'
<1>1. L1Inv  BY DEF CInv
<1>2. PICK m : L1!BackReply(c, m)  BY DEF L1Reply
<1>3. snoops' = snoops /\ evict' = evict  BY <1>2 DEF L1!BackReply
<1>4. WakeAt(snoops[c], array[c], evict[c], maf[c])  BY DEF WakeInv
<1>5. CASE array' = array /\ maf' = maf
  BY <1>3, <1>5 DEF WakeInv
<1>6. CASE ~(array' = array /\ maf' = maf)
  <2>1. L1!WaitingMaf(c) /\ (L1!HandleLoadReply(c, m) \/ L1!HandleStoreReply(c, m))
    BY <1>2, <1>6 DEF L1!BackReply
  <2>2. maf[c].state = "WaitResponse"  BY <2>1 DEF L1!WaitingMaf
  <2>3. \E a : array' = [array EXCEPT ![c] = a]
    BY <1>6, <2>1 DEF L1!HandleLoadReply, L1!HandleStoreReply, L1!PerformStore
  <2>4. \/ maf' = [maf EXCEPT ![c] = L1!NoMaf]
        \/ \E n, got : maf' = [maf EXCEPT ![c].outstanding = n, ![c].dataReceived = got]
    BY <1>6, <2>1 DEF L1!HandleLoadReply, L1!HandleStoreReply
  <2>5. maf'[c].state # "WaitSnoop" /\ Elsewhere(c)
    <3>1. CASE maf' = [maf EXCEPT ![c] = L1!NoMaf]
      BY <1>1, <1>3, <2>3, <3>1, NoMafIs DEF L1Inv, Elsewhere
    <3>2. CASE \E n, got : maf' = [maf EXCEPT ![c].outstanding = n, ![c].dataReceived = got]
      <4>1. PICK n, got : maf' = [maf EXCEPT ![c].outstanding = n, ![c].dataReceived = got]  BY <3>2
      <4>2. maf'[c].state = maf[c].state  BY <1>1, <4>1 DEF L1Inv
      <4> QED  BY <1>1, <1>3, <2>2, <2>3, <4>1, <4>2 DEF L1Inv, Elsewhere
    <3> QED  BY <2>4, <3>1, <3>2
  <2>6. \A a : WakeAt(snoops[c], a, evict[c], maf'[c])
    BY <1>4, <2>2, <2>5 DEF WakeAt, Woken, Settled
  <2> QED  BY <1>3, <2>5, <2>6, WakeHere
<1> QED  BY <1>5, <1>6

(* The L2 and memory leave the L1s alone. *)
LEMMA QuietWakes == ASSUME WakeInv, l1Vars' = l1Vars PROVE WakeInv'
<1>1. snoops' = snoops /\ array' = array /\ evict' = evict /\ maf' = maf  BY DEF l1Vars
<1> QED  BY <1>1 DEF WakeInv


(* An eviction snoop in theWakeList will be at the core. *)
LEMMA EvictsWake ==
  ASSUME NEW sb \in SnoopBuffer, EvictsOnly(Buffered(sb)), NEW f, Woken(sb)
  PROVE  \A a, e : WakeAt(sb, a, e, f)
<1>1. sb.waking # <<>> => WakingEvict(sb)  BY BufferParts DEF EvictsOnly, WakingEvict, EvictSnoopIn
<1> QED  BY <1>1 DEF WakeAt, Settled

(* Once the snoop of the directory is taken, the buffer holds at most an    *)
(* eviction snoop.                                                          *)
LEMMA TakenAlone ==
  ASSUME CInv, NEW c \in Cores, NEW m, NEW q, NEW sb, Taking(c, m, q, sb)
  PROVE  EvictsOnly(Buffered(sb))
<1>1. SnoopInv  BY DEF CInv
<1>2. DirSnoop(m)  BY DEF Taking
<1>3. SUFFICES ASSUME NEW n \in Buffered(sb), n.type # "EvictClean" PROVE FALSE  BY DEF EvictsOnly
<1>4. n \in Bf(c) /\ DirSnoop(n)
  <2>1. n \in Bf(c)  BY DEF Taking
  <2>2. SnoopsOK(c, q, sb)  BY DEF Taking
  <2> QED  BY <1>3, <2>1, <2>2 DEF SnoopsOK
<1>5. m \in Sn(c) \cup Bf(c)  BY DEF Taking
<1>6. m = n  BY <1>2, <1>4, <1>5, OneDirSnoop
<1>7. CASE m \in Bf(c) /\ Buffered(sb) = Bf(c) \ {m}  BY <1>6, <1>7
<1>8. CASE m \in Sn(c)
  <2>1. SnoopsOnce(c, snoop[c], snoops[c])  BY <1>1 DEF SnoopInv, SnoopsOK
  <2>2. m \in ToSet(snoop[c]) /\ m \in Buffered(snoops[c])  BY <1>4, <1>6, <1>8 DEF Sn, Bf
  <2> QED  BY <2>1, <2>2 DEF SnoopsOnce
<1> QED  BY <1>7, <1>8 DEF Taking

(* A snoop of the directory is answered, or goes to the core. *)
LEMMA HandledWakes ==
  ASSUME CInv, failed' = "none", WakeInv, NEW c \in Cores, NEW m, NEW q, NEW sb, Taking(c, m, q, sb),
         Woken(sb), maf' = maf, L1!HandleSnooped(c, m, sb)
  PROVE  WakeInv'
<1>1. L1Inv /\ SnoopInv  BY DEF CInv
<1>2. SnoopsOK(c, q, sb) /\ m \in Message /\ EvictsOnly(Buffered(sb))  BY TakenAlone DEF Taking
<1>3. sb \in SnoopBuffer  BY <1>2 DEF SnoopsOK
<1>4. (\E a : array' = [array EXCEPT ![c] = a]) \/ array' = array
  BY DEF L1!HandleSnooped, L1!HandleReadFwd, L1!HandleWriteFwd, L1!HandleInvalidate, L1!SetBlockState
<1>5. \A d \in Cores : d # c => evict'[d] = evict[d]
  <2>1. CASE L1!HandleReadFwd(c, m, sb)
    BY <1>1, <2>1 DEF L1!HandleReadFwd, L1!SetBlockState, L1Inv
  <2>2. CASE L1!HandleWriteFwd(c, m, sb)  BY <2>2 DEF L1!HandleWriteFwd
  <2>3. CASE L1!HandleInvalidate(c, m, sb)  BY <1>1, <2>3 DEF L1!HandleInvalidate, L1Inv
  <2> QED  BY <2>1, <2>2, <2>3 DEF L1!HandleSnooped
<1>6. snoops' = [snoops EXCEPT ![c] = sb] \/ L1!SnoopCore(c, m, sb)
  <2>1. CASE L1!HandleReadFwd(c, m, sb)  BY <2>1 DEF L1!HandleReadFwd
  <2>2. CASE L1!HandleWriteFwd(c, m, sb)  BY <2>2 DEF L1!HandleWriteFwd
  <2>3. CASE L1!HandleInvalidate(c, m, sb)
    <3>1. ~L1!Abort("Invalidate in a writable state") /\ ~L1!Abort("Invalidate while waiting for a read")
      BY DEF L1!Abort
    <3> QED  BY <2>3, <3>1 DEF L1!HandleInvalidate
  <2> QED  BY <2>1, <2>2, <2>3 DEF L1!HandleSnooped
<1>7. CASE snoops' = [snoops EXCEPT ![c] = sb]
  <2>1. snoops'[c] = sb /\ Elsewhere(c)  BY <1>1, <1>4, <1>5, <1>7 DEF Elsewhere, L1Inv, SnoopInv
  <2>2. \A a, e : WakeAt(sb, a, e, maf[c])
    <3>1. PICK f : f = maf[c]  OBVIOUS
    <3>2. \A a, e : WakeAt(sb, a, e, f)  BY <1>2, <1>3, <3>1, EvictsWake
    <3> QED  BY <3>1, <3>2
  <2> QED  BY <2>1, <2>2, WakeHere
<1>8. CASE L1!SnoopCore(c, m, sb)
  <2> DEFINE r == IF L1!HasEntry(sb) THEN [sb EXCEPT !.waiting = Append(@, m)]
                  ELSE [sb EXCEPT !.active = <<m>>]
  <2>1. snoops' = [snoops EXCEPT ![c] = r]  BY <1>8 DEF L1!SnoopCore
  <2>2. PICK r2 : r2 = r  OBVIOUS
  <2>3. \A a, e : WakeAt(r2, a, e, maf[c])
    <3>1. PICK f : f = maf[c]  OBVIOUS
    <3>2. \A a, e : WakeAt(r2, a, e, f)  BY <1>2, <2>2, <3>1, WakeSnooped
    <3> QED  BY <3>1, <3>2
  <2>4. snoops' = [snoops EXCEPT ![c] = r2]  BY <2>1, <2>2
  <2> HIDE DEF r
  <2>5. snoops'[c] = r2 /\ Elsewhere(c)  BY <1>1, <1>4, <1>5, <2>4 DEF Elsewhere, L1Inv, SnoopInv
  <2> QED  BY <2>3, <2>5, WakeHere
<1> QED  BY <1>6, <1>7, <1>8


(* The head of the Snoop channel. *)
LEMMA BackWakes ==
  ASSUME CInv, failed' = "none", WakeInv, NEW c \in Cores, L1Back(c)
  PROVE  WakeInv'
<1>1. L1Inv /\ SnoopInv  BY DEF CInv
<1>2. PICK m, q :
        /\ m \in Sn(c) /\ m \in Message /\ SnoopsOK(c, q, snoops[c]) /\ ToSet(q) = Sn(c) \ {m}
        /\ snoop' = [snoop EXCEPT ![c] = q]
        /\ \/ L1!HandleSnooped(c, m, snoops[c]) /\ UNCHANGED maf
           \/ L1!HandleEvictAck(c) /\ UNCHANGED <<array, snoops>>
  BY <1>1, BackRequestIs
<1>3. WakeAt(snoops[c], array[c], evict[c], maf[c])  BY DEF WakeInv
<1>4. CASE L1!HandleSnooped(c, m, snoops[c]) /\ UNCHANGED maf
  <2>1. m.type \in {"ReadFwd", "WriteFwd", "Invalidate"}  BY <1>4 DEF L1!HandleSnooped
  <2>2. DirSnoop(m)  BY <1>1, <1>2, <2>1 DEF SnoopInv, SnoopsOK, Sn
  <2>3. Taking(c, m, q, snoops[c])  BY <1>2, <2>2 DEF Taking, Bf
  <2>4. Woken(snoops[c])  BY <1>3 DEF WakeAt
  <2> QED  BY <1>4, <2>3, <2>4, HandledWakes
<1>5. CASE L1!HandleEvictAck(c) /\ UNCHANGED <<array, snoops>>
  <2>1. ~L1!Abort("EvictAck but block not in the evict buffer")  BY DEF L1!Abort
  <2>2. /\ evict' = [evict EXCEPT ![c] = L1!NoEvict]
        /\ maf' = [maf EXCEPT ![c].woken = @ \/ maf[c].state = "WaitEvict"]
    BY <1>5, <2>1 DEF L1!HandleEvictAck, L1!Wake
  <2>3. Elsewhere(c)  BY <1>1, <1>5, <2>2 DEF Elsewhere, L1Inv
  <2>4. ~evict'[c].snoopRequired  BY <1>1, <2>2, NoEvictIs DEF L1Inv
  <2>5. maf'[c].state = maf[c].state  BY <1>1, <2>2 DEF L1Inv
  <2>6. WakeAt(snoops[c], array[c], evict'[c], maf'[c])  BY <1>3, <2>4, <2>5, WakeAlike
  <2> QED  BY <1>5, <2>3, <2>6, WakeHere
<1> QED  BY <1>2, <1>4, <1>5

(* The first of theWakeList. *)
LEMMA WakeSnoopWakes ==
  ASSUME CInv, failed' = "none", WakeInv, NEW c \in Cores, L1WakeSnoop(c)
  PROVE  WakeInv'
<1>1. L1Inv /\ SnoopInv  BY DEF CInv
<1>2. PICK m, sb :
        /\ m \in Bf(c) /\ m \in Message
        /\ SnoopsOK(c, snoop[c], sb) /\ Buffered(sb) = Bf(c) \ {m} /\ sb.active = snoops[c].active
        /\ sb.waiting = snoops[c].waiting /\ ToSet(sb.waking) = ToSet(snoops[c].waking) \ {m}
        /\ \/ L1!HandleSnooped(c, m, sb)
           \/ /\ UNCHANGED <<array, evict>>
              /\ IF sb.active = <<>>
                 THEN snoops' = [snoops EXCEPT ![c] = [sb EXCEPT !.active = <<m>>]]
                 ELSE L1!Abort("waking evict finds an active snoop")
        /\ maf' = maf /\ snoop' = snoop
  BY <1>1, WakeSnoopIs
<1>3. CASE L1!HandleSnooped(c, m, sb)
  <2>1. m.type \in {"ReadFwd", "WriteFwd", "Invalidate"}  BY <1>3 DEF L1!HandleSnooped
  <2>2. DirSnoop(m)
    <3>1. \A n \in Bf(c) : DirSnoop(n) \/ n.type = "EvictClean"  BY <1>1 DEF SnoopInv, SnoopsOK, Bf
    <3> QED  BY <1>2, <2>1, <3>1
  <2>3. snoop' = [snoop EXCEPT ![c] = snoop[c]]  BY <1>1, <1>2, SnoopSeqs
  <2>4. Taking(c, m, snoop[c], sb)  BY <1>2, <2>2, <2>3 DEF Taking, Sn
  <2>5. WakingEvict(snoops[c]) => WakingEvict(sb)
    BY <1>2, <2>1 DEF WakingEvict, EvictSnoopIn
  <2>6. Woken(sb)
    <3>1. Woken(snoops[c])  BY DEF WakeInv, WakeAt
    <3> QED  BY <1>2, <2>5, <3>1 DEF Woken
  <2> QED  BY <1>2, <1>3, <2>4, <2>6, HandledWakes
<1>4. CASE /\ UNCHANGED <<array, evict>>
           /\ IF sb.active = <<>>
              THEN snoops' = [snoops EXCEPT ![c] = [sb EXCEPT !.active = <<m>>]]
              ELSE L1!Abort("waking evict finds an active snoop")
  <2>1. ~L1!Abort("waking evict finds an active snoop")  BY DEF L1!Abort
  <2>2. snoops' = [snoops EXCEPT ![c] = [sb EXCEPT !.active = <<m>>]]  BY <1>4, <2>1
  <2>3. sb \in SnoopBuffer  BY <1>2 DEF SnoopsOK
  <2>4. PICK r : r = [sb EXCEPT !.active = <<m>>]  OBVIOUS
  <2>5. r.active # <<>>
    <3>1. r.active = <<m>>  BY <2>3, <2>4 DEF SnoopBuffer
    <3> QED  BY <3>1
  <2>6. snoops'[c] = r /\ Elsewhere(c)  BY <1>1, <1>2, <1>4, <2>2, <2>4 DEF Elsewhere, SnoopInv
  <2>7. WakeAt(snoops'[c], array'[c], evict'[c], maf'[c])  BY <2>5, <2>6, ActiveWakes
  <2> QED  BY <2>6, <2>7, WakeHere
<1> QED  BY <1>2, <1>3, <1>4

(* The core has answered: everything that waited for it is woken. *)
LEMMA DoneIs ==
  ASSUME CInv, failed' = "none", NEW c \in Cores, L1SnoopDone(c)
  PROVE  /\ Elsewhere(c) /\ maf'[c].state = maf[c].state
         /\ maf[c].state = "WaitSnoop" => maf'[c].woken
         /\ snoops'[c].active = <<>> /\ snoops'[c].waiting = <<>>
         /\ \/ snoops'[c] \in SnoopBuffer /\ EvictsOnly(Buffered(snoops'[c]))
            \/ EvictSnoopIn(Bf(c)) /\ snoops[c].active # <<>> /\ L1!FinalizeEvictSnoop(c)
<1>1. L1Inv /\ SnoopInv /\ L1At(c)  BY DEF CInv, L1Inv
<1>2. SnoopsOK(c, snoop[c], snoops[c])  BY <1>1 DEF SnoopInv
<1> PICK sb : sb = snoops[c]  OBVIOUS
<1> PICK q : q = snoop[c]  OBVIOUS
<1> PICK m : m = Head(sb.active)  OBVIOUS
<1>3. SnoopsOK(c, q, sb) /\ sb.active # <<>>  BY <1>2 DEF L1SnoopDone, L1!FinalizeSnoop
<1>4. /\ \/ m.type = "ReadFwd" /\ L1!FinalizeReadFwd(c, m)
         \/ m.type \in {"WriteFwd", "Invalidate"} /\ L1!FinalizeInvalidation(c, m)
         \/ m.type = "EvictClean" /\ L1!FinalizeEvictSnoop(c)
      /\ L1!Wake(c, "WaitSnoop")
  BY DEF L1SnoopDone, L1!FinalizeSnoop
<1>5. m \in Bf(c) /\ m \in Sn(c) \cup Bf(c)
  <2>1. PICK r : r = L1!WakeWaitingEntries(sb)  OBVIOUS
  <2>2. m \in Buffered(sb)  BY <1>3, <2>1, FinishedIs
  <2> QED  BY <2>2 DEF Bf
<1>6. maf'[c].state = maf[c].state /\ (maf[c].state = "WaitSnoop" => maf'[c].woken)
  BY <1>1, <1>4 DEF L1!Wake, L1Inv
<1>7. \A d \in Cores : d # c => maf'[d] = maf[d]  BY <1>1, <1>4 DEF L1!Wake, L1Inv
<1>8. \/ snoops' = [snoops EXCEPT ![c] = L1!WakeWaitingEntries(sb)]
      \/ snoops' = [snoops EXCEPT ![c] = L1!WakeWaitingEntries(L1!WithoutEvictSnoop(sb))]
  <2>1. ~L1!Abort("snoop finalized for a block that is gone")  BY DEF L1!Abort
  <2> QED  BY <1>4, <2>1 DEF L1!FinalizeReadFwd, L1!FinalizeInvalidation, L1!FinalizeEvictSnoop
<1>9. (\E a : array' = [array EXCEPT ![c] = a]) \/ array' = array
  BY <1>4 DEF L1!FinalizeReadFwd, L1!FinalizeInvalidation, L1!FinalizeEvictSnoop, L1!SetBlockState
<1>10. \A d \in Cores : d # c => evict'[d] = evict[d]
  <2>1. CASE L1!FinalizeReadFwd(c, m)
    BY <1>1, <2>1 DEF L1!FinalizeReadFwd, L1!SetBlockState, L1Inv
  <2>2. CASE L1!FinalizeInvalidation(c, m)  BY <1>1, <2>2 DEF L1!FinalizeInvalidation, L1Inv
  <2>3. CASE L1!FinalizeEvictSnoop(c)  BY <1>1, <2>3 DEF L1!FinalizeEvictSnoop, L1Inv
  <2> QED  BY <1>4, <2>1, <2>2, <2>3
<1>11. Elsewhere(c)
  <2>1. \A d \in Cores : d # c => snoops'[d] = snoops[d]  BY <1>1, <1>8 DEF SnoopInv
  <2>2. \A d \in Cores : d # c => array'[d] = array[d]  BY <1>1, <1>9 DEF L1Inv
  <2> QED  BY <1>7, <1>10, <2>1, <2>2 DEF Elsewhere
<1>12. PICK r : r = snoops'[c]  OBVIOUS
<1>13. r = L1!WakeWaitingEntries(sb) \/ r = L1!WakeWaitingEntries(L1!WithoutEvictSnoop(sb))
  BY <1>1, <1>8, <1>12 DEF SnoopInv
<1>14. r.active = <<>> /\ r.waiting = <<>>
  <2>1. \A s : L1!WakeWaitingEntries(s).active = <<>> /\ L1!WakeWaitingEntries(s).waiting = <<>>
    BY DEF L1!WakeWaitingEntries
  <2> QED  BY <1>13, <2>1
<1>15. CASE DirSnoop(m)
  <2>1. Buffered(r) \subseteq Buffered(sb) \ {m} /\ SnoopsOK(c, q, r)
    BY <1>3, <1>13, <1>15, FinishedIs, DroppedIs
  <2>2. EvictsOnly(Buffered(r))
    <3>1. SUFFICES ASSUME NEW n \in Buffered(r), n.type # "EvictClean" PROVE FALSE  BY DEF EvictsOnly
    <3>2. n \in Bf(c) /\ DirSnoop(n) /\ n # m  BY <2>1, <3>1 DEF SnoopsOK, Bf
    <3> QED  BY <1>5, <1>15, <3>2, OneDirSnoop
  <2>3. r \in SnoopBuffer  BY <2>1 DEF SnoopsOK
  <2> QED  BY <1>6, <1>11, <1>12, <1>14, <2>2, <2>3
<1>16. CASE ~DirSnoop(m)
  <2>1. m.type = "EvictClean"  BY <1>3, <1>5, <1>16 DEF SnoopsOK, Bf
  <2>2. EvictSnoopIn(Bf(c))  BY <1>5, <2>1 DEF EvictSnoopIn
  <2>3. L1!FinalizeEvictSnoop(c)  BY <1>4, <2>1
  <2> QED  BY <1>3, <1>6, <1>11, <1>12, <1>14, <2>2, <2>3
<1> QED  BY <1>15, <1>16

(* So no snoop of the directory is left to wait for nothing. *)
LEMMA DoneWakes ==
  ASSUME CInv, failed' = "none", WakeInv, NEW c \in Cores, L1SnoopDone(c)
  PROVE  WakeInv'
<1>1. L1Inv /\ L1At(c)  BY DEF CInv, L1Inv
<1> PICK r : r = snoops'[c]  OBVIOUS
<1>2. /\ Elsewhere(c) /\ maf'[c].state = maf[c].state /\ Woken(r)
      /\ \/ r \in SnoopBuffer /\ EvictsOnly(Buffered(r))
         \/ EvictSnoopIn(Bf(c)) /\ L1!FinalizeEvictSnoop(c)
  BY DoneIs DEF Woken
<1>3. CASE r \in SnoopBuffer /\ EvictsOnly(Buffered(r))
  <2>1. PICK f : f = maf'[c]  OBVIOUS
  <2>2. \A a, e : WakeAt(r, a, e, f)  BY <1>2, <1>3, <2>1, EvictsWake
  <2> QED  BY <1>2, <2>1, <2>2, WakeHere
<1>4. CASE EvictSnoopIn(Bf(c)) /\ L1!FinalizeEvictSnoop(c)
  <2>1. array' = array /\ (evict'[c].snoopRequired => evict[c].snoopRequired)
    BY <1>1, <1>4 DEF L1!FinalizeEvictSnoop, L1Inv
  <2>2. ~evict[c].snoopRequired  BY <1>1, <1>4, NoEvictIs DEF L1At
  <2>3. array[c] # "I" => maf[c].state = "WaitSnoop"  BY <1>1, <1>4 DEF L1At
  <2>4. maf[c].state # "WaitResponse"
    <3>1. Wt(c) <=> maf[c].state = "WaitResponse"  BY DEF Wt
    <3> QED  BY <1>1, <1>4, <3>1 DEF L1At
  <2>5. Settled(r, array'[c], evict'[c], maf'[c])  BY <1>2, <2>1, <2>2, <2>3, <2>4 DEF Settled
  <2> QED  BY <1>2, <2>5, WakeHere DEF WakeAt
<1> QED  BY <1>2, <1>3, <1>4


(* Every step of the protocol. *)
LEMMA WakeStep ==
  ASSUME CInv, failed' = "none", WakeInv, ~EarlyVictim, [Next]_vars
  PROVE  WakeInv'
<1>1. CASE UNCHANGED vars
  <2>1. l1Vars' = l1Vars  BY <1>1 DEF vars
  <2> QED  BY <2>1, QuietWakes
<1>2. ASSUME NEW c \in Cores,
             \/ CoreRequest(c) \/ L1Replacement(c) \/ L1WakeMaf(c) \/ L1Back(c) \/ L1WakeSnoop(c)
             \/ L1SnoopDone(c) \/ L1Reply(c) \/ L1Idle(c) \/ L1Evict(c)
      PROVE  WakeInv'
  BY <1>2, FrontWakes, ReplacementWakes, BackWakes, WakeSnoopWakes, DoneWakes, ReplyWakes, IdleWakes, EvictWakes
<1>3. CASE \/ \E c \in Cores : L2Request(c)
           \/ L2WakeMaf \/ L2Replacement \/ L2Evict \/ MemStep
           \/ \E n \in Cores \cup {Mem} : L2Reply(n)
  <2>1. l1Vars' = l1Vars
    BY <1>3 DEF L2Request, L2WakeMaf, L2Replacement, L2Evict, MemStep, L2Reply, L2Frame, MemFrame
  <2> QED  BY <2>1, QuietWakes
<1> QED  BY <1>1, <1>2, <1>3 DEF Next

(* Nothing waits at the beginning. *)
LEMMA WakeInit == ASSUME Init PROVE WakeInv
<1>1. snoops = [c \in Cores |-> L1!NoSnoops] /\ maf = [c \in Cores |-> L1!NoMaf]
  BY DEF Init, L1!L1Init
<1>2. L1!NoSnoops.waiting = <<>> /\ L1!NoSnoops.waking = <<>>  BY DEF L1!NoSnoops
<1>3. \A c \in Cores : snoops[c].waiting = <<>> /\ snoops[c].waking = <<>> /\ maf[c].state = "None"
  BY <1>1, <1>2, NoMafIs
<1> QED  BY <1>3 DEF WakeInv, WakeAt, Woken, Settled

(* Snoops wait only for snoops that are at the core or will be. *)
LEMMA WakeIs == ASSUME WakeInv PROVE NoOrphanSnoop
<1>1. \A c \in Cores : EvictSnoopWaking(c) <=> WakingEvict(snoops[c])
  BY DEF EvictSnoopWaking, WakingEvict, EvictSnoopIn, ToSet
<1>2. \A c \in Cores : Woken(snoops[c])  BY DEF WakeInv, WakeAt
<1> QED  BY <1>1, <1>2 DEF Woken, NoOrphanSnoop

---------------------------------------------------------------------------
(* A request that waits at an L1 for a snoop is woken. *)

(* The core has to be asked when snoop m finds the block in state s. *)
AsksCore(m, s) == s # "I" /\ (m.type = "ReadFwd" => s = "E")
OffCore(sb) == ToSet(sb.waiting) \cup ToSet(sb.waking)
(* A snoop of the directory that was put off still finds what it has to ask    *)
(* the core about, unless the block has been announced as evicted.             *)
Stays(sb, a, e) ==
  \A m \in OffCore(sb) : DirSnoop(m) => e.pending \/ AsksCore(m, IF a # "I" THEN a ELSE e.state)
StayAt(sb, a, e, f) ==
  /\ Stays(sb, a, e)
  /\ f.state = "WaitSnoop" => f.woken \/ L1!HasEntry(sb)
(* The inductive part of NoOrphanRequest, at every L1. *)
StayInv == \A c \in Cores : StayAt(snoops[c], array[c], evict[c], maf[c])

(* It holds of all L1s if it holds of the one that changed. *)
LEMMA StayHere ==
  ASSUME StayInv, NEW c \in Cores, Elsewhere(c), StayAt(snoops'[c], array'[c], evict'[c], maf'[c])
  PROVE  StayInv'
<1>1. ASSUME NEW d \in Cores, d # c PROVE StayAt(snoops[d], array[d], evict[d], maf[d])'
  BY <1>1 DEF StayInv, Elsewhere
<1>2. StayAt(snoops[c], array[c], evict[c], maf[c])'  OBVIOUS
<1> QED  BY <1>1, <1>2 DEF StayInv

(* With eviction snoops only there is nothing to be said of the block. *)
LEMMA EvictsStay ==
  ASSUME NEW sb \in SnoopBuffer, EvictsOnly(Buffered(sb))
  PROVE  \A a, e : Stays(sb, a, e)
<1>1. OffCore(sb) \subseteq Buffered(sb)  BY DEF OffCore, Buffered
<1>2. \A m \in OffCore(sb) : ~DirSnoop(m)  BY <1>1 DEF EvictsOnly, DirSnoop
<1> QED  BY <1>2 DEF Stays

(* No snoop of the directory is put off while one of them is at the core, so *)
(* it is an eviction snoop that it is put off for.                           *)
LEMMA PutOffForEvict ==
  ASSUME CInv, NEW c \in Cores, snoops[c].active # <<>>,
         NEW n \in OffCore(snoops[c]), DirSnoop(n)
  PROVE  EvictSnoopIn(Bf(c))
<1>1. SnoopInv  BY DEF CInv
<1> PICK sb : sb = snoops[c]  OBVIOUS
<1>2. sb \in SnoopBuffer /\ SnoopsOK(c, snoop[c], sb) /\ Bf(c) = Buffered(sb)  BY <1>1, SnoopSeqs
<1>3. PICK m : m \in ToSet(sb.active)  BY <1>2, BufferParts
<1>4. m \in Bf(c) /\ n \in Bf(c)  BY <1>2, <1>3 DEF Buffered, OffCore
<1>5. m # n  BY <1>2, <1>3 DEF SnoopsOK, SnoopsOnce, OffCore
<1>6. ~DirSnoop(m)  BY <1>4, <1>5, OneDirSnoop
<1>7. m.type = "EvictClean"  BY <1>2, <1>4, <1>6 DEF SnoopsOK
<1> QED  BY <1>4, <1>7 DEF EvictSnoopIn

(* No snoop of the directory is put off while a miss is outstanding. *)
LEMMA MissAlone ==
  ASSUME CInv, WakeInv, NEW c \in Cores, maf[c].state = "WaitResponse",
         NEW n \in OffCore(snoops[c])
  PROVE  ~DirSnoop(n)
<1>1. SUFFICES ASSUME DirSnoop(n) PROVE FALSE  OBVIOUS
<1>2. SnoopInv /\ L1At(c)  BY DEF CInv, L1Inv
<1> PICK sb : sb = snoops[c]  OBVIOUS
<1>3. sb \in SnoopBuffer /\ Bf(c) = Buffered(sb)  BY <1>2, SnoopSeqs
<1>4. ~EvictSnoopIn(Bf(c))
  <2>1. evict[c] = L1!NoEvict  BY <1>2 DEF L1At, Wt
  <2> QED  BY <1>2, <2>1 DEF L1At
<1>5. sb.active = <<>>  BY <1>1, <1>4, PutOffForEvict
<1>6. ~WakingEvict(sb)
  <2>1. ToSet(sb.waking) \subseteq Bf(c)  BY <1>3, BufferParts
  <2> QED  BY <1>4, <2>1 DEF WakingEvict, EvictSnoopIn
<1>7. WakeAt(sb, array[c], evict[c], maf[c])  BY DEF WakeInv
<1>8. sb.waiting = <<>> /\ sb.waking = <<>>  BY <1>5, <1>6, <1>7 DEF WakeAt, Woken, Settled
<1> QED  BY <1>8 DEF OffCore, ToSet

(* A request that waits for a snoop finds one, and leaves the block as it *)
(* is; any other request finds none.                                      *)
LEMMA FrontStays ==
  ASSUME CInv, StayInv, NEW c \in Cores, CoreRequest(c) \/ L1WakeMaf(c)
  PROVE  StayInv'
<1>1. L1Inv /\ L1At(c) /\ snoops' = snoops
  BY DEF CInv, L1Inv, CoreRequest, L1WakeMaf, L1!FrontRequest, L1!WakeMaf
<1>2. PICK op \in {"Load", "Store"} : L1!DoRequest(c, op)  BY <1>1, FrontIs
<1>3. Elsewhere(c)  BY <1>1, <1>2, WaitsForSnoop
<1>4. /\ array \in [Cores -> L1!States] /\ evict \in [Cores -> EvictRec] /\ maf \in [Cores -> MafRec]
  BY <1>1 DEF L1Inv, EvictRec, MafRec
<1> PICK sb : sb = snoops[c]  OBVIOUS
<1>5. Stays(sb, array[c], evict[c])  BY DEF StayInv, StayAt
<1>6. CASE L1!FromEB(c) /\ evict[c].pending
  <2>1. maf' = [maf EXCEPT ![c] = L1!MafEntry("WaitEvict", op)] /\ array' = array /\ evict' = evict
    BY <1>2, <1>6 DEF L1!DoRequest
  <2>2. PICK f : f = L1!MafEntry("WaitEvict", op)  OBVIOUS
  <2>3. f.state = "WaitEvict"  BY <2>2, MafEntryIs
  <2>4. maf'[c].state = "WaitEvict"  BY <1>4, <2>1, <2>2, <2>3
  <2>5. StayAt(sb, array'[c], evict'[c], maf'[c])  BY <1>5, <2>1, <2>4 DEF StayAt
  <2> QED  BY <1>1, <1>3, <2>5, StayHere
<1>7. CASE ~(L1!FromEB(c) /\ evict[c].pending) /\ L1!HasEntry(sb)
  <2>1. /\ array' = [array EXCEPT ![c] = L1!BlockState(c)]
        /\ evict' = [evict EXCEPT ![c] = L1!NoEvict]
    BY <1>2, <1>7 DEF L1!DoRequest
  <2>2. array'[c] = L1!BlockState(c) /\ evict'[c] = L1!NoEvict  BY <1>4, <2>1
  <2>3. ~evict[c].pending  BY <1>1, <1>7, NoEvictIs DEF L1!FromEB, L1At
  <2>4. L1!BlockState(c) = IF array[c] # "I" THEN array[c] ELSE evict[c].state  BY DEF L1!BlockState
  <2>5. Stays(sb, array'[c], evict'[c])
    <3>1. ASSUME NEW m \in OffCore(sb), DirSnoop(m)  PROVE AsksCore(m, L1!BlockState(c))
      BY <1>5, <2>3, <2>4, <3>1 DEF Stays
    <3>2. ASSUME NEW m \in OffCore(sb), DirSnoop(m)
          PROVE  AsksCore(m, IF array'[c] # "I" THEN array'[c] ELSE evict'[c].state)
      <4>1. AsksCore(m, L1!BlockState(c))  BY <3>1, <3>2
      <4>2. L1!BlockState(c) # "I"  BY <4>1 DEF AsksCore
      <4>3. (IF array'[c] # "I" THEN array'[c] ELSE evict'[c].state) = L1!BlockState(c)  BY <2>2, <4>2
      <4> QED  BY <4>1, <4>3
    <3> QED  BY <3>2 DEF Stays
  <2>6. StayAt(sb, array'[c], evict'[c], maf'[c])  BY <1>7, <2>5 DEF StayAt
  <2> QED  BY <1>1, <1>3, <2>6, StayHere
<1>8. CASE ~(L1!FromEB(c) /\ evict[c].pending) /\ ~L1!HasEntry(sb)
  <2>1. L1!Access(c, op, L1!BlockState(c))  BY <1>2, <1>8 DEF L1!DoRequest
  <2>2. \/ maf' = [maf EXCEPT ![c] = L1!NoMaf]
        \/ maf' = [maf EXCEPT ![c] = L1!MafEntry("WaitResponse", op)]
    BY <2>1 DEF L1!Access
  <2>3. PICK f : f = L1!MafEntry("WaitResponse", op)  OBVIOUS
  <2>4. f.state = "WaitResponse"  BY <2>3, MafEntryIs
  <2>5. maf'[c].state # "WaitSnoop"  BY <1>4, <2>2, <2>3, <2>4, NoMafIs
  <2>6. OffCore(sb) = {}  BY <1>8 DEF L1!HasEntry, OffCore, ToSet
  <2>7. StayAt(sb, array'[c], evict'[c], maf'[c])  BY <2>5, <2>6 DEF StayAt, Stays
  <2> QED  BY <1>1, <1>3, <2>7, StayHere
<1> QED  BY <1>6, <1>7, <1>8

(* The block is in the evict buffer in the state it had. *)
LEMMA ReplacementStays ==
  ASSUME CInv, StayInv, NEW c \in Cores, ~EarlyVictim, L1Replacement(c)
  PROVE  StayInv'
<1>1. L1Inv /\ L1At(c)  BY DEF CInv, L1Inv
<1>2. /\ snoops' = snoops /\ maf' = maf /\ array[c] # "I" /\ maf[c].state # "WaitSnoop"
      /\ array' = [array EXCEPT ![c] = "I"] /\ evict' = [evict EXCEPT ![c] = L1!EvictEntry(array[c])]
  BY DEF L1Replacement, L1!Victimize
<1>3. Elsewhere(c)  BY <1>1, <1>2 DEF L1Inv, Elsewhere
<1>4. PICK s \in L1!States : s = array[c]  BY <1>1 DEF L1Inv
<1>5. PICK e : e = L1!EvictEntry(s)  OBVIOUS
<1>6. array'[c] = "I" /\ evict'[c] = e /\ e.state = s  BY <1>1, <1>2, <1>4, <1>5, EvictEntryIs DEF L1Inv
<1>7. ~evict[c].pending  BY <1>1, <1>2, NoEvictIs DEF L1At
<1>8. Stays(snoops[c], array[c], evict[c])  BY DEF StayInv, StayAt
<1>9. Stays(snoops[c], array'[c], evict'[c])  BY <1>2, <1>4, <1>6, <1>7, <1>8 DEF Stays
<1>10. StayAt(snoops'[c], array'[c], evict'[c], maf'[c])  BY <1>2, <1>9 DEF StayAt
<1> QED  BY <1>3, <1>10, StayHere

(* The snoop is at the core, or waits. *)
LEMMA SentOrPutOff ==
  ASSUME NEW sb \in SnoopBuffer, NEW m \in Message,
         NEW r, r = IF L1!HasEntry(sb) THEN [sb EXCEPT !.waiting = Append(@, m)]
                    ELSE [sb EXCEPT !.active = <<m>>]
  PROVE  L1!HasEntry(r) /\ OffCore(r) \subseteq OffCore(sb) \cup {m}
<1>1. CASE L1!HasEntry(sb)
  <2>1. r.active = sb.active /\ r.waking = sb.waking /\ r.waiting = Append(sb.waiting, m)
    BY <1>1 DEF SnoopBuffer
  <2>2. sb.waiting \in Seq(Message)  BY DEF SnoopBuffer
  <2>3. ToSet(r.waiting) = ToSet(sb.waiting) \cup {m} /\ r.waiting # <<>>
    BY <2>1, <2>2, AppendSet
  <2> QED  BY <2>1, <2>3 DEF OffCore, L1!HasEntry
<1>2. CASE ~L1!HasEntry(sb)
  <2>1. r.active = <<m>> /\ r.waking = sb.waking /\ r.waiting = sb.waiting
    BY <1>2 DEF SnoopBuffer
  <2>2. r.active # <<>>  BY <2>1
  <2> QED  BY <2>1, <2>2 DEF OffCore, L1!HasEntry
<1> QED  BY <1>1, <1>2

(* An eviction snoop of the core is of no concern to the others. *)
LEMMA IdleStays ==
  ASSUME CInv, StayInv, NEW c \in Cores, L1Idle(c)
  PROVE  StayInv'
<1>1. L1Inv /\ SnoopInv /\ L1At(c)  BY DEF CInv, L1Inv
<1>2. /\ array' = array /\ maf' = maf /\ evict' = [evict EXCEPT ![c].snoopRequired = FALSE]
      /\ L1!SnoopCore(c, L1!EvictSnoop(c), snoops[c])
  BY DEF L1Idle, L1!IdleWork
<1> PICK sb : sb = snoops[c]  OBVIOUS
<1> PICK m : m = L1!EvictSnoop(c)  OBVIOUS
<1>3. sb \in SnoopBuffer  BY <1>1, SnoopSeqs
<1>4. m \in Message /\ ~DirSnoop(m)  BY EvictSnoopFields DEF Fields, T!Is, DirSnoop
<1> PICK r : r = IF L1!HasEntry(sb) THEN [sb EXCEPT !.waiting = Append(@, m)]
                 ELSE [sb EXCEPT !.active = <<m>>]
  OBVIOUS
<1>5. L1!HasEntry(r) /\ OffCore(r) \subseteq OffCore(sb) \cup {m}  BY <1>3, <1>4, SentOrPutOff
<1>6. snoops' = [snoops EXCEPT ![c] = r]  BY <1>2 DEF L1!SnoopCore
<1>7. snoops'[c] = r /\ Elsewhere(c)  BY <1>1, <1>2, <1>6 DEF L1Inv, SnoopInv, Elsewhere
<1>8. evict'[c].pending = evict[c].pending /\ evict'[c].state = evict[c].state
  BY <1>1, <1>2 DEF L1Inv
<1>9. Stays(sb, array[c], evict[c])  BY DEF StayInv, StayAt
<1>10. Stays(r, array'[c], evict'[c])  BY <1>2, <1>4, <1>5, <1>8, <1>9 DEF Stays
<1>11. StayAt(snoops'[c], array'[c], evict'[c], maf'[c])  BY <1>5, <1>7, <1>10 DEF StayAt
<1> QED  BY <1>7, <1>11, StayHere

(* The eviction is announced, and nothing is asked of the core any more. *)
LEMMA EvictStays ==
  ASSUME CInv, StayInv, NEW c \in Cores, L1Evict(c)
  PROVE  StayInv'
<1>1. L1Inv  BY DEF CInv
<1>2. /\ snoops' = snoops /\ maf' = maf /\ array' = array
      /\ evict' = [evict EXCEPT ![c].pending = TRUE]
  BY DEF L1Evict, L1!Evict
<1>3. Elsewhere(c) /\ evict'[c].pending  BY <1>1, <1>2 DEF L1Inv, Elsewhere
<1>4. StayAt(snoops[c], array[c], evict[c], maf[c])  BY DEF StayInv
<1>5. StayAt(snoops'[c], array'[c], evict'[c], maf'[c])  BY <1>2, <1>3, <1>4 DEF StayAt, Stays
<1> QED  BY <1>3, <1>5, StayHere

(* A reply comes for a miss: then no snoop of the directory is put off. *)
LEMMA MissReplyStays ==
  ASSUME CInv, WakeInv, StayInv, NEW c \in Cores, L1Reply(c)
  PROVE  StayInv'
<1>1. L1Inv /\ SnoopInv /\ L1At(c)  BY DEF CInv, L1Inv
<1>2. PICK m : L1!BackReply(c, m)  BY DEF L1Reply
<1>3. snoops' = snoops /\ evict' = evict  BY <1>2 DEF L1!BackReply
<1>4. CASE array' = array /\ maf' = maf
  BY <1>3, <1>4 DEF StayInv
<1>5. CASE ~(array' = array /\ maf' = maf)
  <2>1. L1!WaitingMaf(c) /\ (L1!HandleLoadReply(c, m) \/ L1!HandleStoreReply(c, m))
    BY <1>2, <1>5 DEF L1!BackReply
  <2>2. maf[c].state = "WaitResponse"  BY <2>1 DEF L1!WaitingMaf
  <2>3. \E a : array' = [array EXCEPT ![c] = a]
    BY <1>5, <2>1 DEF L1!HandleLoadReply, L1!HandleStoreReply, L1!PerformStore
  <2>4. \/ maf' = [maf EXCEPT ![c] = L1!NoMaf]
        \/ \E n, got : maf' = [maf EXCEPT ![c].outstanding = n, ![c].dataReceived = got]
    BY <1>5, <2>1 DEF L1!HandleLoadReply, L1!HandleStoreReply
  <2>5. maf'[c].state # "WaitSnoop" /\ Elsewhere(c)
    <3>1. CASE maf' = [maf EXCEPT ![c] = L1!NoMaf]
      BY <1>1, <1>3, <2>3, <3>1, NoMafIs DEF L1Inv, Elsewhere
    <3>2. CASE \E n, got : maf' = [maf EXCEPT ![c].outstanding = n, ![c].dataReceived = got]
      <4>1. PICK n, got : maf' = [maf EXCEPT ![c].outstanding = n, ![c].dataReceived = got]  BY <3>2
      <4>2. maf'[c].state = maf[c].state  BY <1>1, <4>1 DEF L1Inv
      <4> QED  BY <1>1, <1>3, <2>2, <2>3, <4>1, <4>2 DEF L1Inv, Elsewhere
    <3> QED  BY <2>4, <3>1, <3>2
  <2>6. \A n \in OffCore(snoops[c]) : ~DirSnoop(n)  BY <1>1, <2>2, MissAlone
  <2>7. StayAt(snoops'[c], array'[c], evict'[c], maf'[c])  BY <1>3, <2>5, <2>6 DEF StayAt, Stays
  <2> QED  BY <2>5, <2>7, StayHere
<1> QED  BY <1>4, <1>5

(* A snoop of the directory is answered, or the core is asked: that is always *)
(* so while a request waits for a snoop, as no block is being evicted then.   *)
LEMMA HandledIs ==
  ASSUME CInv, failed' = "none", NEW c \in Cores, NEW m, NEW q, NEW sb, Taking(c, m, q, sb),
         maf' = maf, L1!HandleSnooped(c, m, sb)
  PROVE  /\ Elsewhere(c)
         /\ \/ /\ snoops' = [snoops EXCEPT ![c] = sb]
               /\ maf[c].state = "WaitSnoop" => ~AsksCore(m, L1!BlockState(c))
            \/ /\ L1!SnoopCore(c, m, sb) /\ AsksCore(m, L1!BlockState(c))
               /\ array' = array /\ evict' = evict
<1>1. L1Inv /\ SnoopInv /\ L1At(c)  BY DEF CInv, L1Inv
<1>2. maf[c].state = "WaitSnoop" => ~L1!FromEB(c)  BY <1>1 DEF L1At, L1!FromEB
<1>3. L1!BlockState(c) \in {"I", "S", "E", "M"}  BY <1>1, BlockIs DEF L1!States
<1> PICK s : s = L1!BlockState(c)  OBVIOUS
<1>4. (\E a : array' = [array EXCEPT ![c] = a]) \/ array' = array
  BY DEF L1!HandleSnooped, L1!HandleReadFwd, L1!HandleWriteFwd, L1!HandleInvalidate, L1!SetBlockState
<1>5. \A d \in Cores : d # c => evict'[d] = evict[d]
  <2>1. CASE L1!HandleReadFwd(c, m, sb)
    BY <1>1, <2>1 DEF L1!HandleReadFwd, L1!SetBlockState, L1Inv
  <2>2. CASE L1!HandleWriteFwd(c, m, sb)  BY <2>2 DEF L1!HandleWriteFwd
  <2>3. CASE L1!HandleInvalidate(c, m, sb)  BY <1>1, <2>3 DEF L1!HandleInvalidate, L1Inv
  <2> QED  BY <2>1, <2>2, <2>3 DEF L1!HandleSnooped
<1>6. \/ /\ snoops' = [snoops EXCEPT ![c] = sb]
         /\ maf[c].state = "WaitSnoop" => ~AsksCore(m, s)
      \/ /\ L1!SnoopCore(c, m, sb) /\ AsksCore(m, s)
         /\ array' = array /\ evict' = evict
  <2>1. CASE m.type = "ReadFwd" /\ L1!HandleReadFwd(c, m, sb)
    <3>1. CASE s = "E" /\ L1!SnoopCore(c, m, sb) /\ UNCHANGED <<array, evict>>
      BY <3>1 DEF AsksCore
    <3>2. CASE s # "E" /\ snoops' = [snoops EXCEPT ![c] = sb]  BY <2>1, <3>2 DEF AsksCore
    <3> QED  BY <2>1, <3>1, <3>2 DEF L1!HandleReadFwd
  <2>2. CASE m.type = "WriteFwd" /\ L1!HandleWriteFwd(c, m, sb)
    <3>1. array' = array /\ evict' = evict  BY <2>2 DEF L1!HandleWriteFwd
    <3>2. CASE snoops' = [snoops EXCEPT ![c] = sb] /\ s = "I"  BY <3>2 DEF AsksCore
    <3>3. CASE snoops' = [snoops EXCEPT ![c] = sb] /\ L1!FromEB(c)  BY <1>2, <3>3
    <3>4. CASE s # "I" /\ L1!SnoopCore(c, m, sb)  BY <2>2, <3>1, <3>4 DEF AsksCore
    <3> QED  BY <2>2, <3>2, <3>3, <3>4 DEF L1!HandleWriteFwd
  <2>3. CASE m.type = "Invalidate" /\ L1!HandleInvalidate(c, m, sb)
    <3>1. ~L1!Abort("Invalidate in a writable state") /\ ~L1!Abort("Invalidate while waiting for a read")
      BY DEF L1!Abort
    <3>2. CASE snoops' = [snoops EXCEPT ![c] = sb] /\ s = "I"  BY <3>2 DEF AsksCore
    <3>3. CASE snoops' = [snoops EXCEPT ![c] = sb] /\ L1!FromEB(c)  BY <1>2, <3>3
    <3>4. CASE s = "S" /\ L1!SnoopCore(c, m, sb) /\ array' = array /\ evict' = evict
      BY <2>3, <3>4 DEF AsksCore
    <3> QED  BY <2>3, <3>1, <3>2, <3>3, <3>4 DEF L1!HandleInvalidate
  <2> QED  BY <2>1, <2>2, <2>3 DEF L1!HandleSnooped
<1>7. \A d \in Cores : d # c => snoops'[d] = snoops[d]  BY <1>1, <1>6 DEF SnoopInv, L1!SnoopCore
<1>8. Elsewhere(c)  BY <1>1, <1>4, <1>5, <1>7 DEF Elsewhere, L1Inv
<1> QED  BY <1>6, <1>8

(* A snoop of the directory that is taken out of the channel or theWakeList. *)
LEMMA HandledStays ==
  ASSUME CInv, failed' = "none", StayInv, NEW c \in Cores, NEW m, NEW q, NEW sb, Taking(c, m, q, sb),
         maf' = maf, L1!HandleSnooped(c, m, sb),
         maf[c].state = "WaitSnoop" => maf[c].woken \/ L1!HasEntry(sb) \/ AsksCore(m, L1!BlockState(c))
  PROVE  StayInv'
<1>1. SnoopInv  BY DEF CInv
<1>2. SnoopsOK(c, q, sb) /\ m \in Message /\ EvictsOnly(Buffered(sb))  BY TakenAlone DEF Taking
<1>3. sb \in SnoopBuffer  BY <1>2 DEF SnoopsOK
<1>4. \A a, e : Stays(sb, a, e)  BY <1>2, <1>3, EvictsStay
<1>5. /\ Elsewhere(c)
      /\ \/ /\ snoops' = [snoops EXCEPT ![c] = sb]
            /\ maf[c].state = "WaitSnoop" => ~AsksCore(m, L1!BlockState(c))
         \/ /\ L1!SnoopCore(c, m, sb) /\ AsksCore(m, L1!BlockState(c))
            /\ array' = array /\ evict' = evict
  BY HandledIs
<1>6. CASE /\ snoops' = [snoops EXCEPT ![c] = sb]
           /\ maf[c].state = "WaitSnoop" => ~AsksCore(m, L1!BlockState(c))
  <2>1. snoops'[c] = sb  BY <1>1, <1>6 DEF SnoopInv
  <2>2. StayAt(snoops'[c], array'[c], evict'[c], maf'[c])  BY <1>4, <1>6, <2>1 DEF StayAt
  <2> QED  BY <1>5, <2>2, StayHere
<1>7. CASE L1!SnoopCore(c, m, sb) /\ AsksCore(m, L1!BlockState(c)) /\ array' = array /\ evict' = evict
  <2> PICK r : r = IF L1!HasEntry(sb) THEN [sb EXCEPT !.waiting = Append(@, m)]
                   ELSE [sb EXCEPT !.active = <<m>>]
    OBVIOUS
  <2>1. L1!HasEntry(r) /\ OffCore(r) \subseteq OffCore(sb) \cup {m}  BY <1>2, <1>3, SentOrPutOff
  <2>2. snoops'[c] = r  BY <1>1, <1>7 DEF L1!SnoopCore, SnoopInv
  <2>3. Stays(sb, array[c], evict[c])  BY <1>4
  <2>4. Stays(r, array[c], evict[c])  BY <1>7, <2>1, <2>3 DEF Stays, L1!BlockState
  <2>5. StayAt(snoops'[c], array'[c], evict'[c], maf'[c])  BY <1>7, <2>1, <2>2, <2>4 DEF StayAt
  <2> QED  BY <1>5, <2>5, StayHere
<1> QED  BY <1>5, <1>6, <1>7

(* The head of the Snoop channel, which is taken when theWakeList is empty. *)
LEMMA BackStays ==
  ASSUME CInv, failed' = "none", WakeInv, StayInv, NEW c \in Cores, L1Back(c)
  PROVE  StayInv'
<1>1. L1Inv /\ SnoopInv /\ T!Inv /\ L1At(c)  BY DEF CInv, L1Inv
<1>2. PICK m, q :
        /\ m \in Sn(c) /\ m \in Message /\ SnoopsOK(c, q, snoops[c]) /\ ToSet(q) = Sn(c) \ {m}
        /\ snoop' = [snoop EXCEPT ![c] = q]
        /\ \/ L1!HandleSnooped(c, m, snoops[c]) /\ UNCHANGED maf
           \/ m.type = "EvictAck" /\ L1!HandleEvictAck(c) /\ UNCHANGED <<array, snoops>>
  BY <1>1, BackRequestIs
<1>3. StayAt(snoops[c], array[c], evict[c], maf[c])  BY DEF StayInv
<1>4. CASE L1!HandleSnooped(c, m, snoops[c]) /\ UNCHANGED maf
  <2>1. m.type \in {"ReadFwd", "WriteFwd", "Invalidate"}  BY <1>4 DEF L1!HandleSnooped
  <2>2. DirSnoop(m)  BY <1>1, <1>2, <2>1 DEF SnoopInv, SnoopsOK, Sn
  <2>3. Taking(c, m, q, snoops[c])  BY <1>2, <2>2 DEF Taking, Bf
  <2>4. maf[c].state = "WaitSnoop" => maf[c].woken \/ L1!HasEntry(snoops[c])  BY <1>3 DEF StayAt
  <2> QED  BY <1>4, <2>3, <2>4, HandledStays
<1>5. CASE m.type = "EvictAck" /\ L1!HandleEvictAck(c) /\ UNCHANGED <<array, snoops>>
  <2>1. ~L1!Abort("EvictAck but block not in the evict buffer")  BY DEF L1!Abort
  <2>2. /\ evict' = [evict EXCEPT ![c] = L1!NoEvict]
        /\ maf' = [maf EXCEPT ![c].woken = @ \/ maf[c].state = "WaitEvict"]
    BY <1>5, <2>1 DEF L1!HandleEvictAck, L1!Wake
  <2>3. Elsewhere(c)  BY <1>1, <1>5, <2>2 DEF Elsewhere, L1Inv
  <2>4. maf'[c].state = maf[c].state /\ (maf[c].woken => maf'[c].woken)  BY <1>1, <2>2 DEF L1Inv
  <2>5. c \in evictAcksV  BY <1>2, <1>5 DEF evictAcksV
  <2>6. c \in leavingV  BY <1>1, <2>5 DEF T!Inv, T!LeavingPosted
  <2>7. L1!FromEB(c) /\ evict[c].evictable  BY <1>1, <2>6, BlockIs
  <2>8. ~EvictSnoopIn(Bf(c))  BY <1>1, <2>7 DEF L1At, L1!FromEB
  <2>9. \A n \in OffCore(snoops[c]) : ~DirSnoop(n)
    <3>1. SUFFICES ASSUME NEW n \in OffCore(snoops[c]), DirSnoop(n) PROVE FALSE  OBVIOUS
    <3>2. snoops[c].active = <<>>  BY <2>8, <3>1, PutOffForEvict
    <3>3. snoops[c].waking = <<>>  BY DEF L1Back, L1!BackRequest
    <3>4. ~WakingEvict(snoops[c])  BY <3>3 DEF WakingEvict, EvictSnoopIn, ToSet
    <3>5. snoops[c].waiting = <<>>  BY <3>2, <3>4 DEF WakeInv, WakeAt, Woken
    <3> QED  BY <3>1, <3>3, <3>5 DEF OffCore, ToSet
  <2>10. StayAt(snoops'[c], array'[c], evict'[c], maf'[c])
    BY <1>3, <1>5, <2>4, <2>9 DEF StayAt, Stays
  <2> QED  BY <2>3, <2>10, StayHere
<1> QED  BY <1>2, <1>4, <1>5

(* The first of theWakeList. *)
LEMMA WakeSnoopStays ==
  ASSUME CInv, failed' = "none", StayInv, NEW c \in Cores, L1WakeSnoop(c)
  PROVE  StayInv'
<1>1. L1Inv /\ SnoopInv /\ L1At(c)  BY DEF CInv, L1Inv
<1>2. PICK m, sb :
        /\ m \in Bf(c) /\ m \in Message /\ m \in ToSet(snoops[c].waking)
        /\ SnoopsOK(c, snoop[c], sb) /\ Buffered(sb) = Bf(c) \ {m}
        /\ sb.waiting = snoops[c].waiting /\ ToSet(sb.waking) = ToSet(snoops[c].waking) \ {m}
        /\ \/ L1!HandleSnooped(c, m, sb)
           \/ /\ UNCHANGED <<array, evict>>
              /\ IF sb.active = <<>>
                 THEN snoops' = [snoops EXCEPT ![c] = [sb EXCEPT !.active = <<m>>]]
                 ELSE L1!Abort("waking evict finds an active snoop")
        /\ maf' = maf /\ snoop' = snoop
  BY <1>1, WakeSnoopIs
<1>3. Stays(snoops[c], array[c], evict[c])  BY DEF StayInv, StayAt
<1>4. CASE L1!HandleSnooped(c, m, sb)
  <2>1. m.type \in {"ReadFwd", "WriteFwd", "Invalidate"}  BY <1>4 DEF L1!HandleSnooped
  <2>2. DirSnoop(m)
    <3>1. \A n \in Bf(c) : DirSnoop(n) \/ n.type = "EvictClean"  BY <1>1 DEF SnoopInv, SnoopsOK, Bf
    <3> QED  BY <1>2, <2>1, <3>1
  <2>3. snoop' = [snoop EXCEPT ![c] = snoop[c]]  BY <1>1, <1>2, SnoopSeqs
  <2>4. Taking(c, m, snoop[c], sb)  BY <1>2, <2>2, <2>3 DEF Taking, Sn
  <2>5. evict[c].pending \/ AsksCore(m, L1!BlockState(c))
    BY <1>2, <1>3, <2>2 DEF Stays, OffCore, L1!BlockState
  <2>6. maf[c].state = "WaitSnoop" => ~evict[c].pending  BY <1>1, NoEvictIs DEF L1At
  <2> QED  BY <1>2, <1>4, <2>4, <2>5, <2>6, HandledStays
<1>5. CASE /\ UNCHANGED <<array, evict>>
           /\ IF sb.active = <<>>
              THEN snoops' = [snoops EXCEPT ![c] = [sb EXCEPT !.active = <<m>>]]
              ELSE L1!Abort("waking evict finds an active snoop")
  <2>1. ~L1!Abort("waking evict finds an active snoop")  BY DEF L1!Abort
  <2> PICK r : r = [sb EXCEPT !.active = <<m>>]  OBVIOUS
  <2>2. snoops' = [snoops EXCEPT ![c] = r]  BY <1>5, <2>1
  <2>3. sb \in SnoopBuffer  BY <1>2 DEF SnoopsOK
  <2>4. r.active = <<m>> /\ r.waiting = sb.waiting /\ r.waking = sb.waking  BY <2>3 DEF SnoopBuffer
  <2>5. r.active # <<>>  BY <2>4
  <2>6. snoops'[c] = r /\ Elsewhere(c)  BY <1>1, <1>2, <1>5, <2>2 DEF Elsewhere, SnoopInv
  <2>7. OffCore(r) \subseteq OffCore(snoops[c])  BY <1>2, <2>4 DEF OffCore
  <2>8. Stays(r, array[c], evict[c])  BY <1>3, <2>7 DEF Stays
  <2>9. StayAt(snoops'[c], array'[c], evict'[c], maf'[c])
    BY <1>5, <2>5, <2>6, <2>8 DEF StayAt, L1!HasEntry
  <2> QED  BY <2>6, <2>9, StayHere
<1> QED  BY <1>2, <1>4, <1>5

(* The core has answered: a request that waits for a snoop is woken. *)
LEMMA DoneStays ==
  ASSUME CInv, failed' = "none", StayInv, NEW c \in Cores, L1SnoopDone(c)
  PROVE  StayInv'
<1>1. L1Inv /\ SnoopInv  BY DEF CInv
<1> PICK r : r = snoops'[c]  OBVIOUS
<1> PICK sb : sb = snoops[c]  OBVIOUS
<1>2. /\ Elsewhere(c) /\ maf'[c].state = maf[c].state
      /\ maf[c].state = "WaitSnoop" => maf'[c].woken
      /\ \/ r \in SnoopBuffer /\ EvictsOnly(Buffered(r))
         \/ sb.active # <<>> /\ L1!FinalizeEvictSnoop(c)
  BY DoneIs
<1>3. CASE r \in SnoopBuffer /\ EvictsOnly(Buffered(r))
  <2>1. \A a, e : Stays(r, a, e)  BY <1>3, EvictsStay
  <2> QED  BY <1>2, <2>1, StayHere DEF StayAt
<1>4. CASE sb.active # <<>> /\ L1!FinalizeEvictSnoop(c)
  <2>1. /\ array' = array
        /\ evict'[c].pending = evict[c].pending /\ evict'[c].state = evict[c].state
    <3>1. evict[c] \in EvictRec /\ array' = array
      BY <1>1, <1>4, L1AtIs DEF L1!FinalizeEvictSnoop
    <3>2. evict'[c] = IF evict[c] = L1!NoEvict THEN evict[c] ELSE [evict[c] EXCEPT !.evictable = TRUE]
      BY <1>1, <1>4 DEF L1!FinalizeEvictSnoop, L1Inv
    <3> QED  BY <3>1, <3>2 DEF EvictRec
  <2>2. r = L1!WakeWaitingEntries(sb)
    <3>1. snoops' = [snoops EXCEPT ![c] = L1!WakeWaitingEntries(sb)]  BY <1>4 DEF L1!FinalizeEvictSnoop
    <3> QED  BY <1>1, <3>1 DEF SnoopInv
  <2> PICK q : q = snoop[c]  OBVIOUS
  <2>3. SnoopsOK(c, q, sb)  BY <1>1 DEF SnoopInv
  <2>4. r.waiting = <<>> /\ ToSet(r.waking) = ToSet(sb.waking) \cup ToSet(sb.waiting)
    <3>1. /\ SnoopsOK(c, q, r) /\ Buffered(r) = Buffered(sb) \ {Head(sb.active)}
          /\ r.active = <<>> /\ r.waiting = <<>>
          /\ ToSet(r.waking) = ToSet(sb.waking) \cup ToSet(sb.waiting)
      BY <1>4, <2>2, <2>3, SnoopFinished
    <3> QED  BY <3>1
  <2>5. OffCore(r) = OffCore(sb)  BY <2>4, EmptySet DEF OffCore
  <2>6. Stays(sb, array[c], evict[c])  BY DEF StayInv, StayAt
  <2>7. Stays(r, array'[c], evict'[c])  BY <2>1, <2>5, <2>6 DEF Stays
  <2> QED  BY <1>2, <2>7, StayHere DEF StayAt
<1> QED  BY <1>2, <1>3, <1>4

(* Every step of the protocol. *)
LEMMA StayStep ==
  ASSUME CInv, failed' = "none", WakeInv, StayInv, ~EarlyVictim, [Next]_vars
  PROVE  StayInv'
<1>1. CASE l1Vars' = l1Vars
  <2>1. snoops' = snoops /\ array' = array /\ evict' = evict /\ maf' = maf  BY <1>1 DEF l1Vars
  <2> QED  BY <2>1 DEF StayInv
<1>2. ASSUME NEW c \in Cores,
             \/ CoreRequest(c) \/ L1Replacement(c) \/ L1WakeMaf(c) \/ L1Back(c) \/ L1WakeSnoop(c)
             \/ L1SnoopDone(c) \/ L1Reply(c) \/ L1Idle(c) \/ L1Evict(c)
      PROVE  StayInv'
  BY <1>2, FrontStays, ReplacementStays, BackStays, WakeSnoopStays, DoneStays, MissReplyStays, IdleStays, EvictStays
<1>3. CASE \/ \E c \in Cores : L2Request(c)
           \/ L2WakeMaf \/ L2Replacement \/ L2Evict \/ MemStep
           \/ \E n \in Cores \cup {Mem} : L2Reply(n)
  <2>1. l1Vars' = l1Vars
    BY <1>3 DEF L2Request, L2WakeMaf, L2Replacement, L2Evict, MemStep, L2Reply, L2Frame, MemFrame
  <2> QED  BY <1>1, <2>1
<1>4. CASE UNCHANGED vars  BY <1>1, <1>4 DEF vars
<1> QED  BY <1>2, <1>3, <1>4 DEF Next

(* Nothing waits at the beginning. *)
LEMMA StayInit == ASSUME Init PROVE StayInv
<1>1. snoops = [c \in Cores |-> L1!NoSnoops] /\ maf = [c \in Cores |-> L1!NoMaf]
  BY DEF Init, L1!L1Init
<1>2. L1!NoSnoops.waiting = <<>> /\ L1!NoSnoops.waking = <<>>  BY DEF L1!NoSnoops
<1>3. \A c \in Cores : OffCore(snoops[c]) = {} /\ maf[c].state = "None"
  BY <1>1, <1>2, NoMafIs DEF OffCore, ToSet
<1> QED  BY <1>3 DEF StayInv, StayAt, Stays

(* A request that waits for a snoop has been woken, or there is a snoop. *)
LEMMA StayIs == ASSUME StayInv PROVE NoOrphanRequest
  BY DEF StayInv, StayAt, NoOrphanRequest

---------------------------------------------------------------------------
(* What the steps of an L1 are for BlockRights. *)

(* A core asks, is served or loses rights. *)
RightsMove(c) ==
  \/ maf'[c].op = maf[c].op /\ T!NoMore(T!Use(c)', T!Use(c))
  \/ maf[c].op = "None" /\ maf'[c].op # "None" /\ T!Use(c)' \in {T!Use(c), "I"}
  \/ maf[c].op = "Load" /\ maf'[c].op = "None" /\ T!Use(c)' # "I"
  \/ maf[c].op = "Store" /\ maf'[c].op = "None" /\ T!Use(c)' \in {"E", "M"}

(* The L1s of the other cores stay as they are. *)
Apart(c) ==
  \A d \in Cores : d # c => array'[d] = array[d] /\ evict'[d] = evict[d] /\ maf'[d] = maf[d]

(* A core that waits for nothing has no operation in its MAF. *)
OpInv == \A c \in Cores : maf[c].state = "None" => maf[c].op = "None"

(* One step of an L1 for BlockRights. *)
RightsStep(c) == Apart(c) /\ RightsMove(c) /\ (maf'[c].state = "None" => maf'[c].op = "None")

(* The miss of the L1 goes on. *)
LEMMA MissGoesOn ==
  ASSUME CInv, OpInv, TStep, NEW c \in Cores, Apart(c),
         maf'[c].state = maf[c].state, maf'[c].op = maf[c].op
  PROVE  RightsStep(c)
<1>1. T!UseChange(c)
  <2>1. T!Inv /\ [T!Next]_(T!vars)  BY DEF CInv, TStep
  <2> QED  BY <2>1, T!UseStep
<1>2. missV'[c] = missV[c]  BY DEF missV, Wt
<1>3. T!NoMore(T!Use(c)', T!Use(c))  BY <1>1, <1>2 DEF T!UseChange
<1> QED  BY <1>3 DEF RightsStep, RightsMove, OpInv

(* The miss of the L1 is over. *)
LEMMA MissEnds ==
  ASSUME CInv, TStep, NEW c \in Cores, Apart(c), Wt(c), maf'[c] = L1!NoMaf
  PROVE  RightsStep(c)
<1>1. T!UseChange(c)
  <2>1. T!Inv /\ [T!Next]_(T!vars)  BY DEF CInv, TStep
  <2> QED  BY <2>1, T!UseStep
<1>2. L1Inv  BY DEF CInv
<1>3. maf[c].op \in {"Load", "Store"} /\ missV[c] = maf[c].op  BY <1>2, BlockIs
<1>4. maf'[c].op = "None" /\ maf'[c].state = "None"  BY NoMafIs
<1>5. missV'[c] = "None"  BY <1>4 DEF missV, Wt
<1>6. \/ maf[c].op = "Load" /\ T!Use(c)' # "I"
      \/ maf[c].op = "Store" /\ T!Use(c)' = "M"
  BY <1>1, <1>3, <1>5 DEF T!UseChange
<1> QED  BY <1>4, <1>6 DEF RightsStep, RightsMove

(* A forward or an invalidate of the directory. *)
LEMMA HandledApart ==
  ASSUME L1Inv, NEW c \in Cores, NEW m, NEW sb, L1!HandleSnooped(c, m, sb), maf' = maf
  PROVE  Apart(c)
<1>1. (\E a : array' = [array EXCEPT ![c] = a]) \/ array' = array
  BY DEF L1!HandleSnooped, L1!HandleReadFwd, L1!HandleWriteFwd, L1!HandleInvalidate, L1!SetBlockState
<1>2. \A d \in Cores : d # c => evict'[d] = evict[d]
  <2>1. CASE L1!HandleReadFwd(c, m, sb)  BY <2>1 DEF L1!HandleReadFwd, L1!SetBlockState, L1Inv
  <2>2. CASE L1!HandleWriteFwd(c, m, sb)  BY <2>2 DEF L1!HandleWriteFwd
  <2>3. CASE L1!HandleInvalidate(c, m, sb)  BY <2>3 DEF L1!HandleInvalidate, L1Inv
  <2> QED  BY <2>1, <2>2, <2>3 DEF L1!HandleSnooped
<1> QED  BY <1>1, <1>2 DEF Apart, L1Inv

(* Snoops, evictions and replacements change what a core may do, not what *)
(* it waits for.                                                          *)
LEMMA SnoopRights ==
  ASSUME CInv, OpInv, TStep, NEW c \in Cores,
         \/ L1Replacement(c) \/ L1Idle(c) \/ L1Evict(c) \/ L1Back(c) \/ L1WakeSnoop(c) \/ L1SnoopDone(c)
  PROVE  RightsStep(c)
<1>1. L1Inv /\ maf \in [Cores -> MafRec]  BY DEF CInv, L1Inv, MafRec
<1>2. \A why : L1!Wake(c, why) => /\ maf'[c].state = maf[c].state /\ maf'[c].op = maf[c].op
                                  /\ \A d \in Cores : d # c => maf'[d] = maf[d]
  BY <1>1 DEF L1!Wake, MafRec
<1>3. CASE L1Replacement(c)
  <2>1. Apart(c) /\ maf' = maf  BY <1>1, <1>3 DEF L1Replacement, L1!Victimize, Apart, L1Inv
  <2> QED  BY <2>1, MissGoesOn
<1>4. CASE L1Idle(c) \/ L1Evict(c)
  <2>1. Apart(c) /\ maf' = maf  BY <1>1, <1>4 DEF L1Idle, L1!IdleWork, L1Evict, L1!Evict, Apart, L1Inv
  <2> QED  BY <2>1, MissGoesOn
<1>5. CASE L1Back(c)
  <2>1. PICK m : \/ L1!HandleSnooped(c, m, snoops[c]) /\ maf' = maf
                 \/ L1!HandleEvictAck(c) /\ array' = array
    BY <1>5 DEF L1Back, L1!BackRequest
  <2>2. CASE L1!HandleSnooped(c, m, snoops[c]) /\ maf' = maf
    BY <1>1, <2>2, HandledApart, MissGoesOn
  <2>3. CASE L1!HandleEvictAck(c) /\ array' = array
    <3>1. L1!Wake(c, "WaitEvict") \/ maf' = maf  BY <2>3 DEF L1!HandleEvictAck
    <3>2. evict' = evict \/ evict' = [evict EXCEPT ![c] = L1!NoEvict]  BY <2>3 DEF L1!HandleEvictAck
    <3>3. Apart(c)  BY <1>1, <1>2, <2>3, <3>1, <3>2 DEF Apart, L1Inv
    <3> QED  BY <1>2, <3>1, <3>3, MissGoesOn
  <2> QED  BY <2>1, <2>2, <2>3
<1>6. CASE L1WakeSnoop(c)
  <2>1. maf' = maf /\ ((\E m, sb : L1!HandleSnooped(c, m, sb)) \/ UNCHANGED <<array, evict>>)
    BY <1>6 DEF L1WakeSnoop, L1!WakeSnoop
  <2>2. Apart(c)  BY <1>1, <2>1, HandledApart DEF Apart
  <2> QED  BY <2>1, <2>2, MissGoesOn
<1>7. CASE L1SnoopDone(c)
  <2>1. PICK m : /\ L1!FinalizeReadFwd(c, m) \/ L1!FinalizeInvalidation(c, m) \/ L1!FinalizeEvictSnoop(c)
                 /\ L1!Wake(c, "WaitSnoop")
    BY <1>7 DEF L1SnoopDone, L1!FinalizeSnoop
  <2>2. (\E a : array' = [array EXCEPT ![c] = a]) \/ array' = array
    BY <2>1 DEF L1!FinalizeReadFwd, L1!FinalizeInvalidation, L1!FinalizeEvictSnoop, L1!SetBlockState
  <2>3. \A d \in Cores : d # c => evict'[d] = evict[d]
    <3>1. CASE L1!FinalizeReadFwd(c, m)
      BY <1>1, <3>1 DEF L1!FinalizeReadFwd, L1!SetBlockState, L1Inv
    <3>2. CASE L1!FinalizeInvalidation(c, m)  BY <1>1, <3>2 DEF L1!FinalizeInvalidation, L1Inv
    <3>3. CASE L1!FinalizeEvictSnoop(c)  BY <1>1, <3>3 DEF L1!FinalizeEvictSnoop, L1Inv
    <3> QED  BY <2>1, <3>1, <3>2, <3>3
  <2>4. Apart(c)  BY <1>1, <1>2, <2>1, <2>2, <2>3 DEF Apart, L1Inv
  <2> QED  BY <1>2, <2>1, <2>4, MissGoesOn
<1> QED  BY <1>3, <1>4, <1>5, <1>6, <1>7

(* A reply serves the core or is not the last one. *)
LEMMA ReplyRights ==
  ASSUME CInv, OpInv, TStep, NEW c \in Cores, L1Reply(c)
  PROVE  RightsStep(c)
<1>1. L1Inv /\ maf \in [Cores -> MafRec]  BY DEF CInv, L1Inv, MafRec
<1>2. PICK m : L1!BackReply(c, m)  BY DEF L1Reply
<1>3. evict' = evict  BY <1>2 DEF L1!BackReply
<1>4. CASE array' = array /\ maf' = maf
  <2>1. Apart(c)  BY <1>3, <1>4 DEF Apart
  <2> QED  BY <1>4, <2>1, MissGoesOn
<1>5. CASE ~(array' = array /\ maf' = maf)
  <2>1. Wt(c) /\ (L1!HandleLoadReply(c, m) \/ L1!HandleStoreReply(c, m))
    BY <1>2, <1>5 DEF L1!BackReply, L1!WaitingMaf, Wt
  <2>2. \E a : array' = [array EXCEPT ![c] = a]
    BY <1>5, <2>1 DEF L1!HandleLoadReply, L1!HandleStoreReply, L1!PerformStore
  <2>3. \/ maf' = [maf EXCEPT ![c] = L1!NoMaf]
        \/ \E n, got : maf' = [maf EXCEPT ![c].outstanding = n, ![c].dataReceived = got]
    BY <1>5, <2>1 DEF L1!HandleLoadReply, L1!HandleStoreReply
  <2>4. CASE maf' = [maf EXCEPT ![c] = L1!NoMaf]
    <3>1. Apart(c) /\ maf'[c] = L1!NoMaf  BY <1>1, <1>3, <2>2, <2>4 DEF Apart, L1Inv
    <3> QED  BY <2>1, <3>1, MissEnds
  <2>5. CASE \E n, got : maf' = [maf EXCEPT ![c].outstanding = n, ![c].dataReceived = got]
    <3>1. PICK n, got : maf' = [maf EXCEPT ![c].outstanding = n, ![c].dataReceived = got]  BY <2>5
    <3>2. maf'[c].state = maf[c].state /\ maf'[c].op = maf[c].op  BY <1>1, <3>1 DEF MafRec
    <3>3. Apart(c)  BY <1>1, <1>3, <2>2, <3>1 DEF Apart, L1Inv
    <3> QED  BY <3>2, <3>3, MissGoesOn
  <2> QED  BY <2>3, <2>4, <2>5
<1> QED  BY <1>4, <1>5

(* What a request of the core does: it is put off or becomes a miss, or it *)
(* hits.                                                                   *)
PutOffOrMiss(c, op) ==
  /\ maf'[c].op = op /\ maf'[c].state # "None"
  /\ T!Use(c)' \in {T!Use(c), "I"}
Hit(c, op) ==
  /\ maf'[c].op = "None" /\ maf'[c].state = "None"
  /\ T!Use(c) # "I" /\ (op = "Store" => T!Use(c) \in {"E", "M"})
  /\ T!Use(c)' = T!Use(c) \/ (T!Use(c) \in {"E", "M"} /\ T!Use(c)' = "M")

LEMMA RequestUse ==
  ASSUME L1Inv, NEW c \in Cores, NEW op \in {"Load", "Store"}, L1!DoRequest(c, op), ~Wt(c)
  PROVE  Apart(c) /\ (PutOffOrMiss(c, op) \/ Hit(c, op))
<1>1. /\ array \in [Cores -> L1!States] /\ evict \in [Cores -> EvictRec] /\ maf \in [Cores -> MafRec]
  BY DEF L1Inv, EvictRec, MafRec
<1>2. /\ missV[c] = "None" /\ (c \in leavingV <=> evict[c].pending)
      /\ L1!BlockState(c) = copyV[c] /\ (c \in leavingV => L1!FromEB(c))
  BY BlockIs
<1>3. CASE L1!FromEB(c) /\ evict[c].pending
  <2>1. maf' = [maf EXCEPT ![c] = L1!MafEntry("WaitEvict", op)] /\ array' = array /\ evict' = evict
    BY <1>3 DEF L1!DoRequest
  <2>2. PICK f : f = L1!MafEntry("WaitEvict", op)  OBVIOUS
  <2>3. f.state = "WaitEvict" /\ f.op = op  BY <2>2, MafEntryIs
  <2>4. maf'[c] = f /\ Apart(c)  BY <1>1, <2>1, <2>2 DEF Apart
  <2>5. T!Use(c)' = "I"
    <3>1. c \in leavingV'  BY <1>3, <2>1 DEF leavingV
    <3> QED  BY <3>1 DEF T!Use
  <2> QED  BY <2>3, <2>4, <2>5 DEF PutOffOrMiss
<1>4. CASE ~(L1!FromEB(c) /\ evict[c].pending)
  <2> PICK s : s = L1!BlockState(c)  OBVIOUS
  <2>1. T!Use(c) = s  BY <1>2, <1>4 DEF T!Use
  <2>2. evict' = [evict EXCEPT ![c] = L1!NoEvict]  BY <1>4 DEF L1!DoRequest
  <2>3. evict'[c] = L1!NoEvict /\ (\A d \in Cores : d # c => evict'[d] = evict[d])  BY <1>1, <2>2
  <2>4. ASSUME NEW t, array' = [array EXCEPT ![c] = t], NEW f, maf' = [maf EXCEPT ![c] = f],
               f.state # "WaitResponse"
        PROVE  T!Use(c)' = t
    <3>1. array'[c] = t /\ maf'[c] = f  BY <1>1, <2>4
    <3>2. missV'[c] = "None" /\ c \notin leavingV'
      BY <2>3, <2>4, <3>1, NoEvictIs DEF missV, Wt, leavingV
    <3>3. copyV'[c] = t  BY <2>3, <3>1, NoEvictIs DEF copyV
    <3> QED  BY <3>2, <3>3 DEF T!Use
  <2>5. CASE L1!HasEntry(snoops[c])
    <3>1. array' = [array EXCEPT ![c] = s] /\ maf' = [maf EXCEPT ![c] = L1!MafEntry("WaitSnoop", op)]
      BY <1>4, <2>5 DEF L1!DoRequest
    <3>2. PICK f : f = L1!MafEntry("WaitSnoop", op)  OBVIOUS
    <3>3. f.state = "WaitSnoop" /\ f.op = op  BY <3>2, MafEntryIs
    <3>4. maf'[c] = f /\ Apart(c)  BY <1>1, <2>3, <3>1, <3>2 DEF Apart
    <3>5. T!Use(c)' = s  BY <2>4, <3>1, <3>2, <3>3
    <3> QED  BY <2>1, <3>3, <3>4, <3>5 DEF PutOffOrMiss
  <2>6. CASE ~L1!HasEntry(snoops[c])
    <3>1. L1!Access(c, op, s)  BY <1>4, <2>6 DEF L1!DoRequest
    <3>2. PICK t : array' = [array EXCEPT ![c] = t]  BY <3>1 DEF L1!Access, L1!PerformStore
    <3>3. CASE maf' = [maf EXCEPT ![c] = L1!MafEntry("WaitResponse", op)]
      <4>1. PICK f : f = L1!MafEntry("WaitResponse", op)  OBVIOUS
      <4>2. f.state = "WaitResponse" /\ f.op = op  BY <4>1, MafEntryIs
      <4>3. maf'[c] = f /\ Apart(c)  BY <1>1, <2>3, <3>2, <3>3, <4>1 DEF Apart
      <4>4. missV'[c] = op  BY <4>2, <4>3 DEF missV, Wt
      <4>5. T!Use(c)' = "I"  BY <4>4 DEF T!Use
      <4> QED  BY <4>2, <4>3, <4>5 DEF PutOffOrMiss
    <3>4. CASE /\ maf' = [maf EXCEPT ![c] = L1!NoMaf]
               /\ \/ op = "Load" /\ s # "I" /\ array' = [array EXCEPT ![c] = s]
                  \/ op = "Store" /\ s \in {"E", "M"} /\ array' = [array EXCEPT ![c] = "M"]
      <4>1. maf'[c] = L1!NoMaf /\ Apart(c)  BY <1>1, <2>3, <3>2, <3>4 DEF Apart
      <4>2. maf'[c].op = "None" /\ maf'[c].state = "None"  BY <4>1, NoMafIs
      <4>3. \/ op = "Load" /\ s # "I" /\ T!Use(c)' = s
            \/ op = "Store" /\ s \in {"E", "M"} /\ T!Use(c)' = "M"
        BY <2>4, <3>4, NoMafIs
      <4> QED  BY <2>1, <4>1, <4>2, <4>3 DEF Hit
    <3> QED  BY <3>1, <3>3, <3>4 DEF L1!Access, L1!PerformStore
  <2> QED  BY <2>5, <2>6
<1> QED  BY <1>3, <1>4

(* A request of the core, new or woken. *)
LEMMA FrontRights ==
  ASSUME CInv, OpInv, NEW c \in Cores, CoreRequest(c) \/ L1WakeMaf(c)
  PROVE  RightsStep(c)
<1>1. L1Inv /\ L1At(c)  BY DEF CInv, L1Inv
<1>2. CASE CoreRequest(c)
  <2>1. PICK op \in {"Load", "Store"} : L1!DoRequest(c, op) /\ maf[c].state = "None"
    BY <1>2 DEF CoreRequest, L1!FrontRequest, L1!None
  <2>2. maf[c].op = "None" /\ ~Wt(c)  BY <2>1 DEF OpInv, Wt
  <2>3. Apart(c) /\ (PutOffOrMiss(c, op) \/ Hit(c, op))  BY <1>1, <2>1, <2>2, RequestUse
  <2> QED  BY <2>1, <2>2, <2>3 DEF PutOffOrMiss, Hit, RightsStep, RightsMove, T!NoMore
<1>3. CASE L1WakeMaf(c)
  <2>1. maf[c].woken /\ L1!DoRequest(c, maf[c].op)  BY <1>3 DEF L1WakeMaf, L1!WakeMaf
  <2>2. ~Wt(c) /\ maf[c].op \in {"Load", "Store"}  BY <1>1, <2>1 DEF L1At, Wt
  <2>3. PICK op \in {"Load", "Store"} : op = maf[c].op  BY <2>2
  <2>4. Apart(c) /\ (PutOffOrMiss(c, op) \/ Hit(c, op))  BY <1>1, <2>1, <2>2, <2>3, RequestUse
  <2> QED  BY <2>3, <2>4 DEF PutOffOrMiss, Hit, RightsStep, RightsMove, T!NoMore
<1> QED  BY <1>2, <1>3
===========================================================================
