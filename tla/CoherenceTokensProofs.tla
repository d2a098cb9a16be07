---------------------- MODULE CoherenceTokensProofs ----------------------
(***************************************************************************)
(* The invariant of CoherenceTokens, for every set of cores.  Its parts    *)
(* are about different pieces of the state: first one lemma per part says  *)
(* which variables it speaks of, then one lemma per action shows that the  *)
(* parts it can disturb hold after it.                                     *)
(***************************************************************************)
EXTENDS CoherenceTokens, FiniteSetTheorems, TLAPS

(* What the constants have to satisfy. *)
Setting == IsFiniteSet(Cores) /\ Mem \notin Cores /\ Dir \notin Cores

(* Cardinality of sets of nodes: one less, empty, one element. *)
LEMMA Counting ==
  ASSUME IsFiniteSet(Cores), NEW S \in SUBSET (Cores \cup {Mem})
  PROVE  /\ IsFiniteSet(S)
         /\ Cardinality(S) \in Nat
         /\ Cardinality(S) = 0 <=> S = {}
         /\ \A x \in S : Cardinality(S \ {x}) = Cardinality(S) - 1
         /\ Cardinality(S) = 1 => \E x : S = {x}
         /\ \A x : S = {x} => Cardinality(S) = 1
<1>1. IsFiniteSet(Cores \cup {Mem})  BY FS_AddElement
<1>2. IsFiniteSet(S)  BY <1>1, FS_Subset
<1>3. Cardinality(S) \in Nat  BY <1>2, FS_CardinalityType
<1>4. Cardinality(S) = 0 <=> S = {}  BY <1>2, FS_EmptySet
<1>5. \A x \in S : Cardinality(S \ {x}) = Cardinality(S) - 1  BY <1>2, FS_RemoveElement
<1>6. Cardinality(S) = 1 => \E x : S = {x}  BY <1>2, FS_Singleton
<1>7. \A x : S = {x} => Cardinality(S) = 1  BY FS_Singleton
<1> QED  BY <1>2, <1>3, <1>4, <1>5, <1>6, <1>7

(* A set with an element has a positive count. *)
LEMMA NonEmptyCount ==
  ASSUME IsFiniteSet(Cores), NEW S, S \subseteq Cores, S # {}
  PROVE  Cardinality(S) \in Nat /\ Cardinality(S) > 0
<1>1. S \in SUBSET (Cores \cup {Mem})  OBVIOUS
<1>2. Cardinality(S) \in Nat /\ Cardinality(S) # 0  BY <1>1, Counting
<1> QED  BY <1>2

(* A set of one element. *)
LEMMA CountOne ==
  ASSUME IsFiniteSet(Cores), NEW S \in SUBSET (Cores \cup {Mem}), Cardinality(S) = 1
  PROVE  \A d, e \in S : d = e
<1>1. PICK x : S = {x}  BY Counting
<1> QED  BY <1>1

(* TypeOK speaks of nothing else. *)
LEMMA TypeOKSame == TypeOK /\ UNCHANGED <<copy, leaving, miss, balance, filled, reads,
  writes, upgrades, cleans, dirties, reading, writing, upgrading, forwards, held, fetches,
  invals, atMemory, evictAcks, replies, bank, victim, sharers>> => TypeOK'
  BY DEF TypeOK

(* LeavingPosted speaks of nothing else. *)
LEMMA LeavingPostedSame == LeavingPosted /\ UNCHANGED <<leaving, cleans, dirties,
  evictAcks>> => LeavingPosted'
  BY DEF LeavingPosted

(* LeavingCopy speaks of nothing else. *)
LEMMA LeavingCopySame == LeavingCopy /\ UNCHANGED <<copy, leaving, miss>> => LeavingCopy'
  BY DEF LeavingCopy

(* OneEvict speaks of nothing else. *)
LEMMA OneEvictSame == OneEvict /\ UNCHANGED <<cleans, dirties, evictAcks>> => OneEvict'
  BY DEF OneEvict

(* AckedIsGone speaks of nothing else. *)
LEMMA AckedIsGoneSame == AckedIsGone /\ UNCHANGED <<reading, writing, upgrading, fetches,
  invals, evictAcks, sharers>> => AckedIsGone'
  BY DEF Storing, Served, Asked, AckedIsGone

(* DirtyPosted speaks of nothing else. *)
LEMMA DirtyPostedSame == DirtyPosted /\ UNCHANGED <<copy, dirties>> => DirtyPosted'
  BY DEF DirtyPosted

(* LoadHasNone speaks of nothing else. *)
LEMMA LoadHasNoneSame == LoadHasNone /\ UNCHANGED <<copy, miss>> => LoadHasNone'
  BY DEF LoadHasNone

(* PostedMiss speaks of nothing else. *)
LEMMA PostedMissSame == PostedMiss /\ UNCHANGED <<copy, miss, reads, writes, upgrades>> =>
  PostedMiss'
  BY DEF PostedMiss

(* PostedServed speaks of nothing else. *)
LEMMA PostedServedSame == PostedServed /\ UNCHANGED <<reads, writes, upgrades, reading,
  writing, upgrading, replies>> => PostedServed'
  BY DEF ReadAckTypes, WriteAckTypes, Storing, Served, IsAck, AckSent, Posted, PostedServed

(* ServedMiss speaks of nothing else. *)
LEMMA ServedMissSame == ServedMiss /\ UNCHANGED <<miss, reading, writing, upgrading,
  replies>> => ServedMiss'
  BY DEF ReadAckTypes, WriteAckTypes, Storing, IsAck, AckSent, ServedMiss

(* AckHasCopy speaks of nothing else. *)
LEMMA AckHasCopySame == AckHasCopy /\ UNCHANGED <<copy, replies>> => AckHasCopy'
  BY DEF ReadAckTypes, WriteAckTypes, IsAck, AckHasCopy

(* FilledWriting speaks of nothing else. *)
LEMMA FilledWritingSame == FilledWriting /\ UNCHANGED <<filled, writing, replies>> =>
  FilledWriting'
  BY DEF ReadAckTypes, WriteAckTypes, IsAck, FilledWriting

(* BalanceZero speaks of nothing else. *)
LEMMA BalanceZeroSame == BalanceZero /\ UNCHANGED <<balance, writing, upgrading, replies>>
  => BalanceZero'
  BY DEF ReadAckTypes, WriteAckTypes, Storing, IsAck, BalanceZero

(* WriteServedAlone speaks of nothing else. *)
LEMMA WriteServedAloneSame == WriteServedAlone /\ UNCHANGED <<reading, writing, upgrading>>
  => WriteServedAlone'
  BY DEF Storing, Served, WriteServedAlone

(* BankEmpty speaks of nothing else. *)
LEMMA BankEmptySame == BankEmpty /\ UNCHANGED <<writing, upgrading, bank>> => BankEmpty'
  BY DEF Storing, BankEmpty

(* VictimAlone speaks of nothing else. *)
LEMMA VictimAloneSame == VictimAlone /\ UNCHANGED <<reading, writing, upgrading, bank,
  victim>> => VictimAlone'
  BY DEF Storing, Served, VictimAlone

(* ForwardToken speaks of nothing else. *)
LEMMA ForwardTokenSame == ForwardToken /\ UNCHANGED <<reading, forwards, held, atMemory,
  replies>> => ForwardToken'
  BY DEF Forwarded, ForwardToken

(* ForwardOnce speaks of nothing else. *)
LEMMA ForwardOnceSame == ForwardOnce /\ UNCHANGED <<forwards, held>> => ForwardOnce'
  BY DEF Forwarded, ForwardOnce

(* MemoryToken speaks of nothing else. *)
LEMMA MemoryTokenSame == MemoryToken /\ UNCHANGED <<reading, writing, upgrading, atMemory>>
  => MemoryToken'
  BY DEF Storing, Served, MemoryToken

(* ReplyToken speaks of nothing else. *)
LEMMA ReplyTokenSame == ReplyToken /\ UNCHANGED <<reading, writing, upgrading, replies>> =>
  ReplyToken'
  BY DEF Storing, Served, ReplyToken

(* ReadToken speaks of nothing else. *)
LEMMA ReadTokenSame == ReadToken /\ UNCHANGED <<reading, atMemory, replies>> => ReadToken'
  BY DEF Dir, ReadAckTypes, GrantTypes, ReadReply, ReadToken

(* AskedToken speaks of nothing else. *)
LEMMA AskedTokenSame == AskedToken /\ UNCHANGED <<writing, upgrading, fetches, invals>> =>
  AskedToken'
  BY DEF Storing, Asked, AskedToken

(* StoreReplies speaks of nothing else. *)
LEMMA StoreRepliesSame == StoreReplies /\ UNCHANGED <<writing, upgrading, replies>> =>
  StoreReplies'
  BY DEF Mem, Dir, NotifyTypes, GrantTypes, FetchTypes, Storing, StoreReplyFor, StoreReplies

(* PaidOnce speaks of nothing else. *)
LEMMA PaidOnceSame == PaidOnce /\ UNCHANGED <<writing, upgrading, fetches, invals, atMemory,
  replies>> => PaidOnce'
  BY DEF Mem, FetchTypes, Storing, Asked, Pays, AskedAny, PaidOnce

(* FinalAlone speaks of nothing else. *)
LEMMA FinalAloneSame == FinalAlone /\ UNCHANGED <<balance, writing, upgrading, fetches,
  invals, atMemory, replies>> => FinalAlone'
  BY DEF ReadAckTypes, WriteAckTypes, Storing, IsAck, Final, FinalAlone

(* NotifyBalance speaks of nothing else. *)
LEMMA NotifyBalanceSame == NotifyBalance /\ UNCHANGED <<balance, writing, upgrading,
  fetches, invals, atMemory, replies>> => NotifyBalance'
  BY DEF Mem, NotifyTypes, FetchTypes, Storing, Asked, Pays, AskedAny, Owes, Owing,
     NotifyBalance

(* ToldBalance speaks of nothing else. *)
LEMMA ToldBalanceSame == ToldBalance /\ UNCHANGED <<balance, writing, upgrading, fetches,
  invals, atMemory, replies>> => ToldBalance'
  BY DEF Mem, NotifyTypes, ReadAckTypes, WriteAckTypes, FetchTypes, Storing, Asked, IsAck, Pays,
     AskedAny, Owes, Owing, Final, Told, ToldBalance

(* WriteData speaks of nothing else. *)
LEMMA WriteDataSame == WriteData /\ UNCHANGED <<copy, filled, writing, fetches, atMemory,
  replies>> => WriteData'
  BY DEF ReadAckTypes, WriteAckTypes, GrantTypes, FetchTypes, DataTypes, IsAck, AckSent,
     DataComing, WriteData

(* UpgradeData speaks of nothing else. *)
LEMMA UpgradeDataSame == UpgradeData /\ UNCHANGED <<copy, upgrading, fetches, atMemory,
  replies>> => UpgradeData'
  BY DEF GrantTypes, FetchTypes, DataTypes, DataComing, UpgradeData

(* CopyCovered speaks of nothing else. *)
LEMMA CopyCoveredSame == CopyCovered /\ UNCHANGED <<copy, leaving, reading, writing,
  upgrading, sharers>> => CopyCovered'
  BY DEF Storing, NoneStoring, Copy, CopyCovered

(* SharerHasCopy speaks of nothing else. *)
LEMMA SharerHasCopySame == SharerHasCopy /\ UNCHANGED <<copy, reading, writing, upgrading,
  atMemory, replies, bank, sharers>> => SharerHasCopy'
  BY DEF GrantTypes, Storing, NoneStoring, GrantComing, SharerHasCopy

(* CopyAsked speaks of nothing else. *)
LEMMA CopyAskedSame == CopyAsked /\ UNCHANGED <<copy, leaving, writing, upgrading, fetches,
  invals>> => CopyAsked'
  BY DEF Storing, Copy, Asked, CopyAsked

(* SnoopFindsCopy speaks of nothing else. *)
LEMMA SnoopFindsCopySame == SnoopFindsCopy /\ UNCHANGED <<copy, fetches, invals>> =>
  SnoopFindsCopy'
  BY DEF Asked, SnoopFindsCopy

(* ForwardFindsCopy speaks of nothing else. *)
LEMMA ForwardFindsCopySame == ForwardFindsCopy /\ UNCHANGED <<copy, forwards>> =>
  ForwardFindsCopy'
  BY DEF ForwardFindsCopy

(* OwnerAlone speaks of nothing else. *)
LEMMA OwnerAloneSame == OwnerAlone /\ UNCHANGED <<copy, leaving, reading, writing,
  upgrading, forwards, held, atMemory, replies, bank, victim, sharers>> => OwnerAlone'
  BY DEF GrantTypes, Storing, Served, NoneStoring, Copy, Forwarded, OnlyServed, Clean,
     GrantComing, Owner, Sole, OwnerAlone

(* WriterAlone speaks of nothing else. *)
LEMMA WriterAloneSame == WriterAlone /\ UNCHANGED <<copy, leaving, writing, upgrading>> =>
  WriterAlone'
  BY DEF Storing, Copy, WriterAlone

(* HeldAlone speaks of nothing else. *)
LEMMA HeldAloneSame == HeldAlone /\ UNCHANGED <<copy, leaving, reading, writing, upgrading,
  forwards, held, bank, victim, sharers>> => HeldAlone'
  BY DEF Storing, Served, Copy, OnlyServed, Clean, Waits, HeldAlone

(* RefusedAlone speaks of nothing else. *)
LEMMA RefusedAloneSame == RefusedAlone /\ UNCHANGED <<copy, leaving, reading, writing,
  upgrading, replies, bank, victim, sharers>> => RefusedAlone'
  BY DEF Storing, Served, Copy, OnlyServed, Clean, RefusedAlone

(* DirtyAckShared speaks of nothing else. *)
LEMMA DirtyAckSharedSame == DirtyAckShared /\ UNCHANGED <<copy, replies>> => DirtyAckShared'
  BY DEF DirtyAckShared

(* OneDirty speaks of nothing else. *)
LEMMA OneDirtySame == OneDirty /\ UNCHANGED <<dirties, victim, sharers>> => OneDirty'
  BY DEF OneDirty

(* What the invariant says to the two ends of a message. *)

(* A reply that arrives at a core finds the miss it answers. *)
LEMMA ReplyFindsMiss ==
  ASSUME Setting, Inv, NEW c \in Cores, NEW m \in replies, m.dest = c
  PROVE  /\ m.requester = c /\ miss[c] # "None" /\ ~IsAck(m)
         /\ miss[c] = "Load" =>
              /\ c \in reading
              /\ m.type \in {"MissReply", "MissReplyWritable", "MissReplyDirty", "FwdReply", "FwdReplyOwned"}
              /\ \A n \in replies : n.requester = c => n = m
         /\ miss[c] = "Store" => Storing(c) /\ StoreReplyFor(m, c)
<1>1. Served(m.requester) /\ m.requester \in Cores  BY DEF Inv, ReplyToken, TypeOK
<1>2. c # Dir  BY DEF Setting
<1>3. CASE m.requester \in reading
  <2>1. ReadReply(m, m.requester) /\ \A n \in replies : n.requester = m.requester => n = m
    BY <1>3 DEF Inv, ReadToken
  <2>2. m.requester = c /\ m.type \in {"MissReply", "MissReplyWritable", "MissReplyDirty", "FwdReply", "FwdReplyOwned"}
    BY <1>2, <2>1 DEF ReadReply, GrantTypes
  <2>3. ~IsAck(m)  BY <2>2 DEF IsAck, ReadAckTypes, WriteAckTypes
  <2>4. ~AckSent(c)  BY <2>1, <2>2, <2>3 DEF AckSent
  <2>5. miss[c] = "Load"  BY <1>3, <2>2, <2>4 DEF Inv, ServedMiss
  <2> QED  BY <1>3, <2>1, <2>2, <2>3, <2>5
<1>4. CASE Storing(m.requester)
  <2>1. StoreReplyFor(m, m.requester)  BY <1>4 DEF Inv, StoreReplies
  <2>2. m.requester = c /\ ~IsAck(m)
    BY <1>2, <2>1 DEF StoreReplyFor, GrantTypes, NotifyTypes, FetchTypes, IsAck, ReadAckTypes, WriteAckTypes
  <2>3. ~AckSent(c)  BY <1>4, <2>2 DEF Inv, FinalAlone, Final, AckSent
  <2>4. miss[c] = "Store"  BY <1>4, <2>2, <2>3 DEF Inv, ServedMiss
  <2> QED  BY <1>4, <2>1, <2>2, <2>4
<1> QED  BY <1>1, <1>3, <1>4 DEF Served

(* An ack, a refusal or a reply of memory finds the request it is about. *)
LEMMA ReplyFindsRequest ==
  ASSUME Setting, Inv, NEW m \in replies, m.dest = Dir
  PROVE  /\ m.requester \in Cores /\ Served(m.requester)
         /\ m.type \in ReadAckTypes => m.requester \in reading
         /\ m.type = "WriteAck" => m.requester \in writing
         /\ m.type = "UpgradeAck" => m.requester \in upgrading
         /\ m.type = "FwdNAck" => m.requester \in reading
         /\ m.type # "EvictAck"
         /\ m.type = "MissReplyWritable" /\ Storing(m.requester) => m.outstanding = 0
         /\ m.requester \in reading => \A n \in replies : n.requester = m.requester => n = m
<1>1. Served(m.requester) /\ m.requester \in Cores  BY DEF Inv, ReplyToken, TypeOK
<1>2. m.requester # Dir  BY <1>1 DEF Setting
<1>3. CASE m.requester \in reading
  <2>1. ReadReply(m, m.requester) /\ \A n \in replies : n.requester = m.requester => n = m
    BY <1>3 DEF Inv, ReadToken
  <2>2. ~Storing(m.requester)  BY <1>1, <1>3 DEF Inv, WriteServedAlone
  <2> QED  BY <1>1, <1>2, <1>3, <2>1, <2>2 DEF ReadReply, ReadAckTypes
<1>4. CASE Storing(m.requester)
  <2>1. StoreReplyFor(m, m.requester)  BY <1>4 DEF Inv, StoreReplies
  <2>2. m.requester \notin reading  BY <1>1, <1>4 DEF Inv, WriteServedAlone
  <2> QED  BY <1>1, <1>2, <1>4, <2>1, <2>2 DEF StoreReplyFor, ReadAckTypes
<1> QED  BY <1>1, <1>3, <1>4 DEF Served

(* No two replies are alike. *)
LEMMA ForwardedFresh ==
  ASSUME Inv, NEW x \in Cores, NEW d \in Cores, Forwarded(x, d)
  PROVE  \A n \in replies : n.requester # x
  BY DEF Inv, ForwardToken

(* Nobody replies to a request that is not being served. *)
LEMMA UnservedFresh ==
  ASSUME Inv, NEW c, ~Served(c)
  PROVE  \A n \in replies : n.requester # c
  BY DEF Inv, ReplyToken

(* What an L1 is still asked for it has not sent yet. *)
LEMMA AskedFresh ==
  ASSUME Setting, Inv, NEW c \in Cores, Asked(c), NEW m, Storing(m.requester), m.other = c,
         m.type \in FetchTypes \/ m.type = "InvalidateAck"
  PROVE  m \notin replies
<1>1. Pays(m, c)  BY DEF Pays
<1> QED  BY <1>1 DEF Inv, PaidOnce, AskedAny

(* What memory is still asked for it has not sent yet. *)
LEMMA MemoryFresh ==
  ASSUME Setting, Inv, NEW c \in atMemory, NEW m, Is(m, "MissReplyWritable", c, Dir, Mem, 0)
  PROVE  m \notin replies
<1> SUFFICES ASSUME m \in replies PROVE FALSE  OBVIOUS
<1>1. m.requester = c /\ m.type = "MissReplyWritable" /\ m.outstanding = 0  BY DEF Is
<1>2. c \in Cores /\ Served(c)  BY DEF Inv, TypeOK, MemoryToken
<1>3. c \notin reading  BY <1>1 DEF Inv, ReadToken
<1>4. Storing(c)  BY <1>2, <1>3 DEF Served
<1>5. Pays(m, Mem)  BY <1>1 DEF Pays
<1>6. AskedAny(c, Mem)  BY DEF AskedAny
<1> QED  BY <1>1, <1>4, <1>5, <1>6 DEF Inv, PaidOnce

(* The reply of memory has not been passed on yet. *)
LEMMA PassOnFresh ==
  ASSUME Setting, Inv, NEW m \in replies, m.dest = Dir, m.type = "MissReplyWritable",
         NEW n, Is(n, "MissReplyWritable", m.requester, m.requester, Dir, 0)
  PROVE  n \notin replies
<1> SUFFICES ASSUME n \in replies PROVE FALSE  OBVIOUS
<1>1. /\ n.requester = m.requester /\ n.type = "MissReplyWritable" /\ n.outstanding = 0
      /\ n.dest = m.requester
  BY DEF Is
<1>2. m.requester \in Cores /\ Served(m.requester)
      /\ (m.requester \in reading => \A k \in replies : k.requester = m.requester => k = m)
      /\ (Storing(m.requester) => m.outstanding = 0)
  BY ReplyFindsRequest
<1>3. n # m  BY <1>1, <1>2 DEF Setting
<1>4. Storing(m.requester)  BY <1>1, <1>2, <1>3 DEF Served
<1>5. Pays(m, Mem) /\ Pays(n, Mem)  BY <1>1, <1>2, <1>4 DEF Pays
<1> QED  BY <1>1, <1>3, <1>4, <1>5 DEF Inv, PaidOnce

(* A miss that still gets replies has not been acknowledged yet. *)
LEMMA AckFresh ==
  ASSUME Setting, Inv, NEW c \in Cores, NEW m \in replies, m.dest = c, NEW n, n.requester = c, IsAck(n)
  PROVE  n \notin replies
<1> SUFFICES ASSUME n \in replies PROVE FALSE  OBVIOUS
<1>1. m.requester = c /\ miss[c] # "None" /\ ~IsAck(m)
      /\ (miss[c] = "Load" => \A k \in replies : k.requester = c => k = m)
      /\ (miss[c] = "Store" => Storing(c))
  BY ReplyFindsMiss
<1>2. miss[c] = "Load" \/ miss[c] = "Store"  BY <1>1 DEF Inv, TypeOK
<1>3. Storing(c)  BY <1>1, <1>2
<1>4. Final(n)  BY DEF Final
<1> QED  BY <1>1, <1>3, <1>4 DEF Inv, FinalAlone

(* The reply after which a store waits for no other. *)
LEMMA StoreEnds ==
  ASSUME Setting, Inv, NEW c \in Cores, NEW m \in replies, m.dest = c, miss[c] = "Store",
         Balance(c, m) = 0
  PROVE  /\ fetches = {} /\ invals = {} /\ c \notin atMemory
         /\ \A k \in replies : k.requester = c => k = m
<1>1. Storing(c) /\ m \in replies /\ m.requester = c /\ ~IsAck(m)  BY ReplyFindsMiss
<1>2. ~AckSent(c)  BY <1>1 DEF Inv, FinalAlone, Final, AckSent
<1>3. m \in replies /\ m.requester = c /\ m.dest = c /\ Balance(c, m) = 0
    BY <1>1
<1>4. balance[c] \in Int /\ (\A k \in replies : k.outstanding \in Int)
    BY <1>1, <1>2 DEF Setting, Inv, TypeOK
<1>5. m.outstanding = -1 => fetches = {} /\ invals = {} /\ c \notin atMemory /\ \A k \in replies
        : k.requester = c => k = m
    BY <1>1, <1>2, <1>3 DEF Setting, Inv, Final, FinalAlone
<1>6. Owing(c) \in SUBSET (Cores \cup {Mem})
    BY <1>1, <1>2 DEF Setting, Inv, Mem, FetchTypes, Asked, Pays, AskedAny, Owes, Owing
<1>7. (Cardinality(Owing(c)) = 0 => Owing(c) = {}) /\ (Cardinality(Owing(c)) = 1 => \A d, e \in
        Owing(c) : d = e)
    BY <1>1, <1>2, <1>6, Counting, CountOne DEF Setting, Inv
<1>8. Owing(c) = {} => fetches = {} /\ invals = {} /\ c \notin atMemory
    BY <1>1, <1>2 DEF Setting, Inv, Mem, FetchTypes, Asked, TypeOK, Pays, AskedAny, Owes, Owing
<1>9. \A k \in replies : k.requester = c => k.type \in NotifyTypes \/ Final(k) \/ \E d \in
        Owing(c) : Pays(k, d)
    BY <1>1, <1>2 DEF Setting, Inv, Mem, Dir, NotifyTypes, ReadAckTypes, WriteAckTypes,
       GrantTypes, FetchTypes, Storing, Asked, IsAck, StoreReplyFor, Pays, AskedAny, Owes,
       Owing, Final, StoreReplies
<1>10. \A k \in replies : k.requester = c /\ Final(k) => k = m
    BY <1>1, <1>2, <1>3 DEF Setting, Inv, FinalAlone
<1>11. m.type \in NotifyTypes => Owing(c) = {}
    BY <1>1, <1>2, <1>3, <1>4, <1>7 DEF Setting, Inv, Balance, NotifyBalance
<1>12. m.type \in NotifyTypes => fetches = {} /\ invals = {} /\ c \notin atMemory /\ \A k \in
         replies : k.requester = c => k = m
    BY <1>1, <1>2, <1>3, <1>8, <1>9, <1>10, <1>11 DEF Setting, Inv, NotifyBalance
<1>13. ASSUME m.type \notin NotifyTypes, m.outstanding # -1 PROVE balance[c] = 1
    BY <1>1, <1>2, <1>13, <1>3, <1>4 DEF Setting, Inv, NotifyTypes, Balance
<1>14. ASSUME m.type \notin NotifyTypes, m.outstanding # -1 PROVE ~Final(m)
    BY <1>1, <1>2, <1>14 DEF Setting, Inv, ReadAckTypes, WriteAckTypes, IsAck, Final
<1>15. ASSUME m.type \notin NotifyTypes, m.outstanding # -1 PROVE Told(c)
    BY <1>1, <1>2, <1>15, <1>3, <1>4, <1>10, <1>13, <1>14 DEF Setting, Inv, NotifyBalance, Told
<1>16. ASSUME m.type \notin NotifyTypes, m.outstanding # -1 PROVE \A d, e \in Owing(c) : d = e
    BY <1>1, <1>2, <1>16, <1>3, <1>7, <1>13, <1>15 DEF Setting, Inv, ToldBalance
<1>17. ASSUME m.type \notin NotifyTypes, m.outstanding # -1 PROVE \E d \in Owing(c) : Pays(m, d)
    BY <1>1, <1>2, <1>17, <1>3, <1>9, <1>14 DEF Setting, Inv
<1>18. ASSUME m.type \notin NotifyTypes, m.outstanding # -1, NEW d \in Owing(c), Pays(m, d)
         PROVE d \in Cores \cup {Mem} /\ ~AskedAny(c, d)
    BY <1>1, <1>2, <1>18, <1>3, <1>6 DEF Setting, Inv, PaidOnce
<1>19. ASSUME m.type \notin NotifyTypes, m.outstanding # -1, NEW d \in Owing(c), Pays(m, d)
         PROVE fetches = {} /\ invals = {} /\ c \notin atMemory
    BY <1>1, <1>2, <1>19, <1>16, <1>18 DEF Setting, Inv, Mem, FetchTypes, Asked, TypeOK, Pays,
       AskedAny, Owes, Owing
<1>20. ASSUME m.type \notin NotifyTypes, m.outstanding # -1, NEW d \in Owing(c), Pays(m, d)
         PROVE \A k \in replies : k.requester = c => k = m
    BY <1>1, <1>2, <1>20, <1>3, <1>9, <1>10, <1>14, <1>15, <1>16, <1>18 DEF Setting, Inv,
       PaidOnce, Told
<1> QED  BY <1>1, <1>2, <1>5, <1>12, <1>17, <1>19, <1>20 DEF Setting, Inv

(* By then the core has the block. *)
LEMMA StoreHasBlock ==
  ASSUME Setting, Inv, NEW c \in Cores, NEW m \in replies, m.dest = c, miss[c] = "Store",
         Balance(c, m) = 0
  PROVE  HasData(c, m) \/ copy[c] # "I"
<1> SUFFICES ASSUME copy[c] = "I" PROVE HasData(c, m)  OBVIOUS
<1>1. Storing(c) /\ m.requester = c /\ ~IsAck(m)  BY ReplyFindsMiss
<1>2. ~AckSent(c)  BY <1>1 DEF Inv, FinalAlone, Final, AckSent
<1>3. c \notin upgrading  BY DEF Inv, UpgradeData
<1>4. c \in writing  BY <1>1, <1>3 DEF Storing
<1>5. DataComing(c)  BY <1>2, <1>4 DEF Inv, WriteData
<1>6. c \notin atMemory /\ fetches = {} /\ \A k \in replies : k.requester = c => k = m
  BY StoreEnds
<1>7. m.type \in DataTypes  BY <1>5, <1>6 DEF DataComing
<1> QED  BY <1>7 DEF HasData

(* An action of a named core, with the messages it takes and sends, is a step. *)
LEMMA CoreSteps ==
  ASSUME NEW c \in Cores,
         StoreHit(c) \/ LoadMiss(c) \/ StoreMiss(c) \/ UpgradeMiss(c) \/ Announce(c) \/ EvictAcked(c)
  PROVE  Next
  BY DEF Next, L1Step

(* ... and so is the wait of a ReadFwd, *)
LEMMA HoldSteps ==
  ASSUME NEW c \in Cores, NEW x \in Cores, Hold(c, x)
  PROVE  Next
  BY DEF Next, L1Step

(* ... what an L1 answers to the directory or to another L1, *)
LEMMA SendSteps ==
  ASSUME NEW c \in Cores, NEW x \in Cores, NEW m,
         \/ AnswerForward(c, x, m) \/ AnswerHeld(c, x, m) \/ Refuse(c, x, m)
         \/ Invalidated(c, x, m) \/ Fetched(c, x, m)
  PROVE  Next
<1>1. m \in replies'
  BY DEF AnswerForward, AnswerHeld, Answered, Refuse, Invalidated, Fetched, Send
<1>2. L1Send(c, m)  BY DEF L1Send
<1> QED  BY <1>1, <1>2 DEF Next

(* ... what it does with a reply, *)
LEMMA ReceiveSteps ==
  ASSUME NEW c \in Cores, NEW m,
         \/ StoreReply(c, m)
         \/ \E n : LoadReply(c, m, n) \/ StoreDone(c, m, n)
  PROVE  Next
<1>1. m \in replies  BY DEF StoreReply, LoadReply, StoreDone, Swap, Take
<1>2. \A n : LoadReply(c, m, n) \/ StoreDone(c, m, n) => n \in replies'
  BY DEF LoadReply, StoreDone, Swap
<1>3. L1Receive(c, m)  BY <1>2 DEF L1Receive
<1> QED  BY <1>1, <1>3 DEF Next

(* ... what the directory does with a request, *)
LEMMA DirSteps ==
  ASSUME NEW c \in Cores,
         ReadMemory(c) \/ TakeClean(c) \/ TakeDirty(c) \/ \E d : ReadForward(c, d)
  PROVE  Next
<1>1. DirStep(c)  BY DEF DirStep, ReadForward
<1> QED  BY <1>1 DEF Next

(* ... what it or memory answers, *)
LEMMA DirSendSteps ==
  ASSUME NEW c \in Cores, NEW m,
         \/ ReadSupply(c, m) \/ MemServe(c, m) \/ WriteMemory(c, m)
         \/ WriteAtOnce(c, m) \/ UpgradeAtOnce(c, m)
         \/ WriteInvalidate(c, m) \/ UpgradeInvalidate(c, m) \/ \E d : WriteFetch(c, d, m)
  PROVE  Next
<1>1. m \in replies'
  BY DEF ReadSupply, MemServe, WriteMemory, WriteAtOnce, UpgradeAtOnce, WriteInvalidate,
         UpgradeInvalidate, WriteFetch, Send
<1>2. DirSend(c, m)  BY DEF DirSend, WriteFetch
<1> QED  BY <1>1, <1>2 DEF Next

(* ... what the directory does with a reply, *)
LEMMA DirReceiveSteps ==
  ASSUME NEW c \in Cores, NEW m,
         \/ ReadAcked(c, m) \/ StoreAcked(c, m) \/ RetryMemory(c, m)
         \/ \E n : PassOn(c, m, n) \/ RetryBank(c, m, n)
  PROVE  Next
<1>1. m \in replies  BY DEF ReadAcked, StoreAcked, RetryMemory, PassOn, RetryBank, Swap, Take
<1>2. \A n : PassOn(c, m, n) \/ RetryBank(c, m, n) => n \in replies'
  BY DEF PassOn, RetryBank, Swap
<1>3. DirReceive(c, m)  BY <1>2 DEF DirReceive
<1> QED  BY <1>1, <1>3 DEF Next

(* ... and the replacements of the L2. *)
LEMMA OtherSteps == Drop \/ Replace \/ WrittenBack => Next
  BY DEF Next


(* A store hits a writable copy (InclusiveMESI doRequest). The invariant *)
(* holds after it.                                                       *)
LEMMA StoreHitKeeps ==
  ASSUME Setting, Inv, NEW c \in Cores,
         StoreHit(c)
  PROVE  Inv'
<1> USE DEF Setting, Inv, TypeOK, postVars, serveVars, tokenVars, dirVars, Idle,
       NothingHeld, StoreHit
<1>1. TypeOK'  OBVIOUS
<1>2. LeavingCopy'  BY DEF LeavingCopy
<1>3. DirtyPosted'  BY DEF DirtyPosted
<1>4. LoadHasNone'  BY DEF LoadHasNone
<1>5. PostedMiss'  BY DEF PostedMiss
<1>6. AckHasCopy'  BY DEF ReadAckTypes, WriteAckTypes, IsAck, AckHasCopy
<1>7. WriteData'
    BY DEF ReadAckTypes, WriteAckTypes, GrantTypes, FetchTypes, DataTypes, IsAck, AckSent,
       DataComing, WriteData
<1>8. UpgradeData'  BY DEF GrantTypes, FetchTypes, DataTypes, DataComing, UpgradeData
<1>9. CopyCovered'  BY DEF Storing, NoneStoring, Copy, CopyCovered
<1>10. SharerHasCopy'  BY DEF GrantTypes, Storing, NoneStoring, GrantComing, SharerHasCopy
<1>11. CopyAsked'  BY DEF Storing, Copy, Asked, CopyAsked
<1>12. SnoopFindsCopy'  BY DEF Asked, SnoopFindsCopy
<1>13. ForwardFindsCopy'  BY DEF ForwardFindsCopy
<1>14. OwnerAlone'
    BY DEF GrantTypes, Storing, Served, NoneStoring, Copy, Forwarded, OnlyServed, Clean,
       GrantComing, Owner, Sole, OwnerAlone
<1>15. WriterAlone'  BY DEF Storing, Copy, WriterAlone
<1>16. HeldAlone'  BY DEF Storing, Served, Copy, OnlyServed, Clean, Waits, HeldAlone
<1>17. RefusedAlone'  BY DEF Storing, Served, Copy, OnlyServed, Clean, RefusedAlone
<1>18. DirtyAckShared'  BY DEF DirtyAckShared
<1>19. LeavingPosted' /\ OneEvict' /\ AckedIsGone' /\ PostedServed' /\ ServedMiss' /\
         FilledWriting' /\ BalanceZero' /\ WriteServedAlone' /\ BankEmpty' /\
         VictimAlone' /\ ForwardToken' /\ ForwardOnce' /\ MemoryToken' /\ ReplyToken' /\
         ReadToken' /\ AskedToken' /\ StoreReplies' /\ PaidOnce' /\ FinalAlone' /\
         NotifyBalance' /\ ToldBalance' /\ OneDirty'
    BY LeavingPostedSame, OneEvictSame, AckedIsGoneSame, PostedServedSame, ServedMissSame,
       FilledWritingSame, BalanceZeroSame, WriteServedAloneSame, BankEmptySame, VictimAloneSame,
       ForwardTokenSame, ForwardOnceSame, MemoryTokenSame, ReplyTokenSame, ReadTokenSame,
       AskedTokenSame, StoreRepliesSame, PaidOnceSame, FinalAloneSame, NotifyBalanceSame,
       ToldBalanceSame, OneDirtySame
<1> QED
    BY <1>1, <1>2, <1>3, <1>4, <1>5, <1>6, <1>7, <1>8, <1>9, <1>10, <1>11, <1>12, <1>13, <1>14,
       <1>15, <1>16, <1>17, <1>18, <1>19

(* A load misses and its ReadReq is posted. The invariant holds after *)
(* it.                                                                *)
LEMMA LoadMissKeeps ==
  ASSUME Setting, Inv, NEW c \in Cores,
         LoadMiss(c)
  PROVE  Inv'
<1> USE DEF Setting, Inv, TypeOK, serveVars, tokenVars, dirVars, Idle, NothingHeld, Missed,
       LoadMiss
<1>1. TypeOK'  OBVIOUS
<1>2. LeavingCopy'  BY DEF LeavingCopy
<1>3. LoadHasNone'  BY DEF LoadHasNone
<1>4. PostedMiss'  BY DEF PostedMiss
<1>5. PostedServed'
    BY DEF ReadAckTypes, WriteAckTypes, Storing, Served, IsAck, AckSent, Posted, PostedServed,
       ServedMiss
<1>6. ServedMiss'  BY DEF ReadAckTypes, WriteAckTypes, Storing, IsAck, AckSent, ServedMiss
<1>7. LeavingPosted' /\ OneEvict' /\ AckedIsGone' /\ DirtyPosted' /\ AckHasCopy' /\
        FilledWriting' /\ BalanceZero' /\ WriteServedAlone' /\ BankEmpty' /\ VictimAlone'
        /\ ForwardToken' /\ ForwardOnce' /\ MemoryToken' /\ ReplyToken' /\ ReadToken' /\
        AskedToken' /\ StoreReplies' /\ PaidOnce' /\ FinalAlone' /\ NotifyBalance' /\
        ToldBalance' /\ WriteData' /\ UpgradeData' /\ CopyCovered' /\ SharerHasCopy' /\
        CopyAsked' /\ SnoopFindsCopy' /\ ForwardFindsCopy' /\ OwnerAlone' /\ WriterAlone'
        /\ HeldAlone' /\ RefusedAlone' /\ DirtyAckShared' /\ OneDirty'
    BY LeavingPostedSame, OneEvictSame, AckedIsGoneSame, DirtyPostedSame, AckHasCopySame,
       FilledWritingSame, BalanceZeroSame, WriteServedAloneSame, BankEmptySame, VictimAloneSame,
       ForwardTokenSame, ForwardOnceSame, MemoryTokenSame, ReplyTokenSame, ReadTokenSame,
       AskedTokenSame, StoreRepliesSame, PaidOnceSame, FinalAloneSame, NotifyBalanceSame,
       ToldBalanceSame, WriteDataSame, UpgradeDataSame, CopyCoveredSame, SharerHasCopySame,
       CopyAskedSame, SnoopFindsCopySame, ForwardFindsCopySame, OwnerAloneSame, WriterAloneSame,
       HeldAloneSame, RefusedAloneSame, DirtyAckSharedSame, OneDirtySame
<1> QED
    BY <1>1, <1>2, <1>3, <1>4, <1>5, <1>6, <1>7

(* A store without a copy posts a WriteReq. The invariant holds after *)
(* it.                                                                *)
LEMMA StoreMissKeeps ==
  ASSUME Setting, Inv, NEW c \in Cores,
         StoreMiss(c)
  PROVE  Inv'
<1> USE DEF Setting, Inv, TypeOK, serveVars, tokenVars, dirVars, Idle, NothingHeld, Missed,
       StoreMiss
<1>1. TypeOK'  OBVIOUS
<1>2. LeavingCopy'  BY DEF LeavingCopy
<1>3. LoadHasNone'  BY DEF LoadHasNone
<1>4. PostedMiss'  BY DEF PostedMiss
<1>5. PostedServed'
    BY DEF ReadAckTypes, WriteAckTypes, Storing, Served, IsAck, AckSent, Posted, PostedServed,
       ServedMiss
<1>6. ServedMiss'  BY DEF ReadAckTypes, WriteAckTypes, Storing, IsAck, AckSent, ServedMiss
<1>7. LeavingPosted' /\ OneEvict' /\ AckedIsGone' /\ DirtyPosted' /\ AckHasCopy' /\
        FilledWriting' /\ BalanceZero' /\ WriteServedAlone' /\ BankEmpty' /\ VictimAlone'
        /\ ForwardToken' /\ ForwardOnce' /\ MemoryToken' /\ ReplyToken' /\ ReadToken' /\
        AskedToken' /\ StoreReplies' /\ PaidOnce' /\ FinalAlone' /\ NotifyBalance' /\
        ToldBalance' /\ WriteData' /\ UpgradeData' /\ CopyCovered' /\ SharerHasCopy' /\
        CopyAsked' /\ SnoopFindsCopy' /\ ForwardFindsCopy' /\ OwnerAlone' /\ WriterAlone'
        /\ HeldAlone' /\ RefusedAlone' /\ DirtyAckShared' /\ OneDirty'
    BY LeavingPostedSame, OneEvictSame, AckedIsGoneSame, DirtyPostedSame, AckHasCopySame,
       FilledWritingSame, BalanceZeroSame, WriteServedAloneSame, BankEmptySame, VictimAloneSame,
       ForwardTokenSame, ForwardOnceSame, MemoryTokenSame, ReplyTokenSame, ReadTokenSame,
       AskedTokenSame, StoreRepliesSame, PaidOnceSame, FinalAloneSame, NotifyBalanceSame,
       ToldBalanceSame, WriteDataSame, UpgradeDataSame, CopyCoveredSame, SharerHasCopySame,
       CopyAskedSame, SnoopFindsCopySame, ForwardFindsCopySame, OwnerAloneSame, WriterAloneSame,
       HeldAloneSame, RefusedAloneSame, DirtyAckSharedSame, OneDirtySame
<1> QED
    BY <1>1, <1>2, <1>3, <1>4, <1>5, <1>6, <1>7

(* A store to a Shared copy posts an UpgradeReq. The invariant holds *)
(* after it.                                                         *)
LEMMA UpgradeMissKeeps ==
  ASSUME Setting, Inv, NEW c \in Cores,
         UpgradeMiss(c)
  PROVE  Inv'
<1> USE DEF Setting, Inv, TypeOK, serveVars, tokenVars, dirVars, Idle, NothingHeld, Missed,
       UpgradeMiss
<1>1. TypeOK'  OBVIOUS
<1>2. LeavingCopy'  BY DEF LeavingCopy
<1>3. LoadHasNone'  BY DEF LoadHasNone
<1>4. PostedMiss'  BY DEF PostedMiss
<1>5. PostedServed'
    BY DEF ReadAckTypes, WriteAckTypes, Storing, Served, IsAck, AckSent, Posted, PostedServed,
       ServedMiss
<1>6. ServedMiss'  BY DEF ReadAckTypes, WriteAckTypes, Storing, IsAck, AckSent, ServedMiss
<1>7. LeavingPosted' /\ OneEvict' /\ AckedIsGone' /\ DirtyPosted' /\ AckHasCopy' /\
        FilledWriting' /\ BalanceZero' /\ WriteServedAlone' /\ BankEmpty' /\ VictimAlone'
        /\ ForwardToken' /\ ForwardOnce' /\ MemoryToken' /\ ReplyToken' /\ ReadToken' /\
        AskedToken' /\ StoreReplies' /\ PaidOnce' /\ FinalAlone' /\ NotifyBalance' /\
        ToldBalance' /\ WriteData' /\ UpgradeData' /\ CopyCovered' /\ SharerHasCopy' /\
        CopyAsked' /\ SnoopFindsCopy' /\ ForwardFindsCopy' /\ OwnerAlone' /\ WriterAlone'
        /\ HeldAlone' /\ RefusedAlone' /\ DirtyAckShared' /\ OneDirty'
    BY LeavingPostedSame, OneEvictSame, AckedIsGoneSame, DirtyPostedSame, AckHasCopySame,
       FilledWritingSame, BalanceZeroSame, WriteServedAloneSame, BankEmptySame, VictimAloneSame,
       ForwardTokenSame, ForwardOnceSame, MemoryTokenSame, ReplyTokenSame, ReadTokenSame,
       AskedTokenSame, StoreRepliesSame, PaidOnceSame, FinalAloneSame, NotifyBalanceSame,
       ToldBalanceSame, WriteDataSame, UpgradeDataSame, CopyCoveredSame, SharerHasCopySame,
       CopyAskedSame, SnoopFindsCopySame, ForwardFindsCopySame, OwnerAloneSame, WriterAloneSame,
       HeldAloneSame, RefusedAloneSame, DirtyAckSharedSame, OneDirtySame
<1> QED
    BY <1>1, <1>2, <1>3, <1>4, <1>5, <1>6, <1>7

(* An L1 announces an eviction to the directory (doEviction). The *)
(* invariant holds after it.                                      *)
LEMMA AnnounceKeeps ==
  ASSUME Setting, Inv, NEW c \in Cores,
         Announce(c)
  PROVE  Inv'
<1> USE DEF Setting, Inv, TypeOK, serveVars, tokenVars, dirVars, Idle, Announce
<1>1. TypeOK'  OBVIOUS
<1>2. LeavingPosted'  BY DEF LeavingPosted
<1>3. LeavingCopy'  BY DEF LeavingCopy
<1>4. OneEvict'  BY DEF LeavingPosted, OneEvict
<1>5. DirtyPosted'  BY DEF DirtyPosted
<1>6. CopyCovered'  BY DEF Storing, NoneStoring, Copy, CopyCovered
<1>7. CopyAsked'  BY DEF Storing, Copy, Asked, CopyAsked
<1>8. OwnerAlone'
    BY DEF GrantTypes, Storing, Served, NoneStoring, Copy, Forwarded, OnlyServed, Clean,
       GrantComing, Owner, Sole, OwnerAlone
<1>9. WriterAlone'  BY DEF Storing, Copy, WriterAlone
<1>10. HeldAlone'  BY DEF Storing, Served, Copy, OnlyServed, Clean, Waits, HeldAlone
<1>11. RefusedAlone'  BY DEF Storing, Served, Copy, OnlyServed, Clean, RefusedAlone
<1>12. OneDirty'
    BY DEF GrantTypes, Storing, Served, NoneStoring, Copy, Forwarded, OnlyServed, Clean,
       VictimAlone, GrantComing, Owner, Sole, OwnerAlone, OneDirty
<1>13. AckedIsGone' /\ LoadHasNone' /\ PostedMiss' /\ PostedServed' /\ ServedMiss' /\
         AckHasCopy' /\ FilledWriting' /\ BalanceZero' /\ WriteServedAlone' /\ BankEmpty'
         /\ VictimAlone' /\ ForwardToken' /\ ForwardOnce' /\ MemoryToken' /\ ReplyToken'
         /\ ReadToken' /\ AskedToken' /\ StoreReplies' /\ PaidOnce' /\ FinalAlone' /\
         NotifyBalance' /\ ToldBalance' /\ WriteData' /\ UpgradeData' /\ SharerHasCopy'
         /\ SnoopFindsCopy' /\ ForwardFindsCopy' /\ DirtyAckShared'
    BY AckedIsGoneSame, LoadHasNoneSame, PostedMissSame, PostedServedSame, ServedMissSame,
       AckHasCopySame, FilledWritingSame, BalanceZeroSame, WriteServedAloneSame, BankEmptySame,
       VictimAloneSame, ForwardTokenSame, ForwardOnceSame, MemoryTokenSame, ReplyTokenSame,
       ReadTokenSame, AskedTokenSame, StoreRepliesSame, PaidOnceSame, FinalAloneSame,
       NotifyBalanceSame, ToldBalanceSame, WriteDataSame, UpgradeDataSame, SharerHasCopySame,
       SnoopFindsCopySame, ForwardFindsCopySame, DirtyAckSharedSame
<1> QED
    BY <1>1, <1>2, <1>3, <1>4, <1>5, <1>6, <1>7, <1>8, <1>9, <1>10, <1>11, <1>12, <1>13

(* The EvictAck frees the place in the evict buffer of an L1. The *)
(* invariant holds after it.                                      *)
LEMMA EvictAckedKeeps ==
  ASSUME Setting, Inv, NEW c \in Cores,
         EvictAcked(c)
  PROVE  Inv'
<1> USE DEF Setting, Inv, TypeOK, postVars, serveVars, dirVars, EvictAcked
<1>1. TypeOK'  OBVIOUS
<1>2. LeavingPosted'  BY DEF LeavingPosted, OneEvict
<1>3. LeavingCopy'  BY DEF LeavingCopy
<1>4. OneEvict'  BY DEF OneEvict
<1>5. AckedIsGone'  BY DEF Storing, Served, Asked, AckedIsGone
<1>6. DirtyPosted'  BY DEF DirtyPosted
<1>7. LoadHasNone'  BY DEF LoadHasNone
<1>8. PostedMiss'  BY DEF PostedMiss
<1>9. AckHasCopy'
    BY DEF ReadAckTypes, WriteAckTypes, Storing, Served, Asked, IsAck, AckedIsGone, AckHasCopy,
       ReplyToken
<1>10. WriteData'
    BY DEF ReadAckTypes, WriteAckTypes, GrantTypes, FetchTypes, DataTypes, Storing, Served,
       Asked, IsAck, AckSent, AckedIsGone, DataComing, WriteData
<1>11. UpgradeData'
    BY DEF GrantTypes, FetchTypes, DataTypes, Storing, Served, Asked, AckedIsGone, DataComing,
       UpgradeData
<1>12. CopyCovered'  BY DEF Storing, NoneStoring, Copy, CopyCovered
<1>13. SharerHasCopy'
    BY DEF GrantTypes, Storing, Served, NoneStoring, Asked, AckedIsGone, GrantComing,
       SharerHasCopy
<1>14. CopyAsked'  BY DEF Storing, Copy, Asked, CopyAsked
<1>15. SnoopFindsCopy'  BY DEF Storing, Served, Asked, AckedIsGone, SnoopFindsCopy
<1>16. ForwardFindsCopy'  BY DEF ForwardFindsCopy
<1>17. OwnerAlone'
    BY DEF GrantTypes, Storing, Served, NoneStoring, Copy, Forwarded, OnlyServed, Clean,
       GrantComing, Owner, Sole, OwnerAlone
<1>18. WriterAlone'  BY DEF Storing, Copy, WriterAlone
<1>19. HeldAlone'  BY DEF Storing, Served, Copy, OnlyServed, Clean, Waits, HeldAlone
<1>20. RefusedAlone'  BY DEF Storing, Served, Copy, OnlyServed, Clean, RefusedAlone
<1>21. DirtyAckShared'
    BY DEF Storing, Served, Asked, AckedIsGone, ReplyToken, DirtyAckShared
<1>22. PostedServed' /\ ServedMiss' /\ FilledWriting' /\ BalanceZero' /\ WriteServedAlone' /\
         BankEmpty' /\ VictimAlone' /\ ForwardToken' /\ ForwardOnce' /\ MemoryToken' /\
         ReplyToken' /\ ReadToken' /\ AskedToken' /\ StoreReplies' /\ PaidOnce' /\
         FinalAlone' /\ NotifyBalance' /\ ToldBalance' /\ OneDirty'
    BY PostedServedSame, ServedMissSame, FilledWritingSame, BalanceZeroSame,
       WriteServedAloneSame, BankEmptySame, VictimAloneSame, ForwardTokenSame, ForwardOnceSame,
       MemoryTokenSame, ReplyTokenSame, ReadTokenSame, AskedTokenSame, StoreRepliesSame,
       PaidOnceSame, FinalAloneSame, NotifyBalanceSame, ToldBalanceSame, OneDirtySame
<1> QED
    BY <1>1, <1>2, <1>3, <1>4, <1>5, <1>6, <1>7, <1>8, <1>9, <1>10, <1>11, <1>12, <1>13, <1>14,
       <1>15, <1>16, <1>17, <1>18, <1>19, <1>20, <1>21, <1>22

(* A ReadFwd is answered at once; the copy becomes Shared. The invariant *)
(* holds after it.                                                       *)
LEMMA AnswerForwardKeeps ==
  ASSUME Setting, Inv, NEW c \in Cores, NEW x \in Cores, NEW m,
         AnswerForward(c, x, m)
  PROVE  Inv'
<1> USE DEF Setting, Inv, TypeOK, postVars, serveVars, dirVars, Is, Send, Answered,
       AnswerForward
<1>1. x \in reading /\ NoneStoring
    BY DEF Storing, Served, NoneStoring, Forwarded, WriteServedAlone, ForwardToken
<1>2. TypeOK'  OBVIOUS
<1>3. LeavingCopy'  BY DEF LeavingCopy
<1>4. DirtyPosted'  BY DEF DirtyPosted
<1>5. LoadHasNone'  BY DEF LoadHasNone
<1>6. PostedMiss'  BY DEF PostedMiss
<1>7. PostedServed'
    BY DEF ReadAckTypes, WriteAckTypes, Storing, Served, IsAck, AckSent, Posted, PostedServed
<1>8. ServedMiss'  BY DEF ReadAckTypes, WriteAckTypes, Storing, IsAck, AckSent, ServedMiss
<1>9. AckHasCopy'  BY DEF ReadAckTypes, WriteAckTypes, IsAck, AckHasCopy
<1>10. FilledWriting'  BY DEF ReadAckTypes, WriteAckTypes, IsAck, FilledWriting
<1>11. BalanceZero'  BY DEF ReadAckTypes, WriteAckTypes, Storing, IsAck, BalanceZero
<1>12. ForwardToken'  BY DEF Forwarded, ForwardToken, ForwardOnce
<1>13. ForwardOnce'  BY DEF Forwarded, ForwardOnce
<1>14. ReplyToken'  BY <1>1 DEF Storing, Served, NoneStoring, ReplyToken
<1>15. ReadToken'
    BY DEF Dir, ReadAckTypes, GrantTypes, Forwarded, ReadReply, ForwardToken, ReadToken
<1>16. StoreReplies'
    BY <1>1 DEF Mem, Dir, NotifyTypes, GrantTypes, FetchTypes, Storing, NoneStoring,
       StoreReplyFor, StoreReplies
<1>17. PaidOnce'
    BY <1>1 DEF Mem, FetchTypes, Storing, NoneStoring, Asked, Pays, AskedAny, PaidOnce
<1>18. FinalAlone'
    BY <1>1 DEF ReadAckTypes, WriteAckTypes, Storing, NoneStoring, IsAck, Final, FinalAlone
<1>19. NotifyBalance'
    BY <1>1 DEF Mem, NotifyTypes, FetchTypes, Storing, NoneStoring, Asked, Pays, AskedAny, Owes,
       Owing, NotifyBalance
<1>20. ToldBalance'
    BY <1>1 DEF Mem, NotifyTypes, ReadAckTypes, WriteAckTypes, FetchTypes, Storing, NoneStoring,
       Asked, IsAck, Pays, AskedAny, Owes, Owing, Final, Told, ToldBalance
<1>21. WriteData'
    BY DEF ReadAckTypes, WriteAckTypes, GrantTypes, FetchTypes, DataTypes, IsAck, AckSent,
       DataComing, WriteData
<1>22. UpgradeData'
    BY <1>1 DEF GrantTypes, FetchTypes, DataTypes, Storing, Served, NoneStoring,
       WriteServedAlone, DataComing, UpgradeData
<1>23. CopyCovered'  BY DEF Storing, NoneStoring, Copy, CopyCovered
<1>24. SharerHasCopy'  BY DEF GrantTypes, Storing, NoneStoring, GrantComing, SharerHasCopy
<1>25. CopyAsked'  BY DEF Storing, Copy, Asked, CopyAsked
<1>26. SnoopFindsCopy'  BY DEF Asked, SnoopFindsCopy
<1>27. ForwardFindsCopy'  BY DEF ForwardFindsCopy
<1>28. OwnerAlone'
    BY DEF GrantTypes, Storing, Served, NoneStoring, Copy, Forwarded, OnlyServed, Clean,
       ForwardOnce, GrantComing, Owner, Sole, OwnerAlone
<1>29. WriterAlone'  BY DEF Storing, Copy, WriterAlone
<1>30. HeldAlone'
    BY <1>1 DEF Storing, Served, NoneStoring, Copy, Forwarded, OnlyServed, Clean, ForwardToken,
       ForwardOnce, Waits, HeldAlone
<1>31. RefusedAlone'  BY DEF Storing, Served, Copy, OnlyServed, Clean, RefusedAlone
<1>32. DirtyAckShared'  BY DEF DirtyAckShared
<1>33. LeavingPosted' /\ OneEvict' /\ AckedIsGone' /\ WriteServedAlone' /\ BankEmpty' /\
         VictimAlone' /\ MemoryToken' /\ AskedToken' /\ OneDirty'
    BY LeavingPostedSame, OneEvictSame, AckedIsGoneSame, WriteServedAloneSame, BankEmptySame,
       VictimAloneSame, MemoryTokenSame, AskedTokenSame, OneDirtySame
<1> QED
    BY <1>2, <1>3, <1>4, <1>5, <1>6, <1>7, <1>8, <1>9, <1>10, <1>11, <1>12, <1>13, <1>14, <1>15,
       <1>16, <1>17, <1>18, <1>19, <1>20, <1>21, <1>22, <1>23, <1>24, <1>25, <1>26, <1>27,
       <1>28, <1>29, <1>30, <1>31, <1>32, <1>33

(* A ReadFwd is answered when the core has acknowledged the downgrade. *)
(* The invariant holds after it.                                       *)
LEMMA AnswerHeldKeeps ==
  ASSUME Setting, Inv, NEW c \in Cores, NEW x \in Cores, NEW m,
         AnswerHeld(c, x, m)
  PROVE  Inv'
<1> USE DEF Setting, Inv, TypeOK, postVars, serveVars, dirVars, Is, Send, Answered,
       AnswerHeld
<1>1. x \in reading /\ NoneStoring
    BY DEF Storing, Served, NoneStoring, Forwarded, WriteServedAlone, ForwardToken
<1>2. TypeOK'  OBVIOUS
<1>3. LeavingCopy'  BY DEF LeavingCopy
<1>4. DirtyPosted'  BY DEF DirtyPosted
<1>5. LoadHasNone'  BY DEF LoadHasNone
<1>6. PostedMiss'  BY DEF PostedMiss
<1>7. PostedServed'
    BY DEF ReadAckTypes, WriteAckTypes, Storing, Served, IsAck, AckSent, Posted, PostedServed
<1>8. ServedMiss'  BY DEF ReadAckTypes, WriteAckTypes, Storing, IsAck, AckSent, ServedMiss
<1>9. AckHasCopy'  BY DEF ReadAckTypes, WriteAckTypes, IsAck, AckHasCopy
<1>10. FilledWriting'  BY DEF ReadAckTypes, WriteAckTypes, IsAck, FilledWriting
<1>11. BalanceZero'  BY DEF ReadAckTypes, WriteAckTypes, Storing, IsAck, BalanceZero
<1>12. ForwardToken'  BY DEF Forwarded, ForwardToken, ForwardOnce
<1>13. ForwardOnce'  BY DEF Forwarded, ForwardOnce
<1>14. ReplyToken'  BY <1>1 DEF Storing, Served, NoneStoring, ReplyToken
<1>15. ReadToken'
    BY DEF Dir, ReadAckTypes, GrantTypes, Forwarded, ReadReply, ForwardToken, ReadToken
<1>16. StoreReplies'
    BY <1>1 DEF Mem, Dir, NotifyTypes, GrantTypes, FetchTypes, Storing, NoneStoring,
       StoreReplyFor, StoreReplies
<1>17. PaidOnce'
    BY <1>1 DEF Mem, FetchTypes, Storing, NoneStoring, Asked, Pays, AskedAny, PaidOnce
<1>18. FinalAlone'
    BY <1>1 DEF ReadAckTypes, WriteAckTypes, Storing, NoneStoring, IsAck, Final, FinalAlone
<1>19. NotifyBalance'
    BY <1>1 DEF Mem, NotifyTypes, FetchTypes, Storing, NoneStoring, Asked, Pays, AskedAny, Owes,
       Owing, NotifyBalance
<1>20. ToldBalance'
    BY <1>1 DEF Mem, NotifyTypes, ReadAckTypes, WriteAckTypes, FetchTypes, Storing, NoneStoring,
       Asked, IsAck, Pays, AskedAny, Owes, Owing, Final, Told, ToldBalance
<1>21. WriteData'
    BY DEF ReadAckTypes, WriteAckTypes, GrantTypes, FetchTypes, DataTypes, IsAck, AckSent,
       DataComing, WriteData
<1>22. UpgradeData'
    BY <1>1 DEF GrantTypes, FetchTypes, DataTypes, Storing, Served, NoneStoring,
       WriteServedAlone, DataComing, UpgradeData
<1>23. CopyCovered'  BY DEF Storing, NoneStoring, Copy, CopyCovered
<1>24. SharerHasCopy'  BY DEF GrantTypes, Storing, NoneStoring, GrantComing, SharerHasCopy
<1>25. CopyAsked'  BY DEF Storing, Copy, Asked, CopyAsked
<1>26. SnoopFindsCopy'  BY DEF Asked, SnoopFindsCopy
<1>27. ForwardFindsCopy'  BY DEF ForwardFindsCopy
<1>28. OwnerAlone'
    BY DEF GrantTypes, Storing, Served, NoneStoring, Copy, Forwarded, OnlyServed, Clean,
       ForwardOnce, GrantComing, Owner, Sole, OwnerAlone
<1>29. WriterAlone'  BY DEF Storing, Copy, WriterAlone
<1>30. HeldAlone'
    BY <1>1 DEF Storing, Served, NoneStoring, Copy, Forwarded, OnlyServed, Clean, ForwardToken,
       ForwardOnce, Waits, HeldAlone
<1>31. RefusedAlone'  BY DEF Storing, Served, Copy, OnlyServed, Clean, RefusedAlone
<1>32. DirtyAckShared'  BY DEF DirtyAckShared
<1>33. LeavingPosted' /\ OneEvict' /\ AckedIsGone' /\ WriteServedAlone' /\ BankEmpty' /\
         VictimAlone' /\ MemoryToken' /\ AskedToken' /\ OneDirty'
    BY LeavingPostedSame, OneEvictSame, AckedIsGoneSame, WriteServedAloneSame, BankEmptySame,
       VictimAloneSame, MemoryTokenSame, AskedTokenSame, OneDirtySame
<1> QED
    BY <1>2, <1>3, <1>4, <1>5, <1>6, <1>7, <1>8, <1>9, <1>10, <1>11, <1>12, <1>13, <1>14, <1>15,
       <1>16, <1>17, <1>18, <1>19, <1>20, <1>21, <1>22, <1>23, <1>24, <1>25, <1>26, <1>27,
       <1>28, <1>29, <1>30, <1>31, <1>32, <1>33

(* A ReadFwd waits for the core of an Exclusive copy. The invariant *)
(* holds after it.                                                  *)
LEMMA HoldKeeps ==
  ASSUME Setting, Inv, NEW c \in Cores, NEW x \in Cores,
         Hold(c, x)
  PROVE  Inv'
<1> USE DEF Setting, Inv, TypeOK, l1Vars, postVars, serveVars, dirVars, Hold
<1>1. x \in reading /\ NoneStoring
    BY DEF Storing, Served, NoneStoring, Forwarded, WriteServedAlone, ForwardToken
<1>2. TypeOK'  OBVIOUS
<1>3. ForwardToken'  BY DEF Forwarded, ForwardToken
<1>4. ForwardOnce'  BY DEF Forwarded, ForwardOnce
<1>5. ForwardFindsCopy'  BY DEF ForwardFindsCopy
<1>6. OwnerAlone'
    BY DEF GrantTypes, Storing, Served, NoneStoring, Copy, Forwarded, OnlyServed, Clean,
       GrantComing, Owner, Sole, OwnerAlone
<1>7. HeldAlone'  BY DEF Storing, Served, Copy, OnlyServed, Clean, Waits, HeldAlone
<1>8. LeavingPosted' /\ LeavingCopy' /\ OneEvict' /\ AckedIsGone' /\ DirtyPosted' /\
        LoadHasNone' /\ PostedMiss' /\ PostedServed' /\ ServedMiss' /\ AckHasCopy' /\
        FilledWriting' /\ BalanceZero' /\ WriteServedAlone' /\ BankEmpty' /\ VictimAlone'
        /\ MemoryToken' /\ ReplyToken' /\ ReadToken' /\ AskedToken' /\ StoreReplies' /\
        PaidOnce' /\ FinalAlone' /\ NotifyBalance' /\ ToldBalance' /\ WriteData' /\
        UpgradeData' /\ CopyCovered' /\ SharerHasCopy' /\ CopyAsked' /\ SnoopFindsCopy' /\
        WriterAlone' /\ RefusedAlone' /\ DirtyAckShared' /\ OneDirty'
    BY LeavingPostedSame, LeavingCopySame, OneEvictSame, AckedIsGoneSame, DirtyPostedSame,
       LoadHasNoneSame, PostedMissSame, PostedServedSame, ServedMissSame, AckHasCopySame,
       FilledWritingSame, BalanceZeroSame, WriteServedAloneSame, BankEmptySame, VictimAloneSame,
       MemoryTokenSame, ReplyTokenSame, ReadTokenSame, AskedTokenSame, StoreRepliesSame,
       PaidOnceSame, FinalAloneSame, NotifyBalanceSame, ToldBalanceSame, WriteDataSame,
       UpgradeDataSame, CopyCoveredSame, SharerHasCopySame, CopyAskedSame, SnoopFindsCopySame,
       WriterAloneSame, RefusedAloneSame, DirtyAckSharedSame, OneDirtySame
<1> QED
    BY <1>2, <1>3, <1>4, <1>5, <1>6, <1>7, <1>8

(* A ReadFwd that waited finds the copy gone: FwdNAck. The invariant *)
(* holds after it.                                                   *)
LEMMA RefuseKeeps ==
  ASSUME Setting, Inv, NEW c \in Cores, NEW x \in Cores, NEW m,
         Refuse(c, x, m)
  PROVE  Inv'
<1> USE DEF Setting, Inv, TypeOK, l1Vars, postVars, serveVars, dirVars, Dir, Is, Send,
       Refuse
<1>1. x \in reading /\ NoneStoring
    BY DEF Storing, Served, NoneStoring, Forwarded, WriteServedAlone, ForwardToken
<1>2. TypeOK'  OBVIOUS
<1>3. PostedServed'
    BY DEF ReadAckTypes, WriteAckTypes, Storing, Served, IsAck, AckSent, Posted, PostedServed
<1>4. ServedMiss'  BY DEF ReadAckTypes, WriteAckTypes, Storing, IsAck, AckSent, ServedMiss
<1>5. AckHasCopy'  BY DEF ReadAckTypes, WriteAckTypes, IsAck, AckHasCopy
<1>6. FilledWriting'  BY DEF ReadAckTypes, WriteAckTypes, IsAck, FilledWriting
<1>7. BalanceZero'  BY DEF ReadAckTypes, WriteAckTypes, Storing, IsAck, BalanceZero
<1>8. ForwardToken'  BY DEF Forwarded, ForwardToken, ForwardOnce
<1>9. ForwardOnce'  BY DEF Forwarded, ForwardOnce
<1>10. ReplyToken'  BY <1>1 DEF Storing, Served, NoneStoring, ReplyToken
<1>11. ReadToken'
    BY DEF ReadAckTypes, GrantTypes, Forwarded, ReadReply, ForwardToken, ReadToken
<1>12. StoreReplies'
    BY <1>1 DEF Mem, NotifyTypes, GrantTypes, FetchTypes, Storing, NoneStoring, StoreReplyFor,
       StoreReplies
<1>13. PaidOnce'
    BY <1>1 DEF Mem, FetchTypes, Storing, NoneStoring, Asked, Pays, AskedAny, PaidOnce
<1>14. FinalAlone'
    BY <1>1 DEF ReadAckTypes, WriteAckTypes, Storing, NoneStoring, IsAck, Final, FinalAlone
<1>15. NotifyBalance'
    BY <1>1 DEF Mem, NotifyTypes, FetchTypes, Storing, NoneStoring, Asked, Pays, AskedAny, Owes,
       Owing, NotifyBalance
<1>16. ToldBalance'
    BY <1>1 DEF Mem, NotifyTypes, ReadAckTypes, WriteAckTypes, FetchTypes, Storing, NoneStoring,
       Asked, IsAck, Pays, AskedAny, Owes, Owing, Final, Told, ToldBalance
<1>17. WriteData'
    BY DEF ReadAckTypes, WriteAckTypes, GrantTypes, FetchTypes, DataTypes, IsAck, AckSent,
       DataComing, WriteData
<1>18. UpgradeData'  BY DEF GrantTypes, FetchTypes, DataTypes, DataComing, UpgradeData
<1>19. SharerHasCopy'  BY DEF GrantTypes, Storing, NoneStoring, GrantComing, SharerHasCopy
<1>20. OwnerAlone'
    BY DEF GrantTypes, Storing, Served, NoneStoring, Copy, Forwarded, OnlyServed, Clean,
       GrantComing, Owner, Sole, OwnerAlone
<1>21. HeldAlone'  BY DEF Storing, Served, Copy, OnlyServed, Clean, Waits, HeldAlone
<1>22. RefusedAlone'
    BY <1>1 DEF GrantTypes, Storing, Served, NoneStoring, Copy, Forwarded, OnlyServed, Clean,
       ForwardToken, GrantComing, SharerHasCopy, Waits, HeldAlone, RefusedAlone
<1>23. DirtyAckShared'  BY DEF DirtyAckShared
<1>24. LeavingPosted' /\ LeavingCopy' /\ OneEvict' /\ AckedIsGone' /\ DirtyPosted' /\
         LoadHasNone' /\ PostedMiss' /\ WriteServedAlone' /\ BankEmpty' /\ VictimAlone'
         /\ MemoryToken' /\ AskedToken' /\ CopyCovered' /\ CopyAsked' /\ SnoopFindsCopy'
         /\ ForwardFindsCopy' /\ WriterAlone' /\ OneDirty'
    BY LeavingPostedSame, LeavingCopySame, OneEvictSame, AckedIsGoneSame, DirtyPostedSame,
       LoadHasNoneSame, PostedMissSame, WriteServedAloneSame, BankEmptySame, VictimAloneSame,
       MemoryTokenSame, AskedTokenSame, CopyCoveredSame, CopyAskedSame, SnoopFindsCopySame,
       ForwardFindsCopySame, WriterAloneSame, OneDirtySame
<1> QED
    BY <1>2, <1>3, <1>4, <1>5, <1>6, <1>7, <1>8, <1>9, <1>10, <1>11, <1>12, <1>13, <1>14, <1>15,
       <1>16, <1>17, <1>18, <1>19, <1>20, <1>21, <1>22, <1>23, <1>24

(* While a copy is invalidated no read is being served. *)
LEMMA InvalidatedNoReads ==
  ASSUME Setting, Inv, NEW c \in Cores, NEW r \in Cores, NEW m,
         Invalidated(c, r, m)
  PROVE  \A x, e \in Cores : ~Forwarded(x, e) /\ x \notin reading
<1>1. \A x \in Cores : x \notin reading
    BY DEF Setting, Inv, postVars, serveVars, dirVars, Storing, Served, Is, Send, GivenUp,
       Invalidated, WriteServedAlone
<1> QED  BY <1>1 DEF Setting, Inv, ForwardToken

(* The part NotifyBalance of the invariant after Invalidated. *)
LEMMA InvalidatedNotifyBalance ==
  ASSUME Setting, Inv, NEW c \in Cores, NEW r \in Cores, NEW m,
         Invalidated(c, r, m)
  PROVE  NotifyBalance'
<1>1. c # r /\ (\A y \in Cores : Served(y) => y = r)
    BY DEF postVars, serveVars, dirVars, Storing, Served, Is, Send, GivenUp, Invalidated, Asked,
       TypeOK, WriteServedAlone, AskedToken, Inv, Inv, Setting
<1>2. \A k \in replies : k.requester = r
    BY <1>1 DEF postVars, serveVars, dirVars, Storing, Served, Is, Send, GivenUp, Invalidated,
       TypeOK, ReplyToken, Inv, Inv, Setting
<1>3. Owing(r)' = Owing(r)
    BY <1>1, <1>2 DEF Setting, Inv, postVars, serveVars, dirVars, Mem, FetchTypes, Storing, Is,
       Send, GivenUp, Invalidated, Asked, TypeOK, Pays, AskedAny, Owes, Owing, AskedToken
<1>4. \A k \in replies' : k # m => k \in replies
    BY <1>1, <1>2 DEF Setting, Inv, postVars, serveVars, dirVars, Storing, Is, Send, GivenUp,
       Invalidated
<1>5. \A k \in replies' : k.requester = r
    BY <1>1, <1>2 DEF Setting, Inv, postVars, serveVars, dirVars, Storing, Is, Send, GivenUp,
       Invalidated
<1>6. m.type \notin NotifyTypes
    BY <1>1, <1>2 DEF Setting, Inv, postVars, serveVars, dirVars, NotifyTypes, Storing, Is,
       Send, GivenUp, Invalidated
<1> QED
    BY <1>1, <1>2, <1>3, <1>4, <1>5, <1>6 DEF Setting, Inv, postVars, serveVars, dirVars, Mem,
       NotifyTypes, FetchTypes, Storing, Is, Send, GivenUp, Invalidated, NotifyBalance

(* The part ToldBalance of the invariant after Invalidated. *)
LEMMA InvalidatedToldBalance ==
  ASSUME Setting, Inv, NEW c \in Cores, NEW r \in Cores, NEW m,
         Invalidated(c, r, m)
  PROVE  ToldBalance'
<1>1. c # r /\ (\A y \in Cores : Served(y) => y = r)
    BY DEF postVars, serveVars, dirVars, Storing, Served, Is, Send, GivenUp, Invalidated, Asked,
       TypeOK, WriteServedAlone, AskedToken, Inv, Inv, Setting
<1>2. \A k \in replies : k.requester = r
    BY <1>1 DEF postVars, serveVars, dirVars, Storing, Served, Is, Send, GivenUp, Invalidated,
       TypeOK, ReplyToken, Inv, Inv, Setting
<1>3. Owing(r)' = Owing(r)
    BY <1>1, <1>2 DEF Setting, Inv, postVars, serveVars, dirVars, Mem, FetchTypes, Storing, Is,
       Send, GivenUp, Invalidated, Asked, TypeOK, Pays, AskedAny, Owes, Owing, AskedToken
<1>4. \A k \in Cores : Storing(k)' => k = r
    BY <1>1, <1>2 DEF Setting, Inv, postVars, serveVars, dirVars, Storing, Served, Is, Send,
       GivenUp, Invalidated
<1>5. Storing(r) /\ (Told(r)' => Told(r))
    BY <1>1, <1>2 DEF Setting, Inv, postVars, serveVars, dirVars, NotifyTypes, ReadAckTypes,
       WriteAckTypes, Storing, Is, Send, GivenUp, Invalidated, IsAck, Final, Told
<1>6. balance' = balance
    BY <1>1, <1>2 DEF Setting, Inv, postVars, serveVars, dirVars, Storing, Is, Send, GivenUp,
       Invalidated
<1> QED  BY <1>1, <1>2, <1>3, <1>4, <1>5, <1>6 DEF Setting, Inv, ToldBalance

(* A copy is invalidated and the InvalidateAck goes to the writer. The *)
(* invariant holds after it.                                           *)
LEMMA InvalidatedKeeps ==
  ASSUME Setting, Inv, NEW c \in Cores, NEW r \in Cores, NEW m,
         Invalidated(c, r, m)
  PROVE  Inv'
<1>1. \A x, e \in Cores : ~Forwarded(x, e) /\ x \notin reading  BY InvalidatedNoReads
<1>2. NotifyBalance'  BY InvalidatedNotifyBalance
<1>3. ToldBalance'  BY InvalidatedToldBalance
<1> USE DEF Setting, Inv, TypeOK, postVars, serveVars, dirVars, Storing, Is, Send, GivenUp,
       Invalidated
<1>4. c # r /\ (\A y \in Cores : Served(y) => y = r)
    BY DEF Served, Asked, WriteServedAlone, AskedToken
<1>5. \A k \in replies : k.requester = r  BY <1>4 DEF Served, ReplyToken
<1>6. TypeOK'  OBVIOUS
<1>7. LeavingCopy'  BY DEF LeavingCopy
<1>8. AckedIsGone'  BY DEF Served, Asked, AckedIsGone
<1>9. DirtyPosted'  BY DEF DirtyPosted
<1>10. LoadHasNone'  BY DEF LoadHasNone
<1>11. PostedMiss'  BY DEF PostedMiss
<1>12. PostedServed'
    BY DEF ReadAckTypes, WriteAckTypes, Served, IsAck, AckSent, Posted, PostedServed
<1>13. ServedMiss'  BY DEF ReadAckTypes, WriteAckTypes, IsAck, AckSent, ServedMiss
<1>14. AckHasCopy'  BY <1>4, <1>5 DEF ReadAckTypes, WriteAckTypes, Served, IsAck, AckHasCopy
<1>15. FilledWriting'  BY DEF ReadAckTypes, WriteAckTypes, IsAck, FilledWriting
<1>16. BalanceZero'  BY DEF ReadAckTypes, WriteAckTypes, IsAck, BalanceZero
<1>17. ForwardToken'  BY <1>1 DEF Forwarded, ForwardToken
<1>18. ReplyToken'  BY DEF Served, ReplyToken
<1>19. ReadToken'
    BY <1>4, <1>5 DEF Dir, ReadAckTypes, GrantTypes, Served, WriteServedAlone, ReadReply,
       ReadToken
<1>20. AskedToken'  BY DEF Asked, AskedToken
<1>21. StoreReplies'
    BY <1>4 DEF Mem, Dir, NotifyTypes, GrantTypes, FetchTypes, Served, StoreReplyFor,
       StoreReplies
<1>22. PaidOnce'
    BY <1>4, <1>5 DEF Mem, FetchTypes, Served, Asked, Pays, AskedAny, AskedToken, PaidOnce
<1>23. FinalAlone'  BY DEF ReadAckTypes, WriteAckTypes, IsAck, Final, FinalAlone
<1>24. WriteData'
    BY <1>4, <1>5 DEF ReadAckTypes, WriteAckTypes, GrantTypes, FetchTypes, DataTypes, Served,
       IsAck, AckSent, DataComing, WriteData
<1>25. UpgradeData'
    BY <1>4, <1>5 DEF GrantTypes, FetchTypes, DataTypes, Served, DataComing, UpgradeData
<1>26. CopyCovered'  BY DEF NoneStoring, Copy, CopyCovered
<1>27. SharerHasCopy'
    BY <1>4 DEF GrantTypes, Served, NoneStoring, GrantComing, SharerHasCopy
<1>28. CopyAsked'  BY DEF Copy, Asked, CopyAsked
<1>29. SnoopFindsCopy'  BY DEF Asked, AskedToken, SnoopFindsCopy
<1>30. ForwardFindsCopy'  BY <1>1 DEF Forwarded, ForwardFindsCopy
<1>31. OwnerAlone'
    BY DEF GrantTypes, Served, NoneStoring, Copy, Forwarded, OnlyServed, Clean, GrantComing,
       Owner, Sole, OwnerAlone
<1>32. WriterAlone'  BY DEF Copy, WriterAlone
<1>33. HeldAlone'  BY DEF Served, Copy, OnlyServed, Clean, Waits, HeldAlone
<1>34. RefusedAlone'  BY DEF Served, Copy, OnlyServed, Clean, RefusedAlone
<1>35. DirtyAckShared'  BY <1>4, <1>5 DEF Served, DirtyAckShared
<1>36. LeavingPosted' /\ OneEvict' /\ WriteServedAlone' /\ BankEmpty' /\ VictimAlone' /\
         ForwardOnce' /\ MemoryToken' /\ OneDirty'
    BY LeavingPostedSame, OneEvictSame, WriteServedAloneSame, BankEmptySame, VictimAloneSame,
       ForwardOnceSame, MemoryTokenSame, OneDirtySame
<1> QED
    BY <1>2, <1>3, <1>6, <1>7, <1>8, <1>9, <1>10, <1>11, <1>12, <1>13, <1>14, <1>15, <1>16,
       <1>17, <1>18, <1>19, <1>20, <1>21, <1>22, <1>23, <1>24, <1>25, <1>26, <1>27, <1>28,
       <1>29, <1>30, <1>31, <1>32, <1>33, <1>34, <1>35, <1>36

(* While a copy is fetched for a write no read is being served. *)
LEMMA FetchedNoReads ==
  ASSUME Setting, Inv, NEW c \in Cores, NEW r \in Cores, NEW m,
         Fetched(c, r, m)
  PROVE  \A x, e \in Cores : ~Forwarded(x, e) /\ x \notin reading
<1>1. \A x \in Cores : x \notin reading
    BY DEF Setting, Inv, postVars, serveVars, dirVars, FetchTypes, Storing, Served, Is, Send,
       GivenUp, Fetched, WriteServedAlone
<1> QED  BY <1>1 DEF Setting, Inv, ForwardToken

(* The part NotifyBalance of the invariant after Fetched. *)
LEMMA FetchedNotifyBalance ==
  ASSUME Setting, Inv, NEW c \in Cores, NEW r \in Cores, NEW m,
         Fetched(c, r, m)
  PROVE  NotifyBalance'
<1>1. c # r /\ (\A y \in Cores : Served(y) => y = r)
    BY DEF postVars, serveVars, dirVars, FetchTypes, Storing, Served, Is, Send, GivenUp,
       Fetched, Asked, TypeOK, WriteServedAlone, AskedToken, Inv, Inv, Setting
<1>2. \A k \in replies : k.requester = r
    BY <1>1 DEF postVars, serveVars, dirVars, FetchTypes, Storing, Served, Is, Send, GivenUp,
       Fetched, TypeOK, ReplyToken, Inv, Inv, Setting
<1>3. Owing(r)' = Owing(r)
    BY <1>1, <1>2 DEF Setting, Inv, postVars, serveVars, dirVars, Mem, FetchTypes, Storing, Is,
       Send, GivenUp, Fetched, Asked, TypeOK, Pays, AskedAny, Owes, Owing, AskedToken
<1>4. \A k \in replies' : k # m => k \in replies
    BY <1>1, <1>2 DEF Setting, Inv, postVars, serveVars, dirVars, FetchTypes, Storing, Is, Send,
       GivenUp, Fetched
<1>5. \A k \in replies' : k.requester = r
    BY <1>1, <1>2 DEF Setting, Inv, postVars, serveVars, dirVars, FetchTypes, Storing, Is, Send,
       GivenUp, Fetched
<1>6. m.type \notin NotifyTypes
    BY <1>1, <1>2 DEF Setting, Inv, postVars, serveVars, dirVars, NotifyTypes, FetchTypes,
       Storing, Is, Send, GivenUp, Fetched
<1> QED
    BY <1>1, <1>2, <1>3, <1>4, <1>5, <1>6 DEF Setting, Inv, postVars, serveVars, dirVars, Mem,
       NotifyTypes, FetchTypes, Storing, Is, Send, GivenUp, Fetched, NotifyBalance

(* The part ToldBalance of the invariant after Fetched. *)
LEMMA FetchedToldBalance ==
  ASSUME Setting, Inv, NEW c \in Cores, NEW r \in Cores, NEW m,
         Fetched(c, r, m)
  PROVE  ToldBalance'
<1>1. c # r /\ (\A y \in Cores : Served(y) => y = r)
    BY DEF postVars, serveVars, dirVars, FetchTypes, Storing, Served, Is, Send, GivenUp,
       Fetched, Asked, TypeOK, WriteServedAlone, AskedToken, Inv, Inv, Setting
<1>2. \A k \in replies : k.requester = r
    BY <1>1 DEF postVars, serveVars, dirVars, FetchTypes, Storing, Served, Is, Send, GivenUp,
       Fetched, TypeOK, ReplyToken, Inv, Inv, Setting
<1>3. Owing(r)' = Owing(r)
    BY <1>1, <1>2 DEF Setting, Inv, postVars, serveVars, dirVars, Mem, FetchTypes, Storing, Is,
       Send, GivenUp, Fetched, Asked, TypeOK, Pays, AskedAny, Owes, Owing, AskedToken
<1>4. \A k \in Cores : Storing(k)' => k = r
    BY <1>1, <1>2 DEF Setting, Inv, postVars, serveVars, dirVars, FetchTypes, Storing, Served,
       Is, Send, GivenUp, Fetched
<1>5. Storing(r) /\ (Told(r)' => Told(r))
    BY <1>1, <1>2 DEF Setting, Inv, postVars, serveVars, dirVars, NotifyTypes, ReadAckTypes,
       WriteAckTypes, FetchTypes, Storing, Is, Send, GivenUp, Fetched, IsAck, Final, Told
<1>6. balance' = balance
    BY <1>1, <1>2 DEF Setting, Inv, postVars, serveVars, dirVars, FetchTypes, Storing, Is, Send,
       GivenUp, Fetched
<1> QED  BY <1>1, <1>2, <1>3, <1>4, <1>5, <1>6 DEF Setting, Inv, ToldBalance

(* A copy is given up for a write, with its data. The invariant holds *)
(* after it.                                                          *)
LEMMA FetchedKeeps ==
  ASSUME Setting, Inv, NEW c \in Cores, NEW r \in Cores, NEW m,
         Fetched(c, r, m)
  PROVE  Inv'
<1>1. \A x, e \in Cores : ~Forwarded(x, e) /\ x \notin reading  BY FetchedNoReads
<1>2. NotifyBalance'  BY FetchedNotifyBalance
<1>3. ToldBalance'  BY FetchedToldBalance
<1> USE DEF Setting, Inv, TypeOK, postVars, serveVars, dirVars, FetchTypes, Storing, Is,
       Send, GivenUp, Fetched
<1>4. c # r /\ (\A y \in Cores : Served(y) => y = r)
    BY DEF Served, Asked, WriteServedAlone, AskedToken
<1>5. \A k \in replies : k.requester = r  BY <1>4 DEF Served, ReplyToken
<1>6. TypeOK'  OBVIOUS
<1>7. LeavingCopy'  BY DEF LeavingCopy
<1>8. AckedIsGone'  BY DEF Served, Asked, AckedIsGone
<1>9. DirtyPosted'  BY DEF DirtyPosted
<1>10. LoadHasNone'  BY DEF LoadHasNone
<1>11. PostedMiss'  BY DEF PostedMiss
<1>12. PostedServed'
    BY DEF ReadAckTypes, WriteAckTypes, Served, IsAck, AckSent, Posted, PostedServed
<1>13. ServedMiss'  BY DEF ReadAckTypes, WriteAckTypes, IsAck, AckSent, ServedMiss
<1>14. AckHasCopy'  BY <1>4, <1>5 DEF ReadAckTypes, WriteAckTypes, Served, IsAck, AckHasCopy
<1>15. FilledWriting'  BY DEF ReadAckTypes, WriteAckTypes, IsAck, FilledWriting
<1>16. BalanceZero'  BY DEF ReadAckTypes, WriteAckTypes, IsAck, BalanceZero
<1>17. ForwardToken'  BY <1>1 DEF Forwarded, ForwardToken
<1>18. ReplyToken'  BY DEF Served, ReplyToken
<1>19. ReadToken'
    BY <1>4, <1>5 DEF Dir, ReadAckTypes, GrantTypes, Served, WriteServedAlone, ReadReply,
       ReadToken
<1>20. AskedToken'  BY DEF Asked, AskedToken
<1>21. StoreReplies'
    BY <1>4 DEF Mem, Dir, NotifyTypes, GrantTypes, Served, StoreReplyFor, StoreReplies
<1>22. PaidOnce'  BY <1>4, <1>5 DEF Mem, Served, Asked, Pays, AskedAny, AskedToken, PaidOnce
<1>23. FinalAlone'  BY DEF ReadAckTypes, WriteAckTypes, IsAck, Final, FinalAlone
<1>24. WriteData'
    BY <1>4, <1>5 DEF ReadAckTypes, WriteAckTypes, GrantTypes, DataTypes, Served, IsAck,
       AckSent, DataComing, WriteData
<1>25. UpgradeData'
    BY <1>4, <1>5 DEF GrantTypes, DataTypes, Served, DataComing, UpgradeData
<1>26. CopyCovered'  BY DEF NoneStoring, Copy, CopyCovered
<1>27. SharerHasCopy'
    BY <1>4 DEF GrantTypes, Served, NoneStoring, GrantComing, SharerHasCopy
<1>28. CopyAsked'  BY DEF Copy, Asked, CopyAsked
<1>29. SnoopFindsCopy'  BY DEF Asked, AskedToken, SnoopFindsCopy
<1>30. ForwardFindsCopy'  BY <1>1 DEF Forwarded, ForwardFindsCopy
<1>31. OwnerAlone'
    BY DEF GrantTypes, Served, NoneStoring, Copy, Forwarded, OnlyServed, Clean, GrantComing,
       Owner, Sole, OwnerAlone
<1>32. WriterAlone'  BY DEF Copy, WriterAlone
<1>33. HeldAlone'  BY DEF Served, Copy, OnlyServed, Clean, Waits, HeldAlone
<1>34. RefusedAlone'  BY DEF Served, Copy, OnlyServed, Clean, RefusedAlone
<1>35. DirtyAckShared'  BY <1>4, <1>5 DEF Served, DirtyAckShared
<1>36. LeavingPosted' /\ OneEvict' /\ WriteServedAlone' /\ BankEmpty' /\ VictimAlone' /\
         ForwardOnce' /\ MemoryToken' /\ OneDirty'
    BY LeavingPostedSame, OneEvictSame, WriteServedAloneSame, BankEmptySame, VictimAloneSame,
       ForwardOnceSame, MemoryTokenSame, OneDirtySame
<1> QED
    BY <1>2, <1>3, <1>6, <1>7, <1>8, <1>9, <1>10, <1>11, <1>12, <1>13, <1>14, <1>15, <1>16,
       <1>17, <1>18, <1>19, <1>20, <1>21, <1>22, <1>23, <1>24, <1>25, <1>26, <1>27, <1>28,
       <1>29, <1>30, <1>31, <1>32, <1>33, <1>34, <1>35, <1>36

(* The part OwnerAlone of the invariant after LoadReply. *)
LEMMA LoadReplyOwnerAlone ==
  ASSUME Setting, Inv, NEW c \in Cores, NEW m, NEW n,
         LoadReply(c, m, n)
  PROVE  OwnerAlone'
<1>1. c \in reading /\ NoneStoring
    BY DEF postVars, serveVars, tokenVars, dirVars, Dir, ReadAckTypes, WriteAckTypes, Storing,
       Served, NoneStoring, Is, Swap, MissOver, FillState, LoadReply, IsAck, AckSent, TypeOK,
       LoadHasNone, ServedMiss, AckHasCopy, WriteServedAlone, ReplyToken, Inv, Inv, Setting
<1>2. copy[c] = "I" /\ c \notin leaving /\ c \notin reads /\ c \notin writes /\ c \notin
        upgrades
    BY <1>1 DEF postVars, serveVars, tokenVars, dirVars, Dir, ReadAckTypes, WriteAckTypes,
       Storing, Served, NoneStoring, Is, Swap, MissOver, FillState, LoadReply, IsAck, AckSent,
       TypeOK, LeavingCopy, Posted, LoadHasNone, PostedServed, AckHasCopy, Inv, Inv, Setting
<1>3. \A k \in replies : k.requester = c => k = m
    BY <1>1 DEF postVars, serveVars, tokenVars, dirVars, Dir, ReadAckTypes, GrantTypes, Storing,
       NoneStoring, Is, Swap, MissOver, FillState, LoadReply, TypeOK, ReadReply, ReadToken, Inv,
       Inv, Setting
<1>4. \A e \in Cores : ~Forwarded(c, e)
    BY DEF postVars, serveVars, tokenVars, dirVars, Dir, Is, Swap, MissOver, FillState,
       LoadReply, Forwarded, TypeOK, ForwardToken, Inv, Inv, Setting
<1>5. ASSUME NEW y \in Cores, Owner(y)', y # c PROVE Owner(y)
    BY <1>1, <1>2, <1>3, <1>4, <1>5 DEF Setting, Inv, postVars, serveVars, tokenVars, dirVars,
       Dir, GrantTypes, Is, Swap, MissOver, FillState, LoadReply, TypeOK, GrantComing, Owner
<1>6. ASSUME NEW y \in Cores, Owner(y), y # c PROVE FALSE
    BY <1>1, <1>2, <1>3, <1>4, <1>6 DEF Setting, Inv, Sole, OwnerAlone
<1>7. Owner(c)' => m.type \in GrantTypes
    BY <1>1, <1>2, <1>3, <1>4 DEF Setting, Inv, postVars, serveVars, tokenVars, dirVars, Dir,
       ReadAckTypes, GrantTypes, Is, Swap, MissOver, FillState, LoadReply, TypeOK, ReadReply,
       ReadToken, GrantComing, Owner
<1>8. m.type \in GrantTypes => Owner(c)
    BY <1>1, <1>2, <1>3, <1>4 DEF Setting, Inv, postVars, serveVars, tokenVars, dirVars, Dir,
       GrantTypes, Is, Swap, MissOver, FillState, LoadReply, TypeOK, GrantComing, Owner
<1>9. Owner(c) => Sole(c)  BY <1>1, <1>2, <1>3, <1>4 DEF Setting, Inv, OwnerAlone
<1>10. Sole(c) => Sole(c)'
    BY <1>1, <1>2, <1>3, <1>4 DEF Setting, Inv, postVars, serveVars, tokenVars, dirVars, Dir,
       Storing, Served, Is, Swap, MissOver, FillState, LoadReply, Copy, Forwarded, OnlyServed,
       Clean, TypeOK, Sole
<1> QED
    BY <1>1, <1>2, <1>3, <1>4, <1>5, <1>6, <1>7, <1>8, <1>9, <1>10 DEF Setting, Inv, OwnerAlone

(* The reply to a load fills the copy; its ack goes to the directory. *)
(* The invariant holds after it.                                      *)
LEMMA LoadReplyKeeps ==
  ASSUME Setting, Inv, NEW c \in Cores, NEW m, NEW n,
         LoadReply(c, m, n)
  PROVE  Inv'
<1>1. OwnerAlone'  BY LoadReplyOwnerAlone
<1> USE DEF Setting, Inv, TypeOK, postVars, serveVars, tokenVars, dirVars, Dir, Is, Swap,
       MissOver, FillState, LoadReply
<1>2. c \in reading /\ NoneStoring
    BY DEF ReadAckTypes, WriteAckTypes, Storing, Served, NoneStoring, IsAck, AckSent,
       LoadHasNone, ServedMiss, AckHasCopy, WriteServedAlone, ReplyToken
<1>3. copy[c] = "I" /\ c \notin leaving /\ c \notin reads /\ c \notin writes /\ c \notin
        upgrades
    BY <1>2 DEF ReadAckTypes, WriteAckTypes, Storing, Served, NoneStoring, IsAck, AckSent,
       LeavingCopy, Posted, LoadHasNone, PostedServed, AckHasCopy
<1>4. \A k \in replies : k.requester = c => k = m
    BY <1>2 DEF ReadAckTypes, GrantTypes, Storing, NoneStoring, ReadReply, ReadToken
<1>5. \A e \in Cores : ~Forwarded(c, e)  BY DEF Forwarded, ForwardToken
<1>6. TypeOK'  OBVIOUS
<1>7. LeavingCopy'  BY DEF LeavingCopy
<1>8. DirtyPosted'  BY <1>3 DEF LeavingPosted, DirtyPosted
<1>9. LoadHasNone'  BY DEF LoadHasNone
<1>10. PostedMiss'  BY <1>3 DEF PostedMiss
<1>11. PostedServed'
    BY DEF ReadAckTypes, WriteAckTypes, Storing, Served, IsAck, AckSent, Posted, PostedServed
<1>12. ServedMiss'  BY DEF ReadAckTypes, WriteAckTypes, Storing, IsAck, AckSent, ServedMiss
<1>13. AckHasCopy'  BY DEF ReadAckTypes, WriteAckTypes, IsAck, AckHasCopy
<1>14. FilledWriting'  BY DEF ReadAckTypes, WriteAckTypes, IsAck, FilledWriting
<1>15. BalanceZero'  BY DEF ReadAckTypes, WriteAckTypes, Storing, IsAck, BalanceZero
<1>16. ForwardToken'  BY DEF Forwarded, ForwardToken
<1>17. ReplyToken'  BY DEF Storing, Served, ReplyToken
<1>18. ReadToken'  BY DEF ReadAckTypes, GrantTypes, ReadReply, ReadToken
<1>19. StoreReplies'
    BY <1>2 DEF Mem, NotifyTypes, GrantTypes, FetchTypes, Storing, NoneStoring, StoreReplyFor,
       StoreReplies
<1>20. PaidOnce'  BY DEF Mem, FetchTypes, Storing, Asked, Pays, AskedAny, PaidOnce
<1>21. FinalAlone'
    BY <1>2 DEF ReadAckTypes, WriteAckTypes, Storing, NoneStoring, IsAck, Final, FinalAlone
<1>22. NotifyBalance'
    BY <1>2 DEF Mem, NotifyTypes, FetchTypes, Storing, NoneStoring, Asked, Pays, AskedAny, Owes,
       Owing, NotifyBalance
<1>23. ToldBalance'
    BY <1>2 DEF Mem, NotifyTypes, ReadAckTypes, WriteAckTypes, FetchTypes, Storing, NoneStoring,
       Asked, IsAck, Pays, AskedAny, Owes, Owing, Final, Told, ToldBalance
<1>24. WriteData'
    BY DEF ReadAckTypes, WriteAckTypes, GrantTypes, FetchTypes, DataTypes, IsAck, AckSent,
       DataComing, WriteData
<1>25. UpgradeData'  BY DEF GrantTypes, FetchTypes, DataTypes, DataComing, UpgradeData
<1>26. CopyCovered'  BY <1>2 DEF Storing, NoneStoring, Copy, CopyCovered
<1>27. SharerHasCopy'
    BY <1>2, <1>3 DEF GrantTypes, Storing, NoneStoring, GrantComing, SharerHasCopy
<1>28. CopyAsked'  BY <1>2 DEF Storing, NoneStoring, Copy, Asked, CopyAsked
<1>29. SnoopFindsCopy'  BY <1>2 DEF Storing, NoneStoring, Asked, AskedToken, SnoopFindsCopy
<1>30. ForwardFindsCopy'  BY DEF ForwardFindsCopy
<1>31. WriterAlone'  BY <1>2 DEF Storing, NoneStoring, Copy, WriterAlone
<1>32. HeldAlone'
    BY <1>2, <1>3, <1>5 DEF GrantTypes, Storing, Served, NoneStoring, Copy, Forwarded,
       OnlyServed, Clean, ForwardToken, GrantComing, Owner, Sole, OwnerAlone, Waits, HeldAlone
<1>33. RefusedAlone'
    BY <1>2, <1>4 DEF Storing, Served, NoneStoring, Copy, OnlyServed, Clean, RefusedAlone
<1>34. DirtyAckShared'  BY <1>4 DEF DirtyAckShared
<1>35. LeavingPosted' /\ OneEvict' /\ AckedIsGone' /\ WriteServedAlone' /\ BankEmpty' /\
         VictimAlone' /\ ForwardOnce' /\ MemoryToken' /\ AskedToken' /\ OneDirty'
    BY LeavingPostedSame, OneEvictSame, AckedIsGoneSame, WriteServedAloneSame, BankEmptySame,
       VictimAloneSame, ForwardOnceSame, MemoryTokenSame, AskedTokenSame, OneDirtySame
<1> QED
    BY <1>1, <1>6, <1>7, <1>8, <1>9, <1>10, <1>11, <1>12, <1>13, <1>14, <1>15, <1>16, <1>17,
       <1>18, <1>19, <1>20, <1>21, <1>22, <1>23, <1>24, <1>25, <1>26, <1>27, <1>28, <1>29,
       <1>30, <1>31, <1>32, <1>33, <1>34, <1>35

(* The part NotifyBalance of the invariant after StoreReply. *)
LEMMA StoreReplyNotifyBalance ==
  ASSUME Setting, Inv, NEW c \in Cores, NEW m,
         StoreReply(c, m)
  PROVE  NotifyBalance'
<1>1. Storing(c) /\ m \in replies
    BY DEF postVars, serveVars, tokenVars, dirVars, Dir, NotifyTypes, ReadAckTypes,
       WriteAckTypes, GrantTypes, FetchTypes, DataTypes, Storing, Served, Take, Balance,
       StoreReply, IsAck, AckSent, TypeOK, ServedMiss, ReadReply, ReplyToken, ReadToken, Inv,
       Inv, Setting
<1>2. ~AckSent(c) /\ ~IsAck(m)
    BY <1>1 DEF postVars, serveVars, tokenVars, dirVars, Mem, Dir, NotifyTypes, ReadAckTypes,
       WriteAckTypes, GrantTypes, FetchTypes, DataTypes, Storing, Take, Balance, StoreReply,
       IsAck, AckSent, TypeOK, StoreReplyFor, Final, StoreReplies, FinalAlone, Inv, Inv, Setting
<1>3. \A y \in Cores : Served(y) => y = c
    BY <1>1 DEF postVars, serveVars, tokenVars, dirVars, NotifyTypes, GrantTypes, FetchTypes,
       DataTypes, Storing, Served, Take, Balance, StoreReply, TypeOK, WriteServedAlone, Inv,
       Inv, Setting
<1>4. m.type \notin NotifyTypes => m.outstanding = 0 /\ \E d \in Cores \cup {Mem} : Pays(m, d)
    BY <1>1, <1>2, <1>3 DEF Setting, Inv, postVars, serveVars, tokenVars, dirVars, Mem, Dir,
       NotifyTypes, GrantTypes, FetchTypes, DataTypes, Storing, Take, Balance, StoreReply,
       TypeOK, StoreReplyFor, Pays, StoreReplies
<1>5. Owing(c) \in SUBSET (Cores \cup {Mem})
    BY <1>1, <1>2, <1>3 DEF Setting, Inv, Mem, FetchTypes, Asked, Pays, AskedAny, Owes, Owing
<1>6. \A d \in Cores \cup {Mem} : m.type \notin NotifyTypes /\ Pays(m, d) => d \in Owing(c) /\
        Owing(c)' = Owing(c) \ {d}
    BY <1>1, <1>2, <1>3 DEF Setting, Inv, postVars, serveVars, tokenVars, dirVars, Mem, Dir,
       NotifyTypes, GrantTypes, FetchTypes, DataTypes, Storing, Take, Balance, StoreReply,
       Asked, TypeOK, StoreReplyFor, Pays, AskedAny, Owes, Owing, StoreReplies, PaidOnce
<1>7. m.type \notin NotifyTypes => Cardinality(Owing(c)') = Cardinality(Owing(c)) - 1
    BY <1>1, <1>2, <1>3, <1>4, <1>5, <1>6, Counting DEF Setting, Inv
<1>8. m.type \in NotifyTypes => Owing(c)' = Owing(c)
    BY <1>1, <1>2, <1>3 DEF Setting, Inv, postVars, serveVars, tokenVars, dirVars, Mem,
       NotifyTypes, GrantTypes, FetchTypes, DataTypes, Take, Balance, StoreReply, Asked, TypeOK,
       Pays, AskedAny, Owes, Owing
<1>9. Cardinality(Owing(c)) \in Nat /\ (Cardinality(Owing(c)) = 0 <=> Owing(c) = {})
    BY <1>1, <1>2, <1>3, <1>5, Counting DEF Setting, Inv
<1>10. Owing(c)' \in SUBSET (Cores \cup {Mem})
    BY <1>1, <1>2, <1>3 DEF Setting, Inv, Mem, FetchTypes, Asked, Pays, AskedAny, Owes, Owing
<1>11. Cardinality(Owing(c)') = 0 <=> Owing(c)' = {}
    BY <1>1, <1>2, <1>3, <1>10, Counting DEF Setting, Inv
<1>12. \A k \in replies' : k \in replies /\ k # m
    BY <1>1, <1>2, <1>3 DEF Setting, Inv, postVars, serveVars, tokenVars, dirVars, NotifyTypes,
       GrantTypes, FetchTypes, DataTypes, Take, Balance, StoreReply
<1>13. m.requester = c /\ balance'[c] = Balance(c, m) /\ m.outstanding \in Int /\ balance[c] \in
         Int /\ (\A k \in replies : k.outstanding \in Int)
    BY <1>1, <1>2, <1>3 DEF Setting, Inv, postVars, serveVars, tokenVars, dirVars, NotifyTypes,
       GrantTypes, FetchTypes, DataTypes, Take, StoreReply, TypeOK
<1>14. \A k \in replies' : Storing(k.requester)' => k.requester = c
    BY <1>1, <1>2, <1>3 DEF Setting, Inv, postVars, serveVars, tokenVars, dirVars, NotifyTypes,
       GrantTypes, FetchTypes, DataTypes, Storing, Served, Take, Balance, StoreReply, TypeOK
<1>15. m.type \in NotifyTypes => Balance(c, m) = balance[c] + m.outstanding
    BY <1>1, <1>2, <1>3 DEF Setting, Inv, NotifyTypes, Balance
<1>16. m.type \notin NotifyTypes => Balance(c, m) = balance[c] - 1
    BY <1>1, <1>2, <1>3, <1>4 DEF Setting, Inv, NotifyTypes, Balance
<1>17. Storing(c)' /\ Storing(c) /\ m \in replies /\ Balance(c, m) # 0
    BY <1>1, <1>2, <1>3 DEF Setting, Inv, postVars, serveVars, tokenVars, dirVars, GrantTypes,
       FetchTypes, DataTypes, Storing, Take, StoreReply
<1>18. m.type \in NotifyTypes => NotifyBalance'
    BY <1>1, <1>2, <1>3, <1>12, <1>13, <1>14, <1>17 DEF Setting, Inv, NotifyBalance
<1>19. m.type \notin NotifyTypes => NotifyBalance'
    BY <1>1, <1>2, <1>3, <1>7, <1>9, <1>12, <1>13, <1>14, <1>16, <1>17 DEF Setting, Inv,
       NotifyBalance
<1> QED  BY <1>1, <1>2, <1>3, <1>18, <1>19 DEF Setting, Inv

(* The part ToldBalance of the invariant after StoreReply. *)
LEMMA StoreReplyToldBalance ==
  ASSUME Setting, Inv, NEW c \in Cores, NEW m,
         StoreReply(c, m)
  PROVE  ToldBalance'
<1>1. Storing(c) /\ m \in replies
    BY DEF postVars, serveVars, tokenVars, dirVars, Dir, NotifyTypes, ReadAckTypes,
       WriteAckTypes, GrantTypes, FetchTypes, DataTypes, Storing, Served, Take, Balance,
       StoreReply, IsAck, AckSent, TypeOK, ServedMiss, ReadReply, ReplyToken, ReadToken, Inv,
       Inv, Setting
<1>2. ~AckSent(c) /\ ~IsAck(m)
    BY <1>1 DEF postVars, serveVars, tokenVars, dirVars, Mem, Dir, NotifyTypes, ReadAckTypes,
       WriteAckTypes, GrantTypes, FetchTypes, DataTypes, Storing, Take, Balance, StoreReply,
       IsAck, AckSent, TypeOK, StoreReplyFor, Final, StoreReplies, FinalAlone, Inv, Inv, Setting
<1>3. \A y \in Cores : Served(y) => y = c
    BY <1>1 DEF postVars, serveVars, tokenVars, dirVars, NotifyTypes, GrantTypes, FetchTypes,
       DataTypes, Storing, Served, Take, Balance, StoreReply, TypeOK, WriteServedAlone, Inv,
       Inv, Setting
<1>4. m.type \notin NotifyTypes => m.outstanding = 0 /\ \E d \in Cores \cup {Mem} : Pays(m, d)
    BY <1>1, <1>2, <1>3 DEF Setting, Inv, postVars, serveVars, tokenVars, dirVars, Mem, Dir,
       NotifyTypes, GrantTypes, FetchTypes, DataTypes, Storing, Take, Balance, StoreReply,
       TypeOK, StoreReplyFor, Pays, StoreReplies
<1>5. Owing(c) \in SUBSET (Cores \cup {Mem})
    BY <1>1, <1>2, <1>3 DEF Setting, Inv, Mem, FetchTypes, Asked, Pays, AskedAny, Owes, Owing
<1>6. \A d \in Cores \cup {Mem} : m.type \notin NotifyTypes /\ Pays(m, d) => d \in Owing(c) /\
        Owing(c)' = Owing(c) \ {d}
    BY <1>1, <1>2, <1>3 DEF Setting, Inv, postVars, serveVars, tokenVars, dirVars, Mem, Dir,
       NotifyTypes, GrantTypes, FetchTypes, DataTypes, Storing, Take, Balance, StoreReply,
       Asked, TypeOK, StoreReplyFor, Pays, AskedAny, Owes, Owing, StoreReplies, PaidOnce
<1>7. m.type \notin NotifyTypes => Cardinality(Owing(c)') = Cardinality(Owing(c)) - 1
    BY <1>1, <1>2, <1>3, <1>4, <1>5, <1>6, Counting DEF Setting, Inv
<1>8. m.type \in NotifyTypes => Owing(c)' = Owing(c)
    BY <1>1, <1>2, <1>3 DEF Setting, Inv, postVars, serveVars, tokenVars, dirVars, Mem,
       NotifyTypes, GrantTypes, FetchTypes, DataTypes, Take, Balance, StoreReply, Asked, TypeOK,
       Pays, AskedAny, Owes, Owing
<1>9. Cardinality(Owing(c)) \in Nat /\ (Cardinality(Owing(c)) = 0 <=> Owing(c) = {})
    BY <1>1, <1>2, <1>3, <1>5, Counting DEF Setting, Inv
<1>10. Owing(c)' \in SUBSET (Cores \cup {Mem})
    BY <1>1, <1>2, <1>3 DEF Setting, Inv, Mem, FetchTypes, Asked, Pays, AskedAny, Owes, Owing
<1>11. Cardinality(Owing(c)') = 0 <=> Owing(c)' = {}
    BY <1>1, <1>2, <1>3, <1>10, Counting DEF Setting, Inv
<1>12. \A k \in replies' : k \in replies /\ k # m
    BY <1>1, <1>2, <1>3 DEF Setting, Inv, postVars, serveVars, tokenVars, dirVars, NotifyTypes,
       GrantTypes, FetchTypes, DataTypes, Take, Balance, StoreReply
<1>13. m.requester = c /\ balance'[c] = Balance(c, m) /\ m.outstanding \in Int /\ balance[c] \in
         Int /\ (\A k \in replies : k.outstanding \in Int)
    BY <1>1, <1>2, <1>3 DEF Setting, Inv, postVars, serveVars, tokenVars, dirVars, NotifyTypes,
       GrantTypes, FetchTypes, DataTypes, Take, StoreReply, TypeOK
<1>14. \A k \in replies' : Storing(k.requester)' => k.requester = c
    BY <1>1, <1>2, <1>3 DEF Setting, Inv, postVars, serveVars, tokenVars, dirVars, NotifyTypes,
       GrantTypes, FetchTypes, DataTypes, Storing, Served, Take, Balance, StoreReply, TypeOK
<1>15. m.type \in NotifyTypes => Balance(c, m) = balance[c] + m.outstanding
    BY <1>1, <1>2, <1>3 DEF Setting, Inv, NotifyTypes, Balance
<1>16. m.type \notin NotifyTypes => Balance(c, m) = balance[c] - 1
    BY <1>1, <1>2, <1>3, <1>4 DEF Setting, Inv, NotifyTypes, Balance
<1>17. Storing(c)' /\ Storing(c) /\ m \in replies /\ Balance(c, m) # 0
    BY <1>1, <1>2, <1>3 DEF Setting, Inv, postVars, serveVars, tokenVars, dirVars, GrantTypes,
       FetchTypes, DataTypes, Storing, Take, StoreReply
<1>18. \A r \in Cores : Storing(r)' => r = c
    BY <1>1, <1>2, <1>3 DEF Setting, Inv, postVars, serveVars, tokenVars, dirVars, NotifyTypes,
       GrantTypes, FetchTypes, DataTypes, Storing, Served, Take, Balance, StoreReply
<1>19. m.type \in NotifyTypes => balance'[c] = Cardinality(Owing(c)')
    BY <1>1, <1>2, <1>3, <1>8, <1>13, <1>15, <1>17 DEF Setting, Inv, NotifyBalance
<1>20. Told(c)' /\ m.type \notin NotifyTypes => Told(c)
    BY <1>1, <1>2, <1>3, <1>4 DEF Setting, Inv, postVars, serveVars, tokenVars, dirVars,
       NotifyTypes, ReadAckTypes, WriteAckTypes, GrantTypes, FetchTypes, DataTypes, Take,
       Balance, StoreReply, IsAck, Final, Told
<1>21. Told(c)' => balance'[c] = Cardinality(Owing(c)')
    BY <1>1, <1>2, <1>3, <1>7, <1>9, <1>13, <1>16, <1>17, <1>19, <1>20 DEF Setting, Inv,
       ToldBalance
<1>22. Told(c)' => Owing(c)' # {}
    BY <1>1, <1>2, <1>3, <1>11, <1>13, <1>17, <1>21 DEF Setting, Inv
<1> QED  BY <1>1, <1>2, <1>3, <1>18, <1>21, <1>22 DEF Setting, Inv, ToldBalance

(* A reply to a store that is not its last one. The invariant holds *)
(* after it.                                                        *)
LEMMA StoreReplyKeeps ==
  ASSUME Setting, Inv, NEW c \in Cores, NEW m,
         StoreReply(c, m)
  PROVE  Inv'
<1>1. NotifyBalance'  BY StoreReplyNotifyBalance
<1>2. ToldBalance'  BY StoreReplyToldBalance
<1> USE DEF Setting, Inv, TypeOK, postVars, serveVars, tokenVars, dirVars, NotifyTypes,
       GrantTypes, FetchTypes, DataTypes, Take, Balance, StoreReply
<1>3. Storing(c) /\ m \in replies
    BY DEF Dir, ReadAckTypes, WriteAckTypes, Storing, Served, IsAck, AckSent, ServedMiss,
       ReadReply, ReplyToken, ReadToken
<1>4. ~AckSent(c) /\ ~IsAck(m)
    BY <1>3 DEF Mem, Dir, ReadAckTypes, WriteAckTypes, Storing, IsAck, AckSent, StoreReplyFor,
       Final, StoreReplies, FinalAlone
<1>5. c \notin leaving /\ c \notin reads /\ c \notin writes /\ c \notin upgrades
    BY <1>3, <1>4 DEF ReadAckTypes, WriteAckTypes, Storing, Served, IsAck, AckSent, LeavingCopy,
       Posted, PostedServed
<1>6. \A y \in Cores : Served(y) => y = c  BY <1>3 DEF Storing, Served, WriteServedAlone
<1>7. c \notin reading /\ \A y \in Cores : y \notin reading
    BY <1>3 DEF Storing, Served, WriteServedAlone
<1>8. TypeOK'  OBVIOUS
<1>9. LeavingCopy'  BY DEF LeavingCopy
<1>10. DirtyPosted'  BY <1>5 DEF LeavingPosted, DirtyPosted
<1>11. LoadHasNone'  BY DEF LoadHasNone
<1>12. PostedMiss'  BY <1>5 DEF PostedMiss
<1>13. PostedServed'
    BY <1>4, <1>5 DEF ReadAckTypes, WriteAckTypes, Storing, Served, IsAck, AckSent, Posted,
       PostedServed
<1>14. ServedMiss'
    BY <1>3, <1>4 DEF ReadAckTypes, WriteAckTypes, Storing, IsAck, AckSent, ServedMiss
<1>15. AckHasCopy'  BY DEF ReadAckTypes, WriteAckTypes, IsAck, AckHasCopy
<1>16. FilledWriting'
    BY <1>3, <1>4 DEF ReadAckTypes, WriteAckTypes, Storing, IsAck, AckSent, FilledWriting,
       DataComing, UpgradeData
<1>17. BalanceZero'
    BY <1>3, <1>4 DEF ReadAckTypes, WriteAckTypes, Storing, IsAck, AckSent, BalanceZero
<1>18. ForwardToken'  BY DEF Forwarded, ForwardToken
<1>19. ReplyToken'  BY DEF Storing, Served, ReplyToken
<1>20. ReadToken'  BY DEF Dir, ReadAckTypes, ReadReply, ReadToken
<1>21. StoreReplies'  BY DEF Mem, Dir, Storing, StoreReplyFor, StoreReplies
<1>22. PaidOnce'  BY DEF Mem, Storing, Asked, Pays, AskedAny, PaidOnce
<1>23. FinalAlone'  BY DEF ReadAckTypes, WriteAckTypes, Storing, IsAck, Final, FinalAlone
<1>24. WriteData'
    BY <1>3, <1>4 DEF Mem, Dir, ReadAckTypes, WriteAckTypes, Storing, IsAck, AckSent,
       StoreReplyFor, StoreReplies, DataComing, WriteData
<1>25. UpgradeData'  BY DEF DataComing, UpgradeData
<1>26. CopyCovered'  BY <1>3 DEF Storing, NoneStoring, Copy, CopyCovered
<1>27. SharerHasCopy'  BY <1>3 DEF Storing, NoneStoring, GrantComing, SharerHasCopy
<1>28. CopyAsked'  BY <1>6 DEF Storing, Served, Copy, Asked, CopyAsked
<1>29. SnoopFindsCopy'  BY <1>3 DEF Storing, Asked, AskedToken, SnoopFindsCopy
<1>30. ForwardFindsCopy'  BY DEF ForwardFindsCopy
<1>31. OwnerAlone'
    BY <1>3 DEF Storing, Served, NoneStoring, Copy, Forwarded, OnlyServed, Clean, GrantComing,
       Owner, Sole, OwnerAlone
<1>32. WriterAlone'  BY <1>6 DEF Storing, Served, Copy, WriterAlone
<1>33. HeldAlone'
    BY <1>7 DEF Storing, Served, Copy, Forwarded, OnlyServed, Clean, ForwardToken, Waits,
       HeldAlone
<1>34. RefusedAlone'
    BY <1>3, <1>6 DEF Mem, Dir, Storing, Served, Copy, OnlyServed, Clean, ReplyToken,
       StoreReplyFor, StoreReplies, RefusedAlone
<1>35. DirtyAckShared'
    BY <1>3, <1>6 DEF Mem, Dir, Storing, Served, ReplyToken, StoreReplyFor, StoreReplies,
       DirtyAckShared
<1>36. LeavingPosted' /\ OneEvict' /\ AckedIsGone' /\ WriteServedAlone' /\ BankEmpty' /\
         VictimAlone' /\ ForwardOnce' /\ MemoryToken' /\ AskedToken' /\ OneDirty'
    BY LeavingPostedSame, OneEvictSame, AckedIsGoneSame, WriteServedAloneSame, BankEmptySame,
       VictimAloneSame, ForwardOnceSame, MemoryTokenSame, AskedTokenSame, OneDirtySame
<1> QED
    BY <1>1, <1>2, <1>8, <1>9, <1>10, <1>11, <1>12, <1>13, <1>14, <1>15, <1>16, <1>17, <1>18,
       <1>19, <1>20, <1>21, <1>22, <1>23, <1>24, <1>25, <1>26, <1>27, <1>28, <1>29, <1>30,
       <1>31, <1>32, <1>33, <1>34, <1>35, <1>36

(* The last reply to a store is the last token of the store. *)
LEMMA StoreDoneLast ==
  ASSUME Setting, Inv, NEW c \in Cores, NEW m, NEW n,
         StoreDone(c, m, n)
  PROVE  fetches = {} /\ invals = {} /\ c \notin atMemory /\ \A k \in replies : k.requester = c
           => k = m
<1>1. m \in replies /\ m.dest = c /\ miss[c] = "Store" /\ Balance(c, m) = 0
  BY DEF StoreDone, Swap
<1> QED  BY <1>1, StoreEnds

(* The part StoreReplies of the invariant after StoreDone. *)
LEMMA StoreDoneStoreReplies ==
  ASSUME Setting, Inv, NEW c \in Cores, NEW m, NEW n,
         StoreDone(c, m, n)
  PROVE  StoreReplies'
<1>1. Storing(c) /\ m \in replies
    BY DEF postVars, serveVars, tokenVars, dirVars, Dir, NotifyTypes, ReadAckTypes,
       WriteAckTypes, GrantTypes, FetchTypes, DataTypes, Storing, Served, Is, Swap, MissOver,
       Balance, HasData, StoreDone, IsAck, AckSent, TypeOK, ServedMiss, ReadReply, ReplyToken,
       ReadToken, Inv, Inv, Setting
<1>2. ~AckSent(c) /\ ~IsAck(m)
    BY <1>1 DEF postVars, serveVars, tokenVars, dirVars, Mem, Dir, NotifyTypes, ReadAckTypes,
       WriteAckTypes, GrantTypes, FetchTypes, DataTypes, Storing, Is, Swap, MissOver, Balance,
       HasData, StoreDone, IsAck, AckSent, TypeOK, StoreReplyFor, Final, StoreReplies,
       FinalAlone, Inv, Inv, Setting
<1>3. \A y \in Cores : Served(y) => y = c
    BY <1>1 DEF postVars, serveVars, tokenVars, dirVars, Dir, NotifyTypes, GrantTypes,
       FetchTypes, DataTypes, Storing, Served, Is, Swap, MissOver, Balance, HasData, StoreDone,
       TypeOK, WriteServedAlone, Inv, Inv, Setting
<1>4. fetches = {} /\ invals = {} /\ c \notin atMemory /\ \A k \in replies : k.requester = c =>
        k = m
  BY StoreDoneLast
<1> QED
    BY <1>1, <1>2, <1>3, <1>4 DEF Setting, Inv, postVars, serveVars, tokenVars, dirVars, Mem,
       Dir, NotifyTypes, ReadAckTypes, WriteAckTypes, GrantTypes, FetchTypes, DataTypes,
       Storing, Served, Is, Swap, MissOver, Balance, HasData, StoreDone, IsAck, AckSent, TypeOK,
       FilledWriting, StoreReplyFor, StoreReplies, DataComing, WriteData, UpgradeData

(* The part FinalAlone of the invariant after StoreDone. *)
LEMMA StoreDoneFinalAlone ==
  ASSUME Setting, Inv, NEW c \in Cores, NEW m, NEW n,
         StoreDone(c, m, n)
  PROVE  FinalAlone'
<1>1. Storing(c) /\ m \in replies
    BY DEF postVars, serveVars, tokenVars, dirVars, Dir, NotifyTypes, ReadAckTypes,
       WriteAckTypes, GrantTypes, FetchTypes, DataTypes, Storing, Served, Is, Swap, MissOver,
       Balance, HasData, StoreDone, IsAck, AckSent, TypeOK, ServedMiss, ReadReply, ReplyToken,
       ReadToken, Inv, Inv, Setting
<1>2. ~AckSent(c) /\ ~IsAck(m)
    BY <1>1 DEF postVars, serveVars, tokenVars, dirVars, Mem, Dir, NotifyTypes, ReadAckTypes,
       WriteAckTypes, GrantTypes, FetchTypes, DataTypes, Storing, Is, Swap, MissOver, Balance,
       HasData, StoreDone, IsAck, AckSent, TypeOK, StoreReplyFor, Final, StoreReplies,
       FinalAlone, Inv, Inv, Setting
<1>3. \A y \in Cores : Served(y) => y = c
    BY <1>1 DEF postVars, serveVars, tokenVars, dirVars, Dir, NotifyTypes, GrantTypes,
       FetchTypes, DataTypes, Storing, Served, Is, Swap, MissOver, Balance, HasData, StoreDone,
       TypeOK, WriteServedAlone, Inv, Inv, Setting
<1>4. fetches = {} /\ invals = {} /\ c \notin atMemory /\ \A k \in replies : k.requester = c =>
        k = m
  BY StoreDoneLast
<1> QED
    BY <1>1, <1>2, <1>3, <1>4 DEF Setting, Inv, postVars, serveVars, tokenVars, dirVars, Dir,
       NotifyTypes, ReadAckTypes, WriteAckTypes, GrantTypes, FetchTypes, DataTypes, Storing,
       Served, Is, Swap, MissOver, Balance, HasData, StoreDone, IsAck, TypeOK, Final, FinalAlone

(* The part NotifyBalance of the invariant after StoreDone. *)
LEMMA StoreDoneNotifyBalance ==
  ASSUME Setting, Inv, NEW c \in Cores, NEW m, NEW n,
         StoreDone(c, m, n)
  PROVE  NotifyBalance'
<1>1. Storing(c) /\ m \in replies
    BY DEF postVars, serveVars, tokenVars, dirVars, Dir, NotifyTypes, ReadAckTypes,
       WriteAckTypes, GrantTypes, FetchTypes, DataTypes, Storing, Served, Is, Swap, MissOver,
       Balance, HasData, StoreDone, IsAck, AckSent, TypeOK, ServedMiss, ReadReply, ReplyToken,
       ReadToken, Inv, Inv, Setting
<1>2. ~AckSent(c) /\ ~IsAck(m)
    BY <1>1 DEF postVars, serveVars, tokenVars, dirVars, Mem, Dir, NotifyTypes, ReadAckTypes,
       WriteAckTypes, GrantTypes, FetchTypes, DataTypes, Storing, Is, Swap, MissOver, Balance,
       HasData, StoreDone, IsAck, AckSent, TypeOK, StoreReplyFor, Final, StoreReplies,
       FinalAlone, Inv, Inv, Setting
<1>3. \A y \in Cores : Served(y) => y = c
    BY <1>1 DEF postVars, serveVars, tokenVars, dirVars, Dir, NotifyTypes, GrantTypes,
       FetchTypes, DataTypes, Storing, Served, Is, Swap, MissOver, Balance, HasData, StoreDone,
       TypeOK, WriteServedAlone, Inv, Inv, Setting
<1>4. fetches = {} /\ invals = {} /\ c \notin atMemory /\ \A k \in replies : k.requester = c =>
        k = m
  BY StoreDoneLast
<1> QED
    BY <1>1, <1>2, <1>3, <1>4 DEF Setting, Inv, postVars, serveVars, tokenVars, dirVars, Mem,
       Dir, NotifyTypes, GrantTypes, FetchTypes, DataTypes, Storing, Served, Is, Swap, MissOver,
       Balance, HasData, StoreDone, Asked, TypeOK, Pays, AskedAny, Owes, Owing, NotifyBalance

(* The last reply to a store: it is performed and acknowledged. The *)
(* invariant holds after it.                                        *)
LEMMA StoreDoneKeeps ==
  ASSUME Setting, Inv, NEW c \in Cores, NEW m, NEW n,
         StoreDone(c, m, n)
  PROVE  Inv'
<1>1. fetches = {} /\ invals = {} /\ c \notin atMemory /\ \A k \in replies : k.requester = c =>
        k = m
    BY StoreDoneLast
<1>2. StoreReplies'  BY StoreDoneStoreReplies
<1>3. FinalAlone'  BY StoreDoneFinalAlone
<1>4. NotifyBalance'  BY StoreDoneNotifyBalance
<1> USE DEF Setting, Inv, TypeOK, postVars, serveVars, tokenVars, dirVars, Dir, NotifyTypes,
       GrantTypes, FetchTypes, DataTypes, Is, Swap, MissOver, Balance, HasData, StoreDone
<1>5. Storing(c) /\ m \in replies
    BY DEF ReadAckTypes, WriteAckTypes, Storing, Served, IsAck, AckSent, ServedMiss, ReadReply,
       ReplyToken, ReadToken
<1>6. ~AckSent(c) /\ ~IsAck(m)
    BY <1>5 DEF Mem, ReadAckTypes, WriteAckTypes, Storing, IsAck, AckSent, StoreReplyFor, Final,
       StoreReplies, FinalAlone
<1>7. c \notin leaving /\ c \notin reads /\ c \notin writes /\ c \notin upgrades
    BY <1>5, <1>6 DEF ReadAckTypes, WriteAckTypes, Storing, Served, IsAck, AckSent, LeavingCopy,
       Posted, PostedServed
<1>8. \A y \in Cores : Served(y) => y = c  BY <1>5 DEF Storing, Served, WriteServedAlone
<1>9. c \notin reading /\ \A y \in Cores : y \notin reading
    BY <1>5 DEF Storing, Served, WriteServedAlone
<1>10. TypeOK'  OBVIOUS
<1>11. LeavingCopy'  BY DEF LeavingCopy
<1>12. DirtyPosted'  BY <1>7 DEF LeavingPosted, DirtyPosted
<1>13. LoadHasNone'  BY DEF LoadHasNone
<1>14. PostedMiss'  BY <1>7 DEF PostedMiss
<1>15. PostedServed'
    BY DEF ReadAckTypes, WriteAckTypes, Storing, Served, IsAck, AckSent, Posted, PostedServed
<1>16. ServedMiss'  BY DEF ReadAckTypes, WriteAckTypes, Storing, IsAck, AckSent, ServedMiss
<1>17. AckHasCopy'  BY DEF ReadAckTypes, WriteAckTypes, IsAck, AckHasCopy
<1>18. FilledWriting'  BY DEF ReadAckTypes, WriteAckTypes, IsAck, FilledWriting
<1>19. BalanceZero'  BY DEF ReadAckTypes, WriteAckTypes, Storing, IsAck, BalanceZero
<1>20. ForwardToken'  BY DEF Forwarded, ForwardToken
<1>21. ReplyToken'  BY DEF Storing, Served, ReplyToken
<1>22. ReadToken'  BY <1>9 DEF ReadAckTypes, ReadReply, ReadToken
<1>23. PaidOnce'  BY DEF Mem, Storing, Asked, Pays, AskedAny, PaidOnce
<1>24. ToldBalance'
    BY <1>5, <1>8 DEF Mem, ReadAckTypes, WriteAckTypes, Storing, Served, Asked, IsAck, Pays,
       AskedAny, Owes, Owing, Final, Told, ToldBalance
<1>25. WriteData'
    BY <1>5, <1>8 DEF ReadAckTypes, WriteAckTypes, Storing, Served, IsAck, AckSent, DataComing,
       WriteData
<1>26. UpgradeData'  BY <1>5, <1>8 DEF Storing, Served, DataComing, UpgradeData
<1>27. CopyCovered'  BY <1>5 DEF Storing, NoneStoring, Copy, CopyCovered
<1>28. SharerHasCopy'  BY <1>5 DEF Storing, NoneStoring, GrantComing, SharerHasCopy
<1>29. CopyAsked'  BY <1>8 DEF Storing, Served, Copy, Asked, CopyAsked
<1>30. SnoopFindsCopy'  BY <1>5 DEF Storing, Asked, AskedToken, SnoopFindsCopy
<1>31. ForwardFindsCopy'  BY DEF ForwardFindsCopy
<1>32. OwnerAlone'
    BY <1>5 DEF Storing, Served, NoneStoring, Copy, Forwarded, OnlyServed, Clean, GrantComing,
       Owner, Sole, OwnerAlone
<1>33. WriterAlone'  BY <1>8 DEF Storing, Served, Copy, WriterAlone
<1>34. HeldAlone'
    BY <1>9 DEF Storing, Served, Copy, Forwarded, OnlyServed, Clean, ForwardToken, Waits,
       HeldAlone
<1>35. RefusedAlone'
    BY <1>5, <1>8 DEF Mem, Storing, Served, Copy, OnlyServed, Clean, ReplyToken, StoreReplyFor,
       StoreReplies, RefusedAlone
<1>36. DirtyAckShared'
    BY <1>5, <1>8 DEF Mem, Storing, Served, ReplyToken, StoreReplyFor, StoreReplies,
       DirtyAckShared
<1>37. LeavingPosted' /\ OneEvict' /\ AckedIsGone' /\ WriteServedAlone' /\ BankEmpty' /\
         VictimAlone' /\ ForwardOnce' /\ MemoryToken' /\ AskedToken' /\ OneDirty'
    BY LeavingPostedSame, OneEvictSame, AckedIsGoneSame, WriteServedAloneSame, BankEmptySame,
       VictimAloneSame, ForwardOnceSame, MemoryTokenSame, AskedTokenSame, OneDirtySame
<1> QED
    BY <1>2, <1>3, <1>4, <1>10, <1>11, <1>12, <1>13, <1>14, <1>15, <1>16, <1>17, <1>18, <1>19,
       <1>20, <1>21, <1>22, <1>23, <1>24, <1>25, <1>26, <1>27, <1>28, <1>29, <1>30, <1>31,
       <1>32, <1>33, <1>34, <1>35, <1>36, <1>37

(* A read forwarded to the only sharer is the only request served. *)
LEMMA ReadForwardAlone ==
  ASSUME Setting, Inv, NEW c \in Cores, NEW d \in Cores,
         ReadForward(c, d)
  PROVE  (\A e \in sharers : e = d) => NoneServed
<1>1. (\A e \in sharers : e = d) => sharers = {d}
    BY DEF Setting, Inv, l1Vars, Storing, Served, NoneStoring, NoneServed, Current, OneSharer,
       StartRead, ReadForward
<1>2. Cardinality({d}) = 1  BY FS_Singleton DEF Setting, Inv
<1>3. sharers = {d} => OneSharer  BY <1>2 DEF Setting, Inv, OneSharer
<1> QED
    BY <1>1, <1>3 DEF Setting, Inv, l1Vars, Storing, Served, NoneStoring, Current, StartRead,
       ReadForward

(* The directory forwards a read to a sharer. The invariant holds after *)
(* it.                                                                  *)
LEMMA ReadForwardKeeps ==
  ASSUME Setting, Inv, NEW c \in Cores, NEW d \in Cores,
         ReadForward(c, d)
  PROVE  Inv'
<1>1. (\A e \in sharers : e = d) => NoneServed  BY ReadForwardAlone
<1> USE DEF Setting, Inv, TypeOK, l1Vars, Storing, Served, NoneStoring, NoneServed, Current,
       OneSharer, StartRead, ReadForward
<1>2. ~Served(c)
    BY DEF ReadAckTypes, WriteAckTypes, IsAck, AckSent, Posted, LoadHasNone, PostedMiss,
       PostedServed, AckHasCopy
<1>3. copy[c] = "I" /\ miss[c] = "Load" /\ c \notin writes /\ c \notin upgrades
    BY DEF LoadHasNone, PostedMiss
<1>4. c \notin atMemory /\ (\A k \in replies : k.requester # c) /\ \A e \in Cores :
        ~Forwarded(c, e)
    BY <1>2 DEF Forwarded, ForwardToken, MemoryToken, ReplyToken
<1>5. c \notin sharers  BY <1>2, <1>3 DEF GrantTypes, GrantComing, SharerHasCopy
<1>6. c \notin leaving /\ c \notin evictAcks  BY <1>3 DEF LeavingPosted, LeavingCopy
<1>7. TypeOK'  OBVIOUS
<1>8. AckedIsGone'  BY <1>6 DEF Asked, AckedIsGone
<1>9. PostedMiss'  BY DEF PostedMiss
<1>10. PostedServed'
    BY <1>3 DEF ReadAckTypes, WriteAckTypes, IsAck, AckSent, Posted, PostedServed
<1>11. ServedMiss'  BY <1>3 DEF ReadAckTypes, WriteAckTypes, IsAck, AckSent, ServedMiss
<1>12. WriteServedAlone'  BY DEF WriteServedAlone
<1>13. VictimAlone'  BY DEF VictimAlone
<1>14. ForwardToken'  BY <1>2, <1>4, <1>5 DEF Forwarded, ForwardToken
<1>15. ForwardOnce'  BY <1>4 DEF Forwarded, ForwardOnce
<1>16. MemoryToken'  BY DEF MemoryToken
<1>17. ReplyToken'  BY DEF ReplyToken
<1>18. ReadToken'
    BY <1>4 DEF Dir, ReadAckTypes, GrantTypes, Forwarded, ReadReply, ReadToken
<1>19. CopyCovered'  BY DEF Copy, CopyCovered
<1>20. SharerHasCopy'  BY DEF GrantTypes, GrantComing, SharerHasCopy
<1>21. ForwardFindsCopy'
    BY <1>1 DEF GrantTypes, Copy, Forwarded, OnlyServed, Clean, ForwardFindsCopy, GrantComing,
       SharerHasCopy, Owner, Sole, OwnerAlone
<1>22. OwnerAlone'
    BY <1>3, <1>4, <1>1 DEF GrantTypes, Copy, Forwarded, OnlyServed, Clean, GrantComing, Owner,
       Sole, OwnerAlone
<1>23. HeldAlone'
    BY <1>3, <1>4, <1>1 DEF GrantTypes, Copy, Forwarded, OnlyServed, Clean, ForwardToken,
       GrantComing, Owner, Sole, OwnerAlone, Waits, HeldAlone
<1>24. RefusedAlone'  BY DEF Copy, OnlyServed, Clean, RefusedAlone
<1>25. OneDirty'  BY DEF OneDirty
<1>26. LeavingPosted' /\ LeavingCopy' /\ OneEvict' /\ DirtyPosted' /\ LoadHasNone' /\
         AckHasCopy' /\ FilledWriting' /\ BalanceZero' /\ BankEmpty' /\ AskedToken' /\
         StoreReplies' /\ PaidOnce' /\ FinalAlone' /\ NotifyBalance' /\ ToldBalance' /\
         WriteData' /\ UpgradeData' /\ CopyAsked' /\ SnoopFindsCopy' /\ WriterAlone' /\
         DirtyAckShared'
    BY LeavingPostedSame, LeavingCopySame, OneEvictSame, DirtyPostedSame, LoadHasNoneSame,
       AckHasCopySame, FilledWritingSame, BalanceZeroSame, BankEmptySame, AskedTokenSame,
       StoreRepliesSame, PaidOnceSame, FinalAloneSame, NotifyBalanceSame, ToldBalanceSame,
       WriteDataSame, UpgradeDataSame, CopyAskedSame, SnoopFindsCopySame, WriterAloneSame,
       DirtyAckSharedSame
<1> QED
    BY <1>7, <1>8, <1>9, <1>10, <1>11, <1>12, <1>13, <1>14, <1>15, <1>16, <1>17, <1>18, <1>19,
       <1>20, <1>21, <1>22, <1>23, <1>24, <1>25, <1>26

(* A single sharer is what OneSharer counts. *)
LEMMA ReadSupplyOne ==
  ASSUME Setting, Inv, NEW c \in Cores, NEW m,
         ReadSupply(c, m)
  PROVE  (\E y \in Cores : sharers = {y}) => OneSharer
<1>1. ASSUME NEW y \in Cores, sharers = {y} PROVE Cardinality(sharers) = 1
    BY <1>1, FS_Singleton DEF Setting, Inv
<1> QED  BY <1>1 DEF Setting, Inv, OneSharer

(* The L2 answers a read from its own copy. The invariant holds after *)
(* it.                                                                *)
LEMMA ReadSupplyKeeps ==
  ASSUME Setting, Inv, NEW c \in Cores, NEW m,
         ReadSupply(c, m)
  PROVE  Inv'
<1>1. (\E y \in Cores : sharers = {y}) => OneSharer  BY ReadSupplyOne
<1> USE DEF Setting, Inv, TypeOK, l1Vars, Dir, Storing, Served, NoneStoring, NoneServed, Is,
       Send, Current, OneSharer, StartRead, ReadSupply
<1>2. ~Served(c)
    BY DEF ReadAckTypes, WriteAckTypes, IsAck, AckSent, Posted, LoadHasNone, PostedMiss,
       PostedServed, AckHasCopy
<1>3. copy[c] = "I" /\ miss[c] = "Load" /\ c \notin writes /\ c \notin upgrades
    BY DEF LoadHasNone, PostedMiss
<1>4. c \notin atMemory /\ (\A k \in replies : k.requester # c) /\ \A e \in Cores :
        ~Forwarded(c, e)
    BY <1>2 DEF Forwarded, ForwardToken, MemoryToken, ReplyToken
<1>5. c \notin sharers  BY <1>2, <1>3 DEF GrantTypes, GrantComing, SharerHasCopy
<1>6. c \notin leaving /\ c \notin evictAcks  BY <1>3 DEF LeavingPosted, LeavingCopy
<1>7. TypeOK'  OBVIOUS
<1>8. AckedIsGone'  BY <1>6 DEF Asked, AckedIsGone
<1>9. PostedMiss'  BY DEF PostedMiss
<1>10. PostedServed'
    BY <1>3 DEF ReadAckTypes, WriteAckTypes, IsAck, AckSent, Posted, PostedServed
<1>11. ServedMiss'  BY <1>3 DEF ReadAckTypes, WriteAckTypes, IsAck, AckSent, ServedMiss
<1>12. AckHasCopy'  BY DEF ReadAckTypes, WriteAckTypes, IsAck, AckHasCopy
<1>13. FilledWriting'  BY DEF ReadAckTypes, WriteAckTypes, IsAck, FilledWriting
<1>14. BalanceZero'  BY DEF ReadAckTypes, WriteAckTypes, IsAck, BalanceZero
<1>15. WriteServedAlone'  BY DEF WriteServedAlone
<1>16. BankEmpty'  BY DEF BankEmpty
<1>17. VictimAlone'  BY DEF VictimAlone
<1>18. ForwardToken'  BY <1>4 DEF Forwarded, ForwardToken
<1>19. MemoryToken'  BY DEF MemoryToken
<1>20. ReplyToken'  BY DEF ReplyToken
<1>21. ReadToken'  BY <1>4 DEF ReadAckTypes, GrantTypes, Forwarded, ReadReply, ReadToken
<1>22. StoreReplies'
    BY DEF Mem, NotifyTypes, GrantTypes, FetchTypes, StoreReplyFor, StoreReplies
<1>23. PaidOnce'  BY DEF Mem, FetchTypes, Asked, Pays, AskedAny, PaidOnce
<1>24. FinalAlone'  BY DEF ReadAckTypes, WriteAckTypes, IsAck, Final, FinalAlone
<1>25. NotifyBalance'
    BY DEF Mem, NotifyTypes, FetchTypes, Asked, Pays, AskedAny, Owes, Owing, NotifyBalance
<1>26. ToldBalance'
    BY DEF Mem, NotifyTypes, ReadAckTypes, WriteAckTypes, FetchTypes, Asked, IsAck, Pays,
       AskedAny, Owes, Owing, Final, Told, ToldBalance
<1>27. WriteData'
    BY DEF ReadAckTypes, WriteAckTypes, GrantTypes, FetchTypes, DataTypes, IsAck, AckSent,
       DataComing, WriteData
<1>28. UpgradeData'  BY DEF GrantTypes, FetchTypes, DataTypes, DataComing, UpgradeData
<1>29. CopyCovered'  BY DEF Copy, CopyCovered
<1>30. SharerHasCopy'  BY <1>4 DEF GrantTypes, Forwarded, GrantComing, SharerHasCopy
<1>31. OwnerAlone'
    BY <1>3, <1>4, <1>1 DEF GrantTypes, Copy, Forwarded, OnlyServed, Clean, CopyCovered,
       GrantComing, Owner, Sole, OwnerAlone
<1>32. HeldAlone'
    BY <1>1, <1>4 DEF GrantTypes, Copy, Forwarded, OnlyServed, Clean, ForwardToken, GrantComing,
       Owner, Sole, OwnerAlone, Waits, HeldAlone
<1>33. RefusedAlone'  BY DEF Copy, OnlyServed, Clean, ReplyToken, RefusedAlone
<1>34. DirtyAckShared'  BY DEF DirtyAckShared
<1>35. OneDirty'  BY DEF OneDirty
<1>36. LeavingPosted' /\ LeavingCopy' /\ OneEvict' /\ DirtyPosted' /\ LoadHasNone' /\
         ForwardOnce' /\ AskedToken' /\ CopyAsked' /\ SnoopFindsCopy' /\
         ForwardFindsCopy' /\ WriterAlone'
    BY LeavingPostedSame, LeavingCopySame, OneEvictSame, DirtyPostedSame, LoadHasNoneSame,
       ForwardOnceSame, AskedTokenSame, CopyAskedSame, SnoopFindsCopySame, ForwardFindsCopySame,
       WriterAloneSame
<1> QED
    BY <1>7, <1>8, <1>9, <1>10, <1>11, <1>12, <1>13, <1>14, <1>15, <1>16, <1>17, <1>18, <1>19,
       <1>20, <1>21, <1>22, <1>23, <1>24, <1>25, <1>26, <1>27, <1>28, <1>29, <1>30, <1>31,
       <1>32, <1>33, <1>34, <1>35, <1>36

(* The L2 drops its copy while a read has to wait. The invariant holds *)
(* after it.                                                           *)
LEMMA DropKeeps ==
  ASSUME Setting, Inv,
         Drop
  PROVE  Inv'
<1> USE DEF Setting, Inv, TypeOK, l1Vars, postVars, serveVars, tokenVars, Storing, Served,
       NoneServed, Drop
<1>1. TypeOK'  OBVIOUS
<1>2. BankEmpty'  BY DEF BankEmpty
<1>3. VictimAlone'  BY DEF VictimAlone
<1>4. SharerHasCopy'  BY DEF GrantTypes, NoneStoring, GrantComing, SharerHasCopy
<1>5. OwnerAlone'
    BY DEF GrantTypes, NoneStoring, Copy, Forwarded, OnlyServed, Clean, GrantComing, Owner,
       Sole, OwnerAlone
<1>6. HeldAlone'  BY DEF Copy, OnlyServed, Clean, Waits, HeldAlone
<1>7. RefusedAlone'  BY DEF Copy, OnlyServed, Clean, RefusedAlone
<1>8. LeavingPosted' /\ LeavingCopy' /\ OneEvict' /\ AckedIsGone' /\ DirtyPosted' /\
        LoadHasNone' /\ PostedMiss' /\ PostedServed' /\ ServedMiss' /\ AckHasCopy' /\
        FilledWriting' /\ BalanceZero' /\ WriteServedAlone' /\ ForwardToken' /\
        ForwardOnce' /\ MemoryToken' /\ ReplyToken' /\ ReadToken' /\ AskedToken' /\
        StoreReplies' /\ PaidOnce' /\ FinalAlone' /\ NotifyBalance' /\ ToldBalance' /\
        WriteData' /\ UpgradeData' /\ CopyCovered' /\ CopyAsked' /\ SnoopFindsCopy' /\
        ForwardFindsCopy' /\ WriterAlone' /\ DirtyAckShared' /\ OneDirty'
    BY LeavingPostedSame, LeavingCopySame, OneEvictSame, AckedIsGoneSame, DirtyPostedSame,
       LoadHasNoneSame, PostedMissSame, PostedServedSame, ServedMissSame, AckHasCopySame,
       FilledWritingSame, BalanceZeroSame, WriteServedAloneSame, ForwardTokenSame,
       ForwardOnceSame, MemoryTokenSame, ReplyTokenSame, ReadTokenSame, AskedTokenSame,
       StoreRepliesSame, PaidOnceSame, FinalAloneSame, NotifyBalanceSame, ToldBalanceSame,
       WriteDataSame, UpgradeDataSame, CopyCoveredSame, CopyAskedSame, SnoopFindsCopySame,
       ForwardFindsCopySame, WriterAloneSame, DirtyAckSharedSame, OneDirtySame
<1> QED
    BY <1>1, <1>2, <1>3, <1>4, <1>5, <1>6, <1>7, <1>8

(* A write gets the only copy from the L2. The invariant holds after it. *)
LEMMA WriteAtOnceKeeps ==
  ASSUME Setting, Inv, NEW c \in Cores, NEW m,
         WriteAtOnce(c, m)
  PROVE  Inv'
<1> USE DEF Setting, Inv, TypeOK, l1Vars, Dir, GrantTypes, Storing, Served, NoneServed, Is,
       Send, Current, StartWrite, WriteAtOnce
<1>1. replies = {} /\ atMemory = {}  BY DEF MemoryToken, ReplyToken
<1>2. fetches = {} /\ invals = {}  BY DEF Asked, AskedToken
<1>3. NoneStoring /\ \A x, e \in Cores : ~Forwarded(x, e) /\ x \notin reading
    BY DEF NoneStoring, Forwarded, ForwardToken
<1>4. miss[c] = "Store" /\ balance[c] = 0 /\ c \notin filled /\ c \notin reads
    BY DEF ReadAckTypes, WriteAckTypes, IsAck, PostedMiss, FilledWriting, BalanceZero
<1>5. c \notin leaving /\ c \notin evictAcks  BY <1>4 DEF LeavingPosted, LeavingCopy
<1>6. copy[c] = "I" /\ c \notin sharers
    BY <1>3, <1>4, <1>5 DEF NoneStoring, Copy, Forwarded, PostedMiss, CopyCovered, GrantComing,
       SharerHasCopy
<1>7. TypeOK'  BY <1>1
<1>8. AckedIsGone'  BY <1>2, <1>4, <1>5 DEF Asked, AckedIsGone
<1>9. PostedMiss'  BY DEF PostedMiss
<1>10. PostedServed'
    BY <1>1, <1>4 DEF ReadAckTypes, WriteAckTypes, IsAck, AckSent, Posted, PostedMiss,
       PostedServed
<1>11. ServedMiss'
    BY <1>1, <1>4 DEF ReadAckTypes, WriteAckTypes, IsAck, AckSent, ServedMiss
<1>12. AckHasCopy'  BY DEF ReadAckTypes, WriteAckTypes, IsAck, AckHasCopy
<1>13. FilledWriting'  BY DEF ReadAckTypes, WriteAckTypes, IsAck, FilledWriting
<1>14. BalanceZero'  BY DEF ReadAckTypes, WriteAckTypes, IsAck, BalanceZero
<1>15. WriteServedAlone'  BY DEF WriteServedAlone
<1>16. BankEmpty'  BY DEF BankEmpty
<1>17. VictimAlone'  BY DEF VictimAlone
<1>18. ForwardToken'  BY DEF Forwarded, ForwardToken
<1>19. MemoryToken'  BY DEF MemoryToken
<1>20. ReplyToken'  BY DEF ReplyToken
<1>21. ReadToken'  BY DEF ReadAckTypes, ReadReply, ReadToken
<1>22. AskedToken'  BY <1>2, <1>3, <1>6 DEF NoneStoring, Asked, Forwarded, AskedToken
<1>23. StoreReplies'  BY <1>1 DEF Mem, NotifyTypes, FetchTypes, StoreReplyFor, StoreReplies
<1>24. PaidOnce'
    BY <1>1, <1>2, <1>3 DEF Mem, FetchTypes, NoneStoring, Asked, Forwarded, Pays, AskedAny,
       PaidOnce
<1>25. FinalAlone'
    BY <1>1, <1>2, <1>3, <1>4 DEF ReadAckTypes, WriteAckTypes, NoneStoring, Forwarded, IsAck,
       Final, FinalAlone
<1>26. NotifyBalance'
    BY <1>1, <1>2, <1>3, <1>4 DEF Mem, NotifyTypes, FetchTypes, NoneStoring, Asked, Forwarded,
       Pays, AskedAny, Owes, Owing, NotifyBalance
<1>27. ToldBalance'
    BY <1>1, <1>3 DEF Mem, NotifyTypes, ReadAckTypes, WriteAckTypes, FetchTypes, NoneStoring,
       Asked, Forwarded, IsAck, Pays, AskedAny, Owes, Owing, Final, Told, ToldBalance
<1>28. WriteData'
    BY <1>1, <1>4, <1>6 DEF ReadAckTypes, WriteAckTypes, FetchTypes, DataTypes, IsAck, AckSent,
       DataComing, WriteData
<1>29. UpgradeData'  BY DEF FetchTypes, DataTypes, DataComing, UpgradeData
<1>30. CopyCovered'  BY DEF NoneStoring, Copy, CopyCovered
<1>31. SharerHasCopy'  BY <1>3 DEF NoneStoring, Forwarded, GrantComing, SharerHasCopy
<1>32. CopyAsked'  BY <1>3 DEF NoneStoring, Copy, Asked, Forwarded, CopyCovered, CopyAsked
<1>33. OwnerAlone'
    BY DEF NoneStoring, Copy, Forwarded, OnlyServed, Clean, GrantComing, Owner, Sole, OwnerAlone
<1>34. WriterAlone'
    BY <1>3 DEF NoneStoring, Copy, Forwarded, OnlyServed, Clean, GrantComing, Owner, Sole,
       OwnerAlone, WriterAlone
<1>35. HeldAlone'
    BY <1>3 DEF NoneStoring, Copy, Forwarded, OnlyServed, Clean, Waits, HeldAlone
<1>36. RefusedAlone'  BY <1>1 DEF Copy, OnlyServed, Clean, RefusedAlone
<1>37. DirtyAckShared'  BY DEF DirtyAckShared
<1>38. OneDirty'  BY DEF OneDirty
<1>39. LeavingPosted' /\ LeavingCopy' /\ OneEvict' /\ DirtyPosted' /\ LoadHasNone' /\
         ForwardOnce' /\ SnoopFindsCopy' /\ ForwardFindsCopy'
    BY LeavingPostedSame, LeavingCopySame, OneEvictSame, DirtyPostedSame, LoadHasNoneSame,
       ForwardOnceSame, SnoopFindsCopySame, ForwardFindsCopySame
<1> QED
    BY <1>7, <1>8, <1>9, <1>10, <1>11, <1>12, <1>13, <1>14, <1>15, <1>16, <1>17, <1>18, <1>19,
       <1>20, <1>21, <1>22, <1>23, <1>24, <1>25, <1>26, <1>27, <1>28, <1>29, <1>30, <1>31,
       <1>32, <1>33, <1>34, <1>35, <1>36, <1>37, <1>38, <1>39

(* An upgrade of the only sharer. The invariant holds after it. *)
LEMMA UpgradeAtOnceKeeps ==
  ASSUME Setting, Inv, NEW c \in Cores, NEW m,
         UpgradeAtOnce(c, m)
  PROVE  Inv'
<1> USE DEF Setting, Inv, TypeOK, l1Vars, Dir, Storing, Served, NoneServed, Is, Send,
       StartUpgrade, UpgradeAtOnce
<1>1. replies = {} /\ atMemory = {}  BY DEF MemoryToken, ReplyToken
<1>2. fetches = {} /\ invals = {}  BY DEF Asked, AskedToken
<1>3. NoneStoring /\ \A x, e \in Cores : ~Forwarded(x, e) /\ x \notin reading
    BY DEF NoneStoring, Forwarded, ForwardToken
<1>4. miss[c] = "Store" /\ balance[c] = 0 /\ c \notin filled /\ c \notin reads
    BY DEF ReadAckTypes, WriteAckTypes, IsAck, PostedMiss, FilledWriting, BalanceZero
<1>5. c \notin leaving /\ c \notin evictAcks  BY <1>4 DEF LeavingPosted, LeavingCopy
<1>6. c \notin writes /\ copy[c] # "I"
    BY <1>3 DEF GrantTypes, NoneStoring, Forwarded, PostedMiss, GrantComing, SharerHasCopy
<1>7. TypeOK'  BY <1>1
<1>8. AckedIsGone'  BY <1>2, <1>4, <1>5 DEF Asked, AckedIsGone
<1>9. PostedMiss'  BY DEF PostedMiss
<1>10. PostedServed'
    BY <1>1, <1>4, <1>6 DEF ReadAckTypes, WriteAckTypes, IsAck, AckSent, Posted, PostedServed
<1>11. ServedMiss'
    BY <1>1, <1>4 DEF ReadAckTypes, WriteAckTypes, IsAck, AckSent, ServedMiss
<1>12. AckHasCopy'  BY DEF ReadAckTypes, WriteAckTypes, IsAck, AckHasCopy
<1>13. FilledWriting'  BY DEF ReadAckTypes, WriteAckTypes, IsAck, FilledWriting
<1>14. BalanceZero'  BY DEF ReadAckTypes, WriteAckTypes, IsAck, BalanceZero
<1>15. WriteServedAlone'  BY DEF WriteServedAlone
<1>16. BankEmpty'  BY DEF BankEmpty
<1>17. VictimAlone'  BY DEF VictimAlone
<1>18. ForwardToken'  BY DEF Forwarded, ForwardToken
<1>19. MemoryToken'  BY DEF MemoryToken
<1>20. ReplyToken'  BY DEF ReplyToken
<1>21. ReadToken'  BY DEF ReadAckTypes, GrantTypes, ReadReply, ReadToken
<1>22. AskedToken'  BY <1>2, <1>3, <1>6 DEF NoneStoring, Asked, Forwarded, AskedToken
<1>23. StoreReplies'
    BY <1>1 DEF Mem, NotifyTypes, GrantTypes, FetchTypes, StoreReplyFor, StoreReplies
<1>24. PaidOnce'
    BY <1>1, <1>2, <1>3 DEF Mem, FetchTypes, NoneStoring, Asked, Forwarded, Pays, AskedAny,
       PaidOnce
<1>25. FinalAlone'
    BY <1>1, <1>2, <1>3, <1>4 DEF ReadAckTypes, WriteAckTypes, NoneStoring, Forwarded, IsAck,
       Final, FinalAlone
<1>26. NotifyBalance'
    BY <1>1, <1>2, <1>3, <1>4 DEF Mem, NotifyTypes, FetchTypes, NoneStoring, Asked, Forwarded,
       Pays, AskedAny, Owes, Owing, NotifyBalance
<1>27. ToldBalance'
    BY <1>1, <1>3 DEF Mem, NotifyTypes, ReadAckTypes, WriteAckTypes, FetchTypes, NoneStoring,
       Asked, Forwarded, IsAck, Pays, AskedAny, Owes, Owing, Final, Told, ToldBalance
<1>28. WriteData'
    BY DEF ReadAckTypes, WriteAckTypes, GrantTypes, FetchTypes, DataTypes, IsAck, AckSent,
       DataComing, WriteData
<1>29. UpgradeData'
    BY <1>1, <1>2, <1>6 DEF GrantTypes, FetchTypes, DataTypes, DataComing, UpgradeData
<1>30. CopyCovered'  BY DEF NoneStoring, Copy, CopyCovered
<1>31. SharerHasCopy'
    BY <1>3 DEF GrantTypes, NoneStoring, Forwarded, GrantComing, SharerHasCopy
<1>32. CopyAsked'
    BY <1>2, <1>3 DEF NoneStoring, Copy, Asked, Forwarded, CopyCovered, CopyAsked
<1>33. OwnerAlone'
    BY DEF GrantTypes, NoneStoring, Copy, Forwarded, OnlyServed, Clean, GrantComing, Owner,
       Sole, OwnerAlone
<1>34. WriterAlone'
    BY <1>3 DEF GrantTypes, NoneStoring, Copy, Forwarded, OnlyServed, Clean, GrantComing, Owner,
       Sole, OwnerAlone, WriterAlone
<1>35. HeldAlone'
    BY <1>3 DEF NoneStoring, Copy, Forwarded, OnlyServed, Clean, Waits, HeldAlone
<1>36. RefusedAlone'  BY <1>1 DEF Copy, OnlyServed, Clean, RefusedAlone
<1>37. DirtyAckShared'  BY DEF DirtyAckShared
<1>38. OneDirty'  BY DEF OneDirty
<1>39. LeavingPosted' /\ LeavingCopy' /\ OneEvict' /\ DirtyPosted' /\ LoadHasNone' /\
         ForwardOnce' /\ SnoopFindsCopy' /\ ForwardFindsCopy'
    BY LeavingPostedSame, LeavingCopySame, OneEvictSame, DirtyPostedSame, LoadHasNoneSame,
       ForwardOnceSame, SnoopFindsCopySame, ForwardFindsCopySame
<1> QED
    BY <1>7, <1>8, <1>9, <1>10, <1>11, <1>12, <1>13, <1>14, <1>15, <1>16, <1>17, <1>18, <1>19,
       <1>20, <1>21, <1>22, <1>23, <1>24, <1>25, <1>26, <1>27, <1>28, <1>29, <1>30, <1>31,
       <1>32, <1>33, <1>34, <1>35, <1>36, <1>37, <1>38, <1>39

(* The part TypeOK of the invariant after WriteFetch. *)
LEMMA WriteFetchTypeOK ==
  ASSUME Setting, Inv, NEW c \in Cores, NEW d \in Cores, NEW m,
         WriteFetch(c, d, m)
  PROVE  TypeOK'
<1>1. replies = {} /\ atMemory = {}
    BY DEF l1Vars, Dir, Storing, Served, NoneServed, Is, Send, Current, OneSharer, StartWrite,
       WriteFetch, TypeOK, MemoryToken, ReplyToken, Inv, Inv, Setting
<1>2. sharers \subseteq Cores /\ sharers # {}
    BY <1>1 DEF Setting, Inv, l1Vars, Dir, Storing, Served, NoneServed, Is, Send, Current,
       OneSharer, StartWrite, WriteFetch, TypeOK
<1>3. Cardinality(sharers) \in Nat /\ Cardinality(sharers) > 0
    BY <1>1, <1>2, NonEmptyCount DEF Setting, Inv
<1> QED
    BY <1>1, <1>3 DEF Setting, Inv, l1Vars, Dir, Storing, Served, NoneServed, Is, Send, Current,
       OneSharer, StartWrite, WriteFetch, TypeOK

(* The part StoreReplies of the invariant after WriteFetch. *)
LEMMA WriteFetchStoreReplies ==
  ASSUME Setting, Inv, NEW c \in Cores, NEW d \in Cores, NEW m,
         WriteFetch(c, d, m)
  PROVE  StoreReplies'
<1>1. replies = {} /\ atMemory = {}
    BY DEF l1Vars, Dir, Storing, Served, NoneServed, Is, Send, Current, OneSharer, StartWrite,
       WriteFetch, TypeOK, MemoryToken, ReplyToken, Inv, Inv, Setting
<1>2. sharers \subseteq Cores /\ sharers # {}
    BY <1>1 DEF Setting, Inv, l1Vars, Dir, Storing, Served, NoneServed, Is, Send, Current,
       OneSharer, StartWrite, WriteFetch, TypeOK
<1>3. Cardinality(sharers) \in Nat /\ Cardinality(sharers) > 0
    BY <1>1, <1>2, NonEmptyCount DEF Setting, Inv
<1> QED
    BY <1>1, <1>3 DEF Setting, Inv, l1Vars, Mem, Dir, NotifyTypes, GrantTypes, FetchTypes,
       Storing, Served, NoneServed, Is, Send, Current, OneSharer, StartWrite, WriteFetch,
       StoreReplyFor, StoreReplies

(* The part FinalAlone of the invariant after WriteFetch. *)
LEMMA WriteFetchFinalAlone ==
  ASSUME Setting, Inv, NEW c \in Cores, NEW d \in Cores, NEW m,
         WriteFetch(c, d, m)
  PROVE  FinalAlone'
<1>1. replies = {} /\ atMemory = {}
    BY DEF l1Vars, Dir, Storing, Served, NoneServed, Is, Send, Current, OneSharer, StartWrite,
       WriteFetch, TypeOK, MemoryToken, ReplyToken, Inv, Inv, Setting
<1>2. fetches = {} /\ invals = {}
    BY DEF l1Vars, Dir, Storing, Served, NoneServed, Is, Send, Current, OneSharer, StartWrite,
       WriteFetch, Asked, TypeOK, AskedToken, Inv, Inv, Setting
<1>3. NoneStoring /\ \A x, e \in Cores : ~Forwarded(x, e) /\ x \notin reading
    BY DEF l1Vars, Dir, Storing, Served, NoneStoring, NoneServed, Is, Send, Current, OneSharer,
       StartWrite, WriteFetch, Forwarded, TypeOK, ForwardToken, Inv, Inv, Setting
<1>4. miss[c] = "Store" /\ balance[c] = 0 /\ c \notin filled /\ c \notin reads
    BY DEF l1Vars, Dir, ReadAckTypes, WriteAckTypes, Storing, Served, NoneServed, Is, Send,
       Current, OneSharer, StartWrite, WriteFetch, IsAck, TypeOK, PostedMiss, FilledWriting,
       BalanceZero, Inv, Inv, Setting
<1>5. sharers \subseteq Cores /\ sharers # {}
    BY <1>1, <1>2, <1>3, <1>4 DEF Setting, Inv, l1Vars, Dir, Storing, Served, NoneServed, Is,
       Send, Current, OneSharer, StartWrite, WriteFetch, TypeOK
<1>6. Cardinality(sharers) \in Nat /\ Cardinality(sharers) > 0
    BY <1>1, <1>2, <1>3, <1>4, <1>5, NonEmptyCount DEF Setting, Inv
<1> QED
    BY <1>1, <1>2, <1>3, <1>4, <1>6 DEF Setting, Inv, l1Vars, Dir, ReadAckTypes, WriteAckTypes,
       Storing, Served, NoneServed, Is, Send, Current, OneSharer, StartWrite, WriteFetch, IsAck,
       Final, FinalAlone

(* The part NotifyBalance of the invariant after WriteFetch. *)
LEMMA WriteFetchNotifyBalance ==
  ASSUME Setting, Inv, NEW c \in Cores, NEW d \in Cores, NEW m,
         WriteFetch(c, d, m)
  PROVE  NotifyBalance'
<1>1. replies = {} /\ atMemory = {}
    BY DEF l1Vars, Dir, Storing, Served, NoneServed, Is, Send, Current, OneSharer, StartWrite,
       WriteFetch, TypeOK, MemoryToken, ReplyToken, Inv, Inv, Setting
<1>2. fetches = {} /\ invals = {}
    BY DEF l1Vars, Dir, Storing, Served, NoneServed, Is, Send, Current, OneSharer, StartWrite,
       WriteFetch, Asked, TypeOK, AskedToken, Inv, Inv, Setting
<1>3. NoneStoring /\ \A x, e \in Cores : ~Forwarded(x, e) /\ x \notin reading
    BY DEF l1Vars, Dir, Storing, Served, NoneStoring, NoneServed, Is, Send, Current, OneSharer,
       StartWrite, WriteFetch, Forwarded, TypeOK, ForwardToken, Inv, Inv, Setting
<1>4. miss[c] = "Store" /\ balance[c] = 0 /\ c \notin filled /\ c \notin reads
    BY DEF l1Vars, Dir, ReadAckTypes, WriteAckTypes, Storing, Served, NoneServed, Is, Send,
       Current, OneSharer, StartWrite, WriteFetch, IsAck, TypeOK, PostedMiss, FilledWriting,
       BalanceZero, Inv, Inv, Setting
<1>5. sharers \subseteq Cores /\ sharers # {}
    BY <1>1, <1>2, <1>3, <1>4 DEF Setting, Inv, l1Vars, Dir, Storing, Served, NoneServed, Is,
       Send, Current, OneSharer, StartWrite, WriteFetch, TypeOK
<1>6. Cardinality(sharers) \in Nat /\ Cardinality(sharers) > 0
    BY <1>1, <1>2, <1>3, <1>4, <1>5, NonEmptyCount DEF Setting, Inv
<1>7. Owing(c)' = sharers
    BY <1>1, <1>2, <1>3, <1>4 DEF Setting, Inv, l1Vars, Mem, Dir, FetchTypes, Storing, Served,
       NoneServed, Is, Send, Current, OneSharer, StartWrite, WriteFetch, Asked, TypeOK, Pays,
       AskedAny, Owes, Owing
<1>8. \A k \in replies' : k = m
    BY <1>1, <1>2, <1>3, <1>4 DEF Setting, Inv, l1Vars, Dir, Storing, Served, NoneServed, Is,
       Send, Current, OneSharer, StartWrite, WriteFetch
<1>9. m.requester = c /\ m.outstanding = Cardinality(sharers) /\ balance'[c] = 0
    BY <1>1, <1>2, <1>3, <1>4 DEF Setting, Inv, l1Vars, Dir, Storing, Served, NoneServed, Is,
       Send, Current, OneSharer, StartWrite, WriteFetch, TypeOK
<1>10. Cardinality(Owing(c))' = Cardinality(sharers)
    BY <1>1, <1>2, <1>3, <1>4, <1>7 DEF Setting, Inv
<1> QED  BY <1>1, <1>2, <1>3, <1>4, <1>6, <1>8, <1>9, <1>10 DEF Setting, Inv, NotifyBalance

(* A write is served by a WriteFwd to one sharer and Invalidates to the *)
(* rest. The invariant holds after it.                                  *)
LEMMA WriteFetchKeeps ==
  ASSUME Setting, Inv, NEW c \in Cores, NEW d \in Cores, NEW m,
         WriteFetch(c, d, m)
  PROVE  Inv'
<1>1. TypeOK'  BY WriteFetchTypeOK
<1>2. StoreReplies'  BY WriteFetchStoreReplies
<1>3. FinalAlone'  BY WriteFetchFinalAlone
<1>4. NotifyBalance'  BY WriteFetchNotifyBalance
<1> USE DEF Setting, Inv, TypeOK, l1Vars, Dir, Storing, Served, NoneServed, Is, Send,
       Current, OneSharer, StartWrite, WriteFetch
<1>5. replies = {} /\ atMemory = {}  BY DEF MemoryToken, ReplyToken
<1>6. fetches = {} /\ invals = {}  BY DEF Asked, AskedToken
<1>7. NoneStoring /\ \A x, e \in Cores : ~Forwarded(x, e) /\ x \notin reading
    BY DEF NoneStoring, Forwarded, ForwardToken
<1>8. miss[c] = "Store" /\ balance[c] = 0 /\ c \notin filled /\ c \notin reads
    BY DEF ReadAckTypes, WriteAckTypes, IsAck, PostedMiss, FilledWriting, BalanceZero
<1>9. c \notin leaving /\ c \notin evictAcks  BY <1>8 DEF LeavingPosted, LeavingCopy
<1>10. copy[c] = "I" /\ c \notin sharers
    BY <1>7, <1>8, <1>9 DEF GrantTypes, NoneStoring, Copy, Forwarded, PostedMiss, CopyCovered,
       GrantComing, SharerHasCopy
<1>11. AckedIsGone'  BY <1>6, <1>8, <1>9 DEF Asked, AckedIsGone
<1>12. PostedMiss'  BY DEF PostedMiss
<1>13. PostedServed'
    BY <1>5, <1>8 DEF ReadAckTypes, WriteAckTypes, IsAck, AckSent, Posted, PostedMiss,
       PostedServed
<1>14. ServedMiss'
    BY <1>5, <1>8 DEF ReadAckTypes, WriteAckTypes, IsAck, AckSent, ServedMiss
<1>15. AckHasCopy'  BY DEF ReadAckTypes, WriteAckTypes, IsAck, AckHasCopy
<1>16. FilledWriting'  BY DEF ReadAckTypes, WriteAckTypes, IsAck, FilledWriting
<1>17. BalanceZero'  BY DEF ReadAckTypes, WriteAckTypes, IsAck, BalanceZero
<1>18. WriteServedAlone'  BY DEF WriteServedAlone
<1>19. BankEmpty'  BY DEF BankEmpty
<1>20. VictimAlone'  BY DEF VictimAlone
<1>21. ForwardToken'  BY DEF Forwarded, ForwardToken
<1>22. MemoryToken'  BY DEF MemoryToken
<1>23. ReplyToken'  BY DEF ReplyToken
<1>24. ReadToken'  BY DEF ReadAckTypes, GrantTypes, ReadReply, ReadToken
<1>25. AskedToken'  BY <1>6, <1>7, <1>10 DEF NoneStoring, Asked, Forwarded, AskedToken
<1>26. PaidOnce'
    BY <1>5, <1>6, <1>7 DEF Mem, FetchTypes, NoneStoring, Asked, Forwarded, Pays, AskedAny,
       PaidOnce
<1>27. ToldBalance'
    BY <1>5, <1>7 DEF Mem, NotifyTypes, ReadAckTypes, WriteAckTypes, FetchTypes, NoneStoring,
       Asked, Forwarded, IsAck, Pays, AskedAny, Owes, Owing, Final, Told, ToldBalance
<1>28. WriteData'
    BY <1>5, <1>8, <1>10 DEF ReadAckTypes, WriteAckTypes, GrantTypes, FetchTypes, DataTypes,
       IsAck, AckSent, DataComing, WriteData
<1>29. UpgradeData'  BY DEF GrantTypes, FetchTypes, DataTypes, DataComing, UpgradeData
<1>30. CopyCovered'  BY DEF NoneStoring, Copy, CopyCovered
<1>31. SharerHasCopy'
    BY <1>7 DEF GrantTypes, NoneStoring, Forwarded, GrantComing, SharerHasCopy
<1>32. CopyAsked'
    BY <1>6, <1>7 DEF NoneStoring, Copy, Asked, Forwarded, CopyCovered, CopyAsked
<1>33. SnoopFindsCopy'
    BY <1>6, <1>7 DEF GrantTypes, NoneStoring, Copy, Asked, Forwarded, OnlyServed, Clean,
       SnoopFindsCopy, GrantComing, SharerHasCopy, Owner, Sole, OwnerAlone
<1>34. OwnerAlone'
    BY DEF GrantTypes, NoneStoring, Copy, Forwarded, OnlyServed, Clean, GrantComing, Owner,
       Sole, OwnerAlone
<1>35. WriterAlone'
    BY <1>7 DEF GrantTypes, NoneStoring, Copy, Forwarded, OnlyServed, Clean, GrantComing, Owner,
       Sole, OwnerAlone, WriterAlone
<1>36. HeldAlone'
    BY <1>7 DEF NoneStoring, Copy, Forwarded, OnlyServed, Clean, Waits, HeldAlone
<1>37. RefusedAlone'  BY <1>5 DEF Copy, OnlyServed, Clean, RefusedAlone
<1>38. DirtyAckShared'  BY DEF DirtyAckShared
<1>39. OneDirty'  BY DEF OneDirty
<1>40. LeavingPosted' /\ LeavingCopy' /\ OneEvict' /\ DirtyPosted' /\ LoadHasNone' /\
         ForwardOnce' /\ ForwardFindsCopy'
    BY LeavingPostedSame, LeavingCopySame, OneEvictSame, DirtyPostedSame, LoadHasNoneSame,
       ForwardOnceSame, ForwardFindsCopySame
<1> QED
    BY <1>1, <1>2, <1>3, <1>4, <1>11, <1>12, <1>13, <1>14, <1>15, <1>16, <1>17, <1>18, <1>19,
       <1>20, <1>21, <1>22, <1>23, <1>24, <1>25, <1>26, <1>27, <1>28, <1>29, <1>30, <1>31,
       <1>32, <1>33, <1>34, <1>35, <1>36, <1>37, <1>38, <1>39, <1>40

(* A single sharer is what OneSharer counts. *)
LEMMA WriteInvalidateOne ==
  ASSUME Setting, Inv, NEW c \in Cores, NEW m,
         WriteInvalidate(c, m)
  PROVE  (\E y \in Cores : sharers = {y}) => OneSharer
<1>1. ASSUME NEW y \in Cores, sharers = {y} PROVE Cardinality(sharers) = 1
    BY <1>1, FS_Singleton DEF Setting, Inv
<1> QED  BY <1>1 DEF Setting, Inv, OneSharer

(* The part TypeOK of the invariant after WriteInvalidate. *)
LEMMA WriteInvalidateTypeOK ==
  ASSUME Setting, Inv, NEW c \in Cores, NEW m,
         WriteInvalidate(c, m)
  PROVE  TypeOK'
<1>1. replies = {} /\ atMemory = {}
    BY DEF l1Vars, Dir, Storing, Served, NoneServed, Is, Send, Current, OneSharer, StartWrite,
       WriteInvalidate, TypeOK, MemoryToken, ReplyToken, Inv, Inv, Setting
<1>2. sharers \subseteq Cores /\ sharers # {}
    BY <1>1 DEF Setting, Inv, l1Vars, Dir, Storing, Served, NoneServed, Is, Send, Current,
       OneSharer, StartWrite, WriteInvalidate, TypeOK
<1>3. Cardinality(sharers) \in Nat /\ Cardinality(sharers) > 0
    BY <1>1, <1>2, NonEmptyCount DEF Setting, Inv
<1> QED
    BY <1>1, <1>3 DEF Setting, Inv, l1Vars, Dir, Storing, Served, NoneServed, Is, Send, Current,
       OneSharer, StartWrite, WriteInvalidate, TypeOK

(* The part StoreReplies of the invariant after WriteInvalidate. *)
LEMMA WriteInvalidateStoreReplies ==
  ASSUME Setting, Inv, NEW c \in Cores, NEW m,
         WriteInvalidate(c, m)
  PROVE  StoreReplies'
<1>1. replies = {} /\ atMemory = {}
    BY DEF l1Vars, Dir, Storing, Served, NoneServed, Is, Send, Current, OneSharer, StartWrite,
       WriteInvalidate, TypeOK, MemoryToken, ReplyToken, Inv, Inv, Setting
<1>2. sharers \subseteq Cores /\ sharers # {}
    BY <1>1 DEF Setting, Inv, l1Vars, Dir, Storing, Served, NoneServed, Is, Send, Current,
       OneSharer, StartWrite, WriteInvalidate, TypeOK
<1>3. Cardinality(sharers) \in Nat /\ Cardinality(sharers) > 0
    BY <1>1, <1>2, NonEmptyCount DEF Setting, Inv
<1> QED
    BY <1>1, <1>3 DEF Setting, Inv, l1Vars, Mem, Dir, NotifyTypes, GrantTypes, FetchTypes,
       Storing, Served, NoneServed, Is, Send, Current, OneSharer, StartWrite, WriteInvalidate,
       StoreReplyFor, StoreReplies

(* The part FinalAlone of the invariant after WriteInvalidate. *)
LEMMA WriteInvalidateFinalAlone ==
  ASSUME Setting, Inv, NEW c \in Cores, NEW m,
         WriteInvalidate(c, m)
  PROVE  FinalAlone'
<1>1. replies = {} /\ atMemory = {}
    BY DEF l1Vars, Dir, Storing, Served, NoneServed, Is, Send, Current, OneSharer, StartWrite,
       WriteInvalidate, TypeOK, MemoryToken, ReplyToken, Inv, Inv, Setting
<1>2. fetches = {} /\ invals = {}
    BY DEF l1Vars, Dir, Storing, Served, NoneServed, Is, Send, Current, OneSharer, StartWrite,
       WriteInvalidate, Asked, TypeOK, AskedToken, Inv, Inv, Setting
<1>3. NoneStoring /\ \A x, e \in Cores : ~Forwarded(x, e) /\ x \notin reading
    BY DEF l1Vars, Dir, Storing, Served, NoneStoring, NoneServed, Is, Send, Current, OneSharer,
       StartWrite, WriteInvalidate, Forwarded, TypeOK, ForwardToken, Inv, Inv, Setting
<1>4. miss[c] = "Store" /\ balance[c] = 0 /\ c \notin filled /\ c \notin reads
    BY DEF l1Vars, Dir, ReadAckTypes, WriteAckTypes, Storing, Served, NoneServed, Is, Send,
       Current, OneSharer, StartWrite, WriteInvalidate, IsAck, TypeOK, PostedMiss,
       FilledWriting, BalanceZero, Inv, Inv, Setting
<1>5. sharers \subseteq Cores /\ sharers # {}
    BY <1>1, <1>2, <1>3, <1>4 DEF Setting, Inv, l1Vars, Dir, Storing, Served, NoneServed, Is,
       Send, Current, OneSharer, StartWrite, WriteInvalidate, TypeOK
<1>6. Cardinality(sharers) \in Nat /\ Cardinality(sharers) > 0
    BY <1>1, <1>2, <1>3, <1>4, <1>5, NonEmptyCount DEF Setting, Inv
<1> QED
    BY <1>1, <1>2, <1>3, <1>4, <1>6 DEF Setting, Inv, l1Vars, Dir, ReadAckTypes, WriteAckTypes,
       Storing, Served, NoneServed, Is, Send, Current, OneSharer, StartWrite, WriteInvalidate,
       IsAck, Final, FinalAlone

(* The part NotifyBalance of the invariant after WriteInvalidate. *)
LEMMA WriteInvalidateNotifyBalance ==
  ASSUME Setting, Inv, NEW c \in Cores, NEW m,
         WriteInvalidate(c, m)
  PROVE  NotifyBalance'
<1>1. replies = {} /\ atMemory = {}
    BY DEF l1Vars, Dir, Storing, Served, NoneServed, Is, Send, Current, OneSharer, StartWrite,
       WriteInvalidate, TypeOK, MemoryToken, ReplyToken, Inv, Inv, Setting
<1>2. fetches = {} /\ invals = {}
    BY DEF l1Vars, Dir, Storing, Served, NoneServed, Is, Send, Current, OneSharer, StartWrite,
       WriteInvalidate, Asked, TypeOK, AskedToken, Inv, Inv, Setting
<1>3. NoneStoring /\ \A x, e \in Cores : ~Forwarded(x, e) /\ x \notin reading
    BY DEF l1Vars, Dir, Storing, Served, NoneStoring, NoneServed, Is, Send, Current, OneSharer,
       StartWrite, WriteInvalidate, Forwarded, TypeOK, ForwardToken, Inv, Inv, Setting
<1>4. miss[c] = "Store" /\ balance[c] = 0 /\ c \notin filled /\ c \notin reads
    BY DEF l1Vars, Dir, ReadAckTypes, WriteAckTypes, Storing, Served, NoneServed, Is, Send,
       Current, OneSharer, StartWrite, WriteInvalidate, IsAck, TypeOK, PostedMiss,
       FilledWriting, BalanceZero, Inv, Inv, Setting
<1>5. sharers \subseteq Cores /\ sharers # {}
    BY <1>1, <1>2, <1>3, <1>4 DEF Setting, Inv, l1Vars, Dir, Storing, Served, NoneServed, Is,
       Send, Current, OneSharer, StartWrite, WriteInvalidate, TypeOK
<1>6. Cardinality(sharers) \in Nat /\ Cardinality(sharers) > 0
    BY <1>1, <1>2, <1>3, <1>4, <1>5, NonEmptyCount DEF Setting, Inv
<1>7. Owing(c)' = sharers
    BY <1>1, <1>2, <1>3, <1>4 DEF Setting, Inv, l1Vars, Mem, Dir, FetchTypes, Storing, Served,
       NoneServed, Is, Send, Current, OneSharer, StartWrite, WriteInvalidate, Asked, TypeOK,
       Pays, AskedAny, Owes, Owing
<1>8. \A k \in replies' : k = m
    BY <1>1, <1>2, <1>3, <1>4 DEF Setting, Inv, l1Vars, Dir, Storing, Served, NoneServed, Is,
       Send, Current, OneSharer, StartWrite, WriteInvalidate
<1>9. m.requester = c /\ m.outstanding = Cardinality(sharers) /\ balance'[c] = 0
    BY <1>1, <1>2, <1>3, <1>4 DEF Setting, Inv, l1Vars, Dir, Storing, Served, NoneServed, Is,
       Send, Current, OneSharer, StartWrite, WriteInvalidate, TypeOK
<1>10. Cardinality(Owing(c))' = Cardinality(sharers)
    BY <1>1, <1>2, <1>3, <1>4, <1>7 DEF Setting, Inv
<1> QED  BY <1>1, <1>2, <1>3, <1>4, <1>6, <1>8, <1>9, <1>10 DEF Setting, Inv, NotifyBalance

(* A write gets data of the L2, and the sharers are invalidated. The *)
(* invariant holds after it.                                         *)
LEMMA WriteInvalidateKeeps ==
  ASSUME Setting, Inv, NEW c \in Cores, NEW m,
         WriteInvalidate(c, m)
  PROVE  Inv'
<1>1. (\E y \in Cores : sharers = {y}) => OneSharer  BY WriteInvalidateOne
<1>2. TypeOK'  BY WriteInvalidateTypeOK
<1>3. StoreReplies'  BY WriteInvalidateStoreReplies
<1>4. FinalAlone'  BY WriteInvalidateFinalAlone
<1>5. NotifyBalance'  BY WriteInvalidateNotifyBalance
<1> USE DEF Setting, Inv, TypeOK, l1Vars, Dir, Storing, Served, NoneServed, Is, Send,
       Current, OneSharer, StartWrite, WriteInvalidate
<1>6. replies = {} /\ atMemory = {}  BY DEF MemoryToken, ReplyToken
<1>7. fetches = {} /\ invals = {}  BY DEF Asked, AskedToken
<1>8. NoneStoring /\ \A x, e \in Cores : ~Forwarded(x, e) /\ x \notin reading
    BY DEF NoneStoring, Forwarded, ForwardToken
<1>9. miss[c] = "Store" /\ balance[c] = 0 /\ c \notin filled /\ c \notin reads
    BY DEF ReadAckTypes, WriteAckTypes, IsAck, PostedMiss, FilledWriting, BalanceZero
<1>10. c \notin leaving /\ c \notin evictAcks  BY <1>9 DEF LeavingPosted, LeavingCopy
<1>11. copy[c] = "I" /\ c \notin sharers
    BY <1>8, <1>9, <1>10 DEF GrantTypes, NoneStoring, Copy, Forwarded, PostedMiss, CopyCovered,
       GrantComing, SharerHasCopy
<1>12. AckedIsGone'  BY <1>7, <1>9, <1>10 DEF Asked, AckedIsGone
<1>13. PostedMiss'  BY DEF PostedMiss
<1>14. PostedServed'
    BY <1>6, <1>9 DEF ReadAckTypes, WriteAckTypes, IsAck, AckSent, Posted, PostedMiss,
       PostedServed
<1>15. ServedMiss'
    BY <1>6, <1>9 DEF ReadAckTypes, WriteAckTypes, IsAck, AckSent, ServedMiss
<1>16. AckHasCopy'  BY DEF ReadAckTypes, WriteAckTypes, IsAck, AckHasCopy
<1>17. FilledWriting'  BY DEF ReadAckTypes, WriteAckTypes, IsAck, FilledWriting
<1>18. BalanceZero'  BY DEF ReadAckTypes, WriteAckTypes, IsAck, BalanceZero
<1>19. WriteServedAlone'  BY DEF WriteServedAlone
<1>20. BankEmpty'  BY DEF BankEmpty
<1>21. VictimAlone'  BY DEF VictimAlone
<1>22. ForwardToken'  BY DEF Forwarded, ForwardToken
<1>23. MemoryToken'  BY DEF MemoryToken
<1>24. ReplyToken'  BY DEF ReplyToken
<1>25. ReadToken'  BY DEF ReadAckTypes, GrantTypes, ReadReply, ReadToken
<1>26. AskedToken'  BY <1>7, <1>8, <1>11 DEF NoneStoring, Asked, Forwarded, AskedToken
<1>27. PaidOnce'
    BY <1>6, <1>7, <1>8 DEF Mem, FetchTypes, NoneStoring, Asked, Forwarded, Pays, AskedAny,
       PaidOnce
<1>28. ToldBalance'
    BY <1>6, <1>8 DEF Mem, NotifyTypes, ReadAckTypes, WriteAckTypes, FetchTypes, NoneStoring,
       Asked, Forwarded, IsAck, Pays, AskedAny, Owes, Owing, Final, Told, ToldBalance
<1>29. WriteData'
    BY <1>6, <1>9, <1>11 DEF ReadAckTypes, WriteAckTypes, GrantTypes, FetchTypes, DataTypes,
       IsAck, AckSent, DataComing, WriteData
<1>30. UpgradeData'  BY DEF GrantTypes, FetchTypes, DataTypes, DataComing, UpgradeData
<1>31. CopyCovered'  BY DEF NoneStoring, Copy, CopyCovered
<1>32. SharerHasCopy'
    BY <1>8 DEF GrantTypes, NoneStoring, Forwarded, GrantComing, SharerHasCopy
<1>33. CopyAsked'
    BY <1>7, <1>8 DEF NoneStoring, Copy, Asked, Forwarded, CopyCovered, CopyAsked
<1>34. SnoopFindsCopy'
    BY <1>7, <1>8, <1>1 DEF GrantTypes, NoneStoring, Copy, Asked, Forwarded, OnlyServed, Clean,
       SnoopFindsCopy, GrantComing, SharerHasCopy, Owner, Sole, OwnerAlone
<1>35. OwnerAlone'
    BY DEF GrantTypes, NoneStoring, Copy, Forwarded, OnlyServed, Clean, GrantComing, Owner,
       Sole, OwnerAlone
<1>36. WriterAlone'
    BY <1>8 DEF GrantTypes, NoneStoring, Copy, Forwarded, OnlyServed, Clean, GrantComing, Owner,
       Sole, OwnerAlone, WriterAlone
<1>37. HeldAlone'
    BY <1>8 DEF NoneStoring, Copy, Forwarded, OnlyServed, Clean, Waits, HeldAlone
<1>38. RefusedAlone'  BY <1>6 DEF Copy, OnlyServed, Clean, RefusedAlone
<1>39. DirtyAckShared'  BY DEF DirtyAckShared
<1>40. OneDirty'  BY DEF OneDirty
<1>41. LeavingPosted' /\ LeavingCopy' /\ OneEvict' /\ DirtyPosted' /\ LoadHasNone' /\
         ForwardOnce' /\ ForwardFindsCopy'
    BY LeavingPostedSame, LeavingCopySame, OneEvictSame, DirtyPostedSame, LoadHasNoneSame,
       ForwardOnceSame, ForwardFindsCopySame
<1> QED
    BY <1>2, <1>3, <1>4, <1>5, <1>12, <1>13, <1>14, <1>15, <1>16, <1>17, <1>18, <1>19, <1>20,
       <1>21, <1>22, <1>23, <1>24, <1>25, <1>26, <1>27, <1>28, <1>29, <1>30, <1>31, <1>32,
       <1>33, <1>34, <1>35, <1>36, <1>37, <1>38, <1>39, <1>40, <1>41

(* The part TypeOK of the invariant after UpgradeInvalidate. *)
LEMMA UpgradeInvalidateTypeOK ==
  ASSUME Setting, Inv, NEW c \in Cores, NEW m,
         UpgradeInvalidate(c, m)
  PROVE  TypeOK'
<1>1. replies = {} /\ atMemory = {}
    BY DEF l1Vars, Dir, Storing, Served, NoneServed, Is, Send, StartUpgrade, UpgradeInvalidate,
       TypeOK, MemoryToken, ReplyToken, Inv, Inv, Setting
<1>2. (sharers \ {c}) \subseteq Cores /\ (sharers \ {c}) # {}
    BY <1>1 DEF Setting, Inv, l1Vars, Dir, Storing, Served, NoneServed, Is, Send, StartUpgrade,
       UpgradeInvalidate, TypeOK
<1>3. Cardinality((sharers \ {c})) \in Nat /\ Cardinality((sharers \ {c})) > 0
    BY <1>1, <1>2, NonEmptyCount DEF Setting, Inv
<1> QED
    BY <1>1, <1>3 DEF Setting, Inv, l1Vars, Dir, Storing, Served, NoneServed, Is, Send,
       StartUpgrade, UpgradeInvalidate, TypeOK

(* The part StoreReplies of the invariant after UpgradeInvalidate. *)
LEMMA UpgradeInvalidateStoreReplies ==
  ASSUME Setting, Inv, NEW c \in Cores, NEW m,
         UpgradeInvalidate(c, m)
  PROVE  StoreReplies'
<1>1. replies = {} /\ atMemory = {}
    BY DEF l1Vars, Dir, Storing, Served, NoneServed, Is, Send, StartUpgrade, UpgradeInvalidate,
       TypeOK, MemoryToken, ReplyToken, Inv, Inv, Setting
<1>2. (sharers \ {c}) \subseteq Cores /\ (sharers \ {c}) # {}
    BY <1>1 DEF Setting, Inv, l1Vars, Dir, Storing, Served, NoneServed, Is, Send, StartUpgrade,
       UpgradeInvalidate, TypeOK
<1>3. Cardinality((sharers \ {c})) \in Nat /\ Cardinality((sharers \ {c})) > 0
    BY <1>1, <1>2, NonEmptyCount DEF Setting, Inv
<1> QED
    BY <1>1, <1>3 DEF Setting, Inv, l1Vars, Mem, Dir, NotifyTypes, GrantTypes, FetchTypes,
       Storing, Served, NoneServed, Is, Send, StartUpgrade, UpgradeInvalidate, StoreReplyFor,
       StoreReplies

(* The part FinalAlone of the invariant after UpgradeInvalidate. *)
LEMMA UpgradeInvalidateFinalAlone ==
  ASSUME Setting, Inv, NEW c \in Cores, NEW m,
         UpgradeInvalidate(c, m)
  PROVE  FinalAlone'
<1>1. replies = {} /\ atMemory = {}
    BY DEF l1Vars, Dir, Storing, Served, NoneServed, Is, Send, StartUpgrade, UpgradeInvalidate,
       TypeOK, MemoryToken, ReplyToken, Inv, Inv, Setting
<1>2. fetches = {} /\ invals = {}
    BY DEF l1Vars, Dir, Storing, Served, NoneServed, Is, Send, StartUpgrade, UpgradeInvalidate,
       Asked, TypeOK, AskedToken, Inv, Inv, Setting
<1>3. NoneStoring /\ \A x, e \in Cores : ~Forwarded(x, e) /\ x \notin reading
    BY DEF l1Vars, Dir, Storing, Served, NoneStoring, NoneServed, Is, Send, StartUpgrade,
       UpgradeInvalidate, Forwarded, TypeOK, ForwardToken, Inv, Inv, Setting
<1>4. miss[c] = "Store" /\ balance[c] = 0 /\ c \notin filled /\ c \notin reads
    BY DEF l1Vars, Dir, ReadAckTypes, WriteAckTypes, Storing, Served, NoneServed, Is, Send,
       StartUpgrade, UpgradeInvalidate, IsAck, TypeOK, PostedMiss, FilledWriting, BalanceZero,
       Inv, Inv, Setting
<1>5. (sharers \ {c}) \subseteq Cores /\ (sharers \ {c}) # {}
    BY <1>1, <1>2, <1>3, <1>4 DEF Setting, Inv, l1Vars, Dir, Storing, Served, NoneServed, Is,
       Send, StartUpgrade, UpgradeInvalidate, TypeOK
<1>6. Cardinality((sharers \ {c})) \in Nat /\ Cardinality((sharers \ {c})) > 0
    BY <1>1, <1>2, <1>3, <1>4, <1>5, NonEmptyCount DEF Setting, Inv
<1> QED
    BY <1>1, <1>2, <1>3, <1>4, <1>6 DEF Setting, Inv, l1Vars, Dir, ReadAckTypes, WriteAckTypes,
       Storing, Served, NoneServed, Is, Send, StartUpgrade, UpgradeInvalidate, IsAck, Final,
       FinalAlone

(* The part NotifyBalance of the invariant after UpgradeInvalidate. *)
LEMMA UpgradeInvalidateNotifyBalance ==
  ASSUME Setting, Inv, NEW c \in Cores, NEW m,
         UpgradeInvalidate(c, m)
  PROVE  NotifyBalance'
<1>1. replies = {} /\ atMemory = {}
    BY DEF l1Vars, Dir, Storing, Served, NoneServed, Is, Send, StartUpgrade, UpgradeInvalidate,
       TypeOK, MemoryToken, ReplyToken, Inv, Inv, Setting
<1>2. fetches = {} /\ invals = {}
    BY DEF l1Vars, Dir, Storing, Served, NoneServed, Is, Send, StartUpgrade, UpgradeInvalidate,
       Asked, TypeOK, AskedToken, Inv, Inv, Setting
<1>3. NoneStoring /\ \A x, e \in Cores : ~Forwarded(x, e) /\ x \notin reading
    BY DEF l1Vars, Dir, Storing, Served, NoneStoring, NoneServed, Is, Send, StartUpgrade,
       UpgradeInvalidate, Forwarded, TypeOK, ForwardToken, Inv, Inv, Setting
<1>4. miss[c] = "Store" /\ balance[c] = 0 /\ c \notin filled /\ c \notin reads
    BY DEF l1Vars, Dir, ReadAckTypes, WriteAckTypes, Storing, Served, NoneServed, Is, Send,
       StartUpgrade, UpgradeInvalidate, IsAck, TypeOK, PostedMiss, FilledWriting, BalanceZero,
       Inv, Inv, Setting
<1>5. (sharers \ {c}) \subseteq Cores /\ (sharers \ {c}) # {}
    BY <1>1, <1>2, <1>3, <1>4 DEF Setting, Inv, l1Vars, Dir, Storing, Served, NoneServed, Is,
       Send, StartUpgrade, UpgradeInvalidate, TypeOK
<1>6. Cardinality((sharers \ {c})) \in Nat /\ Cardinality((sharers \ {c})) > 0
    BY <1>1, <1>2, <1>3, <1>4, <1>5, NonEmptyCount DEF Setting, Inv
<1>7. Owing(c)' = sharers \ {c}
    BY <1>1, <1>2, <1>3, <1>4 DEF Setting, Inv, l1Vars, Mem, Dir, FetchTypes, Storing, Served,
       NoneServed, Is, Send, StartUpgrade, UpgradeInvalidate, Asked, TypeOK, Pays, AskedAny,
       Owes, Owing
<1>8. \A k \in replies' : k = m
    BY <1>1, <1>2, <1>3, <1>4 DEF Setting, Inv, l1Vars, Dir, Storing, Served, NoneServed, Is,
       Send, StartUpgrade, UpgradeInvalidate
<1>9. m.requester = c /\ m.outstanding = Cardinality(sharers \ {c}) /\ balance'[c] = 0
    BY <1>1, <1>2, <1>3, <1>4 DEF Setting, Inv, l1Vars, Dir, Storing, Served, NoneServed, Is,
       Send, StartUpgrade, UpgradeInvalidate, TypeOK
<1>10. Cardinality(Owing(c))' = Cardinality(sharers \ {c})
    BY <1>1, <1>2, <1>3, <1>4, <1>7 DEF Setting, Inv
<1> QED  BY <1>1, <1>2, <1>3, <1>4, <1>6, <1>8, <1>9, <1>10 DEF Setting, Inv, NotifyBalance

(* An upgrade invalidates the other sharers. The invariant holds after *)
(* it.                                                                 *)
LEMMA UpgradeInvalidateKeeps ==
  ASSUME Setting, Inv, NEW c \in Cores, NEW m,
         UpgradeInvalidate(c, m)
  PROVE  Inv'
<1>1. TypeOK'  BY UpgradeInvalidateTypeOK
<1>2. StoreReplies'  BY UpgradeInvalidateStoreReplies
<1>3. FinalAlone'  BY UpgradeInvalidateFinalAlone
<1>4. NotifyBalance'  BY UpgradeInvalidateNotifyBalance
<1> USE DEF Setting, Inv, TypeOK, l1Vars, Dir, Storing, Served, NoneServed, Is, Send,
       StartUpgrade, UpgradeInvalidate
<1>5. replies = {} /\ atMemory = {}  BY DEF MemoryToken, ReplyToken
<1>6. fetches = {} /\ invals = {}  BY DEF Asked, AskedToken
<1>7. NoneStoring /\ \A x, e \in Cores : ~Forwarded(x, e) /\ x \notin reading
    BY DEF NoneStoring, Forwarded, ForwardToken
<1>8. miss[c] = "Store" /\ balance[c] = 0 /\ c \notin filled /\ c \notin reads
    BY DEF ReadAckTypes, WriteAckTypes, IsAck, PostedMiss, FilledWriting, BalanceZero
<1>9. c \notin leaving /\ c \notin evictAcks  BY <1>8 DEF LeavingPosted, LeavingCopy
<1>10. c \notin writes /\ copy[c] # "I"
    BY <1>7 DEF GrantTypes, NoneStoring, Forwarded, PostedMiss, GrantComing, SharerHasCopy
<1>11. AckedIsGone'  BY <1>6, <1>8, <1>9 DEF Asked, AckedIsGone
<1>12. PostedMiss'  BY DEF PostedMiss
<1>13. PostedServed'
    BY <1>5, <1>8, <1>10 DEF ReadAckTypes, WriteAckTypes, IsAck, AckSent, Posted, PostedServed
<1>14. ServedMiss'
    BY <1>5, <1>8 DEF ReadAckTypes, WriteAckTypes, IsAck, AckSent, ServedMiss
<1>15. AckHasCopy'  BY DEF ReadAckTypes, WriteAckTypes, IsAck, AckHasCopy
<1>16. FilledWriting'  BY DEF ReadAckTypes, WriteAckTypes, IsAck, FilledWriting
<1>17. BalanceZero'  BY DEF ReadAckTypes, WriteAckTypes, IsAck, BalanceZero
<1>18. WriteServedAlone'  BY DEF WriteServedAlone
<1>19. BankEmpty'  BY DEF BankEmpty
<1>20. VictimAlone'  BY DEF VictimAlone
<1>21. ForwardToken'  BY DEF Forwarded, ForwardToken
<1>22. MemoryToken'  BY DEF MemoryToken
<1>23. ReplyToken'  BY DEF ReplyToken
<1>24. ReadToken'  BY DEF ReadAckTypes, GrantTypes, ReadReply, ReadToken
<1>25. AskedToken'  BY <1>6, <1>7, <1>10 DEF NoneStoring, Asked, Forwarded, AskedToken
<1>26. PaidOnce'
    BY <1>5, <1>6, <1>7 DEF Mem, FetchTypes, NoneStoring, Asked, Forwarded, Pays, AskedAny,
       PaidOnce
<1>27. ToldBalance'
    BY <1>5, <1>7 DEF Mem, NotifyTypes, ReadAckTypes, WriteAckTypes, FetchTypes, NoneStoring,
       Asked, Forwarded, IsAck, Pays, AskedAny, Owes, Owing, Final, Told, ToldBalance
<1>28. WriteData'
    BY DEF ReadAckTypes, WriteAckTypes, GrantTypes, FetchTypes, DataTypes, IsAck, AckSent,
       DataComing, WriteData
<1>29. UpgradeData'
    BY <1>5, <1>6, <1>10 DEF GrantTypes, FetchTypes, DataTypes, DataComing, UpgradeData
<1>30. CopyCovered'  BY DEF NoneStoring, Copy, CopyCovered
<1>31. SharerHasCopy'
    BY <1>7 DEF GrantTypes, NoneStoring, Forwarded, GrantComing, SharerHasCopy
<1>32. CopyAsked'
    BY <1>6, <1>7 DEF NoneStoring, Copy, Asked, Forwarded, CopyCovered, CopyAsked
<1>33. SnoopFindsCopy'
    BY <1>6, <1>7 DEF GrantTypes, NoneStoring, Copy, Asked, Forwarded, OnlyServed, Clean,
       SnoopFindsCopy, GrantComing, SharerHasCopy, Owner, Sole, OwnerAlone
<1>34. OwnerAlone'
    BY DEF GrantTypes, NoneStoring, Copy, Forwarded, OnlyServed, Clean, GrantComing, Owner,
       Sole, OwnerAlone
<1>35. WriterAlone'
    BY <1>7 DEF GrantTypes, NoneStoring, Copy, Forwarded, OnlyServed, Clean, GrantComing, Owner,
       Sole, OwnerAlone, WriterAlone
<1>36. HeldAlone'
    BY <1>7 DEF NoneStoring, Copy, Forwarded, OnlyServed, Clean, Waits, HeldAlone
<1>37. RefusedAlone'  BY <1>5 DEF Copy, OnlyServed, Clean, RefusedAlone
<1>38. DirtyAckShared'  BY DEF DirtyAckShared
<1>39. OneDirty'  BY DEF OneDirty
<1>40. LeavingPosted' /\ LeavingCopy' /\ OneEvict' /\ DirtyPosted' /\ LoadHasNone' /\
         ForwardOnce' /\ ForwardFindsCopy'
    BY LeavingPostedSame, LeavingCopySame, OneEvictSame, DirtyPostedSame, LoadHasNoneSame,
       ForwardOnceSame, ForwardFindsCopySame
<1> QED
    BY <1>1, <1>2, <1>3, <1>4, <1>11, <1>12, <1>13, <1>14, <1>15, <1>16, <1>17, <1>18, <1>19,
       <1>20, <1>21, <1>22, <1>23, <1>24, <1>25, <1>26, <1>27, <1>28, <1>29, <1>30, <1>31,
       <1>32, <1>33, <1>34, <1>35, <1>36, <1>37, <1>38, <1>39, <1>40

(* A read goes to memory. The invariant holds after it. *)
LEMMA ReadMemoryKeeps ==
  ASSUME Setting, Inv, NEW c \in Cores,
         ReadMemory(c)
  PROVE  Inv'
<1> USE DEF Setting, Inv, TypeOK, l1Vars, Storing, Served, NoneStoring, NoneServed, Current,
       StartRead, Absent, ReadMemory
<1>1. ~Served(c)
    BY DEF ReadAckTypes, WriteAckTypes, IsAck, AckSent, Posted, LoadHasNone, PostedMiss,
       PostedServed, AckHasCopy
<1>2. copy[c] = "I" /\ miss[c] = "Load" /\ c \notin writes /\ c \notin upgrades
    BY DEF LoadHasNone, PostedMiss
<1>3. c \notin atMemory /\ (\A k \in replies : k.requester # c) /\ \A e \in Cores :
        ~Forwarded(c, e)
    BY <1>1 DEF Forwarded, ForwardToken, MemoryToken, ReplyToken
<1>4. c \notin sharers  BY <1>1, <1>2 DEF GrantTypes, GrantComing, SharerHasCopy
<1>5. c \notin leaving /\ c \notin evictAcks  BY <1>2 DEF LeavingPosted, LeavingCopy
<1>6. TypeOK'  OBVIOUS
<1>7. AckedIsGone'  BY <1>5 DEF Asked, AckedIsGone
<1>8. PostedMiss'  BY DEF PostedMiss
<1>9. PostedServed'
    BY <1>2 DEF ReadAckTypes, WriteAckTypes, IsAck, AckSent, Posted, PostedServed
<1>10. ServedMiss'  BY <1>2 DEF ReadAckTypes, WriteAckTypes, IsAck, AckSent, ServedMiss
<1>11. WriteServedAlone'  BY DEF WriteServedAlone
<1>12. VictimAlone'  BY DEF VictimAlone
<1>13. ForwardToken'  BY <1>3 DEF Forwarded, ForwardToken
<1>14. MemoryToken'  BY DEF MemoryToken
<1>15. ReplyToken'  BY DEF ReplyToken
<1>16. ReadToken'
    BY <1>3 DEF Dir, ReadAckTypes, GrantTypes, Forwarded, ReadReply, ReadToken
<1>17. PaidOnce'  BY DEF Mem, FetchTypes, Asked, Pays, AskedAny, PaidOnce
<1>18. FinalAlone'  BY DEF ReadAckTypes, WriteAckTypes, IsAck, Final, FinalAlone
<1>19. NotifyBalance'
    BY DEF Mem, NotifyTypes, FetchTypes, Asked, Pays, AskedAny, Owes, Owing, NotifyBalance
<1>20. ToldBalance'
    BY DEF Mem, NotifyTypes, ReadAckTypes, WriteAckTypes, FetchTypes, Asked, IsAck, Pays,
       AskedAny, Owes, Owing, Final, Told, ToldBalance
<1>21. WriteData'
    BY DEF ReadAckTypes, WriteAckTypes, GrantTypes, FetchTypes, DataTypes, IsAck, AckSent,
       DataComing, WriteData
<1>22. UpgradeData'  BY DEF GrantTypes, FetchTypes, DataTypes, DataComing, UpgradeData
<1>23. CopyCovered'  BY DEF Copy, CopyCovered
<1>24. SharerHasCopy'  BY DEF GrantTypes, GrantComing, SharerHasCopy
<1>25. OwnerAlone'
    BY <1>2, <1>3 DEF GrantTypes, Copy, Forwarded, OnlyServed, Clean, CopyCovered, GrantComing,
       Owner, Sole, OwnerAlone
<1>26. HeldAlone'  BY DEF Copy, Forwarded, OnlyServed, Clean, ForwardToken, Waits, HeldAlone
<1>27. RefusedAlone'  BY DEF Copy, OnlyServed, Clean, ReplyToken, RefusedAlone
<1>28. OneDirty'  BY DEF OneDirty
<1>29. LeavingPosted' /\ LeavingCopy' /\ OneEvict' /\ DirtyPosted' /\ LoadHasNone' /\
         AckHasCopy' /\ FilledWriting' /\ BalanceZero' /\ BankEmpty' /\ ForwardOnce' /\
         AskedToken' /\ StoreReplies' /\ CopyAsked' /\ SnoopFindsCopy' /\
         ForwardFindsCopy' /\ WriterAlone' /\ DirtyAckShared'
    BY LeavingPostedSame, LeavingCopySame, OneEvictSame, DirtyPostedSame, LoadHasNoneSame,
       AckHasCopySame, FilledWritingSame, BalanceZeroSame, BankEmptySame, ForwardOnceSame,
       AskedTokenSame, StoreRepliesSame, CopyAskedSame, SnoopFindsCopySame,
       ForwardFindsCopySame, WriterAloneSame, DirtyAckSharedSame
<1> QED
    BY <1>6, <1>7, <1>8, <1>9, <1>10, <1>11, <1>12, <1>13, <1>14, <1>15, <1>16, <1>17, <1>18,
       <1>19, <1>20, <1>21, <1>22, <1>23, <1>24, <1>25, <1>26, <1>27, <1>28, <1>29

(* The part NotifyBalance of the invariant after WriteMemory. *)
LEMMA WriteMemoryNotifyBalance ==
  ASSUME Setting, Inv, NEW c \in Cores, NEW m,
         WriteMemory(c, m)
  PROVE  NotifyBalance'
<1>1. replies = {} /\ atMemory = {}
    BY DEF l1Vars, Dir, Storing, Served, NoneServed, Is, Send, Current, StartWrite, Absent,
       WriteMemory, TypeOK, MemoryToken, ReplyToken, Inv, Inv, Setting
<1>2. fetches = {} /\ invals = {}
    BY DEF l1Vars, Dir, Storing, Served, NoneServed, Is, Send, Current, StartWrite, Absent,
       WriteMemory, Asked, TypeOK, AskedToken, Inv, Inv, Setting
<1>3. NoneStoring /\ \A x, e \in Cores : ~Forwarded(x, e) /\ x \notin reading
    BY DEF l1Vars, Dir, Storing, Served, NoneStoring, NoneServed, Is, Send, Current, StartWrite,
       Absent, WriteMemory, Forwarded, TypeOK, ForwardToken, Inv, Inv, Setting
<1>4. miss[c] = "Store" /\ balance[c] = 0 /\ c \notin filled /\ c \notin reads
    BY DEF l1Vars, Dir, ReadAckTypes, WriteAckTypes, Storing, Served, NoneServed, Is, Send,
       Current, StartWrite, Absent, WriteMemory, IsAck, TypeOK, PostedMiss, FilledWriting,
       BalanceZero, Inv, Inv, Setting
<1>5. Owing(c)' = {Mem}
    BY <1>1, <1>2, <1>3, <1>4 DEF Setting, Inv, l1Vars, Mem, Dir, FetchTypes, Storing, Served,
       NoneServed, Is, Send, Current, StartWrite, Absent, WriteMemory, Asked, TypeOK, Pays,
       AskedAny, Owes, Owing
<1>6. \A k \in replies' : k = m
    BY <1>1, <1>2, <1>3, <1>4 DEF Setting, Inv, l1Vars, Dir, Storing, Served, NoneServed, Is,
       Send, Current, StartWrite, Absent, WriteMemory
<1>7. m.requester = c /\ m.outstanding = 1 /\ balance'[c] = 0
    BY <1>1, <1>2, <1>3, <1>4 DEF Setting, Inv, l1Vars, Dir, Storing, Served, NoneServed, Is,
       Send, Current, StartWrite, Absent, WriteMemory, TypeOK
<1>8. Cardinality({Mem}) = 1  BY <1>1, <1>2, <1>3, <1>4, FS_Singleton DEF Setting, Inv
<1>9. Cardinality(Owing(c))' = 1  BY <1>1, <1>2, <1>3, <1>4, <1>5, <1>8 DEF Setting, Inv
<1> QED  BY <1>1, <1>2, <1>3, <1>4, <1>6, <1>7, <1>9 DEF Setting, Inv, NotifyBalance

(* A write goes to memory. The invariant holds after it. *)
LEMMA WriteMemoryKeeps ==
  ASSUME Setting, Inv, NEW c \in Cores, NEW m,
         WriteMemory(c, m)
  PROVE  Inv'
<1>1. NotifyBalance'  BY WriteMemoryNotifyBalance
<1> USE DEF Setting, Inv, TypeOK, l1Vars, Dir, Storing, Served, NoneServed, Is, Send,
       Current, StartWrite, Absent, WriteMemory
<1>2. replies = {} /\ atMemory = {}  BY DEF MemoryToken, ReplyToken
<1>3. fetches = {} /\ invals = {}  BY DEF Asked, AskedToken
<1>4. NoneStoring /\ \A x, e \in Cores : ~Forwarded(x, e) /\ x \notin reading
    BY DEF NoneStoring, Forwarded, ForwardToken
<1>5. miss[c] = "Store" /\ balance[c] = 0 /\ c \notin filled /\ c \notin reads
    BY DEF ReadAckTypes, WriteAckTypes, IsAck, PostedMiss, FilledWriting, BalanceZero
<1>6. c \notin leaving /\ c \notin evictAcks  BY <1>5 DEF LeavingPosted, LeavingCopy
<1>7. copy[c] = "I" /\ c \notin sharers
    BY <1>4, <1>5, <1>6 DEF GrantTypes, NoneStoring, Copy, Forwarded, PostedMiss, CopyCovered,
       GrantComing, SharerHasCopy
<1>8. TypeOK'  BY <1>2
<1>9. AckedIsGone'  BY <1>3, <1>5, <1>6 DEF Asked, AckedIsGone
<1>10. PostedMiss'  BY DEF PostedMiss
<1>11. PostedServed'
    BY <1>2, <1>5 DEF ReadAckTypes, WriteAckTypes, IsAck, AckSent, Posted, PostedMiss,
       PostedServed
<1>12. ServedMiss'
    BY <1>2, <1>5 DEF ReadAckTypes, WriteAckTypes, IsAck, AckSent, ServedMiss
<1>13. AckHasCopy'  BY DEF ReadAckTypes, WriteAckTypes, IsAck, AckHasCopy
<1>14. FilledWriting'  BY DEF ReadAckTypes, WriteAckTypes, IsAck, FilledWriting
<1>15. BalanceZero'  BY DEF ReadAckTypes, WriteAckTypes, IsAck, BalanceZero
<1>16. WriteServedAlone'  BY DEF WriteServedAlone
<1>17. BankEmpty'  BY DEF BankEmpty
<1>18. VictimAlone'  BY DEF VictimAlone
<1>19. ForwardToken'  BY DEF Forwarded, ForwardToken
<1>20. MemoryToken'  BY DEF MemoryToken
<1>21. ReplyToken'  BY DEF ReplyToken
<1>22. ReadToken'  BY DEF ReadAckTypes, GrantTypes, ReadReply, ReadToken
<1>23. AskedToken'  BY <1>3, <1>4, <1>7 DEF NoneStoring, Asked, Forwarded, AskedToken
<1>24. StoreReplies'
    BY <1>2 DEF Mem, NotifyTypes, GrantTypes, FetchTypes, StoreReplyFor, StoreReplies
<1>25. PaidOnce'
    BY <1>2, <1>3, <1>4 DEF Mem, FetchTypes, NoneStoring, Asked, Forwarded, Pays, AskedAny,
       PaidOnce
<1>26. FinalAlone'
    BY <1>2, <1>3, <1>4, <1>5 DEF ReadAckTypes, WriteAckTypes, NoneStoring, Forwarded, IsAck,
       Final, FinalAlone
<1>27. ToldBalance'
    BY <1>2, <1>4 DEF Mem, NotifyTypes, ReadAckTypes, WriteAckTypes, FetchTypes, NoneStoring,
       Asked, Forwarded, IsAck, Pays, AskedAny, Owes, Owing, Final, Told, ToldBalance
<1>28. WriteData'
    BY <1>2, <1>5, <1>7 DEF ReadAckTypes, WriteAckTypes, GrantTypes, FetchTypes, DataTypes,
       IsAck, AckSent, DataComing, WriteData
<1>29. UpgradeData'  BY DEF GrantTypes, FetchTypes, DataTypes, DataComing, UpgradeData
<1>30. CopyCovered'  BY DEF NoneStoring, Copy, CopyCovered
<1>31. SharerHasCopy'
    BY <1>4 DEF GrantTypes, NoneStoring, Forwarded, GrantComing, SharerHasCopy
<1>32. CopyAsked'
    BY <1>3, <1>4 DEF NoneStoring, Copy, Asked, Forwarded, CopyCovered, CopyAsked
<1>33. OwnerAlone'
    BY DEF GrantTypes, NoneStoring, Copy, Forwarded, OnlyServed, Clean, GrantComing, Owner,
       Sole, OwnerAlone
<1>34. WriterAlone'
    BY <1>4 DEF GrantTypes, NoneStoring, Copy, Forwarded, OnlyServed, Clean, GrantComing, Owner,
       Sole, OwnerAlone, WriterAlone
<1>35. HeldAlone'
    BY <1>4 DEF NoneStoring, Copy, Forwarded, OnlyServed, Clean, Waits, HeldAlone
<1>36. RefusedAlone'  BY <1>2 DEF Copy, OnlyServed, Clean, RefusedAlone
<1>37. DirtyAckShared'  BY DEF DirtyAckShared
<1>38. OneDirty'  BY DEF OneDirty
<1>39. LeavingPosted' /\ LeavingCopy' /\ OneEvict' /\ DirtyPosted' /\ LoadHasNone' /\
         ForwardOnce' /\ SnoopFindsCopy' /\ ForwardFindsCopy'
    BY LeavingPostedSame, LeavingCopySame, OneEvictSame, DirtyPostedSame, LoadHasNoneSame,
       ForwardOnceSame, SnoopFindsCopySame, ForwardFindsCopySame
<1> QED
    BY <1>1, <1>8, <1>9, <1>10, <1>11, <1>12, <1>13, <1>14, <1>15, <1>16, <1>17, <1>18, <1>19,
       <1>20, <1>21, <1>22, <1>23, <1>24, <1>25, <1>26, <1>27, <1>28, <1>29, <1>30, <1>31,
       <1>32, <1>33, <1>34, <1>35, <1>36, <1>37, <1>38, <1>39

(* The directory takes the eviction of a clean copy (doEvict). The *)
(* invariant holds after it.                                       *)
LEMMA TakeCleanKeeps ==
  ASSUME Setting, Inv, NEW c \in Cores,
         TakeClean(c)
  PROVE  Inv'
<1> USE DEF Setting, Inv, TypeOK, l1Vars, serveVars, Storing, Served, NoneStoring,
       EvictTaken, TakeClean
<1>1. TypeOK'  OBVIOUS
<1>2. LeavingPosted'  BY DEF LeavingPosted
<1>3. OneEvict'  BY DEF OneEvict
<1>4. AckedIsGone'  BY DEF Asked, AckedIsGone, AskedToken
<1>5. CopyCovered'  BY DEF Copy, LeavingPosted, CopyCovered
<1>6. SharerHasCopy'  BY DEF GrantTypes, GrantComing, SharerHasCopy
<1>7. OwnerAlone'
    BY DEF GrantTypes, Copy, Forwarded, OnlyServed, Clean, GrantComing, Owner, Sole, OwnerAlone
<1>8. HeldAlone'  BY DEF Copy, OnlyServed, Clean, Waits, HeldAlone
<1>9. RefusedAlone'  BY DEF Copy, OnlyServed, Clean, RefusedAlone
<1>10. OneDirty'  BY DEF OneDirty
<1>11. LeavingCopy' /\ DirtyPosted' /\ LoadHasNone' /\ PostedMiss' /\ PostedServed' /\
         ServedMiss' /\ AckHasCopy' /\ FilledWriting' /\ BalanceZero' /\
         WriteServedAlone' /\ BankEmpty' /\ VictimAlone' /\ ForwardToken' /\ ForwardOnce'
         /\ MemoryToken' /\ ReplyToken' /\ ReadToken' /\ AskedToken' /\ StoreReplies' /\
         PaidOnce' /\ FinalAlone' /\ NotifyBalance' /\ ToldBalance' /\ WriteData' /\
         UpgradeData' /\ CopyAsked' /\ SnoopFindsCopy' /\ ForwardFindsCopy' /\
         WriterAlone' /\ DirtyAckShared'
    BY LeavingCopySame, DirtyPostedSame, LoadHasNoneSame, PostedMissSame, PostedServedSame,
       ServedMissSame, AckHasCopySame, FilledWritingSame, BalanceZeroSame, WriteServedAloneSame,
       BankEmptySame, VictimAloneSame, ForwardTokenSame, ForwardOnceSame, MemoryTokenSame,
       ReplyTokenSame, ReadTokenSame, AskedTokenSame, StoreRepliesSame, PaidOnceSame,
       FinalAloneSame, NotifyBalanceSame, ToldBalanceSame, WriteDataSame, UpgradeDataSame,
       CopyAskedSame, SnoopFindsCopySame, ForwardFindsCopySame, WriterAloneSame,
       DirtyAckSharedSame
<1> QED
    BY <1>1, <1>2, <1>3, <1>4, <1>5, <1>6, <1>7, <1>8, <1>9, <1>10, <1>11

(* The directory takes the eviction of a modified copy (doEvict). The *)
(* invariant holds after it.                                          *)
LEMMA TakeDirtyKeeps ==
  ASSUME Setting, Inv, NEW c \in Cores,
         TakeDirty(c)
  PROVE  Inv'
<1> USE DEF Setting, Inv, TypeOK, l1Vars, serveVars, Storing, Served, NoneStoring,
       EvictTaken, TakeDirty
<1>1. TypeOK'  OBVIOUS
<1>2. LeavingPosted'  BY DEF LeavingPosted
<1>3. OneEvict'  BY DEF OneEvict
<1>4. AckedIsGone'  BY DEF Asked, AckedIsGone, AskedToken
<1>5. DirtyPosted'  BY DEF DirtyPosted
<1>6. BankEmpty'  BY DEF BankEmpty
<1>7. VictimAlone'  BY DEF VictimAlone, OneDirty
<1>8. CopyCovered'  BY DEF Copy, LeavingPosted, CopyCovered
<1>9. SharerHasCopy'  BY DEF GrantTypes, GrantComing, SharerHasCopy
<1>10. OwnerAlone'
    BY DEF GrantTypes, Copy, Forwarded, OnlyServed, Clean, LeavingPosted, GrantComing, Owner,
       Sole, OwnerAlone
<1>11. HeldAlone'
    BY DEF Copy, OnlyServed, Clean, LeavingPosted, LeavingCopy, DirtyPosted, Waits, HeldAlone
<1>12. RefusedAlone'  BY DEF Copy, OnlyServed, Clean, RefusedAlone
<1>13. OneDirty'  BY DEF OneDirty
<1>14. LeavingCopy' /\ LoadHasNone' /\ PostedMiss' /\ PostedServed' /\ ServedMiss' /\
         AckHasCopy' /\ FilledWriting' /\ BalanceZero' /\ WriteServedAlone' /\
         ForwardToken' /\ ForwardOnce' /\ MemoryToken' /\ ReplyToken' /\ ReadToken' /\
         AskedToken' /\ StoreReplies' /\ PaidOnce' /\ FinalAlone' /\ NotifyBalance' /\
         ToldBalance' /\ WriteData' /\ UpgradeData' /\ CopyAsked' /\ SnoopFindsCopy' /\
         ForwardFindsCopy' /\ WriterAlone' /\ DirtyAckShared'
    BY LeavingCopySame, LoadHasNoneSame, PostedMissSame, PostedServedSame, ServedMissSame,
       AckHasCopySame, FilledWritingSame, BalanceZeroSame, WriteServedAloneSame,
       ForwardTokenSame, ForwardOnceSame, MemoryTokenSame, ReplyTokenSame, ReadTokenSame,
       AskedTokenSame, StoreRepliesSame, PaidOnceSame, FinalAloneSame, NotifyBalanceSame,
       ToldBalanceSame, WriteDataSame, UpgradeDataSame, CopyAskedSame, SnoopFindsCopySame,
       ForwardFindsCopySame, WriterAloneSame, DirtyAckSharedSame
<1> QED
    BY <1>1, <1>2, <1>3, <1>4, <1>5, <1>6, <1>7, <1>8, <1>9, <1>10, <1>11, <1>12, <1>13, <1>14

(* The part OwnerAlone of the invariant after ReadAcked. *)
LEMMA ReadAckedOwnerAlone ==
  ASSUME Setting, Inv, NEW c \in Cores, NEW m,
         ReadAcked(c, m)
  PROVE  OwnerAlone'
<1>1. c \in reading /\ NoneStoring /\ m \in replies
    BY DEF l1Vars, postVars, tokenVars, Mem, Dir, NotifyTypes, ReadAckTypes, GrantTypes,
       FetchTypes, Storing, Served, NoneStoring, Take, ReadAcked, TypeOK, WriteServedAlone,
       ReplyToken, StoreReplyFor, StoreReplies, Inv, Inv, Setting
<1>2. c \notin atMemory /\ \A k \in replies : k.requester = c => k = m
    BY <1>1 DEF l1Vars, postVars, tokenVars, Dir, ReadAckTypes, GrantTypes, Storing,
       NoneStoring, Take, ReadAcked, TypeOK, ReadReply, ReadToken, Inv, Inv, Setting
<1>3. copy[c] # "I" /\ victim = "none"
    BY <1>1 DEF l1Vars, postVars, tokenVars, ReadAckTypes, WriteAckTypes, Storing, Served,
       NoneStoring, Take, ReadAcked, IsAck, TypeOK, AckHasCopy, VictimAlone, Inv, Inv, Setting
<1>4. \A e \in Cores : ~Forwarded(c, e)
    BY <1>1 DEF l1Vars, postVars, tokenVars, ReadAckTypes, Storing, NoneStoring, Take,
       ReadAcked, Forwarded, TypeOK, ForwardToken, Inv, Inv, Setting
<1>5. ASSUME NEW y \in Cores, Owner(y)' PROVE Owner(y)
    BY <1>1, <1>2, <1>3, <1>4, <1>5 DEF Setting, Inv, l1Vars, postVars, tokenVars, ReadAckTypes,
       GrantTypes, Take, ReadAcked, TypeOK, GrantComing, Owner
<1>6. ASSUME NEW y \in Cores, Owner(y), y # c PROVE FALSE
    BY <1>1, <1>2, <1>3, <1>4, <1>6 DEF Setting, Inv, Sole, OwnerAlone
<1>7. Owner(c) => Sole(c)  BY <1>1, <1>2, <1>3, <1>4 DEF Setting, Inv, OwnerAlone
<1>8. Owner(c)' => m.type # "ReadAckDirty"
    BY <1>1, <1>2, <1>3, <1>4 DEF Setting, Inv, l1Vars, postVars, tokenVars, ReadAckTypes,
       GrantTypes, Take, ReadAcked, TypeOK, GrantComing, Owner, DirtyAckShared
<1>9. Sole(c) /\ m.type # "ReadAckDirty" => Sole(c)'
    BY <1>1, <1>2, <1>3, <1>4 DEF Setting, Inv, l1Vars, postVars, tokenVars, ReadAckTypes,
       Storing, Served, Take, ReadAcked, Copy, Forwarded, OnlyServed, Clean, TypeOK, Sole
<1> QED
    BY <1>1, <1>2, <1>3, <1>4, <1>5, <1>6, <1>7, <1>8, <1>9 DEF Setting, Inv, OwnerAlone

(* The ack of a read reaches the directory. The invariant holds after *)
(* it.                                                                *)
LEMMA ReadAckedKeeps ==
  ASSUME Setting, Inv, NEW c \in Cores, NEW m,
         ReadAcked(c, m)
  PROVE  Inv'
<1>1. OwnerAlone'  BY ReadAckedOwnerAlone
<1> USE DEF Setting, Inv, TypeOK, l1Vars, postVars, tokenVars, ReadAckTypes, Take, ReadAcked
<1>2. c \in reading /\ NoneStoring /\ m \in replies
    BY DEF Mem, Dir, NotifyTypes, GrantTypes, FetchTypes, Storing, Served, NoneStoring,
       WriteServedAlone, ReplyToken, StoreReplyFor, StoreReplies
<1>3. c \notin atMemory /\ \A k \in replies : k.requester = c => k = m
    BY <1>2 DEF Dir, GrantTypes, Storing, NoneStoring, ReadReply, ReadToken
<1>4. copy[c] # "I" /\ victim = "none"
    BY <1>2 DEF WriteAckTypes, Storing, Served, NoneStoring, IsAck, AckHasCopy, VictimAlone
<1>5. \A e \in Cores : ~Forwarded(c, e)
    BY <1>2 DEF Storing, NoneStoring, Forwarded, ForwardToken
<1>6. TypeOK'  OBVIOUS
<1>7. AckedIsGone'  BY <1>2 DEF Storing, Served, NoneStoring, Asked, AckedIsGone
<1>8. PostedServed'
    BY <1>2, <1>3 DEF WriteAckTypes, Storing, Served, NoneStoring, IsAck, AckSent, Posted,
       PostedServed
<1>9. ServedMiss'
    BY <1>2, <1>3 DEF WriteAckTypes, Storing, NoneStoring, IsAck, AckSent, ServedMiss
<1>10. AckHasCopy'  BY DEF WriteAckTypes, IsAck, AckHasCopy
<1>11. FilledWriting'  BY DEF WriteAckTypes, IsAck, FilledWriting
<1>12. BalanceZero'  BY DEF WriteAckTypes, Storing, IsAck, BalanceZero
<1>13. WriteServedAlone'  BY DEF Storing, Served, WriteServedAlone
<1>14. BankEmpty'  BY <1>2 DEF Storing, NoneStoring, BankEmpty
<1>15. VictimAlone'  BY <1>4 DEF Storing, Served, VictimAlone
<1>16. ForwardToken'  BY DEF Forwarded, ForwardToken
<1>17. MemoryToken'  BY <1>3 DEF Storing, Served, MemoryToken
<1>18. ReplyToken'  BY <1>3 DEF Storing, Served, ReplyToken
<1>19. ReadToken'  BY DEF Dir, GrantTypes, ReadReply, ReadToken
<1>20. StoreReplies'
    BY DEF Mem, Dir, NotifyTypes, GrantTypes, FetchTypes, Storing, StoreReplyFor, StoreReplies
<1>21. PaidOnce'  BY DEF Mem, FetchTypes, Storing, Asked, Pays, AskedAny, PaidOnce
<1>22. FinalAlone'  BY DEF WriteAckTypes, Storing, IsAck, Final, FinalAlone
<1>23. NotifyBalance'
    BY <1>2 DEF Mem, NotifyTypes, FetchTypes, Storing, NoneStoring, Asked, Pays, AskedAny, Owes,
       Owing, NotifyBalance
<1>24. ToldBalance'
    BY <1>2 DEF Mem, NotifyTypes, WriteAckTypes, FetchTypes, Storing, NoneStoring, Asked, IsAck,
       Pays, AskedAny, Owes, Owing, Final, Told, ToldBalance
<1>25. WriteData'
    BY <1>2 DEF WriteAckTypes, GrantTypes, FetchTypes, DataTypes, Storing, NoneStoring, IsAck,
       AckSent, DataComing, WriteData
<1>26. UpgradeData'  BY DEF GrantTypes, FetchTypes, DataTypes, DataComing, UpgradeData
<1>27. CopyCovered'  BY DEF Storing, NoneStoring, Copy, CopyCovered
<1>28. SharerHasCopy'
    BY <1>2, <1>3, <1>4, <1>5 DEF GrantTypes, Storing, Served, NoneStoring, Copy, Forwarded,
       OnlyServed, Clean, GrantComing, SharerHasCopy, Owner, Sole, OwnerAlone
<1>29. HeldAlone'
    BY <1>2, <1>5 DEF Storing, Served, NoneStoring, Copy, Forwarded, OnlyServed, Clean, Waits,
       HeldAlone
<1>30. RefusedAlone'
    BY <1>2, <1>3 DEF Storing, Served, NoneStoring, Copy, OnlyServed, Clean, RefusedAlone
<1>31. DirtyAckShared'  BY DEF DirtyAckShared
<1>32. OneDirty'  BY <1>4 DEF OneDirty
<1>33. LeavingPosted' /\ LeavingCopy' /\ OneEvict' /\ DirtyPosted' /\ LoadHasNone' /\
         PostedMiss' /\ ForwardOnce' /\ AskedToken' /\ CopyAsked' /\ SnoopFindsCopy' /\
         ForwardFindsCopy' /\ WriterAlone'
    BY LeavingPostedSame, LeavingCopySame, OneEvictSame, DirtyPostedSame, LoadHasNoneSame,
       PostedMissSame, ForwardOnceSame, AskedTokenSame, CopyAskedSame, SnoopFindsCopySame,
       ForwardFindsCopySame, WriterAloneSame
<1> QED
    BY <1>1, <1>6, <1>7, <1>8, <1>9, <1>10, <1>11, <1>12, <1>13, <1>14, <1>15, <1>16, <1>17,
       <1>18, <1>19, <1>20, <1>21, <1>22, <1>23, <1>24, <1>25, <1>26, <1>27, <1>28, <1>29,
       <1>30, <1>31, <1>32, <1>33

(* A write is acknowledged while no read is being served. *)
LEMMA StoreAckedNoReads ==
  ASSUME Setting, Inv, NEW c \in Cores, NEW m,
         StoreAcked(c, m)
  PROVE  \A x, e \in Cores : ~Forwarded(x, e) /\ x \notin reading
<1>1. Storing(c) /\ m \in replies
    BY DEF l1Vars, postVars, tokenVars, Dir, ReadAckTypes, WriteAckTypes, GrantTypes, Storing,
       Served, Take, StoreAcked, TypeOK, ReadReply, ReplyToken, ReadToken, Inv, Inv, Setting
<1>2. c \notin reading /\ \A y \in Cores : y \notin reading
    BY <1>1 DEF l1Vars, postVars, tokenVars, WriteAckTypes, Storing, Served, Take, StoreAcked,
       TypeOK, WriteServedAlone, Inv, Inv, Setting
<1> QED  BY <1>2 DEF Setting, Inv, ForwardToken

(* The part PostedServed of the invariant after StoreAcked. *)
LEMMA StoreAckedPostedServed ==
  ASSUME Setting, Inv, NEW c \in Cores, NEW m,
         StoreAcked(c, m)
  PROVE  PostedServed'
<1>1. Storing(c) /\ m \in replies
    BY DEF l1Vars, postVars, tokenVars, Dir, ReadAckTypes, WriteAckTypes, GrantTypes, Storing,
       Served, Take, StoreAcked, TypeOK, ReadReply, ReplyToken, ReadToken, Inv, Inv, Setting
<1>2. \A y \in Cores : Served(y) => y = c
    BY <1>1 DEF l1Vars, postVars, tokenVars, WriteAckTypes, Storing, Served, Take, StoreAcked,
       TypeOK, WriteServedAlone, Inv, Inv, Setting
<1>3. c \notin reading /\ \A y \in Cores : y \notin reading
    BY <1>1 DEF l1Vars, postVars, tokenVars, WriteAckTypes, Storing, Served, Take, StoreAcked,
       TypeOK, WriteServedAlone, Inv, Inv, Setting
<1> QED
    BY <1>2, <1>3 DEF Setting, Inv, l1Vars, postVars, tokenVars, ReadAckTypes, WriteAckTypes,
       Storing, Served, Take, StoreAcked, IsAck, AckSent, TypeOK, Posted, PostedServed

(* The part ServedMiss of the invariant after StoreAcked. *)
LEMMA StoreAckedServedMiss ==
  ASSUME Setting, Inv, NEW c \in Cores, NEW m,
         StoreAcked(c, m)
  PROVE  ServedMiss'
<1>1. Storing(c) /\ m \in replies
    BY DEF l1Vars, postVars, tokenVars, Dir, ReadAckTypes, WriteAckTypes, GrantTypes, Storing,
       Served, Take, StoreAcked, TypeOK, ReadReply, ReplyToken, ReadToken, Inv, Inv, Setting
<1>2. \A y \in Cores : Served(y) => y = c
    BY <1>1 DEF l1Vars, postVars, tokenVars, WriteAckTypes, Storing, Served, Take, StoreAcked,
       TypeOK, WriteServedAlone, Inv, Inv, Setting
<1>3. c \notin reading /\ \A y \in Cores : y \notin reading
    BY <1>1 DEF l1Vars, postVars, tokenVars, WriteAckTypes, Storing, Served, Take, StoreAcked,
       TypeOK, WriteServedAlone, Inv, Inv, Setting
<1> QED
    BY <1>2, <1>3 DEF Setting, Inv, l1Vars, postVars, tokenVars, ReadAckTypes, WriteAckTypes,
       Storing, Take, StoreAcked, IsAck, AckSent, TypeOK, ServedMiss

(* The ack of a write or an upgrade reaches the directory. The invariant *)
(* holds after it.                                                       *)
LEMMA StoreAckedKeeps ==
  ASSUME Setting, Inv, NEW c \in Cores, NEW m,
         StoreAcked(c, m)
  PROVE  Inv'
<1>1. \A x, e \in Cores : ~Forwarded(x, e) /\ x \notin reading  BY StoreAckedNoReads
<1>2. PostedServed'  BY StoreAckedPostedServed
<1>3. ServedMiss'  BY StoreAckedServedMiss
<1> USE DEF Setting, Inv, TypeOK, l1Vars, postVars, tokenVars, WriteAckTypes, Take,
       StoreAcked
<1>4. Storing(c) /\ m \in replies
    BY DEF Dir, ReadAckTypes, GrantTypes, Storing, Served, ReadReply, ReplyToken, ReadToken
<1>5. \A y \in Cores : Served(y) => y = c  BY <1>4 DEF Storing, Served, WriteServedAlone
<1>6. c \notin reading /\ \A y \in Cores : y \notin reading
    BY <1>4 DEF Storing, Served, WriteServedAlone
<1>7. replies = {m} /\ fetches = {} /\ invals = {}
    BY <1>4, <1>5 DEF ReadAckTypes, Storing, Served, IsAck, ReplyToken, Final, FinalAlone
<1>8. c \notin atMemory /\ atMemory = {}
    BY <1>4, <1>5, <1>7 DEF ReadAckTypes, Storing, Served, IsAck, MemoryToken, Final, FinalAlone
<1>9. copy[c] # "I" /\ bank = "I" /\ victim = "none"
    BY <1>4 DEF ReadAckTypes, Storing, Served, IsAck, AckHasCopy, BankEmpty, VictimAlone
<1>10. \A y \in Cores : y # c => ~Copy(y)  BY <1>4, <1>7 DEF Storing, Copy, Asked, CopyAsked
<1>11. TypeOK'  OBVIOUS
<1>12. AckedIsGone'  BY <1>4, <1>7 DEF Storing, Served, Asked, AckedIsGone
<1>13. AckHasCopy'  BY DEF ReadAckTypes, IsAck, AckHasCopy
<1>14. FilledWriting'  BY DEF ReadAckTypes, IsAck, FilledWriting
<1>15. BalanceZero'  BY DEF ReadAckTypes, Storing, IsAck, BalanceZero
<1>16. WriteServedAlone'  BY DEF Storing, Served, WriteServedAlone
<1>17. BankEmpty'  BY DEF Storing, BankEmpty
<1>18. VictimAlone'  BY DEF Storing, Served, VictimAlone
<1>19. ForwardToken'  BY DEF Forwarded, ForwardToken
<1>20. MemoryToken'  BY <1>8 DEF Storing, Served, MemoryToken
<1>21. ReplyToken'  BY <1>7 DEF Storing, Served, ReplyToken
<1>22. ReadToken'  BY DEF Dir, ReadAckTypes, GrantTypes, ReadReply, ReadToken
<1>23. AskedToken'  BY <1>7 DEF Storing, Asked, AskedToken
<1>24. StoreReplies'
    BY DEF Mem, Dir, NotifyTypes, GrantTypes, FetchTypes, Storing, StoreReplyFor, StoreReplies
<1>25. PaidOnce'  BY DEF Mem, FetchTypes, Storing, Asked, Pays, AskedAny, PaidOnce
<1>26. FinalAlone'  BY DEF ReadAckTypes, Storing, IsAck, Final, FinalAlone
<1>27. NotifyBalance'
    BY <1>7 DEF Mem, NotifyTypes, FetchTypes, Storing, Asked, Pays, AskedAny, Owes, Owing,
       NotifyBalance
<1>28. ToldBalance'
    BY <1>5 DEF Mem, NotifyTypes, ReadAckTypes, FetchTypes, Storing, Served, Asked, IsAck, Pays,
       AskedAny, Owes, Owing, Final, Told, ToldBalance
<1>29. WriteData'
    BY DEF ReadAckTypes, GrantTypes, FetchTypes, DataTypes, IsAck, AckSent, DataComing,
       WriteData
<1>30. UpgradeData'  BY DEF GrantTypes, FetchTypes, DataTypes, DataComing, UpgradeData
<1>31. CopyCovered'  BY <1>10 DEF Storing, NoneStoring, Copy, CopyCovered
<1>32. SharerHasCopy'
    BY <1>9 DEF GrantTypes, Storing, NoneStoring, GrantComing, SharerHasCopy
<1>33. CopyAsked'  BY DEF Storing, Copy, Asked, CopyAsked
<1>34. OwnerAlone'
    BY <1>5, <1>6, <1>7, <1>9, <1>10 DEF GrantTypes, Storing, Served, NoneStoring, Copy,
       Forwarded, OnlyServed, Clean, GrantComing, Owner, Sole, OwnerAlone
<1>35. WriterAlone'  BY DEF Storing, Copy, WriterAlone
<1>36. HeldAlone'
    BY <1>1 DEF Storing, Served, Copy, Forwarded, OnlyServed, Clean, Waits, HeldAlone
<1>37. RefusedAlone'  BY <1>7 DEF Storing, Served, Copy, OnlyServed, Clean, RefusedAlone
<1>38. DirtyAckShared'  BY DEF DirtyAckShared
<1>39. OneDirty'  BY <1>9 DEF OneDirty
<1>40. LeavingPosted' /\ LeavingCopy' /\ OneEvict' /\ DirtyPosted' /\ LoadHasNone' /\
         PostedMiss' /\ ForwardOnce' /\ SnoopFindsCopy' /\ ForwardFindsCopy'
    BY LeavingPostedSame, LeavingCopySame, OneEvictSame, DirtyPostedSame, LoadHasNoneSame,
       PostedMissSame, ForwardOnceSame, SnoopFindsCopySame, ForwardFindsCopySame
<1> QED
    BY <1>2, <1>3, <1>11, <1>12, <1>13, <1>14, <1>15, <1>16, <1>17, <1>18, <1>19, <1>20, <1>21,
       <1>22, <1>23, <1>24, <1>25, <1>26, <1>27, <1>28, <1>29, <1>30, <1>31, <1>32, <1>33,
       <1>34, <1>35, <1>36, <1>37, <1>38, <1>39, <1>40

(* Memory answers. The invariant holds after it. *)
LEMMA MemServeKeeps ==
  ASSUME Setting, Inv, NEW c \in Cores, NEW m,
         MemServe(c, m)
  PROVE  Inv'
<1> USE DEF Setting, Inv, TypeOK, l1Vars, postVars, serveVars, dirVars, Mem, Dir, Is, Send,
       MemServe
<1>1. TypeOK'  OBVIOUS
<1>2. PostedServed'
    BY DEF ReadAckTypes, WriteAckTypes, Storing, Served, IsAck, AckSent, Posted, PostedServed
<1>3. ServedMiss'  BY DEF ReadAckTypes, WriteAckTypes, Storing, IsAck, AckSent, ServedMiss
<1>4. AckHasCopy'  BY DEF ReadAckTypes, WriteAckTypes, IsAck, AckHasCopy
<1>5. FilledWriting'  BY DEF ReadAckTypes, WriteAckTypes, IsAck, FilledWriting
<1>6. BalanceZero'  BY DEF ReadAckTypes, WriteAckTypes, Storing, IsAck, BalanceZero
<1>7. ForwardToken'  BY DEF Forwarded, ForwardToken
<1>8. MemoryToken'  BY DEF Storing, Served, MemoryToken
<1>9. ReplyToken'  BY DEF Storing, Served, MemoryToken, ReplyToken
<1>10. ReadToken'  BY DEF ReadAckTypes, GrantTypes, ReadReply, ReadToken
<1>11. StoreReplies'
    BY DEF NotifyTypes, GrantTypes, FetchTypes, Storing, StoreReplyFor, StoreReplies
<1>12. PaidOnce'  BY DEF FetchTypes, Storing, Asked, Pays, AskedAny, PaidOnce
<1>13. FinalAlone'  BY DEF ReadAckTypes, WriteAckTypes, Storing, IsAck, Final, FinalAlone
<1>14. NotifyBalance'
    BY DEF NotifyTypes, FetchTypes, Storing, Asked, Pays, AskedAny, Owes, Owing, NotifyBalance
<1>15. ToldBalance'
    BY DEF NotifyTypes, ReadAckTypes, WriteAckTypes, FetchTypes, Storing, Asked, IsAck, Pays,
       AskedAny, Owes, Owing, Final, Told, ToldBalance
<1>16. WriteData'
    BY DEF ReadAckTypes, WriteAckTypes, GrantTypes, FetchTypes, DataTypes, IsAck, AckSent,
       DataComing, WriteData
<1>17. UpgradeData'  BY DEF GrantTypes, FetchTypes, DataTypes, DataComing, UpgradeData
<1>18. SharerHasCopy'  BY DEF GrantTypes, Storing, NoneStoring, GrantComing, SharerHasCopy
<1>19. OwnerAlone'
    BY DEF GrantTypes, Storing, Served, NoneStoring, Copy, Forwarded, OnlyServed, Clean,
       GrantComing, Owner, Sole, OwnerAlone
<1>20. RefusedAlone'  BY DEF Storing, Served, Copy, OnlyServed, Clean, RefusedAlone
<1>21. DirtyAckShared'  BY DEF DirtyAckShared
<1>22. LeavingPosted' /\ LeavingCopy' /\ OneEvict' /\ AckedIsGone' /\ DirtyPosted' /\
         LoadHasNone' /\ PostedMiss' /\ WriteServedAlone' /\ BankEmpty' /\ VictimAlone'
         /\ ForwardOnce' /\ AskedToken' /\ CopyCovered' /\ CopyAsked' /\ SnoopFindsCopy'
         /\ ForwardFindsCopy' /\ WriterAlone' /\ HeldAlone' /\ OneDirty'
    BY LeavingPostedSame, LeavingCopySame, OneEvictSame, AckedIsGoneSame, DirtyPostedSame,
       LoadHasNoneSame, PostedMissSame, WriteServedAloneSame, BankEmptySame, VictimAloneSame,
       ForwardOnceSame, AskedTokenSame, CopyCoveredSame, CopyAskedSame, SnoopFindsCopySame,
       ForwardFindsCopySame, WriterAloneSame, HeldAloneSame, OneDirtySame
<1> QED
    BY <1>1, <1>2, <1>3, <1>4, <1>5, <1>6, <1>7, <1>8, <1>9, <1>10, <1>11, <1>12, <1>13, <1>14,
       <1>15, <1>16, <1>17, <1>18, <1>19, <1>20, <1>21, <1>22

(* The part NotifyBalance of the invariant after PassOn. *)
LEMMA PassOnNotifyBalance ==
  ASSUME Setting, Inv, NEW c \in Cores, NEW m, NEW n,
         PassOn(c, m, n)
  PROVE  NotifyBalance'
<1>1. \A r \in Cores : Storing(r) => Owing(r)' = Owing(r)
    BY DEF Setting, Inv, l1Vars, postVars, serveVars, tokenVars, Mem, Dir, NotifyTypes,
       GrantTypes, FetchTypes, Storing, Is, Swap, PassOn, Asked, TypeOK, StoreReplyFor, Pays,
       AskedAny, Owes, Owing, StoreReplies, PaidOnce
<1> QED
    BY <1>1 DEF Setting, Inv, l1Vars, postVars, serveVars, tokenVars, Mem, Dir, NotifyTypes,
       FetchTypes, Storing, Is, Swap, PassOn, TypeOK, NotifyBalance

(* The L2 passes the reply of memory on to the core. The invariant holds *)
(* after it.                                                             *)
LEMMA PassOnKeeps ==
  ASSUME Setting, Inv, NEW c \in Cores, NEW m, NEW n,
         PassOn(c, m, n)
  PROVE  Inv'
<1>1. NotifyBalance'  BY PassOnNotifyBalance
<1> USE DEF Setting, Inv, TypeOK, l1Vars, postVars, serveVars, tokenVars, Dir, Is, Swap,
       PassOn
<1>2. TypeOK'  OBVIOUS
<1>3. PostedServed'
    BY DEF ReadAckTypes, WriteAckTypes, Storing, Served, IsAck, AckSent, Posted, PostedServed
<1>4. ServedMiss'  BY DEF ReadAckTypes, WriteAckTypes, Storing, IsAck, AckSent, ServedMiss
<1>5. AckHasCopy'  BY DEF ReadAckTypes, WriteAckTypes, IsAck, AckHasCopy
<1>6. FilledWriting'  BY DEF ReadAckTypes, WriteAckTypes, IsAck, FilledWriting
<1>7. BalanceZero'  BY DEF ReadAckTypes, WriteAckTypes, Storing, IsAck, BalanceZero
<1>8. BankEmpty'  BY DEF Storing, Served, WriteServedAlone, BankEmpty
<1>9. VictimAlone'  BY DEF Storing, Served, VictimAlone
<1>10. ForwardToken'  BY DEF Forwarded, ForwardToken
<1>11. ReplyToken'  BY DEF Storing, Served, ReplyToken
<1>12. ReadToken'  BY DEF ReadAckTypes, GrantTypes, ReadReply, ReadToken
<1>13. StoreReplies'
    BY DEF Mem, NotifyTypes, GrantTypes, FetchTypes, Storing, StoreReplyFor, StoreReplies
<1>14. PaidOnce'
    BY DEF Mem, NotifyTypes, GrantTypes, FetchTypes, Storing, Asked, StoreReplyFor, Pays,
       AskedAny, StoreReplies, PaidOnce
<1>15. FinalAlone'  BY DEF ReadAckTypes, WriteAckTypes, Storing, IsAck, Final, FinalAlone
<1>16. ToldBalance'
    BY DEF Mem, NotifyTypes, ReadAckTypes, WriteAckTypes, GrantTypes, FetchTypes, Storing,
       Asked, IsAck, StoreReplyFor, Pays, AskedAny, Owes, Owing, Final, StoreReplies, PaidOnce,
       Told, ToldBalance
<1>17. WriteData'
    BY DEF ReadAckTypes, WriteAckTypes, GrantTypes, FetchTypes, DataTypes, IsAck, AckSent,
       DataComing, WriteData
<1>18. UpgradeData'  BY DEF GrantTypes, FetchTypes, DataTypes, DataComing, UpgradeData
<1>19. SharerHasCopy'  BY DEF GrantTypes, Storing, NoneStoring, GrantComing, SharerHasCopy
<1>20. OwnerAlone'
    BY DEF GrantTypes, Storing, Served, NoneStoring, Copy, Forwarded, OnlyServed, Clean,
       GrantComing, Owner, Sole, OwnerAlone
<1>21. HeldAlone'  BY DEF Storing, Served, Copy, OnlyServed, Clean, Waits, HeldAlone
<1>22. RefusedAlone'  BY DEF Storing, Served, Copy, OnlyServed, Clean, RefusedAlone
<1>23. DirtyAckShared'  BY DEF DirtyAckShared
<1>24. LeavingPosted' /\ LeavingCopy' /\ OneEvict' /\ AckedIsGone' /\ DirtyPosted' /\
         LoadHasNone' /\ PostedMiss' /\ WriteServedAlone' /\ ForwardOnce' /\ MemoryToken'
         /\ AskedToken' /\ CopyCovered' /\ CopyAsked' /\ SnoopFindsCopy' /\
         ForwardFindsCopy' /\ WriterAlone' /\ OneDirty'
    BY LeavingPostedSame, LeavingCopySame, OneEvictSame, AckedIsGoneSame, DirtyPostedSame,
       LoadHasNoneSame, PostedMissSame, WriteServedAloneSame, ForwardOnceSame, MemoryTokenSame,
       AskedTokenSame, CopyCoveredSame, CopyAskedSame, SnoopFindsCopySame, ForwardFindsCopySame,
       WriterAloneSame, OneDirtySame
<1> QED
    BY <1>1, <1>2, <1>3, <1>4, <1>5, <1>6, <1>7, <1>8, <1>9, <1>10, <1>11, <1>12, <1>13, <1>14,
       <1>15, <1>16, <1>17, <1>18, <1>19, <1>20, <1>21, <1>22, <1>23, <1>24

(* A refused read is answered from the copy the L2 has by then. The *)
(* invariant holds after it.                                        *)
LEMMA RetryBankKeeps ==
  ASSUME Setting, Inv, NEW c \in Cores, NEW m, NEW n,
         RetryBank(c, m, n)
  PROVE  Inv'
<1> USE DEF Setting, Inv, TypeOK, l1Vars, postVars, serveVars, tokenVars, dirVars, Dir, Is,
       Swap, RetryBank
<1>1. c \in reading /\ NoneStoring
    BY DEF Mem, NotifyTypes, GrantTypes, FetchTypes, Storing, Served, NoneStoring,
       WriteServedAlone, ReplyToken, StoreReplyFor, StoreReplies
<1>2. OnlyServed(c) /\ Clean /\ \A y \in Cores : y \notin sharers /\ ~Copy(y)
    BY DEF Storing, Served, Copy, OnlyServed, Clean, RefusedAlone
<1>3. TypeOK'  OBVIOUS
<1>4. PostedServed'
    BY DEF ReadAckTypes, WriteAckTypes, Storing, Served, IsAck, AckSent, Posted, PostedServed
<1>5. ServedMiss'  BY DEF ReadAckTypes, WriteAckTypes, Storing, IsAck, AckSent, ServedMiss
<1>6. AckHasCopy'  BY DEF ReadAckTypes, WriteAckTypes, IsAck, AckHasCopy
<1>7. FilledWriting'  BY DEF ReadAckTypes, WriteAckTypes, IsAck, FilledWriting
<1>8. BalanceZero'  BY DEF ReadAckTypes, WriteAckTypes, Storing, IsAck, BalanceZero
<1>9. ForwardToken'  BY DEF Forwarded, ForwardToken
<1>10. ReplyToken'  BY DEF Storing, Served, ReplyToken
<1>11. ReadToken'  BY DEF ReadAckTypes, GrantTypes, ReadReply, ReadToken
<1>12. StoreReplies'
    BY DEF Mem, NotifyTypes, GrantTypes, FetchTypes, Storing, StoreReplyFor, StoreReplies
<1>13. PaidOnce'
    BY <1>1 DEF Mem, FetchTypes, Storing, NoneStoring, Asked, Pays, AskedAny, PaidOnce
<1>14. FinalAlone'
    BY <1>1 DEF ReadAckTypes, WriteAckTypes, Storing, NoneStoring, IsAck, Final, FinalAlone
<1>15. NotifyBalance'
    BY <1>1 DEF Mem, NotifyTypes, FetchTypes, Storing, NoneStoring, Asked, Pays, AskedAny, Owes,
       Owing, NotifyBalance
<1>16. ToldBalance'
    BY <1>1 DEF Mem, NotifyTypes, ReadAckTypes, WriteAckTypes, FetchTypes, Storing, NoneStoring,
       Asked, IsAck, Pays, AskedAny, Owes, Owing, Final, Told, ToldBalance
<1>17. WriteData'
    BY DEF ReadAckTypes, WriteAckTypes, GrantTypes, FetchTypes, DataTypes, IsAck, AckSent,
       DataComing, WriteData
<1>18. UpgradeData'
    BY <1>1 DEF GrantTypes, FetchTypes, DataTypes, Storing, NoneStoring, DataComing, UpgradeData
<1>19. SharerHasCopy'
    BY <1>2 DEF GrantTypes, Storing, Served, NoneStoring, Copy, OnlyServed, Clean, GrantComing,
       SharerHasCopy
<1>20. OwnerAlone'
    BY <1>1, <1>2 DEF GrantTypes, Storing, Served, NoneStoring, Copy, Forwarded, OnlyServed,
       Clean, GrantComing, Owner, Sole, OwnerAlone
<1>21. RefusedAlone'  BY DEF Storing, Served, Copy, OnlyServed, Clean, RefusedAlone
<1>22. DirtyAckShared'  BY DEF DirtyAckShared
<1>23. LeavingPosted' /\ LeavingCopy' /\ OneEvict' /\ AckedIsGone' /\ DirtyPosted' /\
         LoadHasNone' /\ PostedMiss' /\ WriteServedAlone' /\ BankEmpty' /\ VictimAlone'
         /\ ForwardOnce' /\ MemoryToken' /\ AskedToken' /\ CopyCovered' /\ CopyAsked' /\
         SnoopFindsCopy' /\ ForwardFindsCopy' /\ WriterAlone' /\ HeldAlone' /\ OneDirty'
    BY LeavingPostedSame, LeavingCopySame, OneEvictSame, AckedIsGoneSame, DirtyPostedSame,
       LoadHasNoneSame, PostedMissSame, WriteServedAloneSame, BankEmptySame, VictimAloneSame,
       ForwardOnceSame, MemoryTokenSame, AskedTokenSame, CopyCoveredSame, CopyAskedSame,
       SnoopFindsCopySame, ForwardFindsCopySame, WriterAloneSame, HeldAloneSame, OneDirtySame
<1> QED
    BY <1>3, <1>4, <1>5, <1>6, <1>7, <1>8, <1>9, <1>10, <1>11, <1>12, <1>13, <1>14, <1>15,
       <1>16, <1>17, <1>18, <1>19, <1>20, <1>21, <1>22, <1>23

(* A refused read goes to memory. The invariant holds after it. *)
LEMMA RetryMemoryKeeps ==
  ASSUME Setting, Inv, NEW c \in Cores, NEW m,
         RetryMemory(c, m)
  PROVE  Inv'
<1> USE DEF Setting, Inv, TypeOK, l1Vars, postVars, serveVars, dirVars, Take, RetryMemory
<1>1. c \in reading /\ NoneStoring
    BY DEF Mem, Dir, NotifyTypes, GrantTypes, FetchTypes, Storing, Served, NoneStoring,
       WriteServedAlone, ReplyToken, StoreReplyFor, StoreReplies
<1>2. OnlyServed(c) /\ Clean /\ \A y \in Cores : y \notin sharers /\ ~Copy(y)
    BY DEF Storing, Served, Copy, OnlyServed, Clean, RefusedAlone
<1>3. TypeOK'  OBVIOUS
<1>4. PostedServed'
    BY DEF ReadAckTypes, WriteAckTypes, Storing, Served, IsAck, AckSent, Posted, PostedServed
<1>5. ServedMiss'  BY DEF ReadAckTypes, WriteAckTypes, Storing, IsAck, AckSent, ServedMiss
<1>6. AckHasCopy'  BY DEF ReadAckTypes, WriteAckTypes, IsAck, AckHasCopy
<1>7. FilledWriting'  BY DEF ReadAckTypes, WriteAckTypes, IsAck, FilledWriting
<1>8. BalanceZero'  BY DEF ReadAckTypes, WriteAckTypes, Storing, IsAck, BalanceZero
<1>9. ForwardToken'  BY DEF Forwarded, ForwardToken
<1>10. MemoryToken'  BY <1>1 DEF Storing, Served, NoneStoring, MemoryToken
<1>11. ReplyToken'  BY DEF Storing, Served, ReplyToken
<1>12. ReadToken'  BY DEF Dir, ReadAckTypes, GrantTypes, ReadReply, ReadToken
<1>13. StoreReplies'
    BY DEF Mem, Dir, NotifyTypes, GrantTypes, FetchTypes, Storing, StoreReplyFor, StoreReplies
<1>14. PaidOnce'
    BY <1>1 DEF Mem, FetchTypes, Storing, NoneStoring, Asked, Pays, AskedAny, PaidOnce
<1>15. FinalAlone'
    BY <1>1 DEF ReadAckTypes, WriteAckTypes, Storing, NoneStoring, IsAck, Final, FinalAlone
<1>16. NotifyBalance'
    BY <1>1 DEF Mem, NotifyTypes, FetchTypes, Storing, NoneStoring, Asked, Pays, AskedAny, Owes,
       Owing, NotifyBalance
<1>17. ToldBalance'
    BY <1>1 DEF Mem, NotifyTypes, ReadAckTypes, WriteAckTypes, FetchTypes, Storing, NoneStoring,
       Asked, IsAck, Pays, AskedAny, Owes, Owing, Final, Told, ToldBalance
<1>18. WriteData'
    BY DEF ReadAckTypes, WriteAckTypes, GrantTypes, FetchTypes, DataTypes, IsAck, AckSent,
       DataComing, WriteData
<1>19. UpgradeData'
    BY <1>1 DEF GrantTypes, FetchTypes, DataTypes, Storing, NoneStoring, DataComing, UpgradeData
<1>20. SharerHasCopy'
    BY <1>2 DEF GrantTypes, Storing, Served, NoneStoring, Copy, OnlyServed, Clean, GrantComing,
       SharerHasCopy
<1>21. OwnerAlone'
    BY <1>1, <1>2 DEF GrantTypes, Storing, Served, NoneStoring, Copy, Forwarded, OnlyServed,
       Clean, GrantComing, Owner, Sole, OwnerAlone
<1>22. RefusedAlone'  BY DEF Storing, Served, Copy, OnlyServed, Clean, RefusedAlone
<1>23. DirtyAckShared'  BY DEF DirtyAckShared
<1>24. LeavingPosted' /\ LeavingCopy' /\ OneEvict' /\ AckedIsGone' /\ DirtyPosted' /\
         LoadHasNone' /\ PostedMiss' /\ WriteServedAlone' /\ BankEmpty' /\ VictimAlone'
         /\ ForwardOnce' /\ AskedToken' /\ CopyCovered' /\ CopyAsked' /\ SnoopFindsCopy'
         /\ ForwardFindsCopy' /\ WriterAlone' /\ HeldAlone' /\ OneDirty'
    BY LeavingPostedSame, LeavingCopySame, OneEvictSame, AckedIsGoneSame, DirtyPostedSame,
       LoadHasNoneSame, PostedMissSame, WriteServedAloneSame, BankEmptySame, VictimAloneSame,
       ForwardOnceSame, AskedTokenSame, CopyCoveredSame, CopyAskedSame, SnoopFindsCopySame,
       ForwardFindsCopySame, WriterAloneSame, HeldAloneSame, OneDirtySame
<1> QED
    BY <1>3, <1>4, <1>5, <1>6, <1>7, <1>8, <1>9, <1>10, <1>11, <1>12, <1>13, <1>14, <1>15,
       <1>16, <1>17, <1>18, <1>19, <1>20, <1>21, <1>22, <1>23, <1>24

(* The L2 replaces its copy. The invariant holds after it. *)
LEMMA ReplaceKeeps ==
  ASSUME Setting, Inv,
         Replace
  PROVE  Inv'
<1> USE DEF Setting, Inv, TypeOK, l1Vars, postVars, serveVars, tokenVars, Storing, Served,
       NoneServed, Replace
<1>1. TypeOK'  OBVIOUS
<1>2. BankEmpty'  BY DEF BankEmpty
<1>3. VictimAlone'  BY DEF VictimAlone
<1>4. SharerHasCopy'  BY DEF GrantTypes, NoneStoring, GrantComing, SharerHasCopy
<1>5. OwnerAlone'
    BY DEF GrantTypes, NoneStoring, Copy, Forwarded, OnlyServed, Clean, GrantComing, Owner,
       Sole, OwnerAlone
<1>6. HeldAlone'  BY DEF Copy, OnlyServed, Clean, Waits, HeldAlone
<1>7. RefusedAlone'  BY DEF Copy, OnlyServed, Clean, RefusedAlone
<1>8. OneDirty'  BY DEF OneDirty
<1>9. LeavingPosted' /\ LeavingCopy' /\ OneEvict' /\ AckedIsGone' /\ DirtyPosted' /\
        LoadHasNone' /\ PostedMiss' /\ PostedServed' /\ ServedMiss' /\ AckHasCopy' /\
        FilledWriting' /\ BalanceZero' /\ WriteServedAlone' /\ ForwardToken' /\
        ForwardOnce' /\ MemoryToken' /\ ReplyToken' /\ ReadToken' /\ AskedToken' /\
        StoreReplies' /\ PaidOnce' /\ FinalAlone' /\ NotifyBalance' /\ ToldBalance' /\
        WriteData' /\ UpgradeData' /\ CopyCovered' /\ CopyAsked' /\ SnoopFindsCopy' /\
        ForwardFindsCopy' /\ WriterAlone' /\ DirtyAckShared'
    BY LeavingPostedSame, LeavingCopySame, OneEvictSame, AckedIsGoneSame, DirtyPostedSame,
       LoadHasNoneSame, PostedMissSame, PostedServedSame, ServedMissSame, AckHasCopySame,
       FilledWritingSame, BalanceZeroSame, WriteServedAloneSame, ForwardTokenSame,
       ForwardOnceSame, MemoryTokenSame, ReplyTokenSame, ReadTokenSame, AskedTokenSame,
       StoreRepliesSame, PaidOnceSame, FinalAloneSame, NotifyBalanceSame, ToldBalanceSame,
       WriteDataSame, UpgradeDataSame, CopyCoveredSame, CopyAskedSame, SnoopFindsCopySame,
       ForwardFindsCopySame, WriterAloneSame, DirtyAckSharedSame
<1> QED
    BY <1>1, <1>2, <1>3, <1>4, <1>5, <1>6, <1>7, <1>8, <1>9

(* The write-back of the L2 is over. The invariant holds after it. *)
LEMMA WrittenBackKeeps ==
  ASSUME Setting, Inv,
         WrittenBack
  PROVE  Inv'
<1> USE DEF Setting, Inv, TypeOK, l1Vars, postVars, serveVars, tokenVars, WrittenBack
<1>1. TypeOK'  OBVIOUS
<1>2. VictimAlone'  BY DEF Storing, Served, VictimAlone
<1>3. OwnerAlone'
    BY DEF GrantTypes, Storing, Served, NoneStoring, Copy, Forwarded, OnlyServed, Clean,
       GrantComing, Owner, Sole, OwnerAlone
<1>4. HeldAlone'  BY DEF Storing, Served, Copy, OnlyServed, Clean, Waits, HeldAlone
<1>5. RefusedAlone'  BY DEF Storing, Served, Copy, OnlyServed, Clean, RefusedAlone
<1>6. OneDirty'  BY DEF OneDirty
<1>7. LeavingPosted' /\ LeavingCopy' /\ OneEvict' /\ AckedIsGone' /\ DirtyPosted' /\
        LoadHasNone' /\ PostedMiss' /\ PostedServed' /\ ServedMiss' /\ AckHasCopy' /\
        FilledWriting' /\ BalanceZero' /\ WriteServedAlone' /\ BankEmpty' /\ ForwardToken'
        /\ ForwardOnce' /\ MemoryToken' /\ ReplyToken' /\ ReadToken' /\ AskedToken' /\
        StoreReplies' /\ PaidOnce' /\ FinalAlone' /\ NotifyBalance' /\ ToldBalance' /\
        WriteData' /\ UpgradeData' /\ CopyCovered' /\ SharerHasCopy' /\ CopyAsked' /\
        SnoopFindsCopy' /\ ForwardFindsCopy' /\ WriterAlone' /\ DirtyAckShared'
    BY LeavingPostedSame, LeavingCopySame, OneEvictSame, AckedIsGoneSame, DirtyPostedSame,
       LoadHasNoneSame, PostedMissSame, PostedServedSame, ServedMissSame, AckHasCopySame,
       FilledWritingSame, BalanceZeroSame, WriteServedAloneSame, BankEmptySame,
       ForwardTokenSame, ForwardOnceSame, MemoryTokenSame, ReplyTokenSame, ReadTokenSame,
       AskedTokenSame, StoreRepliesSame, PaidOnceSame, FinalAloneSame, NotifyBalanceSame,
       ToldBalanceSame, WriteDataSame, UpgradeDataSame, CopyCoveredSame, SharerHasCopySame,
       CopyAskedSame, SnoopFindsCopySame, ForwardFindsCopySame, WriterAloneSame,
       DirtyAckSharedSame
<1> QED
    BY <1>1, <1>2, <1>3, <1>4, <1>5, <1>6, <1>7

(* The initial states. *)
LEMMA InvInit ==
  ASSUME Setting, Init
  PROVE  Inv
<1> USE DEF Setting, Init, Storing, Served, NoneStoring, NoneServed
<1>1. TypeOK /\ LeavingPosted /\ LeavingCopy /\ OneEvict /\ AckedIsGone /\ DirtyPosted
  BY DEF TypeOK, LeavingPosted, LeavingCopy, OneEvict, AckedIsGone, DirtyPosted
<1>2. LoadHasNone /\ PostedMiss /\ PostedServed /\ ServedMiss /\ AckHasCopy
  BY DEF LoadHasNone, PostedMiss, PostedServed, ServedMiss, AckHasCopy, Posted
<1>3. FilledWriting /\ BalanceZero /\ WriteServedAlone /\ BankEmpty /\ VictimAlone
  BY DEF FilledWriting, BalanceZero, WriteServedAlone, BankEmpty, VictimAlone
<1>4. ForwardToken /\ ForwardOnce /\ MemoryToken /\ ReplyToken /\ ReadToken
  BY DEF ForwardToken, ForwardOnce, MemoryToken, ReplyToken, ReadToken, Forwarded
<1>5. AskedToken /\ StoreReplies /\ PaidOnce /\ FinalAlone /\ NotifyBalance /\ ToldBalance
  BY DEF AskedToken, StoreReplies, PaidOnce, FinalAlone, NotifyBalance, ToldBalance, Asked
<1>6. WriteData /\ UpgradeData /\ CopyCovered /\ SharerHasCopy /\ CopyAsked
  BY DEF WriteData, UpgradeData, CopyCovered, SharerHasCopy, CopyAsked, Copy
<1>7. SnoopFindsCopy /\ ForwardFindsCopy /\ WriterAlone /\ HeldAlone /\ RefusedAlone
  BY DEF SnoopFindsCopy, ForwardFindsCopy, WriterAlone, HeldAlone, RefusedAlone, Asked, Copy,
         Waits
<1>8. OwnerAlone /\ DirtyAckShared /\ OneDirty
  BY DEF OwnerAlone, Owner, GrantComing, DirtyAckShared, OneDirty
<1> QED  BY <1>1, <1>2, <1>3, <1>4, <1>5, <1>6, <1>7, <1>8 DEF Inv

(* A step that changes nothing. *)
LEMMA StutterKeeps ==
  ASSUME Inv, UNCHANGED vars
  PROVE  Inv'
<1> USE DEF vars, l1Vars, postVars, serveVars, tokenVars, dirVars
<1>1. UNCHANGED <<copy, leaving, miss, balance, filled, reads, writes, upgrades, cleans, dirties,
                  reading, writing, upgrading, forwards, held, fetches, invals, atMemory,
                  evictAcks, replies, bank, victim, sharers>>
  OBVIOUS
<1> QED
  BY <1>1, TypeOKSame, LeavingPostedSame, LeavingCopySame, OneEvictSame, AckedIsGoneSame,
     DirtyPostedSame, LoadHasNoneSame, PostedMissSame, PostedServedSame, ServedMissSame,
     AckHasCopySame, FilledWritingSame, BalanceZeroSame, WriteServedAloneSame, BankEmptySame,
     VictimAloneSame, ForwardTokenSame, ForwardOnceSame, MemoryTokenSame, ReplyTokenSame,
     ReadTokenSame, AskedTokenSame, StoreRepliesSame, PaidOnceSame, FinalAloneSame,
     NotifyBalanceSame, ToldBalanceSame, WriteDataSame, UpgradeDataSame, CopyCoveredSame,
     SharerHasCopySame, CopyAskedSame, SnoopFindsCopySame, ForwardFindsCopySame,
     OwnerAloneSame, WriterAloneSame, HeldAloneSame, RefusedAloneSame, DirtyAckSharedSame,
     OneDirtySame
  DEF Inv

(* Every step of the exchange. *)
LEMMA InvStep ==
  ASSUME Setting, Inv, [Next]_vars
  PROVE  Inv'
<1>0. sharers \subseteq Cores  BY DEF Inv, TypeOK
<1>1. ASSUME NEW c \in Cores, L1Step(c)  PROVE Inv'
  BY <1>1, StoreHitKeeps, LoadMissKeeps, StoreMissKeeps, UpgradeMissKeeps, AnnounceKeeps,
     EvictAckedKeeps, HoldKeeps
  DEF L1Step
<1>2. ASSUME NEW c \in Cores, NEW m, L1Send(c, m)  PROVE Inv'
  BY <1>2, AnswerForwardKeeps, AnswerHeldKeeps, RefuseKeeps, InvalidatedKeeps, FetchedKeeps
  DEF L1Send
<1>3. ASSUME NEW c \in Cores, NEW m, L1Receive(c, m)  PROVE Inv'
  BY <1>3, StoreReplyKeeps, LoadReplyKeeps, StoreDoneKeeps DEF L1Receive
<1>4. ASSUME NEW c \in Cores, DirStep(c)  PROVE Inv'
  BY <1>0, <1>4, ReadMemoryKeeps, TakeCleanKeeps, TakeDirtyKeeps, ReadForwardKeeps
  DEF DirStep
<1>5. ASSUME NEW c \in Cores, NEW m, DirSend(c, m)  PROVE Inv'
  BY <1>0, <1>5, ReadSupplyKeeps, MemServeKeeps, WriteMemoryKeeps, WriteAtOnceKeeps,
     UpgradeAtOnceKeeps, WriteInvalidateKeeps, UpgradeInvalidateKeeps, WriteFetchKeeps
  DEF DirSend
<1>6. ASSUME NEW c \in Cores, NEW m, DirReceive(c, m)  PROVE Inv'
  BY <1>6, ReadAckedKeeps, StoreAckedKeeps, RetryMemoryKeeps, PassOnKeeps, RetryBankKeeps
  DEF DirReceive
<1>7. CASE Drop \/ Replace \/ WrittenBack
  BY <1>7, DropKeeps, ReplaceKeeps, WrittenBackKeeps
<1>8. CASE UNCHANGED vars  BY <1>8, StutterKeeps
<1> QED  BY <1>1, <1>2, <1>3, <1>4, <1>5, <1>6, <1>7, <1>8 DEF Next

(* Who is asked for its copy stays a sharer: no step of the directory *)
(* drops it.                                                          *)
LEMMA AskedSharedStep ==
  ASSUME Setting, Inv, AskedShared, [Next]_vars
  PROVE  AskedShared'
<1>0. TypeOK /\ AskedToken /\ FinalAlone /\ StoreReplies /\ ReplyToken /\ ReadToken  BY DEF Inv
<1>1. ASSUME fetches' \subseteq fetches, invals' \subseteq invals, sharers \subseteq sharers'
      PROVE  AskedShared'
  BY <1>1 DEF AskedShared, Asked
<1>2. ASSUME \A d \in Cores : ~Asked(d), UNCHANGED <<fetches, invals>>  PROVE AskedShared'
  BY <1>2 DEF AskedShared, Asked
<1>3. ASSUME NEW c \in Cores, L1Step(c)  PROVE AskedShared'
  BY <1>1, <1>3 DEF L1Step, StoreHit, Missed, LoadMiss, StoreMiss, UpgradeMiss, Announce, EvictAcked, Hold,
     tokenVars, dirVars
<1>4. ASSUME NEW c \in Cores, NEW m, L1Send(c, m)  PROVE AskedShared'
  BY <1>1, <1>4 DEF L1Send, AnswerForward, AnswerHeld, Answered, Refuse, Invalidated, Fetched, GivenUp,
     tokenVars, dirVars
<1>5. ASSUME NEW c \in Cores, NEW m, L1Receive(c, m)  PROVE AskedShared'
  BY <1>1, <1>5 DEF L1Receive, StoreReply, LoadReply, StoreDone, MissOver, tokenVars, dirVars
<1>6. ASSUME NEW c \in Cores, DirStep(c)  PROVE AskedShared'
  <2>1. CASE ReadMemory(c) \/ \E d \in sharers : ReadForward(c, d)
    BY <1>1, <2>1 DEF ReadMemory, ReadForward, StartRead
  <2>2. CASE TakeClean(c) \/ TakeDirty(c)
    <3>1. NoneStoring /\ UNCHANGED <<fetches, invals>>
      BY <2>2 DEF TakeClean, TakeDirty, EvictTaken
    <3>2. \A d \in Cores : ~Asked(d)  BY <1>0, <3>1 DEF AskedToken, NoneStoring
    <3> QED  BY <1>2, <3>1, <3>2
  <2> QED  BY <1>6, <2>1, <2>2 DEF DirStep
<1>7. ASSUME NEW c \in Cores, NEW m, DirSend(c, m)  PROVE AskedShared'
  <2>1. CASE ReadSupply(c, m) \/ MemServe(c, m) \/ WriteMemory(c, m) \/ UpgradeAtOnce(c, m)
    BY <1>1, <2>1 DEF ReadSupply, StartRead, MemServe, WriteMemory, StartWrite, UpgradeAtOnce,
       StartUpgrade, dirVars
  <2>2. CASE WriteAtOnce(c, m)
    BY <2>2 DEF WriteAtOnce, AskedShared, Asked
  <2>3. CASE WriteInvalidate(c, m)
    BY <2>3 DEF WriteInvalidate, AskedShared, Asked
  <2>4. CASE UpgradeInvalidate(c, m)
    BY <2>4 DEF UpgradeInvalidate, AskedShared, Asked
  <2>5. CASE \E d \in sharers : WriteFetch(c, d, m)
    BY <2>5 DEF WriteFetch, AskedShared, Asked
  <2> QED  BY <1>7, <2>1, <2>2, <2>3, <2>4, <2>5 DEF DirSend
<1>8. ASSUME NEW c \in Cores, NEW m, DirReceive(c, m)  PROVE AskedShared'
  <2>1. CASE ReadAcked(c, m) \/ RetryMemory(c, m) \/ \E n \in replies' : PassOn(c, m, n) \/ RetryBank(c, m, n)
    BY <1>1, <2>1 DEF ReadAcked, RetryMemory, PassOn, RetryBank, tokenVars, dirVars
  <2>2. CASE StoreAcked(c, m)
    <3>1. m \in replies /\ m.requester = c /\ m.type \in WriteAckTypes /\ UNCHANGED <<fetches, invals>>
      BY <2>2 DEF StoreAcked, Take, tokenVars
    <3>2. Storing(c)
      BY <1>0, <3>1 DEF ReplyToken, ReadToken, ReadReply, Served, WriteAckTypes, ReadAckTypes, GrantTypes
    <3>3. fetches = {} /\ invals = {}  BY <1>0, <3>1, <3>2 DEF FinalAlone, Final, IsAck
    <3>4. \A d \in Cores : ~Asked(d)  BY <3>3 DEF Asked
    <3> QED  BY <1>2, <3>1, <3>4
  <2> QED  BY <1>8, <2>1, <2>2 DEF DirReceive
<1>9. CASE Drop \/ Replace \/ WrittenBack
  BY <1>1, <1>9 DEF Drop, Replace, WrittenBack, tokenVars
<1>10. CASE UNCHANGED vars  BY <1>1, <1>10 DEF vars, tokenVars, dirVars
<1> QED  BY <1>3, <1>4, <1>5, <1>6, <1>7, <1>8, <1>9, <1>10 DEF Next

(* The copy of core c that it can use without a message to the directory, *)
(* and that copy s allows no more than copy t.                            *)
Use(c) == IF miss[c] # "None" \/ c \in leaving THEN "I" ELSE copy[c]
NoMore(s, t) == s = "I" \/ s = t \/ t \in {"E", "M"}

(* What may happen to it in a step. *)
UseChange(c) ==
  \/ miss'[c] = miss[c] /\ NoMore(Use(c)', Use(c))
  \/ miss[c] = "None" /\ miss'[c] # "None"
  \/ miss[c] = "Load" /\ miss'[c] = "None" /\ Use(c)' # "I"
  \/ miss[c] = "Store" /\ miss'[c] = "None" /\ Use(c)' = "M"

(* A copy gets better only by the reply to a miss. *)
LEMMA UseStep ==
  ASSUME Inv, [Next]_vars, NEW c \in Cores
  PROVE  UseChange(c)
<1>0. TypeOK /\ LeavingCopy  BY DEF Inv
<1>1. ASSUME UNCHANGED l1Vars  PROVE UseChange(c)
  BY <1>1 DEF UseChange, NoMore, Use, l1Vars
<1>2. ASSUME NEW d \in Cores, L1Step(d)  PROVE UseChange(c)
  <2>1. CASE StoreHit(d)  BY <1>0, <2>1 DEF StoreHit, UseChange, NoMore, Use, TypeOK
  <2>2. CASE LoadMiss(d) \/ StoreMiss(d) \/ UpgradeMiss(d)
    BY <1>0, <2>2 DEF LoadMiss, StoreMiss, UpgradeMiss, Missed, Idle, UseChange, NoMore, Use, TypeOK
  <2>3. CASE Announce(d)  BY <1>0, <2>3 DEF Announce, UseChange, NoMore, Use, TypeOK
  <2>4. CASE EvictAcked(d)  BY <1>0, <2>4 DEF EvictAcked, UseChange, NoMore, Use, TypeOK
  <2>5. CASE \E x \in Cores : Hold(d, x)  BY <1>1, <2>5 DEF Hold
  <2> QED  BY <1>2, <2>1, <2>2, <2>3, <2>4, <2>5 DEF L1Step
<1>3. ASSUME NEW d \in Cores, NEW m, L1Send(d, m)  PROVE UseChange(c)
  <2> PICK x \in Cores : AnswerForward(d, x, m) \/ AnswerHeld(d, x, m) \/ Refuse(d, x, m)
                           \/ Invalidated(d, x, m) \/ Fetched(d, x, m)
    BY <1>3 DEF L1Send
  <2>1. CASE AnswerForward(d, x, m)
    BY <1>0, <2>1 DEF AnswerForward, Answered, UseChange, NoMore, Use, TypeOK
  <2>2. CASE AnswerHeld(d, x, m)
    BY <1>0, <2>2 DEF AnswerHeld, Answered, UseChange, NoMore, Use, TypeOK
  <2>3. CASE Refuse(d, x, m)  BY <1>1, <2>3 DEF Refuse
  <2>4. CASE Invalidated(d, x, m) \/ Fetched(d, x, m)
    <3>1. GivenUp(d)  BY <2>4 DEF Invalidated, Fetched
    <3> QED  BY <1>0, <3>1 DEF GivenUp, UseChange, NoMore, Use, TypeOK
  <2> QED  BY <2>1, <2>2, <2>3, <2>4
<1>4. ASSUME NEW d \in Cores, NEW m, L1Receive(d, m)  PROVE UseChange(c)
  <2>1. CASE StoreReply(d, m)
    <3>1. \E s : copy' = [copy EXCEPT ![d] = s]  BY <1>0, <2>1 DEF StoreReply, TypeOK
    <3> QED  BY <1>0, <2>1, <3>1 DEF StoreReply, UseChange, NoMore, Use, TypeOK
  <2>2. CASE \E n \in replies' : LoadReply(d, m, n)
    <3>1. FillState(m.type) # "I"  BY DEF FillState
    <3> QED  BY <1>0, <2>2, <3>1 DEF LoadReply, MissOver, UseChange, NoMore, Use, TypeOK, LeavingCopy
  <2>3. CASE \E n \in replies' : StoreDone(d, m, n)
    BY <1>0, <2>3 DEF StoreDone, MissOver, UseChange, NoMore, Use, TypeOK, LeavingCopy
  <2> QED  BY <1>4, <2>1, <2>2, <2>3 DEF L1Receive
<1>5. ASSUME NEW d \in Cores, DirStep(d)  PROVE UseChange(c)
  BY <1>1, <1>5 DEF DirStep, ReadMemory, ReadForward, StartRead, TakeClean, TakeDirty, EvictTaken
<1>6. ASSUME NEW d \in Cores, NEW m, DirSend(d, m)  PROVE UseChange(c)
  BY <1>1, <1>6 DEF DirSend, ReadSupply, StartRead, MemServe, WriteMemory, WriteAtOnce, WriteInvalidate,
     WriteFetch, StartWrite, UpgradeAtOnce, UpgradeInvalidate, StartUpgrade
<1>7. ASSUME NEW d \in Cores, NEW m, DirReceive(d, m)  PROVE UseChange(c)
  BY <1>1, <1>7 DEF DirReceive, ReadAcked, StoreAcked, RetryMemory, PassOn, RetryBank
<1>8. CASE Drop \/ Replace \/ WrittenBack  BY <1>1, <1>8 DEF Drop, Replace, WrittenBack
<1>9. CASE UNCHANGED vars  BY <1>1, <1>9 DEF vars
<1> QED  BY <1>2, <1>3, <1>4, <1>5, <1>6, <1>7, <1>8, <1>9 DEF Next

(* The coherence protocol as an exchange of tokens, for any number of      *)
(* cores: while a core has a writable copy nobody else has one, every      *)
(* message finds the miss, the copy or the request it is about, and the    *)
(* acks a store waits for are the ones on their way (maf_entry's           *)
(* outstanding_msgs), in whatever order they arrive.                       *)
THEOREM TokensInvariant == ASSUME Setting PROVE Spec => []Inv
<1>1. Init => Inv  BY InvInit
<1>2. Inv /\ [Next]_vars => Inv'  BY InvStep
<1> QED  BY <1>1, <1>2, PTL DEF Spec
====
