------------------------ MODULE CmpCoherenceProofs ------------------------
(*************************************************************************)
(* The coherence protocol of CmpCoherence, for any set of cores: every   *)
(* step of the L2, of its directory and of memory keeps the inductive    *)
(* invariant and is a step of CoherenceTokens or moves no token, and     *)
(* with CmpCoherenceL1Steps so does every step of the system. The        *)
(* theorems are at the end.                                              *)
(*************************************************************************)
EXTENDS CmpCoherenceL1Steps

(* The operators of the components are the same ones. *)
LEMMA DirNames ==
  /\ \A S : L2!Cardinality(S) = Cardinality(S) /\ T!Cardinality(S) = Cardinality(S)
  /\ \A S : L2!SetToSeq(S) = SetToSeq(S)
  /\ \A s, i : L2!RemoveAt(s, i) = RemoveAt(s, i)
  /\ L2!EvictTypes = EvictTypes
<1>1. \A S : L2!Cardinality(S) = Cardinality(S) /\ T!Cardinality(S) = Cardinality(S)
  BY DEF L2!Cardinality, T!Cardinality, Cardinality
<1>2. \A S : L2!SetToSeq(S) = SetToSeq(S)
  BY DEF L2!SetToSeq, SetToSeq, L2!IsInjective, IsInjective, L2!Cardinality, Cardinality
<1>3. \A s, i : L2!RemoveAt(s, i) = RemoveAt(s, i)  BY DEF L2!RemoveAt, RemoveAt
<1>4. L2!EvictTypes = EvictTypes  BY DEF L2!EvictTypes, EvictTypes
<1> QED  BY <1>1, <1>2, <1>3, <1>4

(* What a step of the L2 leaves alone. *)
LEMMA L1Same ==
  ASSUME L1Inv, UNCHANGED l1Vars
  PROVE  L1Inv' /\ UNCHANGED T!l1Vars /\ snoops' = snoops /\ (\A c \in Cores : Bf(c)' = Bf(c))
<1>1. array' = array /\ data' = data /\ evict' = evict /\ snoops' = snoops /\ maf' = maf
  BY DEF l1Vars
<1>2. copyV' = copyV /\ leavingV' = leavingV  BY <1>1 DEF copyV, leavingV
<1>3. missV' = missV /\ balanceV' = balanceV /\ filledV' = filledV
  BY <1>1 DEF missV, balanceV, filledV, Wt
<1>4. \A c \in Cores : Bf(c)' = Bf(c)  BY <1>1 DEF Bf
<1>5. \A c \in Cores : L1At(c)' <=> L1At(c)  BY <1>1, <1>4 DEF L1At, Wt, EvictSnoopIn
<1>6. L1Inv'  BY <1>1, <1>5 DEF L1Inv
<1> QED  BY <1>1, <1>2, <1>3, <1>4, <1>6 DEF T!l1Vars

(* A step of the L2 keeps the invariant if the parts it can disturb *)
(* hold.                                                            *)
LEMMA L2Keeps ==
  ASSUME CInv, L2Frame, failed' = failed, latest' = latest, TStep,
         PostInv', SnoopInv', AskInv', ReplyInv', MemInv', L2Inv'
  PROVE  CInv' /\ TStep
<1>1. T!Inv'
  <2>1. T!Inv /\ [T!Next]_(T!vars)  BY DEF CInv, TStep
  <2> QED  BY <2>1, TSetting, T!InvStep
<1>2. UNCHANGED l1Vars /\ mem' = mem  BY DEF L2Frame
<1>3. L1Inv'  BY <1>2, L1Same DEF CInv
<1> QED  BY <1>1, <1>2, <1>3 DEF CInv

-----------------------------------------------------------------------------
(* The miss address file, seen by request m. *)
Stalls == {"WaitRequest", "WaitEvict", "WaitAck"}

(* The MAF entries in a state, and the request at hand apart. *)
LEMMA WaitingHas ==
  ASSUME PostInv, NEW m, NEW k, Taken(m, k), NEW st \in Stalls
  PROVE  /\ L2!Waiting(k, st) # {} <=> Has(st)
         /\ \A i \in L2!Waiting(k, st) : dmaf[i] \in Entries /\ dmaf[i].st = st
         /\ \A e \in Entries : e.st = st => \E i \in L2!Waiting(k, st) : dmaf[i] = e
<1>1. k \in DOMAIN dmaf => dmaf[k].st # st
  <2>1. k \in DOMAIN dmaf => k # 0  BY DEF PostInv
  <2> QED  BY <2>1 DEF Taken, Stalls
<1>2. \A i \in DOMAIN dmaf : dmaf[i].st = st => i # k  BY <1>1
<1>3. L2!Waiting(k, st) = {i \in DOMAIN dmaf : dmaf[i].st = st}  BY <1>2 DEF L2!Waiting
<1>4. \A e : e \in Entries <=> \E i \in DOMAIN dmaf : dmaf[i] = e  BY DEF Entries, ToSet
<1> QED  BY <1>3, <1>4 DEF Has

(* What the MAF says of the requests being served. *)
LEMMA HasServed ==
  ASSUME PostInv
  PROVE  /\ Has("WaitAck") <=> Srv # {}
         /\ T!NoneServed <=> Srv = {}
         /\ T!NoneStoring <=> \A q \in Srv : q.type \notin {"WriteReq", "UpgradeReq"}
<1>1. Has("WaitAck") <=> Srv # {}  BY SrvIs DEF Has
<1>2. \A q \in Srv : q.requester \in Cores  BY ServedOnce
<1>3. \A c \in Cores : /\ T!Served(c) <=> \E q \in Srv : q.requester = c
                       /\ T!Storing(c) <=> \E q \in Srv : q.requester = c /\ q.type \in {"WriteReq", "UpgradeReq"}
  BY ServedIs
<1> QED  BY <1>1, <1>2, <1>3 DEF T!NoneServed, T!NoneStoring

(* The request at hand is in none of the stalled states. *)
LEMMA OthersHave ==
  ASSUME PostInv, NEW m, NEW k, Taken(m, k), NEW st \in Stalls
  PROVE  (\E e \in Others(k) : e.st = st) <=> Has(st)
<1>1. k \in DOMAIN dmaf => k # 0  BY DEF PostInv
<1>2. k # 0 => dmaf[k].st = "Waking"  BY DEF Taken
<1> QED  BY <1>1, <1>2 DEF Others, Has, Stalls

(* The states of the MAF when the request gets an entry, *)
LEMMA HasPut ==
  ASSUME PostInv, NEW m, NEW k, Taken(m, k), NEW n, NEW s,
         Entries' = Others(k) \cup {[msg |-> n, st |-> s]}
  PROVE  \A st \in Stalls : Has(st)' <=> Has(st) \/ s = st
<1>1. \A st : Has(st)' <=> \E e \in Others(k) \cup {[msg |-> n, st |-> s]} : e.st = st  BY DEF Has
<1>2. \A st \in Stalls : (\E e \in Others(k) : e.st = st) <=> Has(st)  BY OthersHave
<1>3. [msg |-> n, st |-> s].st = s  OBVIOUS
<1>4. PICK e0 : e0 = [msg |-> n, st |-> s]  OBVIOUS
<1>5. \A st : Has(st)' <=> \E e \in Others(k) \cup {e0} : e.st = st  BY <1>1, <1>4
<1>6. e0.st = s  BY <1>3, <1>4
<1>7. \A st : Has(st)' <=> (\E e \in Others(k) : e.st = st) \/ s = st  BY <1>5, <1>6
<1> QED  BY <1>2, <1>7

(* ... and when it leaves. *)
LEMMA HasGone ==
  ASSUME PostInv, NEW m, NEW k, Taken(m, k), Entries' = Others(k)
  PROVE  \A st \in Stalls : Has(st)' <=> Has(st)
<1>1. \A st : Has(st)' <=> \E e \in Others(k) : e.st = st  BY DEF Has
<1>2. \A st \in Stalls : (\E e \in Others(k) : e.st = st) <=> Has(st)  BY OthersHave
<1> QED  BY <1>1, <1>2

-----------------------------------------------------------------------------
(* A step of the L2 that takes request m from k. *)
DirTakes(m, k) == Taken(m, k) /\ L2Frame /\ UNCHANGED <<latest, failed>>

L2Rec == [state : {"I", "S", "E", "M"}, ver : Version]
CebRec == [present : BOOLEAN, pending : BOOLEAN, ver : Version]

(* A stalled request has an active one or a write-back to wait for. *)
LEMMA Put2Keeps ==
  ASSUME CInv, NEW m, NEW k, Taken(m, k), NEW n, NEW s,
         Entries' = Others(k) \cup {[msg |-> n, st |-> s]},
         l2' \in L2Rec, ceb' \in CebRec, ceb'.pending => ceb'.present,
         ceb.pending' <=> ceb.pending,
         s \in {"WaitAck", "WaitRequest", "WaitEvict"},
         s = "WaitRequest" => Has("WaitAck") \/ Has("WaitEvict"),
         s = "WaitEvict" => ceb.pending
  PROVE  L2Inv'
<1>1. PostInv /\ L2Inv  BY DEF CInv
<1>2. \A st \in Stalls : Has(st)' <=> Has(st) \/ s = st  BY <1>1, HasPut
<1>3. /\ Has("WaitEvict")' <=> Has("WaitEvict") \/ s = "WaitEvict"
      /\ Has("WaitAck")' <=> Has("WaitAck") \/ s = "WaitAck"
      /\ Has("WaitRequest")' <=> Has("WaitRequest") \/ s = "WaitRequest"
  BY <1>2 DEF Stalls
<1>4. Has("WaitEvict")' => ceb.pending'  BY <1>1, <1>3 DEF L2Inv
<1>5. Has("WaitRequest")' => Has("WaitAck")' \/ Has("WaitEvict")'  BY <1>1, <1>3 DEF L2Inv
<1> QED  BY <1>4, <1>5 DEF L2Inv, L2Rec, CebRec

(* A request is put off. *)
LEMMA StallKeeps ==
  ASSUME CInv, NEW m, NEW k, DirTakes(m, k), NEW st \in {"WaitRequest", "WaitEvict"},
         L2!Put(m, k, st), UNCHANGED <<sharers, snoop, toMem, reply>>, ceb' = ceb,
         l2' \in L2Rec,
         l2'.state = l2.state \/ (l2'.state = "I" /\ sharers = {} /\ ~T!NoneServed),
         st = "WaitRequest" => Has("WaitAck") \/ Has("WaitEvict"),
         st = "WaitEvict" => ceb.pending
  PROVE  CInv' /\ TStep
<1>1. PostInv /\ L2Inv /\ SnoopInv /\ AskInv /\ ReplyInv /\ MemInv /\ L1Inv  BY DEF CInv
<1>2. Taken(m, k) /\ L2Frame /\ latest' = latest /\ failed' = failed /\ UNCHANGED l1Vars
  BY DEF DirTakes, L2Frame
<1>3. st \in L2!MafStates /\ st # "WaitAck"  BY DEF L2!MafStates
<1>4. PostInv' /\ Pst' = Pst /\ Srv' = Srv /\ Entries' = Others(k) \cup {[msg |-> m, st |-> st]}
  BY <1>1, <1>2, <1>3, PutOffKeeps
<1>5. UNCHANGED T!postVars /\ UNCHANGED T!serveVars
  <2>1. UNCHANGED postViews /\ UNCHANGED serveViews  BY <1>4, PostedSame, ServedSame
  <2> QED  BY <2>1 DEF postViews, serveViews, T!postVars, T!serveVars
<1>6. UNCHANGED T!l1Vars /\ snoops' = snoops  BY <1>1, <1>2, L1Same
<1>7. SnoopInv' /\ UNCHANGED snoopViews /\ (\A c \in Cores : Sn(c)' = Sn(c) /\ Bf(c)' = Bf(c))
  BY <1>1, <1>6, SnoopQuiet
<1>8. AskInv'  BY <1>1, <1>5, <1>7, AskSame
<1>9. ReplyInv' /\ Rp' = Rp /\ repliesV' = repliesV /\ FromDir(Rp)' = FromDir(Rp)
  BY <1>1, ReplySame
<1>10. MemInv' /\ atMemoryV' = atMemoryV  BY <1>1, <1>9, MemSame
<1>11. UNCHANGED T!tokenVars  BY <1>7, <1>10 DEF snoopViews, T!tokenVars
<1>12. victimV' = victimV  BY DEF victimV
<1>13. TStep
  <2>1. CASE l2'.state = l2.state
    <3>1. UNCHANGED T!dirVars  BY <1>12, <2>1 DEF T!dirVars
    <3> QED  BY <1>5, <1>6, <1>9, <1>11, <3>1, Stutters DEF T!vars
  <2>2. CASE l2'.state = "I" /\ sharers = {} /\ ~T!NoneServed
    <3>1. T!Drop  BY <1>5, <1>6, <1>9, <1>11, <1>12, <2>2 DEF T!Drop
    <3> QED  BY <3>1, T!OtherSteps DEF TStep
  <2> QED  BY <2>1, <2>2
<1>14. L2Inv'
  <2>1. ceb' \in CebRec /\ (ceb'.pending => ceb'.present)  BY <1>1 DEF L2Inv, CebRec
  <2> QED  BY <1>2, <1>4, <2>1, Put2Keeps
<1> QED  BY <1>2, <1>4, <1>7, <1>8, <1>9, <1>10, <1>13, <1>14, L2Keeps

-----------------------------------------------------------------------------
(* Messages to the L1s: each gets at most one. *)
Fresh(m) ==
  /\ m \in Message /\ m.dest \in Cores
  /\ DirSnoop(m) \/ (m.type = "EvictAck" /\ m.requester = m.dest)
  /\ \A n \in Sn(m.dest) \cup Bf(m.dest) : n.type # m.type \/ n.requester # m.requester
  /\ \A n \in Sn(m.dest) : n.type # "EvictAck"

For(ms, c) == {m \in ms : m.dest = c}

(* The directory sends snoops to L1s that have none of the kind. *)
LEMMA SnoopsSent ==
  ASSUME SnoopInv, NEW ms, \A m \in ms : Fresh(m), \A m, n \in ms : m.dest = n.dest => m = n,
         L2!SendSnoops(ms), snoops' = snoops
  PROVE  SnoopInv' /\ \A c \in Cores : Sn(c)' = Sn(c) \cup For(ms, c) /\ Bf(c)' = Bf(c)
<1>1. snoop' = [c \in Cores |-> snoop[c] \o SetToSeq(For(ms, c))]
  BY DirNames DEF L2!SendSnoops, For
<1>2. ASSUME NEW c \in Cores
      PROVE  SnoopsOK(c, snoop'[c], snoops[c]) /\ ToSet(snoop'[c]) = ToSet(snoop[c]) \cup For(ms, c)
  <2>1. SnoopsOK(c, snoop[c], snoops[c]) /\ snoop[c] \in Seq(Message)  BY SnoopSeqs
  <2>2. snoop'[c] = snoop[c] \o SetToSeq(For(ms, c))  BY <1>1
  <2>3. CASE For(ms, c) = {}
    <3>1. SetToSeq(For(ms, c)) = <<>>  BY <2>3, SetToSeqNone
    <3>2. snoop'[c] = snoop[c] \o <<>>  BY <2>2, <3>1
    <3>3. snoop'[c] = snoop[c]  BY <2>1, <3>2
    <3> QED  BY <2>1, <2>3, <3>3
  <2>4. CASE For(ms, c) # {}
    <3>1. PICK m : m \in For(ms, c)  BY <2>4
    <3>2. For(ms, c) = {m} /\ m \in ms /\ m.dest = c  BY <3>1 DEF For
    <3>3. snoop'[c] = snoop[c] \o <<m>>  BY <2>2, <3>2, SetToSeqOne
    <3>4. /\ m \in Message /\ (DirSnoop(m) \/ (m.type = "EvictAck" /\ m.requester = c))
          /\ \A n \in ToSet(snoop[c]) \cup Buffered(snoops[c]) : n.type # m.type \/ n.requester # m.requester
          /\ \A n \in ToSet(snoop[c]) : n.type # "EvictAck"
      BY <3>2 DEF Fresh, Sn, Bf
    <3>5. PICK q0, s0, r : q0 = snoop[c] /\ s0 = snoops[c] /\ r = snoop'[c]  OBVIOUS
    <3>6. SnoopsOK(c, q0, s0)  BY <2>1, <3>5
    <3>b. r = q0 \o <<m>> /\ q0 \in Seq(Message)  BY <2>1, <3>3, <3>5
    <3>a. r = Joined(q0, m)  BY <3>4, <3>b DEF Joined
    <3>c. m \in Message /\ (DirSnoop(m) \/ (m.type = "EvictAck" /\ m.requester = c))  BY <3>4
    <3>7. /\ \A n \in ToSet(q0) \cup Buffered(s0) : n.type # m.type \/ n.requester # m.requester
          /\ \A n \in ToSet(q0) : n.type # "EvictAck"
      BY <3>4, <3>5
    <3>8. SnoopsOK(c, r, s0) /\ ToSet(r) = ToSet(q0) \cup {m}
      BY <3>c, <3>6, <3>a, <3>7, SnoopSent
    <3> QED  BY <3>2, <3>5, <3>8
  <2> QED  BY <2>3, <2>4
<1>3. snoop' \in [Cores -> Seq(Message)]
  <2>1. \A c \in Cores : snoop'[c] \in Seq(Message)  BY <1>2 DEF SnoopsOK
  <2>2. DOMAIN snoop' = Cores /\ snoop' = [c \in Cores |-> snoop'[c]]  BY <1>1
  <2> QED  BY <2>1, <2>2
<1>4. SnoopInv'  BY <1>2, <1>3 DEF SnoopInv
<1>5. \A c \in Cores : Sn(c)' = Sn(c) \cup For(ms, c) /\ Bf(c)' = Bf(c)  BY <1>2 DEF Sn, Bf
<1> QED  BY <1>4, <1>5

(* The token view of an Asks message or an EvictAck. *)
SnoopGets(ms) == \A c \in Cores : Sn(c)' = Sn(c) \cup For(ms, c) /\ Bf(c)' = Bf(c)
Dests(ms, t) == {c \in Cores : \E m \in ms : m.dest = c /\ m.type = t}

(* The token view of WriteFwds, Invalidates and EvictAcks, *)
LEMMA GetsViews ==
  ASSUME NEW ms, SnoopGets(ms), \A m \in ms : m.type # "ReadFwd"
  PROVE  /\ forwardsV' = forwardsV /\ heldV' = heldV
         /\ fetchesV' = fetchesV \cup Dests(ms, "WriteFwd")
         /\ invalsV' = invalsV \cup Dests(ms, "Invalidate")
         /\ evictAcksV' = evictAcksV \cup Dests(ms, "EvictAck")
<1>1. \A c \in Cores : Sn(c)' = Sn(c) \cup For(ms, c) /\ Bf(c)' = Bf(c)  BY DEF SnoopGets
<1>2. \A c \in Cores : Fw(c)' = Fw(c) /\ Hd(c)' = Hd(c)  BY <1>1 DEF Fw, Hd, Of, For
<1>3. fwF' = fwF /\ hdF' = hdF  BY <1>2 DEF fwF, hdF
<1>4. forwardsV' = forwardsV /\ heldV' = heldV  BY <1>3, PairsIs, PairsIsNext DEF Pairs
<1>5. fetchesV' = fetchesV \cup Dests(ms, "WriteFwd")  BY <1>1 DEF fetchesV, Snooped, Dests, For
<1>6. invalsV' = invalsV \cup Dests(ms, "Invalidate")  BY <1>1 DEF invalsV, Snooped, Dests, For
<1>7. evictAcksV' = evictAcksV \cup Dests(ms, "EvictAck")  BY <1>1 DEF evictAcksV, Dests, For
<1> QED  BY <1>4, <1>5, <1>6, <1>7

(* ... and of a ReadFwd. *)
LEMMA ForwardViews ==
  ASSUME NEW m, SnoopGets({m}), m.type = "ReadFwd", m.requester \in Cores, m.dest \in Cores
  PROVE  /\ forwardsV' = forwardsV \cup {<<m.requester, m.dest>>} /\ heldV' = heldV
         /\ fetchesV' = fetchesV /\ invalsV' = invalsV /\ evictAcksV' = evictAcksV
<1>1. \A c \in Cores : Sn(c)' = Sn(c) \cup For({m}, c) /\ Bf(c)' = Bf(c)  BY DEF SnoopGets
<1>2. \A c \in Cores : c # m.dest => For({m}, c) = {}  BY DEF For
<1>3. For({m}, m.dest) = {m}  BY DEF For
<1>4. OnlyAt(m.dest)  BY <1>1, <1>2 DEF OnlyAt
<1>5. Sn(m.dest)' = Sn(m.dest) \cup {m} /\ Bf(m.dest)' = Bf(m.dest)  BY <1>1, <1>3
<1>6. Fw(m.dest)' = Of(Sn(m.dest) \cup {m}, {"ReadFwd"})  BY <1>5 DEF Fw, Of
<1>7. Fw(m.dest)' = Fw(m.dest) \cup {m.requester}  BY <1>6, OfAdd DEF Fw
<1>8. Hd(m.dest)' = Hd(m.dest)  BY <1>5 DEF Hd, Of
<1>9. forwardsV' = forwardsV \cup {<<m.requester, m.dest>>} /\ heldV' = heldV
  BY <1>4, <1>7, <1>8, ViewsAt
<1>10. /\ m.dest \in fetchesV' <=> m.dest \in fetchesV
       /\ m.dest \in invalsV' <=> m.dest \in invalsV
       /\ m.dest \in evictAcksV' <=> m.dest \in evictAcksV
  BY <1>5 DEF fetchesV, invalsV, evictAcksV, Snooped
<1>11. fetchesV' = fetchesV /\ invalsV' = invalsV /\ evictAcksV' = evictAcksV
  BY <1>4, <1>10, AsksAt
<1> QED  BY <1>9, <1>11

-----------------------------------------------------------------------------
(* An eviction of an L1. *)
LEMMA Gone2Keeps ==
  ASSUME CInv, NEW m, NEW k, Taken(m, k), Entries' = Others(k),
         l2' \in L2Rec, ceb' \in CebRec, ceb'.pending => ceb'.present,
         ceb.pending' <=> ceb.pending
  PROVE  L2Inv'
<1>1. PostInv /\ L2Inv  BY DEF CInv
<1>2. \A st \in Stalls : Has(st)' <=> Has(st)  BY <1>1, HasGone
<1>3. /\ Has("WaitEvict")' <=> Has("WaitEvict")
      /\ Has("WaitAck")' <=> Has("WaitAck")
      /\ Has("WaitRequest")' <=> Has("WaitRequest")
  BY <1>2 DEF Stalls
<1> QED  BY <1>1, <1>3 DEF L2Inv, L2Rec, CebRec

(* The block in the L2, *)
LEMMA BlockFields ==
  ASSUME NEW s \in {"I", "S", "E", "M"}, NEW v \in Version, NEW b, b = L2!Block(s, v)
  PROVE  b \in L2Rec /\ b.state = s
<1>1. 0 \in Version  BY Names
<1> QED  BY <1>1 DEF L2!Block, L2!NoBlock, L2Rec

(* ... no block, *)
LEMMA NoBlockIs == L2!NoBlock \in L2Rec /\ L2!NoBlock.state = "I"
<1>1. 0 \in Version  BY Names
<1> QED  BY <1>1 DEF L2!NoBlock, L2Rec

(* ... and the empty evict buffer. *)
LEMMA NoCebIs == L2!NoCeb \in CebRec /\ ~L2!NoCeb.present /\ ~L2!NoCeb.pending
<1>1. 0 \in Version  BY Names
<1> QED  BY <1>1 DEF L2!NoCeb, CebRec

(* The fields of a message. *)
LEMMA MessageIs ==
  ASSUME NEW m \in Message
  PROVE  m.ver \in Version /\ m.type \in MessageTypes /\ m.outstanding \in Int
         /\ m.requester \in Cores \cup {Dir} /\ m.needData \in BOOLEAN
  BY DEF Message

(* No other EvictAck is on its way to this L1. *)
LEMMA EvictAckFresh ==
  ASSUME CInv, NEW c \in Cores, c \notin evictAcksV,
         NEW n, Fields(n, "EvictAck", c, c, Dir, 0)
  PROVE  Fresh(n)
<1>1. SnoopInv  BY DEF CInv
<1>2. n \in Message /\ n.type = "EvictAck" /\ n.requester = c /\ n.dest = c  BY DEF Fields, T!Is
<1>3. \A k \in Sn(c) : k.type # "EvictAck"  BY DEF evictAcksV
<1>4. \A k \in Bf(c) : k.type # "EvictAck"  BY <1>1 DEF SnoopInv, SnoopsOK, DirSnoop, Bf
<1> QED  BY <1>2, <1>3, <1>4 DEF Fresh

(* doEvict: the sharer is removed and the L1 told. *)
LEMMA EvictTakenKeeps ==
  ASSUME CInv, NEW m, NEW k, DirTakes(m, k), NEW c, c = m.requester,
         IsEvict(m), T!NoneStoring, \A q \in Srv : q.requester # c,
         dmaf' = (IF k = 0 THEN dmaf ELSE RemoveAt(dmaf, k)),
         sharers' = sharers \ {c},
         IF c \in sharers /\ m.type = "EvictDirty"
         THEN /\ l2'.state = "M" /\ l2' \in L2Rec
              /\ ceb' = IF l2.state = "I" THEN L2!NoCeb ELSE ceb
         ELSE l2' = l2 /\ ceb' = ceb,
         NEW n, Fields(n, "EvictAck", c, c, Dir, 0), L2!SendSnoops({n}),
         UNCHANGED <<toMem, reply>>
  PROVE  CInv' /\ TStep
<1>1. PostInv /\ L2Inv /\ SnoopInv /\ AskInv /\ ReplyInv /\ MemInv /\ L1Inv /\ T!Inv  BY DEF CInv
<1>2. Taken(m, k) /\ L2Frame /\ latest' = latest /\ failed' = failed /\ UNCHANGED l1Vars
  BY DEF DirTakes, L2Frame
<1>3. m \in Pst /\ m \in Message /\ Posting(m)  BY <1>1, <1>2, TakenLeaves
<1>4. c \in Cores /\ Dir \notin Cores  BY <1>3, Names DEF Posting
<1>5. PostInv' /\ Pst' = Pst \ {m} /\ Srv' = Srv /\ Entries' = Others(k)
  BY <1>1, <1>2, GoneKeeps
<1>6. /\ readsV' = IF m.type = "ReadReq" THEN readsV \ {m.requester} ELSE readsV
      /\ writesV' = IF m.type = "WriteReq" THEN writesV \ {m.requester} ELSE writesV
      /\ upgradesV' = IF m.type = "UpgradeReq" THEN upgradesV \ {m.requester} ELSE upgradesV
      /\ cleansV' = IF m.type \in {"EvictClean", "EvictWritable"}
                       THEN cleansV \ {m.requester} ELSE cleansV
      /\ dirtiesV' = IF m.type = "EvictDirty" THEN dirtiesV \ {m.requester} ELSE dirtiesV
  BY <1>1, <1>3, <1>5, PostedLess
<1>7. UNCHANGED T!serveVars
  <2>1. UNCHANGED serveViews  BY <1>5, ServedSame
  <2> QED  BY <2>1 DEF serveViews, T!serveVars
<1>8. /\ m.type = "EvictDirty" => c \in dirtiesV
      /\ m.type \in {"EvictClean", "EvictWritable"} => c \in cleansV
  BY <1>3, <1>4 DEF dirtiesV, cleansV, Of
<1>9. c \notin evictAcksV  BY <1>1, <1>4, <1>8 DEF T!Inv, T!OneEvict, IsEvict, EvictTypes
<1>10. Fresh(n) /\ n.type = "EvictAck" /\ n.dest = c
  <2>1. Fresh(n)  BY <1>4, <1>9, EvictAckFresh
  <2> QED  BY <2>1 DEF Fields, T!Is
<1>11. UNCHANGED T!l1Vars /\ snoops' = snoops  BY <1>1, <1>2, L1Same
<1>12. SnoopInv' /\ SnoopGets({n})
  <2>1. \A a \in {n} : Fresh(a)  BY <1>10
  <2>2. \A a, b \in {n} : a.dest = b.dest => a = b  OBVIOUS
  <2> QED  BY <1>1, <1>11, <2>1, <2>2, SnoopsSent DEF SnoopGets
<1>13. /\ forwardsV' = forwardsV /\ heldV' = heldV
       /\ fetchesV' = fetchesV /\ invalsV' = invalsV /\ evictAcksV' = evictAcksV \cup {c}
  <2>1. Dests({n}, "WriteFwd") = {} /\ Dests({n}, "Invalidate") = {} /\ Dests({n}, "EvictAck") = {c}
    BY <1>4, <1>10 DEF Dests
  <2>2. \A a \in {n} : a.type # "ReadFwd"  BY <1>10
  <2>3. /\ forwardsV' = forwardsV /\ heldV' = heldV
        /\ fetchesV' = fetchesV \cup Dests({n}, "WriteFwd")
        /\ invalsV' = invalsV \cup Dests({n}, "Invalidate")
        /\ evictAcksV' = evictAcksV \cup Dests({n}, "EvictAck")
    BY <1>12, <2>2, GetsViews
  <2> QED  BY <2>1, <2>3
<1>14. AskInv'
  <2>1. \A d \in Cores : \A a \in Sn(d)' \cup Bf(d)' : Asks(a) => a \in Sn(d) \cup Bf(d)
    BY <1>10, <1>12 DEF SnoopGets, For, Asks
  <2> QED  BY <1>1, <1>7, <2>1, AskSame
<1>15. ReplyInv' /\ Rp' = Rp /\ repliesV' = repliesV /\ FromDir(Rp)' = FromDir(Rp)
  BY <1>1, ReplySame
<1>16. /\ victimV' = victimV /\ (ceb.pending' <=> ceb.pending)
       /\ ceb' \in CebRec /\ (ceb'.pending => ceb'.present)
  <2>1. ceb \in CebRec /\ (ceb.pending => ceb.present)  BY <1>1 DEF L2Inv, CebRec
  <2>2. CASE ceb' = ceb  BY <2>1, <2>2 DEF victimV
  <2>3. CASE ceb' # ceb
    <3>1. c \in sharers /\ m.type = "EvictDirty" /\ ceb' = L2!NoCeb  BY <2>3
    <3>2. victimV = "none"  BY <1>1, <1>4, <1>8, <3>1 DEF T!Inv, T!OneDirty
    <3>3. ~ceb.present /\ ~ceb.pending  BY <2>1, <3>2 DEF victimV
    <3> QED  BY <3>1, <3>3, NoCebIs DEF victimV
  <2> QED  BY <2>2, <2>3
<1>17. MemInv' /\ atMemoryV' = atMemoryV  BY <1>1, <1>15, <1>16, MemSame
<1>18. ~T!Served(c)  BY <1>1, <1>4, ServedIs
<1>19. T!EvictTaken(c)
  <2>1. m.type \notin {"ReadReq", "WriteReq", "UpgradeReq"}  BY DEF IsEvict, EvictTypes
  <2> QED  BY <1>4, <1>6, <1>7, <1>11, <1>13, <1>15, <1>16, <1>17, <1>18, <2>1 DEF T!EvictTaken
<1>20. TStep
  <2>1. CASE m.type = "EvictDirty"
    <3>1. T!TakeDirty(c)  BY <1>6, <1>8, <1>19, <2>1 DEF T!TakeDirty
    <3> QED  BY <1>4, <3>1, T!DirSteps DEF TStep
  <2>2. CASE m.type # "EvictDirty"
    <3>1. m.type \in {"EvictClean", "EvictWritable"}  BY <2>2 DEF IsEvict, EvictTypes
    <3>2. l2' = l2  BY <2>2
    <3>3. T!TakeClean(c)  BY <1>6, <1>8, <1>19, <3>1, <3>2 DEF T!TakeClean
    <3> QED  BY <1>4, <3>3, T!DirSteps DEF TStep
  <2> QED  BY <2>1, <2>2
<1>21. L2Inv'
  <2>1. l2' \in L2Rec  BY <1>1 DEF L2Inv, L2Rec
  <2> QED  BY <1>2, <1>5, <1>16, <2>1, Gone2Keeps
<1> QED  BY <1>2, <1>5, <1>12, <1>14, <1>15, <1>17, <1>20, <1>21, L2Keeps

(* A request that finds an active one or a write-back waits. *)
LEMMA StallAlike ==
  ASSUME CInv, NEW m, NEW k, Taken(m, k), L2Frame, latest' = latest, failed' = failed,
         NEW st \in {"WaitRequest", "WaitEvict"}, L2!Stall(m, k, st), UNCHANGED <<l2, ceb>>,
         st = "WaitRequest" => Has("WaitAck") \/ Has("WaitEvict"),
         st = "WaitEvict" => ceb.pending
  PROVE  CInv' /\ TStep
<1>1. l2' \in L2Rec /\ l2'.state = l2.state /\ ceb' = ceb  BY DEF CInv, L2Inv, L2Rec
<1>2. L2!Put(m, k, st) /\ UNCHANGED <<sharers, snoop, toMem, reply>>  BY DEF L2!Stall
<1>3. DirTakes(m, k)  BY DEF DirTakes
<1> QED  BY <1>1, <1>2, <1>3, StallKeeps

(* An eviction of an L1 is taken or put off. *)
LEMMA EvictRequestKeeps ==
  ASSUME CInv, NEW m, NEW k, Taken(m, k), L2Frame, latest' = latest,
         IsEvict(m), T!NoneStoring, L2!DoEvict(m, k)
  PROVE  CInv' /\ TStep
<1>1. PostInv /\ L2Inv  BY DEF CInv
<1>2. "WaitAck" \in Stalls  BY DEF Stalls
<1>3. /\ L2!Waiting(k, "WaitAck") # {} <=> Has("WaitAck")
      /\ \A e \in Entries : e.st = "WaitAck" => \E i \in L2!Waiting(k, "WaitAck") : dmaf[i] = e
  BY <1>1, <1>2, WaitingHas
<1>4. m \in Pst /\ m \in Message /\ Posting(m)  BY <1>1, TakenLeaves
<1>5. m.requester \in Cores /\ m.ver \in Version /\ Dir \in Nodes  BY <1>4, MessageIs DEF Posting, Nodes
<1>6. failed' = failed  BY DEF L2!DoEvict
<1>7. CASE \E i \in L2!Waiting(k, "WaitAck") : dmaf[i].msg.requester = m.requester
  <2>1. L2!Stall(m, k, "WaitRequest") /\ UNCHANGED <<l2, ceb>>  BY <1>7 DEF L2!DoEvict
  <2>2. Has("WaitAck")  BY <1>3, <1>7
  <2> QED  BY <1>6, <2>1, <2>2, StallAlike
<1>8. CASE ~\E i \in L2!Waiting(k, "WaitAck") : dmaf[i].msg.requester = m.requester
  <2>1. /\ l2' = (IF m.type = "EvictDirty" /\ m.requester \in sharers THEN L2!Block("M", m.ver) ELSE l2)
        /\ ceb' = (IF (m.type = "EvictDirty" /\ m.requester \in sharers) /\ l2.state = "I"
                   THEN L2!NoCeb ELSE ceb)
        /\ sharers' = sharers \ {m.requester}
        /\ UNCHANGED <<toMem, reply>>
    BY <1>8 DEF L2!DoEvict
  <2>2. L2!SendSnoops({L2!Msg("EvictAck", m.requester, m.requester, L2!Dir)})  BY <1>8 DEF L2!DoEvict
  <2>3. dmaf' = IF k = 0 THEN dmaf ELSE L2!RemoveAt(dmaf, k)  BY <1>8 DEF L2!DoEvict
  <2>4. dmaf' = (IF k = 0 THEN dmaf ELSE RemoveAt(dmaf, k))  BY <2>3, DirNames
  <2>5. PICK n : n = L2!Msg("EvictAck", m.requester, m.requester, L2!Dir)  OBVIOUS
  <2>6. Fields(n, "EvictAck", m.requester, m.requester, Dir, 0)
    <3>1. "EvictAck" \in MessageTypes  BY DEF MessageTypes, SnoopTypes
    <3>2. m.requester \in Nodes /\ m.requester \in Cores \cup {Dir}  BY <1>5 DEF Nodes
    <3> QED  BY <1>5, <2>5, <3>1, <3>2, MsgFields, Names
  <2>7. L2!SendSnoops({n})  BY <2>2, <2>5
  <2>8. \A q \in Srv : q.requester # m.requester
    <3>1. \A e \in Entries : e.st = "WaitAck" => e.msg.requester # m.requester  BY <1>3, <1>8
    <3> QED  BY <3>1, SrvIs
  <2>9. DirTakes(m, k)  BY <1>6 DEF DirTakes
  <2>10. m.requester \in sharers /\ m.type = "EvictDirty" => l2' \in L2Rec /\ l2'.state = "M"
    BY <1>5, <2>1, BlockFields
  <2>11. PICK c : c = m.requester  OBVIOUS
  <2>12. IF c \in sharers /\ m.type = "EvictDirty"
         THEN /\ l2'.state = "M" /\ l2' \in L2Rec
              /\ ceb' = IF l2.state = "I" THEN L2!NoCeb ELSE ceb
         ELSE l2' = l2 /\ ceb' = ceb
    BY <2>1, <2>10, <2>11
  <2>13. Fields(n, "EvictAck", c, c, Dir, 0) /\ \A q \in Srv : q.requester # c  BY <2>6, <2>8, <2>11
  <2>14. sharers' = sharers \ {c} /\ UNCHANGED <<toMem, reply>>  BY <2>1, <2>11
  <2> QED  BY <2>4, <2>7, <2>9, <2>11, <2>12, <2>13, <2>14, EvictTakenKeeps
<1> QED  BY <1>7, <1>8

-----------------------------------------------------------------------------
(* A request that is served. *)
Servable(m, k) ==
  /\ DirTakes(m, k) /\ ~IsEvict(m)
  /\ T!NoneStoring
  /\ L2!IsWrite(m) => T!NoneServed
  /\ ~(l2.state = "I" /\ ceb.pending)

(* A victim is pulled back from the evict buffer. *)
LEMMA PullIs ==
  ASSUME CInv, ~(l2.state = "I" /\ ceb.pending), L2!PullBack, NEW b, b = L2!CurrentBlock
  PROVE  /\ b \in L2Rec /\ b.state = T!Current /\ b.state # "S"
         /\ victimV' = "none" /\ ~ceb.pending /\ ~ceb'.pending /\ ceb' \in CebRec
         /\ ~T!NoneServed => b = l2 /\ ceb' = ceb
<1>1. L2Inv /\ T!Inv  BY DEF CInv
<1>2. l2 \in L2Rec /\ ceb \in CebRec /\ (ceb.pending => ceb.present)
  BY <1>1 DEF L2Inv, L2Rec, CebRec
<1>3. l2.state \in {"I", "E", "M"}  BY <1>1 DEF T!Inv, T!TypeOK
<1>4. /\ l2.state # "I" => victimV = "none"
      /\ ~T!NoneServed => victimV = "none"
  BY <1>1 DEF T!Inv, T!VictimAlone, T!NoneServed
<1>5. ceb.present <=> victimV = "dirty"  BY DEF victimV
<1>6. L2!PulledBack <=> l2.state = "I" /\ victimV = "dirty"  BY <1>2, <1>5 DEF L2!PulledBack
<1>7. CASE L2!PulledBack
  <2>1. b = L2!Block("M", ceb.ver) /\ ceb' = L2!NoCeb  BY <1>7 DEF L2!CurrentBlock, L2!PullBack
  <2>2. ceb.ver \in Version  BY <1>2 DEF CebRec
  <2>3. b \in L2Rec /\ b.state = "M"  BY <2>1, <2>2, BlockFields
  <2>4. T!Current = "M"  BY <1>6, <1>7 DEF T!Current
  <2>5. ~ceb'.present /\ ~ceb'.pending /\ ceb' \in CebRec  BY <2>1, NoCebIs
  <2>6. victimV' = "none"  BY <2>5 DEF victimV
  <2>7. T!NoneServed  BY <1>4, <1>6, <1>7
  <2>8. ~ceb.pending  BY <1>7 DEF L2!PulledBack
  <2> QED  BY <2>3, <2>4, <2>5, <2>6, <2>7, <2>8
<1>8. CASE ~L2!PulledBack
  <2>1. b = l2 /\ ceb' = ceb  BY <1>8 DEF L2!CurrentBlock, L2!PullBack
  <2>2. victimV = "none"  BY <1>4, <1>6, <1>8 DEF victimV
  <2>3. ~ceb.present /\ ~ceb.pending  BY <1>2, <1>5, <2>2
  <2>4. T!Current = l2.state  BY <2>2 DEF T!Current
  <2>5. victimV' = "none"  BY <2>1, <2>3 DEF victimV
  <2> QED  BY <1>2, <1>3, <2>1, <2>3, <2>4, <2>5
<1> QED  BY <1>7, <1>8

(* An upgrade of a core that is no sharer any more becomes a write. *)
LEMMA ConvertedIs ==
  ASSUME NEW m \in Message, Posting(m), ~IsEvict(m), NEW n, n = L2!Converted(m)
  PROVE  /\ n \in Message /\ n.requester = m.requester /\ n.type \in RequestTypes
         /\ n.type = IF m.type = "UpgradeReq" /\ m.requester \notin sharers THEN "WriteReq" ELSE m.type
         /\ m.type = "ReadReq" => n = m
<1>1. m.type \in RequestTypes  BY DEF Posting, IsEvict
<1>2. "WriteReq" \in MessageTypes  BY DEF MessageTypes, RequestTypes
<1>3. CASE m.type = "UpgradeReq" /\ m.requester \notin sharers
  <2>1. n = [m EXCEPT !.type = "WriteReq"]  BY <1>3 DEF L2!Converted
  <2>2. n \in Message /\ n.requester = m.requester /\ n.type = "WriteReq"  BY <1>2, <2>1 DEF Message
  <2> QED  BY <1>3, <2>2 DEF RequestTypes
<1>4. CASE ~(m.type = "UpgradeReq" /\ m.requester \notin sharers)
  <2>1. n = m  BY <1>4 DEF L2!Converted
  <2> QED  BY <1>1, <1>4, <2>1
<1> QED  BY <1>3, <1>4

(* What a core the L2 does not serve yet has not. *)
Unserved(c) ==
  /\ c \in Cores /\ ~T!Served(c) /\ c \notin atMemoryV
  /\ \A q \in Srv : q.requester # c
  /\ \A n \in repliesV : n.requester # c
  /\ \A d \in Cores : \A n \in Sn(d) \cup Bf(d) : n.type = "ReadFwd" => n.requester # c

(* A request at hand is not being served yet. *)
LEMMA NotServedYet ==
  ASSUME CInv, NEW m, NEW k, Servable(m, k)
  PROVE  Unserved(m.requester) /\ m \in Message /\ Posting(m) /\ m \in Pst
<1>1. PostInv /\ T!Inv /\ SnoopInv  BY DEF CInv
<1>2. m \in Pst /\ m \in Message /\ Posting(m)
  BY <1>1, TakenLeaves DEF Servable, DirTakes
<1>3. PICK c : c = m.requester  OBVIOUS
<1>4. c \in Cores  BY <1>2, <1>3 DEF Posting
<1>5. ~T!Served(c)
  <2>1. CASE L2!IsWrite(m)  BY <1>4, <2>1 DEF Servable, T!NoneServed
  <2>2. CASE ~L2!IsWrite(m)
    <3>1. m.type = "ReadReq"  BY <1>2, <2>2 DEF L2!IsWrite, Servable, Posting, IsEvict, RequestTypes
    <3>2. c \in readsV  BY <1>2, <1>3, <1>4, <3>1 DEF readsV, Of
    <3>3. missV[c] = "Load" /\ copyV[c] = "I"
      BY <1>1, <1>4, <3>2 DEF T!Inv, T!PostedMiss, T!LoadHasNone
    <3>4. T!Served(c) => T!AckSent(c)  BY <1>1, <1>4, <3>2 DEF T!Inv, T!PostedServed, T!Posted
    <3>5. ~T!AckSent(c)  BY <1>1, <3>3 DEF T!Inv, T!AckHasCopy, T!AckSent
    <3> QED  BY <3>4, <3>5
  <2> QED  BY <2>1, <2>2
<1>6. c \notin atMemoryV  BY <1>1, <1>4, <1>5 DEF T!Inv, T!MemoryToken
<1>7. \A q \in Srv : q.requester # c  BY <1>1, <1>4, <1>5, ServedIs
<1>8. \A n \in repliesV : n.requester # c  BY <1>1, <1>5, T!UnservedFresh
<1>9. \A d \in Cores : \A n \in Sn(d) \cup Bf(d) : n.type = "ReadFwd" => n.requester # c
  <2> SUFFICES ASSUME NEW d \in Cores, NEW n \in Sn(d) \cup Bf(d), n.type = "ReadFwd", n.requester = c
               PROVE  FALSE
    OBVIOUS
  <2>1. c \in Fw(d) \/ c \in Hd(d)  BY <1>4 DEF Fw, Hd, Of
  <2>2. <<c, d>> \in forwardsV \/ <<c, d>> \in heldV
    BY <1>4, <2>1, PairsIs DEF Pairs, fwF, hdF
  <2>3. T!Forwarded(c, d)  BY <2>2 DEF T!Forwarded
  <2>4. c \in readingV  BY <1>1, <1>4, <2>3 DEF T!Inv, T!ForwardToken
  <2> QED  BY <1>5, <2>4 DEF T!Served
<1>10. Unserved(c)  BY <1>4, <1>5, <1>6, <1>7, <1>8, <1>9 DEF Unserved
<1> QED  BY <1>2, <1>3, <1>10

ReadStarts(c) ==
  /\ T!NoneStoring /\ UNCHANGED T!l1Vars /\ victimV' = "none"
  /\ c \in readsV /\ readsV' = readsV \ {c} /\ readingV' = readingV \cup {c}
  /\ writesV' = writesV /\ upgradesV' = upgradesV /\ cleansV' = cleansV /\ dirtiesV' = dirtiesV
  /\ writingV' = writingV /\ upgradingV' = upgradingV

WriteStarts(c) ==
  /\ T!NoneServed /\ UNCHANGED T!l1Vars /\ victimV' = "none"
  /\ \/ c \in writesV /\ writesV' = writesV \ {c} /\ upgradesV' = upgradesV
     \/ c \in upgradesV /\ c \notin sharers /\ upgradesV' = upgradesV \ {c} /\ writesV' = writesV
  /\ writingV' = writingV \cup {c}
  /\ readsV' = readsV /\ cleansV' = cleansV /\ dirtiesV' = dirtiesV
  /\ readingV' = readingV /\ upgradingV' = upgradingV

UpgradeStarts(c) ==
  /\ T!NoneServed /\ UNCHANGED T!l1Vars /\ victimV' = "none"
  /\ c \in upgradesV /\ c \in sharers /\ upgradesV' = upgradesV \ {c}
  /\ upgradingV' = upgradingV \cup {c}
  /\ readsV' = readsV /\ writesV' = writesV /\ cleansV' = cleansV /\ dirtiesV' = dirtiesV
  /\ readingV' = readingV /\ writingV' = writingV

(* The MAF entry of a request that is served. *)
LEMMA ServeStarts ==
  ASSUME CInv, NEW m, NEW k, Servable(m, k), NEW n, n = L2!Converted(m),
         L2!PullBack, L2!Put(n, k, "WaitAck")
  PROVE  /\ PostInv' /\ snoops' = snoops
         /\ Entries' = Others(k) \cup {[msg |-> n, st |-> "WaitAck"]}
         /\ \/ n.type = "ReadReq" /\ ReadStarts(m.requester)
            \/ n.type = "WriteReq" /\ WriteStarts(m.requester)
            \/ n.type = "UpgradeReq" /\ UpgradeStarts(m.requester)
<1>1. PostInv /\ L1Inv  BY DEF CInv
<1>2. Unserved(m.requester) /\ m \in Message /\ Posting(m) /\ m \in Pst  BY NotServedYet
<1>3. /\ Taken(m, k) /\ UNCHANGED l1Vars /\ ~IsEvict(m) /\ T!NoneStoring
      /\ (L2!IsWrite(m) => T!NoneServed) /\ ~(l2.state = "I" /\ ceb.pending)
  BY DEF Servable, DirTakes, L2Frame
<1>4. UNCHANGED T!l1Vars /\ snoops' = snoops  BY <1>1, <1>3, L1Same
<1>5. victimV' = "none"  BY <1>3, PullIs
<1>6. /\ n \in Message /\ n.requester = m.requester /\ n.type \in RequestTypes
      /\ n.type = IF m.type = "UpgradeReq" /\ m.requester \notin sharers THEN "WriteReq" ELSE m.type
  BY <1>2, <1>3, ConvertedIs
<1>7. m.requester \in Cores /\ \A q \in Srv : q.requester # m.requester  BY <1>2 DEF Unserved
<1>8. /\ PostInv' /\ Pst' = Pst \ {m} /\ Srv' = Srv \cup {n}
      /\ Entries' = Others(k) \cup {[msg |-> n, st |-> "WaitAck"]}
  BY <1>1, <1>3, <1>6, <1>7, ServedKeeps
<1>9. /\ readsV' = IF m.type = "ReadReq" THEN readsV \ {m.requester} ELSE readsV
      /\ writesV' = IF m.type = "WriteReq" THEN writesV \ {m.requester} ELSE writesV
      /\ upgradesV' = IF m.type = "UpgradeReq" THEN upgradesV \ {m.requester} ELSE upgradesV
      /\ cleansV' = IF m.type \in {"EvictClean", "EvictWritable"}
                       THEN cleansV \ {m.requester} ELSE cleansV
      /\ dirtiesV' = IF m.type = "EvictDirty" THEN dirtiesV \ {m.requester} ELSE dirtiesV
  BY <1>1, <1>2, <1>8, PostedLess
<1>10. /\ readingV' = IF n.type = "ReadReq" THEN readingV \cup {n.requester} ELSE readingV
       /\ writingV' = IF n.type = "WriteReq" THEN writingV \cup {n.requester} ELSE writingV
       /\ upgradingV' = IF n.type = "UpgradeReq" THEN upgradingV \cup {n.requester} ELSE upgradingV
  BY <1>6, <1>7, <1>8, ServedMore
<1>11. /\ m.type = "ReadReq" => m.requester \in readsV
       /\ m.type = "WriteReq" => m.requester \in writesV
       /\ m.type = "UpgradeReq" => m.requester \in upgradesV
  BY <1>2, <1>7 DEF readsV, writesV, upgradesV, Of
<1>12. m.type \in {"ReadReq", "WriteReq", "UpgradeReq"}  BY <1>2, <1>3 DEF Posting, IsEvict, RequestTypes
<1>13. CASE m.type = "ReadReq"
  <2>1. n.type = "ReadReq" /\ ReadStarts(m.requester)
    BY <1>3, <1>4, <1>5, <1>6, <1>9, <1>10, <1>11, <1>13 DEF ReadStarts
  <2> QED  BY <1>4, <1>8, <2>1
<1>14. CASE m.type = "WriteReq"
  <2>1. T!NoneServed  BY <1>3, <1>14 DEF L2!IsWrite
  <2>2. n.type = "WriteReq" /\ WriteStarts(m.requester)
    BY <1>4, <1>5, <1>6, <1>9, <1>10, <1>11, <1>14, <2>1 DEF WriteStarts
  <2> QED  BY <1>4, <1>8, <2>2
<1>15. CASE m.type = "UpgradeReq"
  <2>1. T!NoneServed  BY <1>3, <1>15 DEF L2!IsWrite
  <2>2. CASE m.requester \notin sharers
    <3>1. n.type = "WriteReq" /\ WriteStarts(m.requester)
      BY <1>4, <1>5, <1>6, <1>9, <1>10, <1>11, <1>15, <2>1, <2>2 DEF WriteStarts
    <3> QED  BY <1>4, <1>8, <3>1
  <2>3. CASE m.requester \in sharers
    <3>1. n.type = "UpgradeReq" /\ UpgradeStarts(m.requester)
      BY <1>4, <1>5, <1>6, <1>9, <1>10, <1>11, <1>15, <2>1, <2>3 DEF UpgradeStarts
    <3> QED  BY <1>4, <1>8, <3>1
  <2> QED  BY <2>2, <2>3
<1> QED  BY <1>12, <1>13, <1>14, <1>15

(* WriteFwds and Invalidates are for the write that is being served. *)
LEMMA AskMore ==
  ASSUME AskInv, \A c \in Cores : T!Storing(c) => T!Storing(c)',
         \A c \in Cores : \A m \in Sn(c)' \cup Bf(c)' : Asks(m) =>
            \/ m \in Sn(c) \cup Bf(c)
            \/ T!Storing(m.requester)',
         SnoopInv
  PROVE  AskInv'
<1>1. \A c \in Cores : \A m \in Sn(c) \cup Bf(c) : Asks(m) => m.requester \in Cores
  <2>1. \A c \in Cores : \A m \in Sn(c) : Asks(m) => m.requester \in Cores
    BY DEF SnoopInv, SnoopsOK, Sn, Asks, DirSnoop
  <2>2. \A c \in Cores : \A m \in Bf(c) : Asks(m) => m.requester \in Cores
    BY DEF SnoopInv, SnoopsOK, Bf, Asks, DirSnoop
  <2> QED  BY <2>1, <2>2
<1>2. \A c \in Cores : \A m \in Sn(c)' \cup Bf(c)' : Asks(m) => T!Storing(m.requester)'
  BY <1>1 DEF AskInv
<1> QED  BY <1>2 DEF AskInv

StartOf(c, n) ==
  \/ n.type = "ReadReq" /\ ReadStarts(c)
  \/ n.type = "WriteReq" /\ WriteStarts(c)
  \/ n.type = "UpgradeReq" /\ UpgradeStarts(c)

(* A write that is being served goes on being served. *)
LEMMA StoringStays ==
  ASSUME NEW c, NEW n, StartOf(c, n)
  PROVE  \A d \in Cores : T!Storing(d) => T!Storing(d)'
<1>1. writingV \subseteq writingV' /\ upgradingV \subseteq upgradingV'
  BY DEF StartOf, ReadStarts, WriteStarts, UpgradeStarts
<1> QED  BY <1>1 DEF T!Storing

(* The last steps of every case of Serve. *)
LEMMA ServeKeeps ==
  ASSUME CInv, NEW m, NEW k, Servable(m, k), L2!PullBack, L2!Put(L2!Converted(m), k, "WaitAck"),
         l2' \in L2Rec, SnoopInv', AskInv', ReplyInv', MemInv', TStep
  PROVE  CInv' /\ TStep
<1>1. PICK n : n = L2!Converted(m)  OBVIOUS
<1>2. L2!Put(n, k, "WaitAck")  BY <1>1
<1>3. PostInv' /\ Entries' = Others(k) \cup {[msg |-> n, st |-> "WaitAck"]}
  BY <1>1, <1>2, ServeStarts
<1>4. DirTakes(m, k) /\ ~(l2.state = "I" /\ ceb.pending)  BY DEF Servable
<1>5. ~ceb.pending /\ ~ceb'.pending /\ ceb' \in CebRec  BY <1>4, PullIs
<1>6. Taken(m, k) /\ L2Frame /\ failed' = failed /\ latest' = latest  BY <1>4 DEF DirTakes
<1>7. L2Inv'  BY <1>3, <1>5, <1>6, Put2Keeps
<1> QED  BY <1>3, <1>6, <1>7, L2Keeps

(* A request that has to wait for an active one. *)
LEMMA ServeStallKeeps ==
  ASSUME CInv, NEW m, NEW k, Servable(m, k), L2!PullBack, Has("WaitAck"),
         L2!Stall(m, k, "WaitRequest"), l2' \in L2Rec,
         l2' = L2!CurrentBlock \/ (l2'.state = "I" /\ sharers = {})
  PROVE  CInv' /\ TStep
<1>1. PostInv  BY DEF CInv
<1>2. ~T!NoneServed  BY <1>1, HasServed
<1>3. DirTakes(m, k) /\ ~(l2.state = "I" /\ ceb.pending)  BY DEF Servable
<1>4. L2!CurrentBlock = l2 /\ ceb' = ceb  BY <1>2, <1>3, PullIs
<1>5. l2'.state = l2.state \/ (l2'.state = "I" /\ sharers = {} /\ ~T!NoneServed)  BY <1>2, <1>4
<1>6. L2!Put(m, k, "WaitRequest") /\ UNCHANGED <<sharers, snoop, toMem, reply>>  BY DEF L2!Stall
<1> QED  BY <1>3, <1>4, <1>5, <1>6, StallKeeps

(* Nothing of this kind is on its way to the sharers. *)
LEMMA NoAskWhileIdle ==
  ASSUME CInv, T!NoneServed, NEW d \in sharers
  PROVE  /\ d \in Cores
         /\ \A n \in Sn(d) \cup Bf(d) : ~Asks(n)
<1>1. AskInv /\ SnoopInv /\ T!Inv  BY DEF CInv
<1>2. d \in Cores  BY <1>1 DEF T!Inv, T!TypeOK
<1>3. \A n \in Sn(d) \cup Bf(d) : Asks(n) => n.requester \in Cores  BY <1>1, <1>2, AskedOnce
<1>4. \A n \in Sn(d) \cup Bf(d) : Asks(n) => T!Served(n.requester)
  BY <1>1, <1>2 DEF AskInv, T!Served
<1> QED  BY <1>2, <1>3, <1>4 DEF T!NoneServed

(* A sharer has no EvictAck on its way. *)
LEMMA SharerFresh ==
  ASSUME CInv, NEW d \in sharers
  PROVE  d \in Cores /\ \A n \in Sn(d) : n.type # "EvictAck"
<1>1. T!Inv  BY DEF CInv
<1>2. d \in Cores  BY <1>1 DEF T!Inv, T!TypeOK
<1>3. d \notin evictAcksV  BY <1>1, <1>2 DEF T!Inv, T!AckedIsGone
<1> QED  BY <1>2, <1>3 DEF evictAcksV

(* A sharer is not asked twice for its copy, *)
LEMMA AskFresh ==
  ASSUME CInv, T!NoneServed, NEW d \in sharers, NEW c \in Cores,
         NEW t \in {"WriteFwd", "Invalidate"}, NEW n, Fields(n, t, c, d, Dir, 0)
  PROVE  Fresh(n) /\ n.type = t /\ n.dest = d /\ n.requester = c
<1>1. n \in Message /\ n.type = t /\ n.requester = c /\ n.dest = d  BY DEF Fields, T!Is
<1>2. d \in Cores /\ \A a \in Sn(d) \cup Bf(d) : ~Asks(a)  BY NoAskWhileIdle
<1>3. \A a \in Sn(d) : a.type # "EvictAck"  BY SharerFresh
<1>4. \A a \in Sn(d) \cup Bf(d) : a.type # n.type  BY <1>1, <1>2 DEF Asks
<1>5. DirSnoop(n)  BY <1>1 DEF DirSnoop
<1> QED  BY <1>1, <1>2, <1>3, <1>4, <1>5 DEF Fresh

(* ... nor twice for the same reader. *)
LEMMA ForwardFresh ==
  ASSUME CInv, NEW c, Unserved(c), NEW d \in sharers, NEW n, Fields(n, "ReadFwd", c, d, Dir, 0)
  PROVE  Fresh(n) /\ n.type = "ReadFwd" /\ n.dest = d /\ n.requester = c /\ d \in Cores /\ c \in Cores
<1>1. n \in Message /\ n.type = "ReadFwd" /\ n.requester = c /\ n.dest = d  BY DEF Fields, T!Is
<1>2. d \in Cores /\ \A a \in Sn(d) : a.type # "EvictAck"  BY SharerFresh
<1>3. c \in Cores /\ \A a \in Sn(d) \cup Bf(d) : a.type = "ReadFwd" => a.requester # c
  BY <1>2 DEF Unserved
<1>4. DirSnoop(n)  BY <1>1, <1>3 DEF DirSnoop
<1> QED  BY <1>1, <1>2, <1>3, <1>4 DEF Fresh

-----------------------------------------------------------------------------
(* The cases of Serve: m as it was taken, n as it is served, c its requester. *)
Serves(m, k, n, c) ==
  /\ Servable(m, k) /\ L2!PullBack
  /\ n = L2!Converted(m) /\ c = m.requester
  /\ L2!Put(n, k, "WaitAck")

(* A request that is served: what holds before the answer. *)
LEMMA ServesIs ==
  ASSUME CInv, NEW m, NEW k, NEW n, NEW c, Serves(m, k, n, c)
  PROVE  /\ c \in Cores /\ Unserved(c) /\ n \in Message /\ n.requester = c /\ n.type \in RequestTypes
         /\ StartOf(c, n) /\ snoops' = snoops /\ (ceb.pending' <=> ceb.pending)
         /\ L2!CurrentBlock \in L2Rec /\ L2!CurrentBlock.state = T!Current /\ T!Current # "S"
         /\ (\A d \in Cores : T!Storing(d) => T!Storing(d)')
<1>1. /\ Servable(m, k) /\ L2!PullBack /\ n = L2!Converted(m) /\ c = m.requester
      /\ L2!Put(n, k, "WaitAck")
  BY DEF Serves
<1>2. Unserved(c) /\ m \in Message /\ Posting(m)  BY <1>1, NotServedYet
<1>3. c \in Cores  BY <1>2 DEF Unserved
<1>4. ~IsEvict(m) /\ ~(l2.state = "I" /\ ceb.pending)  BY <1>1 DEF Servable
<1>5. n \in Message /\ n.requester = c /\ n.type \in RequestTypes  BY <1>1, <1>2, <1>4, ConvertedIs
<1>6. snoops' = snoops /\ StartOf(c, n)  BY <1>1, ServeStarts DEF StartOf
<1>7. /\ L2!CurrentBlock \in L2Rec /\ L2!CurrentBlock.state = T!Current /\ T!Current # "S"
      /\ ~ceb.pending /\ ~ceb'.pending
  BY <1>1, <1>4, PullIs
<1>8. \A d \in Cores : T!Storing(d) => T!Storing(d)'  BY <1>6, StoringStays
<1>9. ceb.pending' <=> ceb.pending  BY <1>7
<1> QED  BY <1>2, <1>3, <1>5, <1>6, <1>7, <1>8, <1>9

(* The answer keeps the invariant if the parts it can disturb hold. *)
LEMMA ServesKeeps ==
  ASSUME CInv, NEW m, NEW k, NEW n, NEW c, Serves(m, k, n, c),
         l2' \in L2Rec, SnoopInv', AskInv', ReplyInv', MemInv', T!Next
  PROVE  CInv' /\ TStep
<1>1. Servable(m, k) /\ L2!PullBack /\ L2!Put(L2!Converted(m), k, "WaitAck")  BY DEF Serves
<1>2. TStep  BY DEF TStep
<1> QED  BY <1>1, <1>2, ServeKeeps

(* The answer needs no snoop. *)
LEMMA NoSnoopSent ==
  ASSUME CInv, snoop' = snoop, snoops' = snoops, \A d \in Cores : T!Storing(d) => T!Storing(d)'
  PROVE  /\ SnoopInv' /\ AskInv'
         /\ forwardsV' = forwardsV /\ heldV' = heldV /\ fetchesV' = fetchesV
         /\ invalsV' = invalsV /\ evictAcksV' = evictAcksV
<1>1. SnoopInv /\ AskInv  BY DEF CInv
<1>2. SnoopInv' /\ UNCHANGED snoopViews /\ (\A c \in Cores : Sn(c)' = Sn(c) /\ Bf(c)' = Bf(c))
  BY <1>1, SnoopQuiet
<1>3. \A c \in Cores : \A a \in Sn(c)' \cup Bf(c)' : Asks(a) => a \in Sn(c) \cup Bf(c)  BY <1>2
<1>4. AskInv'  BY <1>1, <1>3, AskMore
<1> QED  BY <1>2, <1>4 DEF snoopViews

(* The L2 answers the core. *)
LEMMA AnswerSent ==
  ASSUME CInv, NEW c, Unserved(c), NEW t, NEW i, NEW n, Fields(n, t, c, c, Dir, i),
         L2!SendReply(n)
  PROVE  ReplyInv' /\ T!Send(n) /\ T!Is(n, t, c, c, Dir, i) /\ FromDir(Rp)' = FromDir(Rp)
<1>1. ReplyInv  BY DEF CInv
<1>2. c \in Cores /\ n \in Message /\ n.requester = c /\ n.dest = c /\ T!Is(n, t, c, c, Dir, i)
  BY DEF Unserved, Fields, T!Is
<1>3. n \notin repliesV /\ n \notin Rp  BY <1>2 DEF Unserved, repliesV
<1>4. n.dest # Dir  BY <1>2, Names
<1>5. reply' = reply (+) SetToBag({n})  BY ReplyOps DEF L2!SendReply
<1>6. ReplyStep({}, {n})  BY <1>1, <1>2, <1>3, <1>4, <1>5, ReplySent
<1>7. \A a \in {} \cup {n} : a.requester \in Cores  BY <1>2
<1>8. ReplyInv' /\ repliesV' = (repliesV \ {}) \cup {n} /\ FromDir(Rp)' = FromDir(Rp)
  BY <1>6, <1>7, RepliesAre
<1> QED  BY <1>2, <1>3, <1>8 DEF T!Send

(* A request goes to memory once. *)
LEMMA RequestToMemory ==
  ASSUME CInv, NEW c \in Cores, c \notin atMemoryV, NEW n \in Message, n.requester = c, n.type \in {"ReadReq", "WriteReq"},
         L2!ToMemory(n), ceb.pending' <=> ceb.pending, FromDir(Rp)' = FromDir(Rp)
  PROVE  MemInv' /\ atMemoryV' = atMemoryV \cup {c}
<1>1. MemInv  BY DEF CInv
<1>2. PICK x : x = [n EXCEPT !.dest = Mem, !.other = Dir]  OBVIOUS
<1>3. Mem \in Nodes /\ Dir \in Nodes  BY DEF Nodes
<1>4. Fields(x, n.type, n.requester, Mem, Dir, n.outstanding)  BY <1>2, <1>3, RoutedFields
<1>5. x \in Message /\ x.requester = c /\ x.type \in {"ReadReq", "WriteReq"}  BY <1>4 DEF Fields, T!Is
<1>6. toMem' = Append(toMem, x)  BY <1>2, Names DEF L2!ToMemory
<1> QED  BY <1>1, <1>5, <1>6, MemSent

(* A miss in the L2 and in the directory goes to memory. *)
LEMMA ServeMemoryKeeps ==
  ASSUME CInv, NEW m, NEW k, NEW n, NEW c, Serves(m, k, n, c), T!NoneServed,
         sharers = {}, L2!CurrentBlock.state = "I", l2' = L2!NoBlock, L2!ToMemory(n),
         IF n.type = "WriteReq" THEN L2!SendReply(L2!Answer("MissNotify", n, 1, 0)) ELSE reply' = reply,
         UNCHANGED <<sharers, snoop>>
  PROVE  CInv' /\ TStep
<1>1. /\ c \in Cores /\ Unserved(c) /\ n \in Message /\ n.requester = c /\ n.type \in RequestTypes
      /\ StartOf(c, n) /\ snoops' = snoops /\ (ceb.pending' <=> ceb.pending)
      /\ L2!CurrentBlock.state = T!Current
      /\ (\A d \in Cores : T!Storing(d) => T!Storing(d)')
  BY ServesIs
<1>2. /\ SnoopInv' /\ AskInv'
      /\ forwardsV' = forwardsV /\ heldV' = heldV /\ fetchesV' = fetchesV
      /\ invalsV' = invalsV /\ evictAcksV' = evictAcksV
  BY <1>1, NoSnoopSent
<1>3. l2' \in L2Rec /\ l2'.state = "I"  BY NoBlockIs
<1>4. T!Absent  BY <1>1 DEF T!Absent
<1>5. l2.state = "I"  BY <1>1 DEF T!Current
<1>6. n.type \in {"ReadReq", "WriteReq"}  BY <1>1 DEF StartOf, UpgradeStarts
<1>7. CASE n.type = "ReadReq"
  <2>1. ReplyInv' /\ repliesV' = repliesV /\ FromDir(Rp)' = FromDir(Rp)
    BY <1>7, ReplySame DEF CInv
  <2>2. MemInv' /\ atMemoryV' = atMemoryV \cup {c}  BY <1>1, <1>6, <2>1, RequestToMemory DEF Unserved
  <2>3. ReadStarts(c)  BY <1>1, <1>7 DEF StartOf
  <2>4. T!StartRead(c)  BY <1>2, <2>3 DEF ReadStarts, T!StartRead
  <2>5. T!ReadMemory(c)  BY <1>2, <1>3, <1>4, <1>5, <2>1, <2>2, <2>4 DEF T!ReadMemory
  <2>6. T!Next  BY <1>1, <2>5, T!DirSteps
  <2> QED  BY <1>2, <1>3, <2>1, <2>2, <2>6, ServesKeeps
<1>8. CASE n.type = "WriteReq"
  <2>1. PICK a : a = L2!Answer("MissNotify", n, 1, 0)  OBVIOUS
  <2>2. Fields(a, "MissNotify", c, c, Dir, 1)
    <3>1. "MissNotify" \in MessageTypes  BY DEF MessageTypes, Notifies
    <3>2. 1 \in Int /\ 0 \in Version  BY Names
    <3> QED  BY <1>1, <2>1, <3>1, <3>2, AnswerFields
  <2>3. L2!SendReply(a)  BY <1>8, <2>1
  <2>4. ReplyInv' /\ T!Send(a) /\ T!Is(a, "MissNotify", c, c, Dir, 1) /\ FromDir(Rp)' = FromDir(Rp)
    BY <1>1, <2>2, <2>3, AnswerSent
  <2>5. MemInv' /\ atMemoryV' = atMemoryV \cup {c}  BY <1>1, <1>6, <2>4, RequestToMemory DEF Unserved
  <2>6. WriteStarts(c)  BY <1>1, <1>8 DEF StartOf
  <2>7. T!StartWrite(c)  BY <1>2, <1>3, <2>6 DEF WriteStarts, T!StartWrite
  <2>8. T!WriteMemory(c, a)
    BY <1>2, <1>3, <1>4, <2>4, <2>5, <2>7, Names DEF T!WriteMemory
  <2>9. T!Next  BY <1>1, <2>8, T!DirSendSteps
  <2> QED  BY <1>2, <1>3, <2>4, <2>5, <2>9, ServesKeeps
<1> QED  BY <1>6, <1>7, <1>8

(* Memory is not asked. *)
LEMMA MemStays ==
  ASSUME CInv, toMem' = toMem, ceb.pending' <=> ceb.pending, FromDir(Rp)' = FromDir(Rp)
  PROVE  MemInv' /\ atMemoryV' = atMemoryV
  BY MemSame DEF CInv

(* Nothing is answered. *)
LEMMA ReplyStays ==
  ASSUME CInv, reply' = reply
  PROVE  ReplyInv' /\ repliesV' = repliesV /\ FromDir(Rp)' = FromDir(Rp)
  BY ReplySame DEF CInv

(* The directory counts one sharer. *)
LEMMA OneSharerIs == L2!Cardinality(sharers) = 1 <=> T!OneSharer
  BY DirNames DEF T!OneSharer

(* A read is forwarded to a sharer. *)
LEMMA ReadForwardKeeps ==
  ASSUME CInv, NEW m, NEW k, NEW n, NEW c, Serves(m, k, n, c), n.type = "ReadReq",
         NEW d \in sharers, L2!CurrentBlock.state = "I" \/ (L2!CurrentBlock.state = "E" /\ T!OneSharer),
         T!OneSharer => T!NoneServed,
         NEW b \in BOOLEAN, L2!SendSnoops({L2!Forward("ReadFwd", n, d, b)}),
         l2' = L2!CurrentBlock, UNCHANGED <<sharers, toMem, reply>>
  PROVE  CInv' /\ TStep
<1>1. /\ c \in Cores /\ Unserved(c) /\ n \in Message /\ n.requester = c
      /\ StartOf(c, n) /\ snoops' = snoops /\ (ceb.pending' <=> ceb.pending)
      /\ L2!CurrentBlock \in L2Rec /\ L2!CurrentBlock.state = T!Current
      /\ (\A e \in Cores : T!Storing(e) => T!Storing(e)')
  BY ServesIs
<1>2. SnoopInv /\ AskInv  BY DEF CInv
<1>3. d \in Cores  BY SharerFresh
<1>4. PICK f : f = L2!Forward("ReadFwd", n, d, b)  OBVIOUS
<1>5. Fields(f, "ReadFwd", c, d, Dir, 0)
  <2>1. "ReadFwd" \in MessageTypes  BY DEF MessageTypes, SnoopTypes
  <2> QED  BY <1>1, <1>3, <1>4, <2>1, ForwardFields
<1>6. Fresh(f) /\ f.type = "ReadFwd" /\ f.dest = d /\ f.requester = c  BY <1>1, <1>5, ForwardFresh
<1>7. SnoopInv' /\ SnoopGets({f})
  <2>1. \A a \in {f} : Fresh(a)  BY <1>6
  <2>2. \A x, y \in {f} : x.dest = y.dest => x = y  OBVIOUS
  <2>3. L2!SendSnoops({f})  BY <1>4
  <2> QED  BY <1>1, <1>2, <2>1, <2>2, <2>3, SnoopsSent DEF SnoopGets
<1>8. /\ forwardsV' = forwardsV \cup {<<c, d>>} /\ heldV' = heldV
      /\ fetchesV' = fetchesV /\ invalsV' = invalsV /\ evictAcksV' = evictAcksV
  <2>1. f.requester \in Cores /\ f.dest \in Cores  BY <1>1, <1>3, <1>6
  <2>2. forwardsV' = forwardsV \cup {<<f.requester, f.dest>>} /\ heldV' = heldV
        /\ fetchesV' = fetchesV /\ invalsV' = invalsV /\ evictAcksV' = evictAcksV
    BY <1>6, <1>7, <2>1, ForwardViews
  <2> QED  BY <1>6, <2>2
<1>9. AskInv'
  <2>1. \A e \in Cores : \A a \in Sn(e)' \cup Bf(e)' : Asks(a) => a \in Sn(e) \cup Bf(e)
    BY <1>6, <1>7 DEF SnoopGets, For, Asks
  <2> QED  BY <1>1, <1>2, <2>1, AskMore
<1>10. ReplyInv' /\ repliesV' = repliesV /\ FromDir(Rp)' = FromDir(Rp)  BY ReplyStays
<1>11. MemInv' /\ atMemoryV' = atMemoryV  BY <1>1, <1>10, MemStays
<1>12. ReadStarts(c)  BY <1>1 DEF StartOf
<1>13. T!StartRead(c)  BY <1>8, <1>12 DEF ReadStarts, T!StartRead
<1>14. l2'.state = l2.state  BY <1>1 DEF T!Current
<1>15. T!Current = "I" \/ (T!Current = "E" /\ T!OneSharer)  BY <1>1
<1>16. T!ReadForward(c, d)
  BY <1>8, <1>10, <1>11, <1>13, <1>14, <1>15 DEF T!ReadForward
<1>17. T!Next  BY <1>1, <1>16, T!DirSteps
<1> QED  BY <1>1, <1>7, <1>9, <1>10, <1>11, <1>17, ServesKeeps

(* A read is answered from the L2. *)
LEMMA ReadSupplyKeeps ==
  ASSUME CInv, NEW m, NEW k, NEW n, NEW c, Serves(m, k, n, c), n.type = "ReadReq",
         L2!CurrentBlock.state # "I", ~(L2!CurrentBlock.state = "E" /\ T!OneSharer),
         sharers = {} => T!NoneServed,
         NEW t, t = (IF sharers # {} THEN "MissReply"
                     ELSE IF L2!CurrentBlock.state = "M" THEN "MissReplyDirty" ELSE "MissReplyWritable"),
         L2!SendReply(L2!Answer(t, n, 0, L2!CurrentBlock.ver)),
         l2' = (IF t = "MissReplyDirty" THEN L2!NoBlock ELSE L2!CurrentBlock),
         sharers' = sharers \cup {c}, UNCHANGED <<snoop, toMem>>
  PROVE  CInv' /\ TStep
<1>1. /\ c \in Cores /\ Unserved(c) /\ n \in Message /\ n.requester = c
      /\ StartOf(c, n) /\ snoops' = snoops /\ (ceb.pending' <=> ceb.pending)
      /\ L2!CurrentBlock \in L2Rec /\ L2!CurrentBlock.state = T!Current
      /\ (\A e \in Cores : T!Storing(e) => T!Storing(e)')
  BY ServesIs
<1>2. /\ SnoopInv' /\ AskInv'
      /\ forwardsV' = forwardsV /\ heldV' = heldV /\ fetchesV' = fetchesV
      /\ invalsV' = invalsV /\ evictAcksV' = evictAcksV
  BY <1>1, NoSnoopSent
<1>3. PICK a : a = L2!Answer(t, n, 0, L2!CurrentBlock.ver)  OBVIOUS
<1>4. Fields(a, t, c, c, Dir, 0)
  <2>1. t \in MessageTypes  BY DEF MessageTypes, MissReplies
  <2>2. 0 \in Int /\ L2!CurrentBlock.ver \in Version  BY <1>1 DEF L2Rec
  <2> QED  BY <1>1, <1>3, <2>1, <2>2, AnswerFields
<1>5. L2!SendReply(a)  BY <1>3
<1>6. ReplyInv' /\ T!Send(a) /\ T!Is(a, t, c, c, Dir, 0) /\ FromDir(Rp)' = FromDir(Rp)
  BY <1>1, <1>4, <1>5, AnswerSent
<1>7. MemInv' /\ atMemoryV' = atMemoryV  BY <1>1, <1>6, MemStays
<1>8. ReadStarts(c)  BY <1>1 DEF StartOf
<1>9. T!StartRead(c)  BY <1>2, <1>8 DEF ReadStarts, T!StartRead
<1>10. l2' \in L2Rec /\ l2'.state = IF sharers = {} /\ T!Current = "M" THEN "I" ELSE T!Current
  BY <1>1, NoBlockIs
<1>11. t = (IF sharers # {} THEN "MissReply"
            ELSE IF T!Current = "M" THEN "MissReplyDirty" ELSE "MissReplyWritable")
  BY <1>1
<1>12. T!Is(a, IF sharers # {} THEN "MissReply"
               ELSE IF T!Current = "M" THEN "MissReplyDirty" ELSE "MissReplyWritable", c, c, T!Dir, 0)
  BY <1>6, <1>11, Names
<1>13. T!Current # "I" /\ ~(T!Current = "E" /\ T!OneSharer)  BY <1>1
<1>14. T!ReadSupply(c, a)
  BY <1>2, <1>6, <1>7, <1>9, <1>10, <1>12, <1>13 DEF T!ReadSupply
<1>15. T!Next  BY <1>1, <1>14, T!DirSendSteps
<1> QED  BY <1>2, <1>6, <1>7, <1>10, <1>15, ServesKeeps

(* A write is answered from the L2 when there is no sharer. *)
LEMMA WriteAtOnceKeeps ==
  ASSUME CInv, NEW m, NEW k, NEW n, NEW c, Serves(m, k, n, c), n.type = "WriteReq",
         L2!CurrentBlock.state # "I", sharers = {}, NEW t \in {"MissReplyDirty", "MissReplyWritable"},
         L2!SendReply(L2!Answer(t, n, -1, L2!CurrentBlock.ver)),
         l2' = L2!NoBlock, sharers' = sharers \cup {c}, UNCHANGED <<snoop, toMem>>
  PROVE  CInv' /\ TStep
<1>1. /\ c \in Cores /\ Unserved(c) /\ n \in Message /\ n.requester = c
      /\ StartOf(c, n) /\ snoops' = snoops /\ (ceb.pending' <=> ceb.pending)
      /\ L2!CurrentBlock \in L2Rec /\ L2!CurrentBlock.state = T!Current
      /\ (\A e \in Cores : T!Storing(e) => T!Storing(e)')
  BY ServesIs
<1>2. /\ SnoopInv' /\ AskInv'
      /\ forwardsV' = forwardsV /\ heldV' = heldV /\ fetchesV' = fetchesV
      /\ invalsV' = invalsV /\ evictAcksV' = evictAcksV
  BY <1>1, NoSnoopSent
<1>3. PICK a : a = L2!Answer(t, n, -1, L2!CurrentBlock.ver)  OBVIOUS
<1>4. Fields(a, t, c, c, Dir, -1)
  <2>1. t \in MessageTypes  BY DEF MessageTypes, MissReplies
  <2>2. -1 \in Int /\ L2!CurrentBlock.ver \in Version  BY <1>1 DEF L2Rec
  <2> QED  BY <1>1, <1>3, <2>1, <2>2, AnswerFields
<1>5. L2!SendReply(a)  BY <1>3
<1>6. ReplyInv' /\ T!Send(a) /\ T!Is(a, t, c, c, Dir, -1) /\ FromDir(Rp)' = FromDir(Rp)
  BY <1>1, <1>4, <1>5, AnswerSent
<1>7. MemInv' /\ atMemoryV' = atMemoryV  BY <1>1, <1>6, MemStays
<1>8. WriteStarts(c)  BY <1>1 DEF StartOf
<1>9. l2' \in L2Rec /\ l2'.state = "I"  BY NoBlockIs
<1>10. T!StartWrite(c)  BY <1>2, <1>8, <1>9 DEF WriteStarts, T!StartWrite
<1>11. a.type \in T!GrantTypes /\ T!Is(a, a.type, c, c, T!Dir, -1)
  BY <1>6, Names DEF T!Is, T!GrantTypes
<1>12. T!Current # "I" /\ sharers' = {c}  BY <1>1
<1>13. T!WriteAtOnce(c, a)
  BY <1>2, <1>6, <1>7, <1>10, <1>11, <1>12 DEF T!WriteAtOnce
<1>14. T!Next  BY <1>1, <1>13, T!DirSendSteps
<1> QED  BY <1>2, <1>6, <1>7, <1>9, <1>14, ServesKeeps

-----------------------------------------------------------------------------
(* The WriteFwds to F and Invalidates to V a store of c sends. *)
AsksFor(ms, c, F, V) ==
  /\ \A x \in ms : \/ x.dest \in F /\ Fields(x, "WriteFwd", c, x.dest, Dir, 0)
                   \/ x.dest \in V /\ Fields(x, "Invalidate", c, x.dest, Dir, 0)
  /\ \A d \in F : \E x \in ms : x.dest = d /\ x.type = "WriteFwd"
  /\ \A d \in V : \E x \in ms : x.dest = d /\ x.type = "Invalidate"
  /\ \A x, y \in ms : x.dest = y.dest => x = y

AskOf(t, n, d) == L2!Forward(t, n, d, FALSE)

(* A WriteFwd or an Invalidate for one sharer, *)
LEMMA InvalidateIs ==
  ASSUME NEW n \in Message, NEW d \in Cores, NEW t \in {"WriteFwd", "Invalidate"},
         NEW x, x = AskOf(t, n, d)
  PROVE  x.dest = d /\ x.type = t /\ Fields(x, t, n.requester, d, Dir, 0)
<1>1. t \in MessageTypes  BY DEF MessageTypes, SnoopTypes
<1>2. Fields(x, t, n.requester, d, Dir, 0)  BY <1>1, ForwardFields DEF AskOf
<1> QED  BY <1>2 DEF Fields, T!Is

(* ... Invalidates for a set of sharers, *)
LEMMA InvalidatesAre ==
  ASSUME NEW n \in Message, NEW c, n.requester = c, NEW V, V \subseteq Cores
  PROVE  AsksFor(L2!Invalidates(n, V), c, {}, V)
<1>1. PICK ms : ms = L2!Invalidates(n, V)  OBVIOUS
<1>2. \A x \in ms : \E d \in V : x = AskOf("Invalidate", n, d)  BY <1>1 DEF L2!Invalidates, AskOf
<1>3. \A d \in V : AskOf("Invalidate", n, d) \in ms  BY <1>1 DEF L2!Invalidates, AskOf
<1>4. ASSUME NEW d \in V, NEW x, x = AskOf("Invalidate", n, d)
      PROVE  x.dest = d /\ x.type = "Invalidate" /\ Fields(x, "Invalidate", c, d, Dir, 0)
  <2>1. d \in Cores  OBVIOUS
  <2> QED  BY <1>4, <2>1, InvalidateIs
<1>5. \A x \in ms : x.dest \in V /\ Fields(x, "Invalidate", c, x.dest, Dir, 0)
  <2> SUFFICES ASSUME NEW x \in ms PROVE x.dest \in V /\ Fields(x, "Invalidate", c, x.dest, Dir, 0)
    OBVIOUS
  <2>1. PICK d \in V : x = AskOf("Invalidate", n, d)  BY <1>2
  <2>2. x.dest = d /\ Fields(x, "Invalidate", c, d, Dir, 0)  BY <1>4, <2>1
  <2> QED  BY <2>2
<1>6. \A d \in V : \E x \in ms : x.dest = d /\ x.type = "Invalidate"
  <2> SUFFICES ASSUME NEW d \in V PROVE \E x \in ms : x.dest = d /\ x.type = "Invalidate"
    OBVIOUS
  <2>1. PICK x : x = AskOf("Invalidate", n, d)  OBVIOUS
  <2>2. x \in ms /\ x.dest = d /\ x.type = "Invalidate"  BY <1>3, <1>4, <2>1
  <2> QED  BY <2>2
<1>7. \A x, y \in ms : x.dest = y.dest => x = y
  <2> SUFFICES ASSUME NEW x \in ms, NEW y \in ms, x.dest = y.dest PROVE x = y
    OBVIOUS
  <2>1. PICK d \in V : x = AskOf("Invalidate", n, d)  BY <1>2
  <2>2. PICK e \in V : y = AskOf("Invalidate", n, e)  BY <1>2
  <2>3. x.dest = d /\ y.dest = e  BY <1>4, <2>1, <2>2
  <2>4. d = e  BY <2>3
  <2> QED  BY <2>1, <2>2, <2>4
<1> QED  BY <1>1, <1>5, <1>6, <1>7 DEF AsksFor

(* ... and a WriteFwd with Invalidates for the rest. *)
LEMMA FetchAre ==
  ASSUME NEW n \in Message, NEW c, n.requester = c, NEW V, V \subseteq Cores, NEW d \in Cores, d \notin V
  PROVE  AsksFor({L2!Forward("WriteFwd", n, d, FALSE)} \cup L2!Invalidates(n, V), c, {d}, V)
<1>1. PICK ns : ns = L2!Invalidates(n, V)  OBVIOUS
<1>2. AsksFor(ns, c, {}, V)  BY <1>1, InvalidatesAre
<1>3. PICK f : f = AskOf("WriteFwd", n, d)  OBVIOUS
<1>4. f.dest = d /\ f.type = "WriteFwd" /\ Fields(f, "WriteFwd", c, d, Dir, 0)  BY <1>3, InvalidateIs
<1>5. AsksFor({f} \cup ns, c, {d}, V)
  <2>1. /\ \A x \in ns : x.dest \in V /\ Fields(x, "Invalidate", c, x.dest, Dir, 0)
        /\ \A e \in V : \E x \in ns : x.dest = e /\ x.type = "Invalidate"
        /\ \A x, y \in ns : x.dest = y.dest => x = y
    BY <1>2 DEF AsksFor
  <2>2. \A x \in ns : x.dest # f.dest  BY <1>4, <2>1
  <2>3. \A x, y \in {f} \cup ns : x.dest = y.dest => x = y  BY <2>1, <2>2
  <2> QED  BY <1>4, <2>1, <2>3 DEF AsksFor
<1> QED  BY <1>1, <1>3, <1>5 DEF AskOf

(* The sharers are asked for their copies, once each. *)
LEMMA AsksSent ==
  ASSUME CInv, T!NoneServed, NEW c \in Cores, NEW ms, NEW F, NEW V, AsksFor(ms, c, F, V),
         F \subseteq sharers, V \subseteq sharers, L2!SendSnoops(ms), snoops' = snoops,
         \A d \in Cores : T!Storing(d) => T!Storing(d)', T!Storing(c)'
  PROVE  /\ SnoopInv' /\ AskInv'
         /\ forwardsV' = forwardsV /\ heldV' = heldV /\ evictAcksV' = evictAcksV
         /\ fetchesV' = fetchesV \cup F /\ invalsV' = invalsV \cup V
<1>1. SnoopInv /\ AskInv /\ T!Inv  BY DEF CInv
<1>2. sharers \subseteq Cores  BY <1>1 DEF T!Inv, T!TypeOK
<1>3. \A x \in ms : \E t \in {"WriteFwd", "Invalidate"} :
         x.dest \in sharers /\ Fields(x, t, c, x.dest, Dir, 0)
  BY DEF AsksFor
<1>4. \A x \in ms : Fresh(x) /\ x.type \in {"WriteFwd", "Invalidate"} /\ x.requester = c
  <2> SUFFICES ASSUME NEW x \in ms
               PROVE  Fresh(x) /\ x.type \in {"WriteFwd", "Invalidate"} /\ x.requester = c
    OBVIOUS
  <2>1. PICK t \in {"WriteFwd", "Invalidate"} :
           x.dest \in sharers /\ Fields(x, t, c, x.dest, Dir, 0)
    BY <1>3
  <2>2. Fresh(x) /\ x.type = t /\ x.requester = c  BY <2>1, AskFresh
  <2> QED  BY <2>2
<1>5. \A x, y \in ms : x.dest = y.dest => x = y  BY DEF AsksFor
<1>6. SnoopInv' /\ SnoopGets(ms)
  <2>1. \A x \in ms : Fresh(x)  BY <1>4
  <2> QED  BY <1>1, <1>5, <2>1, SnoopsSent DEF SnoopGets
<1>7. /\ forwardsV' = forwardsV /\ heldV' = heldV
      /\ fetchesV' = fetchesV \cup Dests(ms, "WriteFwd")
      /\ invalsV' = invalsV \cup Dests(ms, "Invalidate")
      /\ evictAcksV' = evictAcksV \cup Dests(ms, "EvictAck")
  <2>1. \A x \in ms : x.type # "ReadFwd"  BY <1>4
  <2> QED  BY <1>6, <2>1, GetsViews
<1>8. \A x \in ms : (x.type = "WriteFwd" => x.dest \in F) /\ (x.type = "Invalidate" => x.dest \in V)
  BY DEF AsksFor, Fields, T!Is
<1>9. Dests(ms, "WriteFwd") = F
  <2>1. \A d \in F : d \in Cores /\ \E x \in ms : x.dest = d /\ x.type = "WriteFwd"
    BY <1>2 DEF AsksFor
  <2> QED  BY <1>8, <2>1 DEF Dests
<1>10. Dests(ms, "Invalidate") = V
  <2>1. \A d \in V : d \in Cores /\ \E x \in ms : x.dest = d /\ x.type = "Invalidate"
    BY <1>2 DEF AsksFor
  <2> QED  BY <1>8, <2>1 DEF Dests
<1>11. Dests(ms, "EvictAck") = {}  BY <1>4 DEF Dests
<1>12. AskInv'
  <2>1. \A d \in Cores : \A a \in Sn(d)' \cup Bf(d)' : Asks(a) =>
            a \in Sn(d) \cup Bf(d) \/ a.requester = c
    BY <1>4, <1>6 DEF SnoopGets, For
  <2>2. \A d \in Cores : \A a \in Sn(d)' \cup Bf(d)' : Asks(a) =>
            a \in Sn(d) \cup Bf(d) \/ T!Storing(a.requester)'
    BY <2>1
  <2> QED  BY <1>1, <2>2, AskMore
<1> QED  BY <1>6, <1>7, <1>9, <1>10, <1>11, <1>12

(* A write with sharers: as many acks are announced as copies are asked *)
(* for.                                                                 *)
LEMMA WriteSharersKeeps ==
  ASSUME CInv, NEW m, NEW k, NEW n, NEW c, Serves(m, k, n, c), n.type = "WriteReq", sharers # {},
         l2' = L2!NoBlock, UNCHANGED toMem, L2!WriteFromSharers(n, k, L2!CurrentBlock)
  PROVE  CInv' /\ TStep
<1>1. /\ c \in Cores /\ Unserved(c) /\ n \in Message /\ n.requester = c
      /\ StartOf(c, n) /\ snoops' = snoops /\ (ceb.pending' <=> ceb.pending)
      /\ L2!CurrentBlock \in L2Rec /\ L2!CurrentBlock.state = T!Current
      /\ (\A e \in Cores : T!Storing(e) => T!Storing(e)')
  BY ServesIs
<1>2. WriteStarts(c)  BY <1>1 DEF StartOf
<1>3. T!NoneServed /\ T!Storing(c)'  BY <1>2 DEF WriteStarts, T!Storing
<1>4. sharers \subseteq Cores  BY DEF CInv, T!Inv, T!TypeOK
<1>5. L2!Cardinality(sharers) = T!Cardinality(sharers) /\ T!Cardinality(sharers) \in Int
  <2>1. IsFiniteSet(Cores)  BY CoresAssumption
  <2>2. Cardinality(sharers) \in Nat  BY <1>4, <2>1, FS_Subset, FS_CardinalityType
  <2> QED  BY <2>2, DirNames
<1>6. PICK fwd \in BOOLEAN : fwd <=> T!Current = "I" \/ (T!Current = "E" /\ T!OneSharer)  OBVIOUS
<1>7. (L2!CurrentBlock.state = "I" \/ (L2!CurrentBlock.state = "E" /\ L2!Cardinality(sharers) = 1)) <=> fwd
  BY <1>1, <1>6, OneSharerIs
<1>8. /\ fwd => \E d \in sharers : L2!SendSnoops({L2!Forward("WriteFwd", n, d, FALSE)}
                                             \cup L2!Invalidates(n, sharers \ {d}))
      /\ ~fwd => L2!SendSnoops(L2!Invalidates(n, sharers))
      /\ L2!SendReply(L2!Answer(IF fwd THEN "MissNotify" ELSE "MissNotifyData", n,
                                L2!Cardinality(sharers), IF fwd THEN 0 ELSE L2!CurrentBlock.ver))
      /\ sharers' = sharers
  BY <1>7 DEF L2!WriteFromSharers
<1>9. PICK t, v, a : /\ t = IF fwd THEN "MissNotify" ELSE "MissNotifyData"
                     /\ v = IF fwd THEN 0 ELSE L2!CurrentBlock.ver
                     /\ a = L2!Answer(t, n, L2!Cardinality(sharers), v)
  OBVIOUS
<1>10. Fields(a, t, c, c, Dir, T!Cardinality(sharers)) /\ L2!SendReply(a)
  <2>1. t \in MessageTypes  BY <1>9 DEF MessageTypes, Notifies
  <2>2. v \in Version  BY <1>1, <1>9, Names DEF L2Rec
  <2>3. a = L2!Answer(t, n, T!Cardinality(sharers), v)  BY <1>5, <1>9
  <2>4. Fields(a, t, c, c, Dir, T!Cardinality(sharers))  BY <1>1, <1>5, <2>1, <2>2, <2>3, AnswerFields
  <2>5. L2!SendReply(a)  BY <1>8, <1>9
  <2> QED  BY <2>4, <2>5
<1>11. /\ ReplyInv' /\ T!Send(a) /\ T!Is(a, t, c, c, T!Dir, T!Cardinality(sharers))
       /\ FromDir(Rp)' = FromDir(Rp)
  BY <1>1, <1>10, AnswerSent, Names
<1>12. MemInv' /\ atMemoryV' = atMemoryV  BY <1>1, <1>11, MemStays
<1>13. l2' \in L2Rec /\ l2'.state = "I"  BY NoBlockIs
<1>14. CASE fwd
  <2>1. PICK d \in sharers : L2!SendSnoops({L2!Forward("WriteFwd", n, d, FALSE)}
                                             \cup L2!Invalidates(n, sharers \ {d}))
    BY <1>8, <1>14
  <2>2. PICK ms : ms = {L2!Forward("WriteFwd", n, d, FALSE)} \cup L2!Invalidates(n, sharers \ {d})
    OBVIOUS
  <2>3. AsksFor(ms, c, {d}, sharers \ {d})
    <3>1. d \in Cores /\ sharers \ {d} \subseteq Cores /\ d \notin sharers \ {d}  BY <1>4
    <3> QED  BY <1>1, <2>2, <3>1, FetchAre
  <2>4. {d} \subseteq sharers /\ sharers \ {d} \subseteq sharers /\ L2!SendSnoops(ms)  BY <2>1, <2>2
  <2>5. /\ SnoopInv' /\ AskInv'
        /\ forwardsV' = forwardsV /\ heldV' = heldV /\ evictAcksV' = evictAcksV
        /\ fetchesV' = fetchesV \cup {d} /\ invalsV' = invalsV \cup (sharers \ {d})
    BY <1>1, <1>3, <2>3, <2>4, AsksSent
  <2>6. T!StartWrite(c)  BY <1>2, <1>13, <2>5 DEF WriteStarts, T!StartWrite
  <2>7. t = "MissNotify" /\ (T!Current = "I" \/ (T!Current = "E" /\ T!OneSharer))
    BY <1>6, <1>9, <1>14
  <2>8. T!WriteFetch(c, d, a)
    BY <1>8, <1>11, <1>12, <2>5, <2>6, <2>7 DEF T!WriteFetch
  <2>9. T!Next  BY <1>1, <2>8, T!DirSendSteps
  <2> QED  BY <1>11, <1>12, <1>13, <2>5, <2>9, ServesKeeps
<1>15. CASE ~fwd
  <2>1. PICK ms : ms = L2!Invalidates(n, sharers)  OBVIOUS
  <2>2. AsksFor(ms, c, {}, sharers)  BY <1>1, <1>4, <2>1, InvalidatesAre
  <2>3. L2!SendSnoops(ms) /\ {} \subseteq sharers /\ sharers \subseteq sharers  BY <1>8, <1>15, <2>1
  <2>4. /\ SnoopInv' /\ AskInv'
        /\ forwardsV' = forwardsV /\ heldV' = heldV /\ evictAcksV' = evictAcksV
        /\ fetchesV' = fetchesV /\ invalsV' = invalsV \cup sharers
    <3>1. PICK F : F = {}  OBVIOUS
    <3>2. AsksFor(ms, c, F, sharers) /\ F \subseteq sharers  BY <2>2, <3>1
    <3>3. /\ SnoopInv' /\ AskInv'
          /\ forwardsV' = forwardsV /\ heldV' = heldV /\ evictAcksV' = evictAcksV
          /\ fetchesV' = fetchesV \cup F /\ invalsV' = invalsV \cup sharers
      BY <1>1, <1>3, <2>3, <3>2, AsksSent
    <3>4. fetchesV' = fetchesV  BY <3>1, <3>3
    <3> QED  BY <3>3, <3>4
  <2>5. T!StartWrite(c)  BY <1>2, <1>13, <2>4 DEF WriteStarts, T!StartWrite
  <2>6. t = "MissNotifyData" /\ T!Current # "I" /\ ~(T!Current = "E" /\ T!OneSharer)
    BY <1>6, <1>9, <1>15
  <2>7. T!WriteInvalidate(c, a)
    BY <1>8, <1>11, <1>12, <2>4, <2>5, <2>6 DEF T!WriteInvalidate
  <2>8. T!Next  BY <1>1, <2>7, T!DirSendSteps
  <2> QED  BY <1>11, <1>12, <1>13, <2>4, <2>8, ServesKeeps
<1> QED  BY <1>14, <1>15

(* An upgrade, with or without other sharers. *)
LEMMA UpgradeKeeps ==
  ASSUME CInv, NEW m, NEW k, NEW n, NEW c, Serves(m, k, n, c), n.type = "UpgradeReq",
         L2!ServeUpgrade(n, k)
  PROVE  CInv' /\ TStep
<1>1. /\ c \in Cores /\ Unserved(c) /\ n \in Message /\ n.requester = c
      /\ StartOf(c, n) /\ snoops' = snoops /\ (ceb.pending' <=> ceb.pending)
      /\ (\A e \in Cores : T!Storing(e) => T!Storing(e)')
  BY ServesIs
<1>2. UpgradeStarts(c)  BY <1>1 DEF StartOf
<1>3. T!NoneServed /\ T!Storing(c)' /\ c \in sharers  BY <1>2 DEF UpgradeStarts, T!Storing
<1>4. sharers \subseteq Cores  BY DEF CInv, T!Inv, T!TypeOK
<1>5. PICK O : O = sharers \ {c}  OBVIOUS
<1>6. O \subseteq Cores /\ O \subseteq sharers  BY <1>4, <1>5
<1>7. L2!Cardinality(O) = T!Cardinality(O) /\ T!Cardinality(O) \in Int
  <2>1. IsFiniteSet(Cores)  BY CoresAssumption
  <2>2. Cardinality(O) \in Nat  BY <1>6, <2>1, FS_Subset, FS_CardinalityType
  <2> QED  BY <2>2, DirNames
<1>8. /\ l2' = L2!NoBlock /\ UNCHANGED <<sharers, toMem>>
      /\ L2!SendSnoops(L2!Invalidates(n, O))
      /\ O = {} => L2!SendReply(L2!Answer("UpgradeReply", n, -1, 0))
      /\ O # {} => L2!SendReply(L2!Answer("MissNotify", n, L2!Cardinality(O), 0))
  BY <1>1, <1>5 DEF L2!ServeUpgrade
<1>9. PICK t, i, a : /\ t = IF O = {} THEN "UpgradeReply" ELSE "MissNotify"
                     /\ i = IF O = {} THEN -1 ELSE T!Cardinality(O)
                     /\ a = L2!Answer(t, n, i, 0)
  OBVIOUS
<1>10. Fields(a, t, c, c, Dir, i) /\ L2!SendReply(a)
  <2>1. t \in MessageTypes  BY <1>9 DEF MessageTypes, Notifies
  <2>2. i \in Int /\ 0 \in Version  BY <1>7, <1>9, Names
  <2>3. Fields(a, t, c, c, Dir, i)  BY <1>1, <1>9, <2>1, <2>2, AnswerFields
  <2>4. L2!SendReply(a)  BY <1>7, <1>8, <1>9
  <2> QED  BY <2>3, <2>4
<1>11. /\ ReplyInv' /\ T!Send(a) /\ T!Is(a, t, c, c, T!Dir, i)
       /\ FromDir(Rp)' = FromDir(Rp)
  BY <1>1, <1>10, AnswerSent, Names
<1>12. MemInv' /\ atMemoryV' = atMemoryV  BY <1>1, <1>8, <1>11, MemStays
<1>13. l2' \in L2Rec /\ l2'.state = "I"  BY <1>8, NoBlockIs
<1>14. /\ SnoopInv' /\ AskInv'
       /\ forwardsV' = forwardsV /\ heldV' = heldV /\ evictAcksV' = evictAcksV
       /\ fetchesV' = fetchesV /\ invalsV' = invalsV \cup O
  <2>1. PICK ms : ms = L2!Invalidates(n, O)  OBVIOUS
  <2>2. PICK F : F = {}  OBVIOUS
  <2>3. AsksFor(ms, c, F, O) /\ F \subseteq sharers  BY <1>1, <1>6, <2>1, <2>2, InvalidatesAre
  <2>4. L2!SendSnoops(ms)  BY <1>8, <2>1
  <2>5. /\ SnoopInv' /\ AskInv'
        /\ forwardsV' = forwardsV /\ heldV' = heldV /\ evictAcksV' = evictAcksV
        /\ fetchesV' = fetchesV \cup F /\ invalsV' = invalsV \cup O
    BY <1>1, <1>3, <1>6, <2>3, <2>4, AsksSent
  <2>6. fetchesV' = fetchesV  BY <2>2, <2>5
  <2> QED  BY <2>5, <2>6
<1>15. T!StartUpgrade(c)  BY <1>2, <1>13, <1>14 DEF UpgradeStarts, T!StartUpgrade
<1>16. CASE O = {}
  <2>1. sharers = {c} /\ invalsV' = invalsV  BY <1>3, <1>5, <1>14, <1>16
  <2>2. T!UpgradeAtOnce(c, a)
    BY <1>8, <1>9, <1>11, <1>12, <1>14, <1>15, <1>16, <2>1 DEF T!UpgradeAtOnce
  <2>3. T!Next  BY <1>1, <2>2, T!DirSendSteps
  <2> QED  BY <1>11, <1>12, <1>13, <1>14, <2>3, ServesKeeps
<1>17. CASE O # {}
  <2>1. sharers # {c}  BY <1>5, <1>17
  <2>2. T!UpgradeInvalidate(c, a)
    BY <1>5, <1>8, <1>9, <1>11, <1>12, <1>14, <1>15, <1>17, <2>1 DEF T!UpgradeInvalidate
  <2>3. T!Next  BY <1>1, <2>2, T!DirSendSteps
  <2> QED  BY <1>11, <1>12, <1>13, <1>14, <2>3, ServesKeeps
<1> QED  BY <1>16, <1>17

(* No request is active: nothing is being served. *)
LEMMA NoWait ==
  ASSUME CInv, NEW m, NEW k, Servable(m, k)
  PROVE  /\ L2!Waiting(k, "WaitAck") # {} <=> Has("WaitAck")
         /\ L2!Waiting(k, "WaitAck") = {} <=> T!NoneServed
<1>1. PostInv  BY DEF CInv
<1>2. Taken(m, k) /\ "WaitAck" \in Stalls  BY DEF Servable, DirTakes, Stalls
<1>3. L2!Waiting(k, "WaitAck") # {} <=> Has("WaitAck")  BY <1>1, <1>2, WaitingHas
<1> QED  BY <1>1, <1>3, HasServed

(* A read that does not go to memory. *)
LEMMA ServeReadKeeps ==
  ASSUME CInv, NEW m, NEW k, Servable(m, k), L2!PullBack, m.type = "ReadReq",
         L2!Converted(m) = m,
         ~(sharers = {} /\ L2!CurrentBlock.state = "I"), L2!ServeRead(m, k, L2!CurrentBlock)
  PROVE  CInv' /\ TStep
<1>1. PICK b : b = L2!CurrentBlock  OBVIOUS
<1>2. b \in L2Rec /\ b.state # "S"
  <2>1. ~(l2.state = "I" /\ ceb.pending)  BY DEF Servable
  <2> QED  BY <1>1, <2>1, PullIs
<1>3. /\ L2!Waiting(k, "WaitAck") # {} <=> Has("WaitAck")
      /\ L2!Waiting(k, "WaitAck") = {} <=> T!NoneServed
  BY NoWait
<1>4. L2!Cardinality(sharers) = 1 <=> T!OneSharer  BY OneSharerIs
<1>5. PICK c : c = m.requester  OBVIOUS
<1>6. L2!Put(m, k, "WaitAck") => Serves(m, k, m, c)  BY <1>5 DEF Serves
<1>7. CASE b.state = "I" \/ (L2!Cardinality(sharers) = 1 /\ b.state = "E")
  <2>1. L2!ReadFromSharer(m, k, b)  BY <1>1, <1>7 DEF L2!ServeRead
  <2>2. CASE L2!Cardinality(sharers) = 1 /\ L2!Waiting(k, "WaitAck") # {}
    <3>1. l2' = b /\ L2!Stall(m, k, "WaitRequest")  BY <2>1, <2>2 DEF L2!ReadFromSharer
    <3> QED  BY <1>1, <1>2, <1>3, <2>2, <3>1, ServeStallKeeps
  <2>3. CASE ~(L2!Cardinality(sharers) = 1 /\ L2!Waiting(k, "WaitAck") # {})
    <3>1. /\ l2' = b /\ L2!Put(m, k, "WaitAck") /\ UNCHANGED <<sharers, toMem, reply>>
          /\ \E d \in sharers : L2!SendSnoops({L2!Forward("ReadFwd", m, d, b.state = "I")})
      BY <2>1, <2>3 DEF L2!ReadFromSharer
    <3>2. PICK d \in sharers : L2!SendSnoops({L2!Forward("ReadFwd", m, d, b.state = "I")})  BY <3>1
    <3>3. PICK v \in BOOLEAN : v = (b.state = "I")  OBVIOUS
    <3>4. L2!SendSnoops({L2!Forward("ReadFwd", m, d, v)})  BY <3>2, <3>3
    <3>5. Serves(m, k, m, c)  BY <1>6, <3>1
    <3>6. b.state = "I" \/ (b.state = "E" /\ T!OneSharer)  BY <1>4, <1>7
    <3>7. T!OneSharer => T!NoneServed  BY <1>3, <1>4, <2>3
    <3> QED  BY <1>1, <3>1, <3>4, <3>5, <3>6, <3>7, ReadForwardKeeps
  <2> QED  BY <2>2, <2>3
<1>8. CASE ~(b.state = "I" \/ (L2!Cardinality(sharers) = 1 /\ b.state = "E"))
  <2>1. L2!ReadFromL2(m, k, b)  BY <1>1, <1>8 DEF L2!ServeRead
  <2>2. PICK t : t = (IF sharers # {} THEN "MissReply"
                      ELSE IF b.state = "M" THEN "MissReplyDirty" ELSE "MissReplyWritable")
    OBVIOUS
  <2>3. (sharers = {} /\ b.state # "S") <=> sharers = {}  BY <1>2
  <2>4. /\ l2' = (IF t = "MissReplyDirty" THEN L2!NoBlock ELSE b)
        /\ IF sharers = {} /\ L2!Waiting(k, "WaitAck") # {}
           THEN L2!Stall(m, k, "WaitRequest")
           ELSE /\ L2!Put(m, k, "WaitAck")
                /\ sharers' = sharers \cup {m.requester}
                /\ L2!SendReply(L2!Answer(t, m, 0, b.ver))
                /\ UNCHANGED <<snoop, toMem>>
    BY <2>1, <2>2, <2>3 DEF L2!ReadFromL2
  <2>5. l2' \in L2Rec /\ (t = "MissReplyDirty" => l2'.state = "I" /\ sharers = {})
    BY <1>2, <2>2, <2>4, NoBlockIs
  <2>6. CASE sharers = {} /\ L2!Waiting(k, "WaitAck") # {}
    <3>1. L2!Stall(m, k, "WaitRequest") /\ Has("WaitAck")  BY <1>3, <2>4, <2>6
    <3>2. l2' = L2!CurrentBlock \/ (l2'.state = "I" /\ sharers = {})  BY <1>1, <2>4, <2>5
    <3> QED  BY <2>5, <3>1, <3>2, ServeStallKeeps
  <2>7. CASE ~(sharers = {} /\ L2!Waiting(k, "WaitAck") # {})
    <3>1. /\ L2!Put(m, k, "WaitAck") /\ sharers' = sharers \cup {c}
          /\ L2!SendReply(L2!Answer(t, m, 0, b.ver)) /\ UNCHANGED <<snoop, toMem>>
      BY <1>5, <2>4, <2>7
    <3>2. Serves(m, k, m, c)  BY <1>6, <3>1
    <3>3. sharers = {} => T!NoneServed  BY <1>3, <2>7
    <3>4. b.state # "I" /\ ~(b.state = "E" /\ T!OneSharer)  BY <1>4, <1>8
    <3>5. l2' = (IF t = "MissReplyDirty" THEN L2!NoBlock ELSE b)  BY <2>4
    <3> QED  BY <1>1, <2>2, <3>1, <3>2, <3>3, <3>4, <3>5, ReadSupplyKeeps
  <2> QED  BY <2>6, <2>7
<1> QED  BY <1>7, <1>8

(* A request that needs not wait for a write. *)
LEMMA ServeAllKeeps ==
  ASSUME CInv, NEW m, NEW k, Servable(m, k), L2!Serve(m, k)
  PROVE  CInv' /\ TStep
<1>1. PICK n, b : n = L2!Converted(m) /\ b = L2!CurrentBlock  OBVIOUS
<1>2. /\ L2!PullBack
      /\ IF sharers = {} /\ b.state = "I" THEN L2!ServeFromMemory(n, k)
         ELSE \/ n.type = "ReadReq" /\ L2!ServeRead(n, k, b)
              \/ n.type = "WriteReq" /\ L2!ServeWrite(n, k, b)
              \/ n.type = "UpgradeReq" /\ L2!ServeUpgrade(n, k)
  BY <1>1 DEF L2!Serve
<1>3. m \in Message /\ Posting(m)  BY NotServedYet
<1>4. /\ ~IsEvict(m) /\ ~(l2.state = "I" /\ ceb.pending)
      /\ (L2!IsWrite(m) => T!NoneServed)
  BY DEF Servable
<1>5. /\ n \in Message /\ n.requester = m.requester /\ n.type \in RequestTypes
      /\ n.type = (IF m.type = "UpgradeReq" /\ m.requester \notin sharers THEN "WriteReq" ELSE m.type)
      /\ m.type = "ReadReq" => n = m
  BY <1>1, <1>3, <1>4, ConvertedIs
<1>6. b \in L2Rec  BY <1>1, <1>2, <1>4, PullIs
<1>7. /\ L2!Waiting(k, "WaitAck") # {} <=> Has("WaitAck")
      /\ L2!Waiting(k, "WaitAck") = {} <=> T!NoneServed
  BY NoWait
<1>8. PICK c : c = m.requester  OBVIOUS
<1>9. L2!Put(n, k, "WaitAck") => Serves(m, k, n, c)  BY <1>1, <1>2, <1>8 DEF Serves
<1>10. n.type = "ReadReq" => n = m /\ m.type = "ReadReq"  BY <1>5
<1>11. CASE sharers = {} /\ b.state = "I"
  <2>1. L2!ServeFromMemory(n, k)  BY <1>2, <1>11
  <2>2. l2' = L2!NoBlock  BY <2>1 DEF L2!ServeFromMemory
  <2>3. l2' \in L2Rec /\ l2'.state = "I"  BY <2>2, NoBlockIs
  <2>4. CASE L2!Waiting(k, "WaitAck") # {}
    <3>1. L2!Stall(n, k, "WaitRequest")  BY <2>1, <2>4 DEF L2!ServeFromMemory
    <3>2. ~L2!IsWrite(m)  BY <1>4, <1>7, <2>4
    <3>3. n = m  BY <1>3, <1>4, <1>5, <3>2 DEF L2!IsWrite, Posting, IsEvict, RequestTypes
    <3>4. Has("WaitAck") /\ L2!Stall(m, k, "WaitRequest")  BY <1>7, <2>4, <3>1, <3>3
    <3> QED  BY <1>2, <1>11, <2>3, <3>4, ServeStallKeeps
  <2>5. CASE ~(L2!Waiting(k, "WaitAck") # {})
    <3>1. /\ L2!Put(n, k, "WaitAck") /\ L2!ToMemory(n) /\ UNCHANGED <<sharers, snoop>>
          /\ IF n.type = "WriteReq" THEN L2!SendReply(L2!Answer("MissNotify", n, 1, 0))
                                    ELSE reply' = reply
      BY <2>1, <2>5 DEF L2!ServeFromMemory
    <3>2. Serves(m, k, n, c)  BY <1>9, <3>1
    <3>3. T!NoneServed  BY <1>7, <2>5
    <3>4. L2!CurrentBlock.state = "I" /\ sharers = {}  BY <1>1, <1>11
    <3> QED  BY <2>2, <3>1, <3>2, <3>3, <3>4, ServeMemoryKeeps
  <2> QED  BY <2>4, <2>5
<1>12. CASE ~(sharers = {} /\ b.state = "I") /\ n.type = "ReadReq"
  <2>1. n = m /\ m.type = "ReadReq" /\ L2!ServeRead(m, k, L2!CurrentBlock) /\ L2!Converted(m) = m
    BY <1>1, <1>2, <1>10, <1>12
  <2>2. ~(sharers = {} /\ L2!CurrentBlock.state = "I")  BY <1>1, <1>12
  <2> QED  BY <1>2, <2>1, <2>2, ServeReadKeeps
<1>13. CASE ~(sharers = {} /\ b.state = "I") /\ n.type = "WriteReq"
  <2>1. L2!ServeWrite(n, k, b)  BY <1>2, <1>13
  <2>2. /\ l2' = L2!NoBlock /\ L2!Put(n, k, "WaitAck") /\ UNCHANGED toMem
        /\ IF sharers = {} THEN L2!WriteFromL2(n, k, b) ELSE L2!WriteFromSharers(n, k, b)
    BY <2>1 DEF L2!ServeWrite
  <2>3. Serves(m, k, n, c)  BY <1>9, <2>2
  <2>4. CASE sharers = {}
    <3>1. L2!WriteFromL2(n, k, b)  BY <2>2, <2>4
    <3>2. PICK t : t = (IF b.state = "M" THEN "MissReplyDirty" ELSE "MissReplyWritable")  OBVIOUS
    <3>3. L2!SendReply(L2!Answer(t, n, -1, b.ver)) /\ sharers' = sharers \cup {c} /\ UNCHANGED snoop
      BY <1>5, <1>8, <3>1, <3>2 DEF L2!WriteFromL2
    <3>4. t \in {"MissReplyDirty", "MissReplyWritable"} /\ L2!CurrentBlock.state # "I"
      BY <1>1, <1>13, <2>4, <3>2
    <3>5. L2!SendReply(L2!Answer(t, n, -1, L2!CurrentBlock.ver))  BY <1>1, <3>3
    <3> QED  BY <1>13, <2>2, <2>3, <2>4, <3>3, <3>4, <3>5, WriteAtOnceKeeps
  <2>5. CASE sharers # {}
    <3>1. L2!WriteFromSharers(n, k, L2!CurrentBlock)  BY <1>1, <2>2, <2>5
    <3> QED  BY <1>13, <2>2, <2>3, <2>5, <3>1, WriteSharersKeeps
  <2> QED  BY <2>4, <2>5
<1>14. CASE ~(sharers = {} /\ b.state = "I") /\ n.type = "UpgradeReq"
  <2>1. L2!ServeUpgrade(n, k)  BY <1>2, <1>14
  <2>2. L2!Put(n, k, "WaitAck")  BY <2>1 DEF L2!ServeUpgrade
  <2> QED  BY <1>9, <1>14, <2>1, <2>2, UpgradeKeeps
<1>15. n.type \in {"ReadReq", "WriteReq", "UpgradeReq"}  BY <1>5 DEF RequestTypes
<1> QED  BY <1>11, <1>12, <1>13, <1>14, <1>15

(* doRequest: every request and eviction that reaches the L2. *)
LEMMA DoRequestKeeps ==
  ASSUME CInv, NEW m, NEW k, Taken(m, k), L2Frame, latest' = latest, L2!DoRequest(m, k)
  PROVE  CInv' /\ TStep
<1>1. PostInv /\ L2Inv /\ T!Inv  BY DEF CInv
<1>2. {"WaitAck", "WaitRequest", "WaitEvict"} \subseteq Stalls  BY DEF Stalls
<1>3. /\ L2!Waiting(k, "WaitRequest") # {} <=> Has("WaitRequest")
      /\ L2!Waiting(k, "WaitEvict") # {} <=> Has("WaitEvict")
      /\ L2!Waiting(k, "WaitAck") # {} <=> Has("WaitAck")
      /\ \A e \in Entries : e.st = "WaitAck" => \E i \in L2!Waiting(k, "WaitAck") : dmaf[i] = e
  BY <1>1, <1>2, WaitingHas
<1>4. /\ Has("WaitEvict") => ceb.pending
      /\ Has("WaitRequest") => Has("WaitAck") \/ Has("WaitEvict")
      /\ ceb.pending => ceb.present
  BY <1>1 DEF L2Inv
<1>5. Has("WaitEvict") => T!NoneServed
  <2>1. ceb.present => victimV = "dirty"  BY DEF victimV
  <2> QED  BY <1>1, <1>4, <2>1 DEF T!Inv, T!VictimAlone, T!NoneServed
<1>6. PICK ov \in BOOLEAN : ov <=> \A i \in L2!Waiting(k, "WaitAck") :
                                     ~L2!IsWrite(m) /\ ~L2!IsWrite(dmaf[i].msg)
  OBVIOUS
<1>7. ov => T!NoneStoring /\ (L2!IsWrite(m) => T!NoneServed)
  <2> SUFFICES ASSUME ov PROVE T!NoneStoring /\ (L2!IsWrite(m) => T!NoneServed)
    OBVIOUS
  <2>1. \A e \in Entries : e.st = "WaitAck" => ~L2!IsWrite(m) /\ ~L2!IsWrite(e.msg)
    BY <1>3, <1>6
  <2>2. \A q \in Srv : ~L2!IsWrite(m) /\ ~L2!IsWrite(q)  BY <2>1, SrvIs
  <2>3. \A q \in Srv : q.type \notin {"WriteReq", "UpgradeReq"}  BY <2>2 DEF L2!IsWrite
  <2>4. T!NoneStoring  BY <1>1, <2>3, HasServed
  <2>5. L2!IsWrite(m) => Srv = {}  BY <2>2
  <2> QED  BY <1>1, <2>4, <2>5, HasServed
<1>8. T!NoneServed => T!NoneStoring  BY DEF T!NoneServed, T!NoneStoring, T!Served
<1>9. (m.type \in L2!EvictTypes) <=> IsEvict(m)  BY DirNames DEF IsEvict
<1>10. ~ov => Has("WaitAck")  BY <1>3, <1>6
<1>11. CASE Has("WaitRequest") \/ (Has("WaitEvict") /\ ~IsEvict(m)) \/ (~Has("WaitEvict") /\ ~ov)
  <2>1. L2!Stall(m, k, "WaitRequest") /\ UNCHANGED <<l2, ceb, failed>>
    BY <1>3, <1>6, <1>9, <1>11 DEF L2!DoRequest
  <2>2. Has("WaitAck") \/ Has("WaitEvict")  BY <1>4, <1>10, <1>11
  <2> QED  BY <2>1, <2>2, StallAlike
<1>12. CASE /\ ~Has("WaitRequest") /\ ~(~Has("WaitEvict") /\ ~ov) /\ IsEvict(m)
  <2>1. L2!DoEvict(m, k)  BY <1>3, <1>6, <1>9, <1>12 DEF L2!DoRequest
  <2>2. T!NoneStoring  BY <1>5, <1>7, <1>8, <1>12
  <2> QED  BY <1>12, <2>1, <2>2, EvictRequestKeeps
<1>13. CASE /\ ~Has("WaitRequest") /\ ~Has("WaitEvict") /\ ov /\ ~IsEvict(m)
            /\ l2.state = "I" /\ ceb.pending
  <2>1. L2!Stall(m, k, "WaitEvict") /\ UNCHANGED <<l2, ceb, failed>>
    BY <1>3, <1>6, <1>9, <1>13 DEF L2!DoRequest
  <2> QED  BY <1>13, <2>1, StallAlike
<1>14. CASE /\ ~Has("WaitRequest") /\ ~Has("WaitEvict") /\ ov /\ ~IsEvict(m)
            /\ ~(l2.state = "I" /\ ceb.pending)
  <2>1. L2!Serve(m, k)  BY <1>3, <1>6, <1>9, <1>14 DEF L2!DoRequest
  <2>2. failed' = failed  BY <2>1 DEF L2!Serve
  <2>3. Servable(m, k)  BY <1>7, <1>14, <2>2 DEF Servable, DirTakes
  <2> QED  BY <2>1, <2>3, ServeAllKeeps
<1> QED  BY <1>11, <1>12, <1>13, <1>14

(* The head of a Request channel. *)
LEMMA RequestKeeps ==
  ASSUME CInv, NEW c \in Cores, L2Request(c)
  PROVE  CInv' /\ TStep
<1>1. /\ request[c] # <<>> /\ request' = [request EXCEPT ![c] = Tail(@)]
      /\ L2!DoRequest(Head(request[c]), 0) /\ latest' = latest /\ L2Frame
  BY DEF L2Request, L2!DirRequest
<1>2. PICK m : m = Head(request[c])  OBVIOUS
<1>3. Taken(m, 0)  BY <1>1, <1>2 DEF Taken
<1> QED  BY <1>1, <1>2, <1>3, DoRequestKeeps

(* A woken MAF entry starts over. *)
LEMMA WakeMafKeeps ==
  ASSUME CInv, L2WakeMaf
  PROVE  CInv' /\ TStep
<1>1. L2!DirWakeMaf /\ L2Frame  BY DEF L2WakeMaf
<1>2. PICK k \in L2!WakingEntries : L2!DoRequest(dmaf[k].msg, k)  BY <1>1 DEF L2!DirWakeMaf
<1>3. request' = request /\ latest' = latest  BY <1>1 DEF L2!DirWakeMaf
<1>4. k \in DOMAIN dmaf /\ dmaf[k].st = "Waking"  BY DEF L2!WakingEntries
<1>5. PICK m : m = dmaf[k].msg  OBVIOUS
<1>6. Taken(m, k)  BY <1>3, <1>4, <1>5 DEF Taken
<1> QED  BY <1>1, <1>2, <1>3, <1>5, <1>6, DoRequestKeeps

-----------------------------------------------------------------------------
(* The replies the directory receives. *)
DirQuiet == UNCHANGED <<request, latest, snoop, failed>> /\ L2Frame

(* What a reply to the directory leaves alone. *)
LEMMA DirFrame ==
  ASSUME CInv, DirQuiet
  PROVE  /\ UNCHANGED T!l1Vars /\ SnoopInv'
         /\ forwardsV' = forwardsV /\ heldV' = heldV /\ fetchesV' = fetchesV
         /\ invalsV' = invalsV /\ evictAcksV' = evictAcksV
         /\ \A c \in Cores : Sn(c)' = Sn(c) /\ Bf(c)' = Bf(c)
<1>1. SnoopInv /\ L1Inv  BY DEF CInv
<1>2. UNCHANGED l1Vars /\ snoop' = snoop  BY DEF DirQuiet, L2Frame
<1>3. UNCHANGED T!l1Vars /\ snoops' = snoops  BY <1>1, <1>2, L1Same
<1>4. SnoopInv' /\ UNCHANGED snoopViews /\ (\A c \in Cores : Sn(c)' = Sn(c) /\ Bf(c)' = Bf(c))
  BY <1>1, <1>2, <1>3, SnoopQuiet
<1> QED  BY <1>3, <1>4 DEF snoopViews

(* A reply keeps the invariant if the parts it can disturb hold. *)
LEMMA DirKeeps ==
  ASSUME CInv, DirQuiet, T!Next, PostInv', AskInv', ReplyInv', MemInv', L2Inv'
  PROVE  CInv' /\ TStep
<1>1. SnoopInv'  BY DirFrame
<1>2. L2Frame /\ failed' = failed /\ latest' = latest  BY DEF DirQuiet
<1>3. TStep  BY DEF TStep
<1> QED  BY <1>1, <1>2, <1>3, L2Keeps

(* No WriteFwd or Invalidate is for a write that is over. *)
LEMMA AsksQuiet ==
  ASSUME CInv, DirQuiet, \A d \in Cores : T!Storing(d) => T!Storing(d)'
  PROVE  AskInv'
<1>1. SnoopInv /\ AskInv  BY DEF CInv
<1>2. \A c \in Cores : Sn(c)' = Sn(c) /\ Bf(c)' = Bf(c)  BY DirFrame
<1>3. \A c \in Cores : \A a \in Sn(c)' \cup Bf(c)' : Asks(a) => a \in Sn(c) \cup Bf(c)  BY <1>2
<1> QED  BY <1>1, <1>3, AskMore

(* The MAF entry an ack is matched with. *)
LEMMA MatchIs ==
  ASSUME PostInv, NEW c \in Cores
  PROVE  /\ T!Served(c) => L2!Matching(c) # {}
         /\ \A i \in L2!Waiting(0, "WaitAck") :
              i \in DOMAIN dmaf /\ dmaf[i].st = "WaitAck" /\ dmaf[i].msg \in Srv
         /\ \A i \in L2!Matching(c) :
              /\ i \in L2!Waiting(0, "WaitAck") /\ dmaf[i].msg.requester = c /\ dmaf[i].msg \in Message
              /\ c \in readingV <=> dmaf[i].msg.type = "ReadReq"
              /\ c \in writingV <=> dmaf[i].msg.type = "WriteReq"
              /\ c \in upgradingV <=> dmaf[i].msg.type = "UpgradeReq"
         /\ T!Served(c) => L2!Waiting(0, "WaitAck") # {}
<1>1. \A i \in DOMAIN dmaf : dmaf[i] \in Entries /\ dmaf[i] \in EntryType /\ i # 0
  BY DEF PostInv, Entries, ToSet
<1>2. \A i \in L2!Waiting(0, "WaitAck") :
         i \in DOMAIN dmaf /\ dmaf[i].st = "WaitAck" /\ dmaf[i].msg \in Srv
  BY <1>1, SrvIs DEF L2!Waiting
<1>3. \A e \in Entries : \E i \in DOMAIN dmaf : dmaf[i] = e  BY DEF Entries, ToSet
<1>4. \A q \in Srv : \E i \in L2!Waiting(0, "WaitAck") : dmaf[i].msg = q
  BY <1>1, <1>3, SrvIs DEF L2!Waiting
<1>5. T!Served(c) <=> \E q \in Srv : q.requester = c  BY ServedIs
<1>6. T!Served(c) => L2!Matching(c) # {} /\ L2!Waiting(0, "WaitAck") # {}
  BY <1>4, <1>5 DEF L2!Matching
<1>7. ASSUME NEW i \in L2!Matching(c)
      PROVE  /\ i \in L2!Waiting(0, "WaitAck") /\ dmaf[i].msg.requester = c /\ dmaf[i].msg \in Message
             /\ c \in readingV <=> dmaf[i].msg.type = "ReadReq"
             /\ c \in writingV <=> dmaf[i].msg.type = "WriteReq"
             /\ c \in upgradingV <=> dmaf[i].msg.type = "UpgradeReq"
  <2>1. i \in L2!Waiting(0, "WaitAck") /\ dmaf[i].msg.requester = c  BY DEF L2!Matching
  <2>2. dmaf[i].msg \in Srv /\ dmaf[i] \in EntryType  BY <1>1, <1>2, <2>1
  <2>3. PICK q : q = dmaf[i].msg  OBVIOUS
  <2>4. q \in Srv /\ q.requester = c  BY <2>1, <2>2, <2>3
  <2>5. \A p \in Srv : p.requester = c => p = q  BY <2>4, ServedOnce
  <2>6. /\ c \in readingV <=> \E p \in Srv : p.requester = c /\ p.type = "ReadReq"
        /\ c \in writingV <=> \E p \in Srv : p.requester = c /\ p.type = "WriteReq"
        /\ c \in upgradingV <=> \E p \in Srv : p.requester = c /\ p.type = "UpgradeReq"
    BY ServedIs
  <2>7. /\ c \in readingV <=> q.type = "ReadReq"
        /\ c \in writingV <=> q.type = "WriteReq"
        /\ c \in upgradingV <=> q.type = "UpgradeReq"
    BY <2>4, <2>5, <2>6
  <2>8. dmaf[i].msg \in Message  BY <2>2 DEF EntryType
  <2> QED  BY <2>1, <2>3, <2>7, <2>8
<1> QED  BY <1>2, <1>6, <1>7

(* The request is over, and the stalled ones are woken. *)
LEMMA AckedIs ==
  ASSUME CInv, DirQuiet, NEW c \in Cores, NEW i \in L2!Matching(c), L2!RemoveAndWake(i)
  PROVE  /\ PostInv' /\ UNCHANGED T!postVars
         /\ readingV' = readingV \ {c} \/ (readingV' = readingV /\ c \notin readingV)
         /\ writingV' = writingV \ {c} \/ (writingV' = writingV /\ c \notin writingV)
         /\ upgradingV' = upgradingV \ {c} \/ (upgradingV' = upgradingV /\ c \notin upgradingV)
         /\ Has("WaitEvict")' => Has("WaitEvict")
         /\ Has("WaitRequest")' => Has("WaitAck")'
<1>1. PostInv /\ request' = request  BY DEF CInv, DirQuiet
<1>2. PICK q : q = dmaf[i].msg  OBVIOUS
<1>3. /\ i \in DOMAIN dmaf /\ dmaf[i].st = "WaitAck" /\ q \in Srv /\ q.requester = c
      /\ c \in readingV <=> q.type = "ReadReq"
      /\ c \in writingV <=> q.type = "WriteReq"
      /\ c \in upgradingV <=> q.type = "UpgradeReq"
  BY <1>1, <1>2, MatchIs
<1>4. /\ PostInv' /\ Pst' = Pst /\ Srv' = Srv \ {q}
      /\ Has("WaitEvict")' => Has("WaitEvict")
      /\ Has("WaitRequest")' => Has("WaitAck")'
  BY <1>1, <1>2, <1>3, AckedKeeps
<1>5. UNCHANGED T!postVars
  <2>1. UNCHANGED postViews  BY <1>4, PostedSame
  <2> QED  BY <2>1 DEF postViews, T!postVars
<1>6. /\ readingV' = IF q.type = "ReadReq" THEN readingV \ {q.requester} ELSE readingV
      /\ writingV' = IF q.type = "WriteReq" THEN writingV \ {q.requester} ELSE writingV
      /\ upgradingV' = IF q.type = "UpgradeReq" THEN upgradingV \ {q.requester} ELSE upgradingV
  BY <1>1, <1>3, <1>4, ServedLess
<1> QED  BY <1>3, <1>4, <1>5, <1>6

(* The directory takes a reply, *)
LEMMA ReplyGone ==
  ASSUME CInv, NEW m \in repliesV, L2!DirConsume(m, {})
  PROVE  ReplyInv' /\ T!Take(m) /\ FromDir(Rp)' = FromDir(Rp)
<1>1. ReplyInv /\ m \in Rp /\ m.requester \in Cores  BY DEF CInv, repliesV
<1>2. reply' = (reply (-) SetToBag({m})) (+) SetToBag({})  BY ReplyOps
<1>3. ReplyStep({m}, {})  BY <1>1, <1>2, ReplyTaken
<1>4. \A a \in {m} \cup {} : a.requester \in Cores  BY <1>1
<1>5. ReplyInv' /\ repliesV' = (repliesV \ {m}) \cup {} /\ FromDir(Rp)' = FromDir(Rp)
  BY <1>3, <1>4, RepliesAre
<1> QED  BY <1>5 DEF T!Take

(* ... or passes it on. *)
LEMMA ReplyBecomes ==
  ASSUME CInv, NEW m \in repliesV, NEW n \in Message, n.requester \in Cores, n.dest \in Cores,
         n \notin repliesV, L2!DirConsume(m, {n})
  PROVE  ReplyInv' /\ T!Swap(m, n) /\ FromDir(Rp)' = FromDir(Rp)
<1>1. ReplyInv /\ m \in Rp /\ m.requester \in Cores  BY DEF CInv, repliesV
<1>2. reply' = (reply (-) SetToBag({m})) (+) SetToBag({n})  BY ReplyOps
<1>3. n \notin Rp /\ n.dest # Dir  BY Names DEF repliesV
<1>4. ReplyStep({m}, {n})  BY <1>1, <1>2, <1>3, ReplySwapped
<1>5. \A a \in {m} \cup {n} : a.requester \in Cores  BY <1>1
<1>6. ReplyInv' /\ repliesV' = (repliesV \ {m}) \cup {n} /\ FromDir(Rp)' = FromDir(Rp)
  BY <1>4, <1>5, RepliesAre
<1> QED  BY <1>6 DEF T!Swap

(* No write-back is pending while a request is served. *)
LEMMA ServedNoVictim ==
  ASSUME CInv, NEW c \in Cores, T!Served(c)
  PROVE  ~ceb.present /\ ~ceb.pending /\ victimV = "none"
<1>1. victimV = "none"  BY DEF CInv, T!Inv, T!VictimAlone
<1>2. ~ceb.present  BY <1>1 DEF victimV
<1> QED  BY <1>1, <1>2 DEF CInv, L2Inv

(* Stalled requests after eRemoveAndWakeMAF. *)
LEMMA L2InvAcked ==
  ASSUME CInv, l2' \in L2Rec, ceb' \in CebRec, ceb'.pending => ceb'.present,
         ceb.pending' <=> ceb.pending, Has("WaitEvict")' => Has("WaitEvict"),
         Has("WaitRequest")' => Has("WaitAck")'
  PROVE  L2Inv'
<1>1. L2Inv  BY DEF CInv
<1> QED  BY <1>1 DEF L2Inv, L2Rec, CebRec

(* The types of the state of the L2. *)
LEMMA L2Types ==
  ASSUME CInv
  PROVE  l2 \in L2Rec /\ ceb \in CebRec /\ (ceb.pending => ceb.present)
  BY DEF CInv, L2Inv, L2Rec, CebRec

DirGets(m) == m \in repliesV /\ m.dest = Dir /\ UNCHANGED <<request, latest>> /\ L2Frame

(* Every reply to the directory finds the request it belongs to. *)
LEMMA DirGetsIs ==
  ASSUME CInv, NEW m, DirGets(m)
  PROVE  /\ m \in Message /\ m \in repliesV /\ m.requester \in Cores /\ T!Served(m.requester)
         /\ m.ver \in Version /\ m.needData \in BOOLEAN /\ m.outstanding = 0
         /\ m.type \in T!ReadAckTypes => m.requester \in readingV
         /\ m.type = "WriteAck" => m.requester \in writingV
         /\ m.type = "UpgradeAck" => m.requester \in upgradingV
         /\ m.type = "FwdNAck" => m.requester \in readingV
         /\ m.type # "EvictAck"
<1>1. T!Inv /\ ReplyInv  BY DEF CInv
<1>2. m \in repliesV /\ m.dest = T!Dir /\ m.dest = Dir  BY Names DEF DirGets
<1>3. m \in Message /\ m.outstanding = 0  BY <1>1, <1>2 DEF ReplyInv, repliesV
<1>4. m.ver \in Version /\ m.needData \in BOOLEAN  BY <1>3, MessageIs
<1>5. /\ m.requester \in Cores /\ T!Served(m.requester)
      /\ m.type \in T!ReadAckTypes => m.requester \in readingV
      /\ m.type = "WriteAck" => m.requester \in writingV
      /\ m.type = "UpgradeAck" => m.requester \in upgradingV
      /\ m.type = "FwdNAck" => m.requester \in readingV
      /\ m.type # "EvictAck"
  BY <1>1, <1>2, TSetting, T!ReplyFindsRequest
<1> QED  BY <1>2, <1>3, <1>4, <1>5

(* A ReadAck fits the directory. *)
LEMMA ReadAckKeeps ==
  ASSUME CInv, NEW m, DirGets(m), m.type \in {"ReadAck", "ReadAckDirty"}, L2!HandleReadAck(m)
  PROVE  CInv' /\ TStep
<1> DEFINE c == m.requester
<1>1. /\ m \in Message /\ m \in repliesV /\ c \in Cores /\ T!Served(c) /\ c \in readingV
      /\ m.ver \in Version /\ m.needData \in BOOLEAN
  BY DirGetsIs DEF T!ReadAckTypes
<1>2. ~ceb.present  BY <1>1, ServedNoVictim
<1>3. PostInv /\ T!WriteServedAlone /\ l2.state \in {"I", "E", "M"}
  BY DEF CInv, T!Inv, T!TypeOK
<1>4. L2!Matching(c) # {}  BY <1>1, <1>3, MatchIs
<1>5. /\ \E i \in L2!Matching(c) : L2!RemoveAndWake(i)
      /\ sharers' = sharers \cup {c}
      /\ l2' = IF ~m.needData THEN l2
               ELSE IF m.type = "ReadAckDirty" \/ l2.state = "M" THEN L2!Block("M", m.ver)
               ELSE L2!Block("E", m.ver)
      /\ L2!DirConsume(m, {})
      /\ UNCHANGED <<ceb, snoop, toMem, failed>>
  BY <1>2, <1>4 DEF L2!HandleReadAck
<1>6. PICK i \in L2!Matching(c) : L2!RemoveAndWake(i)  BY <1>5
<1>7. DirQuiet  BY <1>5 DEF DirGets, DirQuiet
<1>8. /\ PostInv' /\ UNCHANGED T!postVars
      /\ readingV' = readingV \ {c} \/ (readingV' = readingV /\ c \notin readingV)
      /\ writingV' = writingV \ {c} \/ (writingV' = writingV /\ c \notin writingV)
      /\ upgradingV' = upgradingV \ {c} \/ (upgradingV' = upgradingV /\ c \notin upgradingV)
      /\ Has("WaitEvict")' => Has("WaitEvict")
      /\ Has("WaitRequest")' => Has("WaitAck")'
  BY <1>1, <1>6, <1>7, AckedIs
<1>9. c \notin writingV /\ c \notin upgradingV  BY <1>1, <1>3 DEF T!WriteServedAlone, T!Storing
<1>10. readingV' = readingV \ {c} /\ writingV' = writingV /\ upgradingV' = upgradingV
  BY <1>1, <1>8, <1>9
<1>11. ReplyInv' /\ T!Take(m) /\ FromDir(Rp)' = FromDir(Rp)  BY <1>1, <1>5, ReplyGone
<1>12. MemInv' /\ atMemoryV' = atMemoryV  BY <1>5, <1>11, MemStays
<1>13. AskInv'
  <2>1. \A d \in Cores : T!Storing(d) => T!Storing(d)'  BY <1>10 DEF T!Storing
  <2> QED  BY <2>1, <1>7, AsksQuiet
<1>14. PICK b, e : b = L2!Block("M", m.ver) /\ e = L2!Block("E", m.ver)  OBVIOUS
<1>15. b \in L2Rec /\ b.state = "M" /\ e \in L2Rec /\ e.state = "E"  BY <1>1, <1>14, BlockFields
<1>16. l2 \in L2Rec /\ ceb \in CebRec /\ (ceb.pending => ceb.present)  BY L2Types
<1>17. l2' = IF ~m.needData THEN l2 ELSE IF m.type = "ReadAckDirty" \/ l2.state = "M" THEN b ELSE e
  BY <1>5, <1>14
<1>18. l2' \in L2Rec
       /\ l2'.state \in {l2.state, IF m.type = "ReadAckDirty" \/ l2.state = "M" THEN "M" ELSE "E"}
  BY <1>15, <1>16, <1>17
<1>19. ceb' = ceb  BY <1>5
<1>20. L2Inv'  BY <1>8, <1>16, <1>18, <1>19, L2InvAcked
<1>21. /\ UNCHANGED T!l1Vars
       /\ forwardsV' = forwardsV /\ heldV' = heldV /\ fetchesV' = fetchesV
       /\ invalsV' = invalsV /\ evictAcksV' = evictAcksV
  BY <1>7, DirFrame
<1>22. victimV' = victimV  BY <1>19 DEF victimV
<1>23. T!ReadAcked(c, m)
  BY <1>5, <1>8, <1>10, <1>11, <1>12, <1>18, <1>21, <1>22
  DEF T!ReadAcked, T!ReadAckTypes, T!tokenVars
<1>24. T!Next  BY <1>1, <1>23, T!DirReceiveSteps
<1> QED  BY <1>7, <1>8, <1>11, <1>12, <1>13, <1>20, <1>24, DirKeeps

(* A write that is served has the only active MAF entry. *)
LEMMA StoreEntryAlone ==
  ASSUME CInv, NEW c \in Cores, T!Storing(c)
  PROVE  \E i \in L2!Matching(c) : L2!Waiting(0, "WaitAck") = {i}
<1>1. PostInv /\ T!WriteServedAlone  BY DEF CInv, T!Inv
<1>2. T!Served(c)  BY DEF T!Served
<1>3. PICK i \in L2!Matching(c) : TRUE  BY <1>1, <1>2, MatchIs
<1>4. i \in L2!Waiting(0, "WaitAck")  BY DEF L2!Matching
<1>5. ASSUME NEW j \in L2!Waiting(0, "WaitAck") PROVE j = i
  <2>1. /\ i \in DOMAIN dmaf /\ dmaf[i].st = "WaitAck" /\ dmaf[i].msg \in Srv
        /\ j \in DOMAIN dmaf /\ dmaf[j].st = "WaitAck" /\ dmaf[j].msg \in Srv
    BY <1>1, <1>4, <1>5, MatchIs
  <2>2. /\ T!Served(dmaf[i].msg.requester) /\ dmaf[i].msg.requester \in Cores
        /\ T!Served(dmaf[j].msg.requester) /\ dmaf[j].msg.requester \in Cores
    <3>1. dmaf[i].msg.requester \in Cores /\ dmaf[j].msg.requester \in Cores
      BY <1>1, <2>1, ServedOnce
    <3> QED  BY <1>1, <2>1, <3>1, ServedIs
  <2>3. dmaf[i].msg.requester = c /\ dmaf[j].msg.requester = c
    BY <1>1, <2>2 DEF T!WriteServedAlone
  <2>4. dmaf[i].msg = dmaf[j].msg  BY <1>1, <2>1, <2>3, ServedOnce
  <2>5. dmaf[i] \in Entries /\ dmaf[j] \in Entries  BY <2>1 DEF Entries, ToSet
  <2>6. SameSlot(dmaf[i], dmaf[j])  BY <2>1, <2>4 DEF SameSlot
  <2>7. dmaf[i] = dmaf[j]  BY <1>1, <2>5, <2>6 DEF PostInv
  <2> QED  BY <1>1, <2>1, <2>7 DEF PostInv, IsInjective
<1> QED  BY <1>4, <1>5

(* A WriteAck or an UpgradeAck fits the directory. *)
LEMMA WriteAckKeeps ==
  ASSUME CInv, NEW m, DirGets(m), m.type \in {"WriteAck", "UpgradeAck"}, L2!HandleWriteAck(m)
  PROVE  CInv' /\ TStep
<1> DEFINE c == m.requester
<1>1. /\ m \in Message /\ m \in repliesV /\ c \in Cores /\ T!Served(c) /\ T!Storing(c)
      /\ m.type = "WriteAck" => c \in writingV
      /\ m.type = "UpgradeAck" => c \in upgradingV
  BY DirGetsIs DEF T!Storing
<1>2. PostInv /\ T!WriteServedAlone /\ T!BankEmpty /\ T!FinalAlone  BY DEF CInv, T!Inv
<1>3. ~ceb.present /\ ~ceb.pending /\ victimV = "none"  BY <1>1, ServedNoVictim
<1>4. l2.state = "I"  BY <1>1, <1>2 DEF T!BankEmpty
<1>5. PICK i \in L2!Matching(c) : L2!Waiting(0, "WaitAck") = {i}  BY <1>1, StoreEntryAlone
<1>6. /\ c \in writingV <=> dmaf[i].msg.type = "WriteReq"
      /\ c \in upgradingV <=> dmaf[i].msg.type = "UpgradeReq"
      /\ i \in DOMAIN dmaf
  BY <1>1, <1>2, MatchIs
<1>7. i \in Int  BY <1>2, <1>6 DEF PostInv
<1>8. {j \in L2!Waiting(0, "WaitAck") : \A k \in L2!Waiting(0, "WaitAck") : j <= k} = {i}
  BY <1>5, <1>7
<1>9. /\ L2!RemoveAndWake(i)
      /\ sharers' = {c}
      /\ l2' = l2 /\ ceb' = L2!NoCeb
      /\ L2!DirConsume(m, {})
      /\ UNCHANGED <<snoop, toMem, failed>>
  BY <1>1, <1>4, <1>6, <1>8 DEF L2!HandleWriteAck
<1>10. DirQuiet  BY <1>9 DEF DirGets, DirQuiet
<1>11. /\ PostInv' /\ UNCHANGED T!postVars
       /\ readingV' = readingV \ {c} \/ (readingV' = readingV /\ c \notin readingV)
       /\ writingV' = writingV \ {c} \/ (writingV' = writingV /\ c \notin writingV)
       /\ upgradingV' = upgradingV \ {c} \/ (upgradingV' = upgradingV /\ c \notin upgradingV)
       /\ Has("WaitEvict")' => Has("WaitEvict")
       /\ Has("WaitRequest")' => Has("WaitAck")'
  BY <1>1, <1>9, <1>10, AckedIs
<1>12. c \notin readingV  BY <1>1, <1>2 DEF T!WriteServedAlone
<1>13. readingV' = readingV /\ writingV' = writingV \ {c} /\ upgradingV' = upgradingV \ {c}
  BY <1>11, <1>12
<1>14. ReplyInv' /\ T!Take(m) /\ FromDir(Rp)' = FromDir(Rp)  BY <1>1, <1>9, ReplyGone
<1>15. ~L2!NoCeb.present /\ ~L2!NoCeb.pending /\ L2!NoCeb \in CebRec  BY NoCebIs
<1>16. ceb.pending' <=> ceb.pending  BY <1>3, <1>9, <1>15
<1>17. MemInv' /\ atMemoryV' = atMemoryV  BY <1>9, <1>14, <1>16, MemStays
<1>18. /\ UNCHANGED T!l1Vars
       /\ forwardsV' = forwardsV /\ heldV' = heldV /\ fetchesV' = fetchesV
       /\ invalsV' = invalsV /\ evictAcksV' = evictAcksV
       /\ \A d \in Cores : Sn(d)' = Sn(d) /\ Bf(d)' = Bf(d)
  BY <1>10, DirFrame
<1>19. fetchesV = {} /\ invalsV = {}
  BY <1>1, <1>2 DEF T!FinalAlone, T!Final, T!IsAck, T!WriteAckTypes
<1>20. AskInv'
  <2>1. \A d \in Cores : \A n \in Sn(d) \cup Bf(d) : ~Asks(n)
    BY <1>19 DEF fetchesV, invalsV, Snooped, Asks
  <2> QED  BY <1>18, <2>1 DEF AskInv
<1>21. l2 \in L2Rec  BY L2Types
<1>22. L2Inv'  BY <1>9, <1>11, <1>15, <1>16, <1>21, L2InvAcked
<1>23. victimV' = victimV  BY <1>3, <1>9, <1>15 DEF victimV
<1>24. T!StoreAcked(c, m)
  BY <1>9, <1>11, <1>13, <1>14, <1>17, <1>18, <1>23
  DEF T!StoreAcked, T!WriteAckTypes, T!tokenVars
<1>25. T!Next  BY <1>1, <1>24, T!DirReceiveSteps
<1> QED  BY <1>10, <1>11, <1>14, <1>17, <1>20, <1>22, <1>25, DirKeeps

(* The MAF is left alone. *)
LEMMA MafStays ==
  ASSUME CInv, DirQuiet, dmaf' = dmaf, ceb' = ceb, l2' \in L2Rec
  PROVE  /\ PostInv' /\ UNCHANGED T!postVars /\ UNCHANGED T!serveVars /\ AskInv' /\ L2Inv'
         /\ victimV' = victimV
<1>1. PostInv /\ L2Inv /\ request' = request  BY DEF CInv, DirQuiet
<1>2. PostInv' /\ UNCHANGED T!postVars /\ UNCHANGED T!serveVars  BY <1>1, PostSame
<1>3. \A d \in Cores : T!Storing(d) => T!Storing(d)'  BY <1>2 DEF T!serveVars, T!Storing
<1>4. AskInv'  BY <1>3, AsksQuiet
<1>5. Entries' = Entries  BY DEF Entries
<1>6. \A st : Has(st)' <=> Has(st)  BY <1>5 DEF Has
<1>7. L2Inv'  BY <1>1, <1>6 DEF L2Inv, L2Rec
<1> QED  BY <1>2, <1>4, <1>7 DEF victimV

(* A reply of memory fits the directory. *)
LEMMA MemoryReplyKeeps ==
  ASSUME CInv, NEW m, DirGets(m), m.type = "MissReplyWritable", L2!HandleMemoryReply(m)
  PROVE  CInv' /\ TStep
<1> DEFINE c == m.requester
<1>1. /\ m \in Message /\ m \in repliesV /\ c \in Cores /\ T!Served(c)
      /\ m.ver \in Version /\ m.outstanding = 0
  BY DirGetsIs
<1>2. PostInv /\ T!Inv  BY DEF CInv
<1>3. ~ceb.present  BY <1>1, ServedNoVictim
<1>4. L2!Matching(c) # {} /\ (\A i \in L2!Matching(c) : c \in readingV <=> dmaf[i].msg.type = "ReadReq")
  BY <1>1, <1>2, MatchIs
<1>5. (\E i \in L2!Matching(c) : dmaf[i].msg.type = "ReadReq") <=> c \in readingV  BY <1>4
<1>6. PICK n : n = [m EXCEPT !.dest = c, !.other = Dir]  OBVIOUS
<1>7. /\ l2' = IF c \in readingV THEN L2!Block("E", m.ver) ELSE l2
      /\ L2!DirConsume(m, {n})
      /\ UNCHANGED <<sharers, ceb, dmaf, snoop, toMem, failed>>
  BY <1>3, <1>4, <1>5, <1>6, Names DEF L2!HandleMemoryReply
<1>8. DirQuiet  BY <1>7 DEF DirGets, DirQuiet
<1>9. n \in Message /\ T!Is(n, "MissReplyWritable", c, c, Dir, 0)
  BY <1>1, <1>6, RoutedFields DEF Fields, Nodes
<1>10. n.requester = c /\ n.dest = c  BY <1>9 DEF T!Is
<1>11. m.dest = T!Dir /\ Dir = T!Dir  BY Names DEF DirGets
<1>12. n \notin repliesV  BY <1>1, <1>2, <1>9, <1>11, TSetting, T!PassOnFresh
<1>13. ReplyInv' /\ T!Swap(m, n) /\ FromDir(Rp)' = FromDir(Rp)
  BY <1>1, <1>7, <1>9, <1>10, <1>12, ReplyBecomes
<1>14. MemInv' /\ atMemoryV' = atMemoryV  BY <1>7, <1>13, MemStays
<1>15. PICK b : b = L2!Block("E", m.ver)  OBVIOUS
<1>16. b \in L2Rec /\ b.state = "E" /\ l2 \in L2Rec  BY <1>1, <1>15, BlockFields, L2Types
<1>17. l2' \in L2Rec /\ l2'.state = IF c \in readingV THEN "E" ELSE l2.state
  BY <1>7, <1>15, <1>16
<1>18. /\ PostInv' /\ UNCHANGED T!postVars /\ UNCHANGED T!serveVars /\ AskInv' /\ L2Inv'
       /\ victimV' = victimV
  BY <1>7, <1>8, <1>17, MafStays
<1>19. /\ UNCHANGED T!l1Vars
       /\ forwardsV' = forwardsV /\ heldV' = heldV /\ fetchesV' = fetchesV
       /\ invalsV' = invalsV /\ evictAcksV' = evictAcksV
  BY <1>8, DirFrame
<1>20. sharers' = sharers  BY <1>7
<1>21. T!PassOn(c, m, n)
  BY <1>9, <1>11, <1>13, <1>14, <1>17, <1>18, <1>19, <1>20
  DEF T!PassOn, T!tokenVars
<1>22. T!Next  BY <1>1, <1>21, T!DirReceiveSteps
<1> QED  BY <1>8, <1>13, <1>14, <1>18, <1>22, DirKeeps

(* A FwdNAck finds no copy left anywhere else. *)
LEMMA RefusalKeeps ==
  ASSUME CInv, NEW m, DirGets(m), m.type = "FwdNAck", L2!HandleFwdNAck(m)
  PROVE  CInv' /\ TStep
<1> DEFINE c == m.requester
<1>1. m \in Message /\ m \in repliesV /\ c \in Cores /\ T!Served(c) /\ c \in readingV
  BY DirGetsIs
<1>2. PostInv /\ T!ReadToken /\ T!RefusedAlone /\ sharers \subseteq Cores /\ l2.state \in {"I", "E", "M"}
  BY DEF CInv, T!Inv, T!TypeOK
<1>3. ~ceb.present  BY <1>1, ServedNoVictim
<1>4. sharers = {}  BY <1>1, <1>2 DEF T!RefusedAlone
<1>5. L2!CurrentBlock = l2 /\ (L2!PullBack <=> ceb' = ceb)
  BY <1>3 DEF L2!CurrentBlock, L2!PullBack, L2!PulledBack
<1>6. L2!Cardinality(sharers) # 1
  <2>1. Cardinality(sharers) = 0  BY <1>4, FS_EmptySet
  <2> QED  BY <2>1, DirNames
<1>7. L2!Matching(c) # {} /\ (\A i \in L2!Matching(c) : dmaf[i].msg.type = "ReadReq"
                               /\ dmaf[i].msg \in Message /\ dmaf[i].msg.requester = c)
  BY <1>1, <1>2, MatchIs
<1>8. /\ l2' = l2 /\ ceb' = ceb
      /\ UNCHANGED <<sharers, dmaf, failed, snoop>>
      /\ \/ /\ l2.state # "I"
            /\ L2!DirConsume(m, {L2!Answer("MissReplyWritable", m, 0, l2.ver)})
            /\ toMem' = toMem
         \/ /\ l2.state = "I"
            /\ \E i \in L2!Matching(c) : L2!ToMemory(dmaf[i].msg)
            /\ L2!DirConsume(m, {})
  BY <1>2, <1>4, <1>5, <1>6, <1>7 DEF L2!HandleFwdNAck
<1>9. DirQuiet  BY <1>8 DEF DirGets, DirQuiet
<1>10. l2 \in L2Rec /\ l2' \in L2Rec /\ l2.ver \in Version  BY <1>8, L2Types DEF L2Rec
<1>11. /\ PostInv' /\ UNCHANGED T!postVars /\ UNCHANGED T!serveVars /\ AskInv' /\ L2Inv'
       /\ victimV' = victimV
  BY <1>8, <1>9, <1>10, MafStays
<1>12. /\ UNCHANGED T!l1Vars
       /\ forwardsV' = forwardsV /\ heldV' = heldV /\ fetchesV' = fetchesV
       /\ invalsV' = invalsV /\ evictAcksV' = evictAcksV
  BY <1>9, DirFrame
<1>13. UNCHANGED T!dirVars  BY <1>8, <1>11 DEF T!dirVars
<1>14. c \notin atMemoryV /\ \A n \in repliesV : n.requester = c => n = m
  BY <1>1, <1>2 DEF T!ReadToken
<1>15. CASE /\ l2.state # "I"
            /\ L2!DirConsume(m, {L2!Answer("MissReplyWritable", m, 0, l2.ver)})
            /\ toMem' = toMem
  <2>1. PICK n : n = L2!Answer("MissReplyWritable", m, 0, l2.ver)  OBVIOUS
  <2>2. n \in Message /\ T!Is(n, "MissReplyWritable", c, c, Dir, 0)
    <3>1. "MissReplyWritable" \in MessageTypes  BY DEF MessageTypes, MissReplies
    <3>2. 0 \in Int  OBVIOUS
    <3>3. Fields(L2!Answer("MissReplyWritable", m, 0, l2.ver), "MissReplyWritable", c, c, Dir, 0)
      BY <1>1, <1>10, <3>1, <3>2, AnswerFields
    <3> QED  BY <2>1, <3>3 DEF Fields
  <2>3. n.requester = c /\ n.dest = c /\ n.type = "MissReplyWritable"  BY <2>2 DEF T!Is
  <2>4. n \notin repliesV  BY <1>14, <2>3
  <2>5. L2!DirConsume(m, {n})  BY <1>15, <2>1
  <2>6. ReplyInv' /\ T!Swap(m, n) /\ FromDir(Rp)' = FromDir(Rp)
    BY <1>1, <2>2, <2>3, <2>4, <2>5, ReplyBecomes
  <2>7. MemInv' /\ atMemoryV' = atMemoryV  BY <1>8, <1>15, <2>6, MemStays
  <2>8. T!RetryBank(c, m, n)
    BY <1>11, <1>12, <1>13, <1>15, <2>2, <2>6, <2>7, Names DEF T!RetryBank, T!tokenVars
  <2>9. T!Next  BY <1>1, <2>8, T!DirReceiveSteps
  <2> QED  BY <1>9, <1>11, <2>6, <2>7, <2>9, DirKeeps
<1>16. CASE /\ l2.state = "I"
            /\ \E i \in L2!Matching(c) : L2!ToMemory(dmaf[i].msg)
            /\ L2!DirConsume(m, {})
  <2>1. PICK i \in L2!Matching(c) : L2!ToMemory(dmaf[i].msg)  BY <1>16
  <2>2. PICK n : n = dmaf[i].msg  OBVIOUS
  <2>3. n \in Message /\ n.requester = c /\ n.type = "ReadReq" /\ L2!ToMemory(n)
    BY <1>7, <2>1, <2>2
  <2>4. ReplyInv' /\ T!Take(m) /\ FromDir(Rp)' = FromDir(Rp)  BY <1>1, <1>16, ReplyGone
  <2>5. MemInv' /\ atMemoryV' = atMemoryV \cup {c}
    BY <1>1, <1>8, <1>14, <2>3, <2>4, RequestToMemory
  <2>6. T!RetryMemory(c, m)
    BY <1>11, <1>12, <1>13, <1>16, <2>4, <2>5 DEF T!RetryMemory
  <2>7. T!Next  BY <1>1, <2>6, T!DirReceiveSteps
  <2> QED  BY <1>9, <1>11, <2>4, <2>5, <2>7, DirKeeps
<1> QED  BY <1>8, <1>15, <1>16

(* The EvictAck of memory finds its write-back. *)
LEMMA WriteBackKeeps ==
  ASSUME CInv, NEW m \in Rp, m.requester = Dir, UNCHANGED <<request, latest>>, L2Frame,
         L2!HandleMemEvictAck(m)
  PROVE  CInv' /\ TStep
<1>1. PostInv /\ ReplyInv /\ MemInv /\ L2Inv  BY DEF CInv
<1>2. m \in FromDir(Rp)  BY DEF FromDir
<1>3. ceb.pending /\ FromDir(Tm) = {}  BY <1>1, <1>2 DEF MemInv
<1>4. L2!Waiting(0, "WaitEvict") = {} <=> ~Has("WaitEvict")
  <2>1. 0 \notin DOMAIN dmaf  BY <1>1 DEF PostInv
  <2>2. Entries = {dmaf[i] : i \in DOMAIN dmaf}  BY DEF Entries, ToSet
  <2> QED  BY <2>1, <2>2 DEF L2!Waiting, Has
<1>5. /\ ceb' = L2!NoCeb
      /\ dmaf' = IF ~Has("WaitEvict") THEN dmaf
                 ELSE L2!WakeAll(dmaf, {"WaitEvict", "WaitRequest"})
      /\ L2!DirConsume(m, {})
      /\ UNCHANGED <<l2, sharers, snoop, toMem, failed>>
  BY <1>3, <1>4 DEF L2!HandleMemEvictAck
<1>6. DirQuiet  BY <1>5 DEF DirQuiet
<1>7. request' = request  OBVIOUS
<1>8. /\ PostInv' /\ Pst' = Pst /\ Srv' = Srv
      /\ ~Has("WaitEvict")'
      /\ Has("WaitRequest")' => Has("WaitRequest") /\ ~Has("WaitEvict") /\ Entries' = Entries
  BY <1>1, <1>5, <1>7, EvictWokenKeeps
<1>9. UNCHANGED postViews /\ UNCHANGED serveViews  BY <1>8, PostedSame, ServedSame
<1>10. UNCHANGED T!postVars /\ UNCHANGED T!serveVars
  BY <1>9 DEF postViews, serveViews, T!postVars, T!serveVars
<1>11. AskInv'
  <2>1. \A d \in Cores : T!Storing(d) => T!Storing(d)'  BY <1>10 DEF T!serveVars, T!Storing
  <2> QED  BY <1>6, <2>1, AsksQuiet
<1>12. ReplyStep({m}, {})
  <2>1. reply' = (reply (-) SetToBag({m})) (+) SetToBag({})  BY <1>5, ReplyOps
  <2> QED  BY <1>1, <2>1, ReplyTaken
<1>13. ReplyInv' /\ Rp' = Rp \ {m} /\ repliesV' = {n \in Rp' : n.requester \in Cores}
       /\ FromDir(Rp)' = {n \in Rp' : n.requester = Dir}
  BY <1>12 DEF ReplyStep
<1>14. repliesV' = repliesV  BY <1>13, Names DEF repliesV
<1>15. FromDir(Rp)' = {}  BY <1>1, <1>2, <1>13 DEF MemInv, FromDir
<1>16. MemInv' /\ atMemoryV' = atMemoryV
  <2>1. Tm' = Tm /\ toMem' = toMem  BY <1>5 DEF Tm
  <2>2. FromDir(Tm)' = {}  BY <1>3, <2>1 DEF FromDir
  <2> QED  BY <1>1, <1>15, <2>1, <2>2 DEF MemInv, atMemoryV
<1>17. L2!NoCeb \in CebRec /\ ~L2!NoCeb.present /\ ~L2!NoCeb.pending  BY NoCebIs
<1>18. L2Inv'
  <2>1. Has("WaitRequest")' => Has("WaitAck")'
    <3>1. Entries' = Entries => (Has("WaitAck")' <=> Has("WaitAck"))  BY DEF Has
    <3> QED  BY <1>1, <1>8, <3>1 DEF L2Inv
  <2> QED  BY <1>1, <1>5, <1>8, <1>17, <2>1 DEF L2Inv, CebRec
<1>19. /\ UNCHANGED T!l1Vars
       /\ forwardsV' = forwardsV /\ heldV' = heldV /\ fetchesV' = fetchesV
       /\ invalsV' = invalsV /\ evictAcksV' = evictAcksV
  BY <1>6, DirFrame
<1>20. victimV' = "none"  BY <1>5, <1>17 DEF victimV
<1>21. l2.state' = l2.state /\ sharers' = sharers  BY <1>5
<1>22. T!WrittenBack
  BY <1>10, <1>14, <1>16, <1>19, <1>20, <1>21 DEF T!WrittenBack, T!tokenVars
<1>23. T!Next  BY <1>22, T!OtherSteps
<1> QED  BY <1>6, <1>8, <1>11, <1>13, <1>16, <1>18, <1>23, DirKeeps

(* Every reply to the directory. *)
LEMMA ReplyKeepsAll ==
  ASSUME CInv, NEW n, L2Reply(n)
  PROVE  CInv' /\ TStep
<1>1. PICK m : L2!DirReply(m) /\ L2Frame  BY DEF L2Reply
<1>2. /\ m \in Rp /\ m.dest = Dir
      /\ \/ m.type \in {"ReadAck", "ReadAckDirty"} /\ L2!HandleReadAck(m)
         \/ m.type \in {"WriteAck", "UpgradeAck"} /\ L2!HandleWriteAck(m)
         \/ m.type = "MissReplyWritable" /\ L2!HandleMemoryReply(m)
         \/ m.type = "FwdNAck" /\ L2!HandleFwdNAck(m)
         \/ m.type = "EvictAck" /\ L2!HandleMemEvictAck(m)
      /\ UNCHANGED <<request, latest>>
  <2>1. L2!InReply(m) <=> m \in Rp  BY ReplyOps
  <2> QED  BY <1>1, <2>1, Names DEF L2!DirReply
<1>3. m.requester \in Cores \/ (m.requester = Dir /\ m.type = "EvictAck")
  BY <1>2 DEF CInv, ReplyInv
<1>4. CASE m.requester \in Cores
  <2>1. DirGets(m)  BY <1>1, <1>2, <1>4 DEF DirGets, repliesV
  <2>2. m.type # "EvictAck"  BY <2>1, DirGetsIs
  <2> QED  BY <1>2, <2>1, <2>2, ReadAckKeeps, WriteAckKeeps, MemoryReplyKeeps, RefusalKeeps
<1>5. CASE m.requester = Dir /\ m.type = "EvictAck"
  BY <1>1, <1>2, <1>5, WriteBackKeeps
<1> QED  BY <1>3, <1>4, <1>5

-----------------------------------------------------------------------------
(* Replacement in the L2, its write-back, and memory. *)

(* No MAF entry is in this state. *)
LEMMA NoneWaiting ==
  ASSUME PostInv, NEW st
  PROVE  L2!Waiting(0, st) = {} <=> ~Has(st)
<1>1. 0 \notin DOMAIN dmaf  BY DEF PostInv
<1>2. Entries = {dmaf[i] : i \in DOMAIN dmaf}  BY DEF Entries, ToSet
<1> QED  BY <1>1, <1>2 DEF L2!Waiting, Has

(* No EvictDirty is on its way or put off. *)
LEMMA NoDirtyPosted ==
  ASSUME PostInv, ~L2!DirtyDataComing
  PROVE  dirtiesV = {}
<1>1. SUFFICES ASSUME NEW c \in dirtiesV PROVE FALSE  OBVIOUS
<1>2. PICK m \in Pst : m.type = "EvictDirty"  BY <1>1 DEF dirtiesV, Of
<1>3. CASE \E d \in Cores : m \in Req(d)
  BY <1>2, <1>3 DEF Req, ToSet, L2!DirtyDataComing
<1>4. CASE \E e \in Entries : e.st # "WaitAck" /\ e.msg = m
  BY <1>2, <1>4 DEF Entries, ToSet, L2!DirtyDataComing
<1> QED  BY <1>2, <1>3, <1>4, PstIs

(* The L2 replaces its block. *)
LEMMA L2ReplacementKeeps ==
  ASSUME CInv, ~EarlyVictim, L2Replacement
  PROVE  CInv' /\ TStep
<1>1. PostInv /\ L2Inv /\ AskInv  BY DEF CInv
<1>2. /\ l2.state # "I" /\ L2!Waiting(0, "WaitAck") = {}
      /\ l2.state = "M" => ~L2!DirtyDataComing
      /\ l2' = L2!NoBlock
      /\ ceb' = IF l2.state # "M" THEN ceb
                ELSE [present |-> TRUE, pending |-> ceb.pending, ver |-> l2.ver]
      /\ UNCHANGED <<sharers, dmaf>> /\ UNCHANGED <<request, snoop, toMem, reply, latest, failed>>
      /\ L2Frame
  BY DEF L2Replacement, L2!L2Victim, L2!netVars
<1>3. DirQuiet  BY <1>2 DEF DirQuiet
<1>4. ~Has("WaitAck") /\ T!NoneServed  BY <1>1, <1>2, NoneWaiting, HasServed
<1>5. l2.state = "M" => dirtiesV = {}  BY <1>1, <1>2, NoDirtyPosted
<1>6. request' = request /\ dmaf' = dmaf  BY <1>2
<1>7. PostInv' /\ UNCHANGED T!postVars /\ UNCHANGED T!serveVars  BY <1>1, <1>6, PostSame
<1>8. \A d \in Cores : T!Storing(d) => T!Storing(d)'  BY <1>7 DEF T!serveVars, T!Storing
<1>9. AskInv'  BY <1>3, <1>8, AsksQuiet
<1>10. ReplyInv' /\ repliesV' = repliesV /\ FromDir(Rp)' = FromDir(Rp)  BY <1>2, ReplyStays
<1>11. l2 \in L2Rec /\ ceb \in CebRec /\ (ceb.pending => ceb.present)  BY L2Types
<1>12. /\ ceb' \in CebRec /\ (ceb'.pending => ceb'.present) /\ (ceb.pending' <=> ceb.pending)
       /\ victimV' = IF l2.state = "M" THEN "dirty" ELSE victimV
  <2>1. CASE l2.state = "M"
    <3>1. ceb' = [present |-> TRUE, pending |-> ceb.pending, ver |-> l2.ver]  BY <1>2, <2>1
    <3>2. ceb.pending \in BOOLEAN /\ l2.ver \in Version  BY <1>11 DEF L2Rec, CebRec
    <3>3. ceb' \in CebRec  BY <3>1, <3>2 DEF CebRec
    <3>4. ceb'.present /\ ceb'.pending = ceb.pending  BY <3>1
    <3> QED  BY <2>1, <3>3, <3>4 DEF victimV
  <2>2. CASE l2.state # "M"
    <3>1. ceb' = ceb  BY <1>2, <2>2
    <3> QED  BY <1>11, <2>2, <3>1 DEF victimV
  <2> QED  BY <2>1, <2>2
<1>13. MemInv' /\ atMemoryV' = atMemoryV  BY <1>2, <1>10, <1>12, MemStays
<1>14. l2' \in L2Rec /\ l2'.state = "I"  BY <1>2, NoBlockIs
<1>15. L2Inv'
  <2>1. Entries' = Entries  BY <1>2 DEF Entries
  <2>2. \A st : Has(st)' <=> Has(st)  BY <2>1 DEF Has
  <2> QED  BY <1>1, <1>12, <1>14, <2>2 DEF L2Inv, L2Rec, CebRec
<1>16. /\ UNCHANGED T!l1Vars
       /\ forwardsV' = forwardsV /\ heldV' = heldV /\ fetchesV' = fetchesV
       /\ invalsV' = invalsV /\ evictAcksV' = evictAcksV
  BY <1>3, DirFrame
<1>17. sharers' = sharers /\ l2.state # "I"  BY <1>2
<1>18. T!Replace
  BY <1>4, <1>5, <1>7, <1>10, <1>12, <1>13, <1>14, <1>16, <1>17 DEF T!Replace, T!tokenVars
<1>19. T!Next  BY <1>18, T!OtherSteps
<1> QED  BY <1>3, <1>7, <1>9, <1>10, <1>13, <1>15, <1>19, DirKeeps

(* The L2 writes its victim back. *)
LEMMA L2EvictKeeps ==
  ASSUME CInv, L2Evict
  PROVE  CInv' /\ TStep
<1>1. PostInv /\ L2Inv /\ MemInv  BY DEF CInv
<1>2. PICK m : m = L2!MsgWithData("EvictDirty", Dir, Mem, Dir, ceb.ver)  OBVIOUS
<1>3. /\ ceb.present /\ ~ceb.pending
      /\ ceb' = [ceb EXCEPT !.pending = TRUE]
      /\ toMem' = Append(toMem, m)
      /\ UNCHANGED <<l2, sharers, dmaf, request, snoop, reply, latest, failed>> /\ L2Frame
  BY <1>2, Names DEF L2Evict, L2!L2Evict
<1>4. DirQuiet  BY <1>3 DEF DirQuiet
<1>5. l2 \in L2Rec /\ ceb \in CebRec  BY L2Types
<1>6. ceb' \in CebRec /\ ceb'.pending /\ ceb'.present  BY <1>3, <1>5 DEF CebRec
<1>7. m \in Message /\ m.requester = Dir /\ m.type = "EvictDirty"
  <2>1. "EvictDirty" \in MessageTypes  BY DEF MessageTypes, EvictTypes
  <2>2. Dir \in Cores \cup {Dir} /\ Dir \in Nodes /\ Mem \in Nodes  BY DEF Nodes
  <2>3. ceb.ver \in Version  BY <1>5 DEF CebRec
  <2>4. Fields(m, "EvictDirty", Dir, Mem, Dir, 0)  BY <1>2, <2>1, <2>2, <2>3, MsgDataFields
  <2> QED  BY <2>4 DEF Fields, T!Is
<1>8. ReplyInv' /\ repliesV' = repliesV /\ Rp' = Rp
  <2>1. reply' = reply /\ ReplyInv  BY <1>3 DEF CInv
  <2> QED  BY <2>1, ReplySame
<1>9. MemInv' /\ atMemoryV' = atMemoryV  BY <1>1, <1>3, <1>6, <1>7, <1>8, WriteBackSent
<1>10. request' = request /\ dmaf' = dmaf  BY <1>3
<1>11. PostInv' /\ UNCHANGED T!postVars /\ UNCHANGED T!serveVars  BY <1>1, <1>10, PostSame
<1>12. \A d \in Cores : T!Storing(d) => T!Storing(d)'  BY <1>11 DEF T!serveVars, T!Storing
<1>13. AskInv'  BY <1>4, <1>12, AsksQuiet
<1>14. L2Inv'
  <2>1. Entries' = Entries  BY <1>3 DEF Entries
  <2>2. \A st : Has(st)' <=> Has(st)  BY <2>1 DEF Has
  <2> QED  BY <1>1, <1>3, <1>6, <2>2 DEF L2Inv, CebRec
<1>15. /\ UNCHANGED T!l1Vars /\ SnoopInv'
       /\ forwardsV' = forwardsV /\ heldV' = heldV /\ fetchesV' = fetchesV
       /\ invalsV' = invalsV /\ evictAcksV' = evictAcksV
  BY <1>4, DirFrame
<1>16. UNCHANGED T!tokenVars  BY <1>9, <1>15 DEF T!tokenVars
<1>17. UNCHANGED T!dirVars  BY <1>3, <1>6 DEF T!dirVars, victimV
<1>18. UNCHANGED T!vars  BY <1>8, <1>11, <1>15, <1>16, <1>17 DEF T!vars
<1>19. TStep  BY <1>18, Stutters
<1>20. L2Frame /\ failed' = failed /\ latest' = latest  BY <1>3
<1> QED  BY <1>8, <1>9, <1>11, <1>13, <1>14, <1>15, <1>19, <1>20, L2Keeps

MemQuiet == MemFrame /\ UNCHANGED <<request, snoop, latest, failed>>

(* What memory leaves alone. *)
LEMMA MemKeeps ==
  ASSUME CInv, MemQuiet, mem' \in Version, ReplyInv', MemInv'
  PROVE  /\ UNCHANGED T!l1Vars /\ UNCHANGED T!postVars /\ UNCHANGED T!serveVars
         /\ UNCHANGED T!dirVars
         /\ forwardsV' = forwardsV /\ heldV' = heldV /\ fetchesV' = fetchesV
         /\ invalsV' = invalsV /\ evictAcksV' = evictAcksV
         /\ TStep => CInv'
<1>1. PostInv /\ SnoopInv /\ AskInv /\ L2Inv /\ L1Inv  BY DEF CInv
<1>2. UNCHANGED l1Vars /\ request' = request /\ snoop' = snoop /\ latest' = latest /\ failed' = failed
  BY DEF MemQuiet, MemFrame
<1>3. l2' = l2 /\ sharers' = sharers /\ ceb' = ceb /\ dmaf' = dmaf
  BY DEF MemQuiet, MemFrame, l2Vars
<1>4. PostInv' /\ UNCHANGED T!postVars /\ UNCHANGED T!serveVars  BY <1>1, <1>2, <1>3, PostSame
<1>5. L1Inv' /\ UNCHANGED T!l1Vars /\ snoops' = snoops  BY <1>1, <1>2, L1Same
<1>6. SnoopInv' /\ UNCHANGED snoopViews /\ (\A c \in Cores : Sn(c)' = Sn(c) /\ Bf(c)' = Bf(c))
  BY <1>1, <1>2, <1>5, SnoopQuiet
<1>7. AskInv'
  <2>1. \A c \in Cores : \A m \in Sn(c)' \cup Bf(c)' : Asks(m) => m \in Sn(c) \cup Bf(c)  BY <1>6
  <2> QED  BY <1>1, <1>4, <2>1, AskSame
<1>8. L2Inv'
  <2>1. Entries' = Entries  BY <1>3 DEF Entries
  <2>2. \A st : Has(st)' <=> Has(st)  BY <2>1 DEF Has
  <2> QED  BY <1>1, <1>3, <2>2 DEF L2Inv
<1>9. UNCHANGED T!dirVars  BY <1>3 DEF T!dirVars, victimV
<1>10. ASSUME TStep PROVE CInv'
  <2>1. T!Inv'
    <3>1. T!Inv /\ [T!Next]_(T!vars)  BY <1>10 DEF CInv, TStep
    <3> QED  BY <3>1, TSetting, T!InvStep
  <2>2. failed' = "none" /\ latest' \in Version  BY <1>2 DEF CInv
  <2> QED  BY <1>4, <1>5, <1>6, <1>7, <1>8, <2>1, <2>2 DEF CInv
<1> QED  BY <1>4, <1>5, <1>6, <1>9, <1>10 DEF snoopViews

(* Memory answers a request. *)
LEMMA MemServeKeeps ==
  ASSUME CInv, MemQuiet, mem' = mem, toMem # <<>>, toMem' = Tail(toMem), NEW m, m = Head(toMem),
         NEW c \in Cores, m.requester = c, NEW n, Fields(n, "MissReplyWritable", c, Dir, Mem, 0),
         reply' = reply (+) SetToBag({n})
  PROVE  CInv' /\ TStep
<1>1. T!Inv /\ ReplyInv /\ MemInv /\ mem \in Version  BY DEF CInv
<1>2. /\ m \in Tm /\ Tm' = Tm \ {m} /\ toMem' \in Seq(Message) /\ IsInjective(toMem')
      /\ atMemoryV' = atMemoryV \ {c}
  BY <1>1, MemTaken
<1>3. c \in atMemoryV
  <2>1. m.type \in RequestTypes  BY <1>1, <1>2, Names DEF MemInv, RequestTypes
  <2> QED  BY <1>2, <2>1 DEF atMemoryV, Of
<1>4. /\ n \in Message /\ T!Is(n, "MissReplyWritable", c, T!Dir, T!Mem, 0)
      /\ n.requester = c /\ n.dest = Dir /\ n.outstanding = 0
  BY Names DEF Fields, T!Is
<1>5. n \notin repliesV  BY <1>1, <1>3, <1>4, TSetting, T!MemoryFresh
<1>6. n \notin Rp  BY <1>4, <1>5 DEF repliesV
<1>7. ReplyStep({}, {n})  BY <1>1, <1>4, <1>6, ReplySent
<1>8. \A a \in {} \cup {n} : a.requester \in Cores  BY <1>4
<1>9. ReplyInv' /\ repliesV' = (repliesV \ {}) \cup {n} /\ FromDir(Rp)' = FromDir(Rp)
  BY <1>7, <1>8, RepliesAre
<1>10. T!Send(n)  BY <1>5, <1>9 DEF T!Send
<1>11. MemInv'
  <2>1. ceb' = ceb  BY DEF MemQuiet, MemFrame, l2Vars
  <2>2. FromDir(Tm)' \subseteq FromDir(Tm)  BY <1>2 DEF FromDir
  <2> QED  BY <1>1, <1>2, <1>9, <2>1, <2>2 DEF MemInv
<1>12. mem' \in Version  BY <1>1
<1>13. /\ UNCHANGED T!l1Vars /\ UNCHANGED T!postVars /\ UNCHANGED T!serveVars
       /\ UNCHANGED T!dirVars
       /\ forwardsV' = forwardsV /\ heldV' = heldV /\ fetchesV' = fetchesV
       /\ invalsV' = invalsV /\ evictAcksV' = evictAcksV
       /\ TStep => CInv'
  BY <1>9, <1>11, <1>12, MemKeeps
<1>14. T!MemServe(c, n)  BY <1>2, <1>3, <1>4, <1>10, <1>13 DEF T!MemServe
<1>15. T!Next  BY <1>14, T!DirSendSteps
<1>16. TStep  BY <1>15 DEF TStep
<1> QED  BY <1>13, <1>16

(* Memory takes a write-back. *)
LEMMA MemWriteKeeps ==
  ASSUME CInv, MemQuiet, mem' \in Version, toMem # <<>>, toMem' = Tail(toMem), NEW m, m = Head(toMem),
         m.requester = Dir, NEW n, Fields(n, "EvictAck", Dir, Dir, Mem, 0),
         reply' = reply (+) SetToBag({n})
  PROVE  CInv' /\ TStep
<1>1. ReplyInv /\ MemInv  BY DEF CInv
<1>2. /\ m \in Tm /\ Tm' = Tm \ {m} /\ toMem' \in Seq(Message) /\ IsInjective(toMem')
      /\ atMemoryV' = atMemoryV
  BY <1>1, MemTaken, Names
<1>3. m \in FromDir(Tm)  BY <1>2 DEF FromDir
<1>4. ceb.pending /\ FromDir(Rp) = {}  BY <1>1, <1>3 DEF MemInv
<1>5. n \in Message /\ DirAck(n) /\ n.outstanding = 0 /\ n.requester = Dir  BY DEF Fields, T!Is, DirAck
<1>6. n \notin Rp  BY <1>4, <1>5 DEF FromDir
<1>7. ReplyStep({}, {n})  BY <1>1, <1>5, <1>6, ReplySent
<1>8. /\ ReplyInv' /\ Rp' = (Rp \ {}) \cup {n}
      /\ repliesV' = {a \in Rp' : a.requester \in Cores}
      /\ FromDir(Rp)' = {a \in Rp' : a.requester = Dir}
  BY <1>7 DEF ReplyStep
<1>9. repliesV' = repliesV  BY <1>5, <1>8, Names DEF repliesV
<1>10. FromDir(Rp)' = {n}
  <2>1. \A a \in Rp : a.requester # Dir  BY <1>4 DEF FromDir
  <2> QED  BY <1>5, <1>8, <2>1
<1>11. FromDir(Tm)' = {}  BY <1>1, <1>2 DEF FromDir, MemInv
<1>12. MemInv'
  <2>1. ceb' = ceb  BY DEF MemQuiet, MemFrame, l2Vars
  <2> QED  BY <1>1, <1>2, <1>4, <1>10, <1>11, <2>1 DEF MemInv
<1>13. /\ UNCHANGED T!l1Vars /\ UNCHANGED T!postVars /\ UNCHANGED T!serveVars
       /\ UNCHANGED T!dirVars
       /\ forwardsV' = forwardsV /\ heldV' = heldV /\ fetchesV' = fetchesV
       /\ invalsV' = invalsV /\ evictAcksV' = evictAcksV
       /\ TStep => CInv'
  BY <1>8, <1>12, MemKeeps
<1>14. UNCHANGED T!tokenVars  BY <1>2, <1>13 DEF T!tokenVars
<1>15. UNCHANGED T!vars  BY <1>9, <1>13, <1>14 DEF T!vars
<1>16. TStep  BY <1>15, Stutters
<1> QED  BY <1>13, <1>16

(* Every step of memory. *)
LEMMA MemStepKeeps ==
  ASSUME CInv, MemStep
  PROVE  CInv' /\ TStep
<1>1. PICK m : m = Head(toMem)  OBVIOUS
<1>2. MemInv /\ mem \in Version  BY DEF CInv
<1>3. PICK n : n = MC!MsgWithData(MC!ReplyType(m.type), m.requester, MC!Dir, MC!Mem,
                                  IF m.type \in MC!EvictTypes THEN 0 ELSE mem)
  OBVIOUS
<1>4. /\ toMem # <<>> /\ toMem' = Tail(toMem)
      /\ mem' = IF m.type = "EvictDirty" THEN m.ver ELSE mem
      /\ reply' = MC!ReplyBagWith({n})
      /\ MemQuiet
  BY <1>1, <1>3 DEF MemStep, MC!MemServe, MemQuiet
<1>5. reply' = reply (+) SetToBag({n})  BY <1>4, ReplyOps
<1>6. m \in Tm /\ m \in Message /\ m.ver \in Version
  <2>1. m \in Tm /\ m \in Message  BY <1>1, <1>2, <1>4, MemTaken
  <2> QED  BY <2>1, MessageIs
<1>7. \/ m.requester \in Cores /\ m.type \in {"ReadReq", "WriteReq"}
      \/ m.requester = Dir /\ m.type = "EvictDirty"
  BY <1>2, <1>6 DEF MemInv
<1>8. CASE m.requester \in Cores /\ m.type \in {"ReadReq", "WriteReq"}
  <2>1. MC!ReplyType(m.type) = "MissReplyWritable" /\ m.type \notin MC!EvictTypes
    BY <1>8 DEF MC!ReplyType, MC!EvictTypes
  <2>2. n = MC!MsgWithData("MissReplyWritable", m.requester, Dir, Mem, mem)  BY <1>3, <2>1, Names
  <2>3. "MissReplyWritable" \in MessageTypes  BY DEF MessageTypes, MissReplies
  <2>4. Dir \in Nodes /\ Mem \in Nodes  BY DEF Nodes
  <2>5. Fields(n, "MissReplyWritable", m.requester, Dir, Mem, 0)
    BY <1>2, <1>8, <2>2, <2>3, <2>4, MsgDataFields
  <2>6. mem' = mem  BY <1>4, <1>8
  <2> QED  BY <1>1, <1>4, <1>5, <1>8, <2>5, <2>6, MemServeKeeps
<1>9. CASE m.requester = Dir /\ m.type = "EvictDirty"
  <2>1. MC!ReplyType(m.type) = "EvictAck" /\ m.type \in MC!EvictTypes
    BY <1>9 DEF MC!ReplyType, MC!EvictTypes
  <2>2. n = MC!MsgWithData("EvictAck", Dir, Dir, Mem, 0)  BY <1>3, <1>9, <2>1, Names
  <2>3. "EvictAck" \in MessageTypes /\ 0 \in Version  BY Names DEF MessageTypes, SnoopTypes
  <2>4. Dir \in Cores \cup {Dir} /\ Dir \in Nodes /\ Mem \in Nodes  BY DEF Nodes
  <2>5. Fields(n, "EvictAck", Dir, Dir, Mem, 0)  BY <2>2, <2>3, <2>4, MsgDataFields
  <2>6. mem' \in Version  BY <1>4, <1>6, <1>9
  <2> QED  BY <1>1, <1>4, <1>5, <1>9, <2>5, <2>6, MemWriteKeeps
<1> QED  BY <1>7, <1>8, <1>9

-----------------------------------------------------------------------------
(* The invariant holds. *)

(* The invariant at the beginning. *)
LEMMA InitIs ==
  ASSUME Init
  PROVE  CInv /\ T!Init /\ T!AskedShared
<1>1. /\ request = [c \in Cores |-> <<>>] /\ snoop = [c \in Cores |-> <<>>] /\ toMem = <<>>
      /\ reply = EmptyBag /\ latest = 0 /\ failed = "none"
  BY DEF Init, NetInit
<1>2. /\ array = [c \in Cores |-> "I"] /\ data = [c \in Cores |-> 0]
      /\ evict = [c \in Cores |-> L1!NoEvict] /\ snoops = [c \in Cores |-> L1!NoSnoops]
      /\ maf = [c \in Cores |-> L1!NoMaf]
  BY DEF Init, L1!L1Init
<1>3. l2 = L2!NoBlock /\ sharers = {} /\ ceb = L2!NoCeb /\ dmaf = <<>> /\ mem = 0
  BY DEF Init, L2!L2Init, MC!MemInit
<1>4. Entries = {} /\ (\A c \in Cores : Req(c) = {}) /\ (\A c \in Cores : Sn(c) = {}) /\ Tm = {}
  BY <1>1, <1>3, EmptySet DEF Entries, Req, Sn, Tm
<1>5. \A c \in Cores : Bf(c) = {}
  BY <1>2, EmptySet DEF Bf, Buffered, L1!NoSnoops
<1>6. Pst = {} /\ Srv = {}
  BY <1>4 DEF Pst, Queued, PutOff, Stalled, Srv, Serving
<1>7. Rp = {} /\ reply = SetToBag(Rp)
  BY <1>1 DEF Rp, EmptyBag, BagToSet, SetToBag
<1>8. /\ readsV = {} /\ writesV = {} /\ upgradesV = {} /\ cleansV = {} /\ dirtiesV = {}
      /\ readingV = {} /\ writingV = {} /\ upgradingV = {} /\ atMemoryV = {} /\ repliesV = {}
  BY <1>4, <1>6, <1>7 DEF readsV, writesV, upgradesV, cleansV, dirtiesV, readingV, writingV,
     upgradingV, atMemoryV, repliesV, Of
<1>9. forwardsV = {} /\ heldV = {} /\ fetchesV = {} /\ invalsV = {} /\ evictAcksV = {}
  BY <1>4, <1>5 DEF forwardsV, heldV, fetchesV, invalsV, evictAcksV, Of, Snooped
<1>10. \A c \in Cores : array[c] = "I" /\ evict[c] = L1!NoEvict /\ maf[c] = L1!NoMaf
                        /\ data[c] = 0 /\ snoops[c] = L1!NoSnoops
  BY <1>2
<1>11. \A c \in Cores : ~Wt(c)  BY <1>10, NoMafIs DEF Wt
<1>12. copyV = [c \in Cores |-> "I"] /\ leavingV = {}
  BY <1>10 DEF copyV, leavingV, L1!NoEvict
<1>13. missV = [c \in Cores |-> "None"] /\ balanceV = [c \in Cores |-> 0] /\ filledV = {}
  BY <1>11 DEF missV, balanceV, filledV
<1>14. l2.state = "I" /\ victimV = "none"  BY <1>3, NoBlockIs, NoCebIs DEF victimV
<1>15. T!Init  BY <1>3, <1>8, <1>9, <1>12, <1>13, <1>14 DEF T!Init
<1>16. T!Inv  BY <1>15, TSetting, T!InvInit
<1>17. PostInv
  <2>1. request \in [Cores -> Seq(Message)] /\ dmaf \in Seq(EntryType)  BY <1>1, <1>3
  <2>2. IsInjective(dmaf) /\ \A c \in Cores : IsInjective(request[c])  BY <1>1, <1>3, EmptySet
  <2> QED  BY <1>4, <2>1, <2>2 DEF PostInv
<1>18. SnoopInv
  <2>1. L1!NoSnoops \in SnoopBuffer  BY DEF L1!NoSnoops, SnoopBuffer
  <2>2. snoop \in [Cores -> Seq(Message)] /\ snoops \in [Cores -> SnoopBuffer]  BY <1>1, <1>2, <2>1
  <2>3. ASSUME NEW c \in Cores PROVE SnoopsOK(c, snoop[c], snoops[c])
    <3>1. snoop[c] = <<>>  BY <1>1
    <3>2. snoops[c].active = <<>> /\ snoops[c].waiting = <<>> /\ snoops[c].waking = <<>>
      BY <1>10 DEF L1!NoSnoops
    <3>3. ToSet(snoop[c]) = {} /\ Buffered(snoops[c]) = {}
      BY <1>4, <1>5 DEF Sn, Bf
    <3>4. SnoopsOnce(c, snoop[c], snoops[c])  BY <3>1, <3>2, <3>3, EmptySet DEF SnoopsOnce
    <3>5. snoop[c] \in Seq(Message) /\ snoops[c] \in SnoopBuffer  BY <2>2
    <3>6. Len(snoops[c].active) <= 1 /\ Len(snoop[c]) = 0  BY <3>1, <3>2
    <3> QED  BY <3>2, <3>3, <3>4, <3>5, <3>6 DEF SnoopsOK
  <2> QED  BY <2>2, <2>3 DEF SnoopInv
<1>19. AskInv  BY <1>4, <1>5 DEF AskInv
<1>20. ReplyInv  BY <1>7 DEF ReplyInv
<1>21. MemInv
  <2>1. toMem \in Seq(Message) /\ IsInjective(toMem)  BY <1>1, EmptySet
  <2> QED  BY <1>4, <1>7, <2>1 DEF MemInv, FromDir
<1>22. L2Inv
  <2>1. l2 \in L2Rec /\ ceb \in CebRec /\ ~ceb.pending  BY <1>3, NoBlockIs, NoCebIs
  <2> QED  BY <1>4, <2>1 DEF L2Inv, L2Rec, CebRec, Has
<1>23. L1Inv
  <2>1. 0 \in Version  BY Names
  <2>2. L1!NoEvict \in EvictRec /\ ~L1!NoEvict.pending /\ ~L1!NoEvict.evictable
    BY DEF L1!NoEvict, EvictRec, L1!States
  <2>3. L1!NoMaf \in MafRec /\ L1!NoMaf.state = "None" /\ ~L1!NoMaf.woken
    BY Names DEF L1!NoMaf, MafRec
  <2>4. array \in [Cores -> L1!States] /\ data \in [Cores -> Version]  BY <1>2, <2>1 DEF L1!States
  <2>5. evict \in [Cores -> EvictRec] /\ maf \in [Cores -> MafRec]  BY <1>2, <2>2, <2>3
  <2>6. \A c \in Cores : L1At(c)
    BY <1>5, <1>10, <1>11, <2>2, <2>3 DEF L1At, EvictSnoopIn
  <2> QED  BY <2>4, <2>5, <2>6 DEF L1Inv, EvictRec, MafRec
<1>24. latest \in Version /\ mem \in Version  BY <1>1, <1>3, Names
<1>25. T!AskedShared  BY <1>9 DEF T!AskedShared, T!Asked
<1> QED  BY <1>1, <1>15, <1>16, <1>17, <1>18, <1>19, <1>20, <1>21, <1>22, <1>23, <1>24, <1>25 DEF CInv

(* Nothing changes. *)
LEMMA StutterKeeps ==
  ASSUME CInv, UNCHANGED vars
  PROVE  CInv' /\ TStep
<1>1. L2Frame /\ DirQuiet /\ toMem' = toMem /\ reply' = reply /\ UNCHANGED l2Vars
  BY DEF vars, netVars, L2Frame, DirQuiet
<1>2. l2' = l2 /\ sharers' = sharers /\ ceb' = ceb /\ dmaf' = dmaf  BY <1>1 DEF l2Vars
<1>3. l2' \in L2Rec  BY <1>2, L2Types
<1>4. /\ PostInv' /\ UNCHANGED T!postVars /\ UNCHANGED T!serveVars /\ AskInv' /\ L2Inv'
      /\ victimV' = victimV
  BY <1>1, <1>2, <1>3, MafStays
<1>5. ReplyInv' /\ repliesV' = repliesV /\ FromDir(Rp)' = FromDir(Rp)  BY <1>1, ReplyStays
<1>6. MemInv' /\ atMemoryV' = atMemoryV  BY <1>1, <1>2, <1>5, MemStays
<1>7. /\ UNCHANGED T!l1Vars /\ SnoopInv'
      /\ forwardsV' = forwardsV /\ heldV' = heldV /\ fetchesV' = fetchesV
      /\ invalsV' = invalsV /\ evictAcksV' = evictAcksV
  BY <1>1, DirFrame
<1>8. UNCHANGED T!tokenVars  BY <1>6, <1>7 DEF T!tokenVars
<1>9. UNCHANGED T!dirVars  BY <1>2, <1>4 DEF T!dirVars
<1>10. UNCHANGED T!vars  BY <1>4, <1>5, <1>7, <1>8, <1>9 DEF T!vars
<1>11. TStep  BY <1>10, Stutters
<1>12. failed' = failed /\ latest' = latest  BY <1>1 DEF DirQuiet
<1> QED  BY <1>1, <1>4, <1>5, <1>6, <1>7, <1>11, <1>12, L2Keeps

(* Every step of the protocol is a step of the token protocol. *)
LEMMA StepKeeps ==
  ASSUME CInv, ~EarlyVictim, [Next]_vars
  PROVE  CInv' /\ TStep
<1>1. CASE UNCHANGED vars  BY <1>1, StutterKeeps
<1>2. ASSUME NEW c \in Cores,
             \/ CoreRequest(c) \/ L1Replacement(c) \/ L1WakeMaf(c) \/ L1Back(c) \/ L1WakeSnoop(c)
             \/ L1SnoopDone(c) \/ L1Reply(c) \/ L1Idle(c) \/ L1Evict(c) \/ L2Request(c)
      PROVE  CInv' /\ TStep
  BY <1>2, FrontKeeps, ReplacementKeeps, BackRequestKeeps, WakeSnoopKeeps, SnoopDoneKeeps,
     BackReplyKeeps, IdleKeeps, EvictKeeps, RequestKeeps
<1>3. CASE L2WakeMaf \/ L2Replacement \/ L2Evict \/ MemStep
  BY <1>3, WakeMafKeeps, L2ReplacementKeeps, L2EvictKeeps, MemStepKeeps
<1>4. CASE \E n \in Cores \cup {Mem} : L2Reply(n)  BY <1>4, ReplyKeepsAll
<1> QED  BY <1>1, <1>2, <1>3, <1>4 DEF Next

(* The inductive invariant, and that a core asked for its copy stays a sharer. *)
IndInv == CInv /\ T!AskedShared

(* The inductive step. *)
LEMMA IndInvStep ==
  ASSUME IndInv, ~EarlyVictim, [Next]_vars
  PROVE  IndInv' /\ TStep
<1>1. CInv' /\ TStep  BY StepKeeps DEF IndInv
<1>2. T!AskedShared'
  <2>1. T!Inv /\ T!AskedShared /\ [T!Next]_(T!vars)  BY <1>1 DEF IndInv, CInv, TStep
  <2> QED  BY <2>1, TSetting, T!AskedSharedStep
<1> QED  BY <1>1, <1>2 DEF IndInv

(* The L1s, the directory and memory together, for any number of cores *)
(* and with or without AlwaysNAck: the inductive invariant holds in    *)
(* every state the protocol can reach.                                 *)
THEOREM ProtocolInvariant ==
  ASSUME ~EarlyVictim
  PROVE  Spec => []IndInv
<1>1. Init => IndInv  BY InitIs DEF IndInv
<1>2. IndInv /\ [Next]_vars => IndInv'  BY IndInvStep
<1> QED  BY <1>1, <1>2, PTL DEF Spec

(* The L1s, the L2 with its directory and memory implement the exchange *)
(* of tokens: every handler of the two policies is one of its steps, or *)
(* moves no token.                                                      *)
THEOREM ProtocolTokens ==
  ASSUME ~EarlyVictim
  PROVE  Spec => T!Spec
<1>1. Init => T!Init  BY InitIs
<1>2. IndInv /\ [Next]_vars => [T!Next]_(T!vars)  BY IndInvStep DEF TStep
<1> QED  BY <1>1, <1>2, ProtocolInvariant, PTL DEF Spec, T!Spec

(* Every channel, MAF, evict buffer and snoop buffer stays in its type. *)
THEOREM ProtocolTyped ==
  ASSUME ~EarlyVictim
  PROVE  Spec => []TypeOK
<1>1. IndInv => TypeOK
  <2> SUFFICES ASSUME CInv PROVE TypeOK  BY DEF IndInv
  <2>1. PostInv /\ SnoopInv /\ ReplyInv /\ MemInv /\ L2Inv /\ L1Inv /\ failed = "none"
        /\ latest \in Version /\ mem \in Version /\ sharers \subseteq Cores
    BY DEF CInv, T!Inv, T!TypeOK
  <2>2. L1!Version = Version /\ L2!Version = Version /\ MC!Version = Version
    BY DEF L1!Version, L2!Version, MC!Version, Version
  <2>3. L1!Message = Message /\ L2!Message = Message
    <3>1. L1!MessageTypes = MessageTypes /\ L2!MessageTypes = MessageTypes
      BY DEF L1!MessageTypes, L2!MessageTypes, MessageTypes, L1!RequestTypes, L2!RequestTypes,
         RequestTypes, L1!EvictTypes, L2!EvictTypes, EvictTypes, L1!SnoopTypes, L2!SnoopTypes,
         SnoopTypes, L1!FwdReplies, L2!FwdReplies, FwdReplies, L1!MissReplies, L2!MissReplies,
         MissReplies, L1!Notifies, L2!Notifies, Notifies, L1!AckTypes, L2!AckTypes, AckTypes,
         L1!NackTypes, L2!NackTypes, NackTypes
    <3>2. L1!Mem = Mem  BY DEF L1!Mem, Mem
    <3> QED  BY <2>2, <3>1, <3>2, Names DEF L1!Message, L2!Message, Message
  <2>4. NetTypeOK
    <3>1. IsABag(reply) /\ BagToSet(reply) \subseteq Message
      BY <2>1, BagOfSet DEF ReplyInv, Rp
    <3>2. request \in [Cores -> Seq(Message)] /\ snoop \in [Cores -> Seq(Message)] /\ toMem \in Seq(Message)
      BY <2>1 DEF PostInv, SnoopInv, MemInv
    <3> QED  BY <2>1, <3>1, <3>2 DEF NetTypeOK
  <2>5. L1!L1TypeOK
    <3>1. ASSUME NEW c \in Cores
          PROVE  /\ snoops[c].active \in Seq(Message) /\ Len(snoops[c].active) <= 1
                 /\ snoops[c].waiting \in Seq(Message) /\ snoops[c].waking \in Seq(Message)
      <4>1. SnoopsOK(c, snoop[c], snoops[c])  BY <2>1 DEF SnoopInv
      <4>2. snoops[c] \in SnoopBuffer /\ Len(snoops[c].active) <= 1  BY <4>1 DEF SnoopsOK
      <4> QED  BY <4>2 DEF SnoopBuffer
    <3>2. \A c \in Cores : 
                 /\ snoops[c].active \in Seq(L1!Message) /\ Len(snoops[c].active) <= 1
                 /\ snoops[c].waiting \in Seq(L1!Message) /\ snoops[c].waking \in Seq(L1!Message)
      BY <2>3, <3>1
    <3>3. /\ array \in [Cores -> L1!States]
          /\ data \in [Cores -> L1!Version]
          /\ evict \in [Cores -> [state : L1!States, pending : BOOLEAN,
                          evictable : BOOLEAN, snoopRequired : BOOLEAN]]
          /\ maf \in [Cores -> [state : {L1!None, "WaitResponse", "WaitEvict", "WaitSnoop"},
                        op : {L1!None, "Load", "Store"}, outstanding : Int,
                        dataReceived : BOOLEAN, woken : BOOLEAN]]
      BY <2>1, <2>2, Names DEF L1Inv
    <3> QED  BY <3>2, <3>3 DEF L1!L1TypeOK
  <2>6. L2!L2TypeOK
    <3>1. dmaf \in Seq([msg : L2!Message, st : L2!MafStates])
      BY <2>1, <2>3 DEF PostInv, EntryType
    <3> QED  BY <2>1, <2>2, <3>1 DEF L2!L2TypeOK, L2Inv
  <2>7. MC!MemTypeOK  BY <2>1, <2>2 DEF MC!MemTypeOK
  <2> QED  BY <2>4, <2>5, <2>6, <2>7 DEF TypeOK
<1> QED  BY <1>1, ProtocolInvariant, PTL

(* As long as replacement takes no block whose last transaction is still   *)
(* under way, no DBG_Assert of InclusiveMESI or NonInclusiveMESI fails,    *)
(* however many cores there are, with or without AlwaysNAck and whatever   *)
(* requests, snoops and acks cross.  The code does not enforce the         *)
(* hypothesis, and the theorem says nothing of replacements against it:    *)
(* the assertion of the EvictAck of a write-back is known to fail then.    *)
THEOREM NoAssertUnlessEarlyVictim ==
  ASSUME ~EarlyVictim
  PROVE  Spec => []NoAssert
<1>1. IndInv => NoAssert  BY DEF IndInv, CInv, NoAssert
<1> QED  BY <1>1, ProtocolInvariant, PTL

(* A copy the core may use is one of the token protocol. *)
LEMMA ReadableIs ==
  ASSUME CInv, NEW c \in Cores, Readable(c)
  PROVE  copyV[c] = array[c] /\ T!Copy(c) /\ missV[c] = "None"
<1>1. L1At(c) /\ array[c] # "I" /\ ~Wt(c)  BY DEF CInv, L1Inv, Readable, Wt
<1>2. ~evict[c].pending  BY <1>1 DEF L1At, L1!NoEvict
<1>3. copyV[c] = array[c] /\ missV[c] = "None" /\ c \notin leavingV
  BY <1>1, <1>2 DEF copyV, missV, leavingV
<1> QED  BY <1>1, <1>3 DEF T!Copy

(* A store that has been performed has taken every other copy away. *)
LEMMA StoreOver ==
  ASSUME CInv, NEW r \in Cores, T!Storing(r), missV[r] = "None"
  PROVE  \A d \in Cores : T!Copy(d) => d = r
<1>1. T!ServedMiss /\ T!FinalAlone /\ T!CopyAsked  BY DEF CInv, T!Inv
<1>2. T!AckSent(r)  BY <1>1 DEF T!ServedMiss
<1>3. PICK m \in repliesV : m.requester = r /\ T!IsAck(m)  BY <1>2 DEF T!AckSent
<1>4. fetchesV = {} /\ invalsV = {}  BY <1>1, <1>3 DEF T!FinalAlone, T!Final
<1> QED  BY <1>1, <1>4 DEF T!CopyAsked, T!Asked

(* While one L1 can write the block no other L1 can read or write it. *)
THEOREM ProtocolSingleWriter ==
  ASSUME ~EarlyVictim
  PROVE  Spec => []SingleWriter
<1>1. IndInv => SingleWriter
  <2> SUFFICES ASSUME CInv, NEW c \in Cores, NEW d \in Cores, c # d, Writable(c), Readable(d)
               PROVE  FALSE
    BY DEF IndInv, SingleWriter
  <2>1. T!OwnerAlone /\ T!WriterAlone  BY DEF CInv, T!Inv
  <2>2. Readable(c) /\ array[c] \in {"E", "M"}  BY DEF Readable, Writable
  <2>3. /\ copyV[c] \in {"E", "M"} /\ T!Copy(c) /\ missV[c] = "None"
        /\ T!Copy(d) /\ missV[d] = "None"
    BY <2>2, ReadableIs
  <2>4. CASE T!NoneStoring
    <3>1. T!Owner(c)  BY <2>3 DEF T!Owner, T!Copy
    <3>2. T!Sole(c)  BY <2>1, <2>4, <3>1 DEF T!OwnerAlone
    <3> QED  BY <2>3, <3>2 DEF T!Sole
  <2>5. CASE ~T!NoneStoring
    <3>1. PICK r \in Cores : T!Storing(r)  BY <2>5 DEF T!NoneStoring
    <3>2. r # c /\ r # d  BY <2>3, <3>1, StoreOver
    <3> QED  BY <2>1, <2>3, <3>1, <3>2 DEF T!WriterAlone
  <2> QED  BY <2>4, <2>5
<1> QED  BY <1>1, ProtocolInvariant, PTL

(* theDirectory never loses a copy a core can read. *)
THEOREM ProtocolDirectoryCovers ==
  ASSUME ~EarlyVictim
  PROVE  Spec => []DirectoryCovers
<1>1. IndInv => DirectoryCovers
  <2> SUFFICES ASSUME IndInv, NEW c \in Cores, Readable(c)
               PROVE  \/ c \in sharers
                      \/ \E i \in DOMAIN dmaf : dmaf[i].st = "WaitAck" /\ dmaf[i].msg.requester = c
    BY DEF DirectoryCovers
  <2>1. CInv /\ T!AskedShared /\ PostInv /\ T!CopyCovered /\ T!CopyAsked  BY DEF IndInv, CInv, T!Inv
  <2>2. T!Copy(c)  BY <2>1, ReadableIs
  <2>3. ASSUME T!Served(c)
        PROVE  \E i \in DOMAIN dmaf : dmaf[i].st = "WaitAck" /\ dmaf[i].msg.requester = c
    <3>1. PICK i \in L2!Matching(c) : TRUE  BY <2>1, <2>3, MatchIs
    <3>2. i \in L2!Waiting(0, "WaitAck") /\ dmaf[i].msg.requester = c  BY <2>1, <3>1, MatchIs
    <3>3. i \in DOMAIN dmaf /\ dmaf[i].st = "WaitAck"  BY <2>1, <3>2, MatchIs
    <3> QED  BY <3>2, <3>3
  <2>4. CASE T!NoneStoring  BY <2>1, <2>2, <2>3, <2>4 DEF T!CopyCovered, T!Served
  <2>5. CASE ~T!NoneStoring
    <3>1. PICK r \in Cores : T!Storing(r)  BY <2>5 DEF T!NoneStoring
    <3>2. CASE r = c  BY <2>3, <3>1, <3>2 DEF T!Served
    <3>3. CASE r # c  BY <2>1, <2>2, <3>1, <3>3 DEF T!CopyAsked, T!AskedShared
    <3> QED  BY <3>2, <3>3
  <2> QED  BY <2>4, <2>5
<1> QED  BY <1>1, ProtocolInvariant, PTL

(* A request the L2 has stalled has an active request or a write-back *)
(* that will wake it.                                                 *)
THEOREM ProtocolNoOrphanStall ==
  ASSUME ~EarlyVictim
  PROVE  Spec => []NoOrphanStall
<1>1. IndInv => NoOrphanStall
  <2> SUFFICES ASSUME IndInv PROVE NoOrphanStall  OBVIOUS
  <2>1. L2Inv  BY DEF IndInv, CInv
  <2>2. \A st : InMaf(st) <=> Has(st)  BY DEF InMaf, Has, Entries, ToSet
  <2> QED  BY <2>1, <2>2 DEF L2Inv, NoOrphanStall
<1> QED  BY <1>1, ProtocolInvariant, PTL

(* A WriteFwd or an Invalidate finds its block in the L1, so that the *)
(* writer gets every ack it counts.                                   *)
THEOREM ProtocolWriteSnoop ==
  ASSUME ~EarlyVictim
  PROVE  Spec => []WriteSnoopFindsBlock
<1>1. IndInv => WriteSnoopFindsBlock
  <2> SUFFICES ASSUME CInv, NEW c \in Cores, snoop[c] # <<>>,
                      Head(snoop[c]).type \in {"WriteFwd", "Invalidate"}
               PROVE  array[c] # "I" \/ evict[c].state # "I"
    BY DEF IndInv, WriteSnoopFindsBlock
  <2>1. SnoopInv /\ T!SnoopFindsCopy  BY DEF CInv, T!Inv
  <2>2. Head(snoop[c]) \in Sn(c)
    <3>1. SnoopsOK(c, snoop[c], snoops[c])  BY <2>1 DEF SnoopInv
    <3> QED  BY <3>1, SnoopTaken DEF Sn
  <2>3. c \in fetchesV \/ c \in invalsV  BY <2>2 DEF fetchesV, invalsV, Snooped
  <2>4. copyV[c] # "I"  BY <2>1, <2>3 DEF T!SnoopFindsCopy, T!Asked
  <2> QED  BY <2>4 DEF copyV
<1> QED  BY <1>1, ProtocolInvariant, PTL

(* A snoop or a request that waits at an L1 for the end of another snoop    *)
(* is woken by finalizeSnoop, also when BackSideOut_Reply is full and       *)
(* requests, new or woken, go ahead of the snoops in theWakeList.           *)
THEOREM ProtocolNoOrphan ==
  ASSUME ~EarlyVictim
  PROVE  Spec => []NoOrphan
<1>1. Init => IndInv /\ WakeInv /\ StayInv  BY InitIs, WakeInit, StayInit DEF IndInv
<1>2. IndInv /\ WakeInv /\ StayInv /\ [Next]_vars => (IndInv /\ WakeInv /\ StayInv)'
  <2> SUFFICES ASSUME IndInv, WakeInv, StayInv, [Next]_vars
               PROVE  IndInv' /\ WakeInv' /\ StayInv'
    OBVIOUS
  <2>1. IndInv'  BY IndInvStep
  <2>2. CInv /\ failed' = "none"  BY <2>1 DEF IndInv, CInv
  <2>3. WakeInv'  BY <2>2, WakeStep
  <2>4. StayInv'  BY <2>2, StayStep
  <2> QED  BY <2>1, <2>3, <2>4
<1>3. IndInv /\ WakeInv /\ StayInv => NoOrphan  BY WakeIs, StayIs DEF NoOrphan
<1> QED  BY <1>1, <1>2, <1>3, PTL DEF Spec

---------------------------------------------------------------------------
(* The copies the cores can use, as BlockRights sees them. *)
RightOf(s) == CASE s = "I" -> "none" [] s = "S" -> "read" [] OTHER -> "write"
Ops == {"None", "Load", "Store"}
UseInv ==
  \A c \in Cores :
    /\ UsableState(c) = T!Use(c) /\ T!Use(c) \in {"I", "S", "E", "M"} /\ maf[c].op \in Ops
    /\ T!Use(c) \in {"E", "M"} => \A d \in Cores : d # c => T!Use(d) = "I"

(* A copy that can be written is the only one that can be used. *)
LEMMA UseIs == CInv => UseInv
<1> SUFFICES ASSUME CInv, NEW c \in Cores
             PROVE  /\ UsableState(c) = T!Use(c) /\ T!Use(c) \in {"I", "S", "E", "M"} /\ maf[c].op \in Ops
                    /\ T!Use(c) \in {"E", "M"} => \A d \in Cores : d # c => T!Use(d) = "I"
  BY DEF UseInv
<1>1. L1Inv /\ T!OwnerAlone /\ T!WriterAlone  BY DEF CInv, T!Inv
<1>2. \A d \in Cores : /\ UsableState(d) = T!Use(d) /\ T!Use(d) \in {"I", "S", "E", "M"}
                       /\ T!Use(d) # "I" => T!Copy(d) /\ copyV[d] = T!Use(d) /\ missV[d] = "None"
  <2> SUFFICES ASSUME NEW d \in Cores
               PROVE  /\ UsableState(d) = T!Use(d) /\ T!Use(d) \in {"I", "S", "E", "M"}
                      /\ T!Use(d) # "I" => T!Copy(d) /\ copyV[d] = T!Use(d) /\ missV[d] = "None"
    OBVIOUS
  <2>1. /\ L1!BlockState(d) = copyV[d] /\ copyV[d] \in {"I", "S", "E", "M"}
        /\ d \in leavingV <=> evict[d].pending
        /\ L1!WaitingMaf(d) <=> missV[d] # "None"
    BY <1>1, BlockIs DEF L1!States
  <2> QED  BY <2>1 DEF UsableState, T!Use, T!Copy
<1>3. maf[c].op \in Ops  BY <1>1 DEF L1Inv, Ops
<1>4. ASSUME T!Use(c) \in {"E", "M"}, NEW d \in Cores, d # c, T!Use(d) # "I"  PROVE FALSE
  <2>1. /\ copyV[c] \in {"E", "M"} /\ T!Copy(c) /\ missV[c] = "None"
        /\ T!Copy(d) /\ missV[d] = "None"
    BY <1>2, <1>4
  <2>2. CASE T!NoneStoring
    <3>1. T!Owner(c)  BY <2>1 DEF T!Owner, T!Copy
    <3>2. T!Sole(c)  BY <1>1, <2>2, <3>1 DEF T!OwnerAlone
    <3> QED  BY <1>4, <2>1, <3>2 DEF T!Sole
  <2>3. CASE ~T!NoneStoring
    <3>1. PICK r \in Cores : T!Storing(r)  BY <2>3 DEF T!NoneStoring
    <3>2. r # c /\ r # d  BY <1>4, <2>1, <3>1, StoreOver
    <3> QED  BY <1>1, <1>4, <2>1, <3>1, <3>2 DEF T!WriterAlone
  <2> QED  BY <2>2, <2>3
<1> QED  BY <1>2, <1>3, <1>4

(* ... which is a step of BlockRights. *)
LEMMA RightsMoved ==
  ASSUME NEW c \in Cores, UseInv, UseInv', RightsMove(c),
         \A d \in Cores : d # c => maf'[d].op = maf[d].op /\ T!Use(d)' = T!Use(d)
  PROVE  [Rights!Next]_(Rights!vars)
<1>1. PICK w : w = [x \in Cores |-> maf[x].op]  OBVIOUS
<1>2. PICK v : v = [x \in Cores |-> maf'[x].op]  OBVIOUS
<1>3. PICK r : r = [x \in Cores |-> RightOf(T!Use(x))]  OBVIOUS
<1>4. PICK q : q = [x \in Cores |-> RightOf(T!Use(x)')]  OBVIOUS
<1>5. [x \in Cores |-> CASE UsableState(x) = "I" -> "none"
                         [] UsableState(x) = "S" -> "read"
                         [] OTHER -> "write"] = r
  BY <1>3 DEF UseInv, RightOf
<1>6. [x \in Cores |-> CASE UsableState(x)' = "I" -> "none"
                         [] UsableState(x)' = "S" -> "read"
                         [] OTHER -> "write"] = q
  BY <1>4 DEF UseInv, RightOf
<1>7. v = [w EXCEPT ![c] = maf'[c].op] /\ q = [r EXCEPT ![c] = RightOf(T!Use(c)')]
  BY <1>1, <1>2, <1>3, <1>4
<1>8. \A p : Rights!Hold(c, p) <=>
        /\ \A d \in Cores \ {c} : (p = "write" => r[d] = "none") /\ (p = "read" => r[d] # "write")
        /\ q = [r EXCEPT ![c] = p]
  <2>1. \A p : Rights!Compatible(c, p) <=>
               \A d \in Cores \ {c} : (p = "write" => r[d] = "none") /\ (p = "read" => r[d] # "write")
    BY <1>5, Zenon DEF Rights!Compatible
  <2>2. \A p : Rights!Hold(c, p) <=> Rights!Compatible(c, p) /\ q = [r EXCEPT ![c] = p]
    BY <1>5, <1>6, Zenon DEF Rights!Hold
  <2> QED  BY <2>1, <2>2, Zenon
<1>9. Rights!Hold(c, RightOf(T!Use(c)'))
  <2>1. ASSUME NEW d \in Cores, d # c
        PROVE  /\ RightOf(T!Use(c)') = "write" => r[d] = "none"
               /\ RightOf(T!Use(c)') = "read" => r[d] # "write"
    <3>1. /\ T!Use(c)' \in {"I", "S", "E", "M"} /\ T!Use(d)' \in {"I", "S", "E", "M"}
          /\ T!Use(c)' \in {"E", "M"} => T!Use(d)' = "I"
          /\ T!Use(d)' \in {"E", "M"} => T!Use(c)' = "I"
      BY <2>1 DEF UseInv
    <3>2. r[d] = RightOf(T!Use(d)')  BY <1>3, <2>1
    <3> QED  BY <3>1, <3>2 DEF RightOf
  <2> QED  BY <1>7, <1>8, <2>1
<1>10. /\ T!Use(c) \in {"I", "S", "E", "M"} /\ T!Use(c)' \in {"I", "S", "E", "M"}
       /\ maf[c].op \in Ops /\ maf'[c].op \in Ops
       /\ w[c] = maf[c].op /\ r[c] = RightOf(T!Use(c)) /\ r \in [Cores -> Rights!Rights]
       /\ w \in [Cores -> Ops]
  BY <1>1, <1>3 DEF UseInv, RightOf, Rights!Rights
<1>11. CASE maf'[c].op = maf[c].op /\ T!NoMore(T!Use(c)', T!Use(c))
  <2>1. v = w  BY <1>7, <1>10, <1>11
  <2>2. CASE RightOf(T!Use(c)') = RightOf(T!Use(c))
    <3>1. q = r  BY <1>7, <1>10, <2>2
    <3> QED  BY <1>1, <1>2, <1>5, <1>6, <2>1, <3>1 DEF Rights!vars
  <2>3. CASE RightOf(T!Use(c)') # RightOf(T!Use(c))
    <3>1. RightOf(T!Use(c)') \in IF r[c] = "write" THEN {"none", "read"} ELSE {"none"}
      BY <1>10, <1>11, <2>3 DEF RightOf, T!NoMore
    <3>2. Rights!Lose(c)  BY <1>1, <1>2, <1>5, <1>9, <2>1, <3>1 DEF Rights!Lose
    <3> QED  BY <3>2 DEF Rights!Next
  <2> QED  BY <2>2, <2>3
<1>12. CASE maf[c].op = "None" /\ maf'[c].op # "None" /\ T!Use(c)' \in {T!Use(c), "I"}
  <2>1. RightOf(T!Use(c)') \in {r[c], "none"}  BY <1>10, <1>12 DEF RightOf
  <2> PICK op : op = maf'[c].op  OBVIOUS
  <2>2. Rights!Ask(c, op)
    BY <1>1, <1>2, <1>5, <1>7, <1>9, <1>10, <1>12, <2>1 DEF Rights!Ask
  <2>3. op \in {"Load", "Store"}  BY <1>10, <1>12 DEF Ops
  <2> QED  BY <2>2, <2>3 DEF Rights!Next
<1>13. CASE /\ maf[c].op \in {"Load", "Store"} /\ maf'[c].op = "None" /\ T!Use(c)' # "I"
            /\ maf[c].op = "Store" => T!Use(c)' \in {"E", "M"}
  <2>1. RightOf(T!Use(c)') \in Rights!Enough(w[c])  BY <1>10, <1>13 DEF RightOf, Rights!Enough
  <2>2. Rights!Serve(c)
    BY <1>1, <1>2, <1>7, <1>9, <1>10, <1>13, <2>1 DEF Rights!Serve
  <2> QED  BY <2>2 DEF Rights!Next
<1> QED  BY <1>11, <1>12, <1>13 DEF RightsMove

(* Every step of the system, for BlockRights. *)
LEMMA RightsAll ==
  ASSUME CInv, OpInv, UseInv, UseInv', ~EarlyVictim, [Next]_vars
  PROVE  OpInv' /\ [Rights!Next]_(Rights!vars)
<1>1. TStep  BY StepKeeps
<1>2. ASSUME NEW c \in Cores, RightsStep(c)  PROVE OpInv' /\ [Rights!Next]_(Rights!vars)
  <2>1. \A d \in Cores : d # c => maf'[d].op = maf[d].op /\ T!Use(d)' = T!Use(d)
    <3>1. \A d \in Cores : d # c => array'[d] = array[d] /\ evict'[d] = evict[d] /\ maf'[d] = maf[d]
      BY <1>2 DEF RightsStep, Apart
    <3>2. ASSUME NEW d \in Cores, d # c PROVE T!Use(d)' = T!Use(d)
      <4>1. copyV'[d] = copyV[d] /\ missV'[d] = missV[d] /\ (d \in leavingV' <=> d \in leavingV)
        BY <3>1, <3>2 DEF copyV, missV, leavingV, Wt
      <4> QED  BY <4>1 DEF T!Use
    <3> QED  BY <3>1, <3>2
  <2>2. OpInv'  BY <1>2 DEF OpInv, RightsStep, Apart
  <2> QED  BY <1>2, <2>1, <2>2, RightsMoved DEF RightsStep
<1>3. ASSUME l1Vars' = l1Vars  PROVE OpInv' /\ [Rights!Next]_(Rights!vars)
  <2>1. array' = array /\ evict' = evict /\ maf' = maf  BY <1>3 DEF l1Vars
  <2>2. \A c \in Cores : UsableState(c)' = UsableState(c)
    BY <2>1 DEF UsableState, L1!WaitingMaf, L1!BlockState
  <2>3. UNCHANGED Rights!vars  BY <2>1, <2>2 DEF Rights!vars
  <2> QED  BY <2>1, <2>3 DEF OpInv
<1>4. CASE UNCHANGED vars  BY <1>3, <1>4 DEF vars
<1>5. ASSUME NEW c \in Cores,
             \/ CoreRequest(c) \/ L1Replacement(c) \/ L1WakeMaf(c) \/ L1Back(c) \/ L1WakeSnoop(c)
             \/ L1SnoopDone(c) \/ L1Reply(c) \/ L1Idle(c) \/ L1Evict(c)
      PROVE  OpInv' /\ [Rights!Next]_(Rights!vars)
  BY <1>1, <1>2, <1>5, FrontRights, SnoopRights, ReplyRights
<1>6. CASE \/ \E c \in Cores : L2Request(c)
           \/ L2WakeMaf \/ L2Replacement \/ L2Evict \/ MemStep
           \/ \E n \in Cores \cup {Mem} : L2Reply(n)
  <2>1. l1Vars' = l1Vars
    BY <1>6 DEF L2Request, L2WakeMaf, L2Replacement, L2Evict, MemStep, L2Reply, L2Frame, MemFrame
  <2> QED  BY <1>3, <2>1
<1> QED  BY <1>4, <1>5, <1>6 DEF Next

(* The protocol does what BlockRights allows: rights come only to a core   *)
(* that asked, suffice for what it asked for, and are never against those  *)
(* of another core.  This is ImplementsBlockRights without its liveness.   *)
THEOREM ProtocolRights ==
  ASSUME ~EarlyVictim
  PROVE  Spec => Rights!Init /\ [][Rights!Next]_(Rights!vars)
<1>1. Init => Rights!Init /\ OpInv
  <2> SUFFICES ASSUME Init PROVE Rights!Init /\ OpInv  OBVIOUS
  <2>1. /\ array = [c \in Cores |-> "I"] /\ evict = [c \in Cores |-> L1!NoEvict]
        /\ maf = [c \in Cores |-> L1!NoMaf]
    BY DEF Init, L1!L1Init
  <2>2. \A c \in Cores : maf[c].op = "None" /\ UsableState(c) = "I"
    BY <2>1, NoMafIs, NoEvictIs DEF UsableState, L1!WaitingMaf, L1!BlockState
  <2> QED  BY <2>2 DEF Rights!Init, OpInv
<1>2. IndInv => CInv  BY DEF IndInv
<1>3. CInv /\ OpInv /\ UseInv /\ UseInv' /\ [Next]_vars => OpInv' /\ [Rights!Next]_(Rights!vars)
  BY RightsAll
<1> QED  BY <1>1, <1>2, <1>3, UseIs, ProtocolInvariant, PTL DEF Spec
===========================================================================
