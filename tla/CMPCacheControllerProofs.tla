---------------------- MODULE CMPCacheControllerProofs ----------------------
(***************************************************************************)
(* The reservation discipline of CMPCacheController, proved for any number *)
(* of processes and MAF entries and any sizes of the queues, the MAF and   *)
(* the evict buffer.  IInv is inductive; everything else follows from it.  *)
(***************************************************************************)
EXTENDS CMPCacheController, FiniteSetTheorems, TLAPS

-----------------------------------------------------------------------------
(* Sums of counters.                                                       *)

(* A set of counters has a natural sum, zero if every counter is. *)
LEMMA TotalType ==
  ASSUME NEW P, IsFiniteSet(P), NEW f \in [P -> 0 .. MaxSnoops]
  PROVE  /\ Total(f) \in Nat
         /\ (\A x \in P : f[x] = 0) => Total(f) = 0
<1>1. \A i \in {1, MaxSnoops} : AtLeast(f, i) \in SUBSET P
  BY DEF AtLeast
<1>2. \A i \in {1, MaxSnoops} : IsFiniteSet(AtLeast(f, i))
  BY <1>1, FS_Subset, Zenon
<1>3. Total(f) \in Nat
  BY <1>2, FS_CardinalityType DEF Total
<1>4. ASSUME \A x \in P : f[x] = 0 PROVE Total(f) = 0
  <2>1. AtLeast(f, 1) = {} /\ AtLeast(f, MaxSnoops) = {}
    BY <1>4 DEF AtLeast, MaxSnoops
  <2> QED BY <2>1, FS_EmptySet DEF Total
<1> QED BY <1>3, <1>4

(* What a new value of one counter does to one level. *)
LEMMA LevelUpdate ==
  ASSUME NEW P, IsFiniteSet(P), NEW f \in [P -> 0 .. MaxSnoops], NEW p \in P,
         NEW n \in 0 .. MaxSnoops, NEW i \in {1, MaxSnoops}
  PROVE  /\ IsFiniteSet(AtLeast(f, i))
         /\ Cardinality(AtLeast(f, i)) \in Nat
         /\ Cardinality(AtLeast([f EXCEPT ![p] = n], i)) =
              Cardinality(AtLeast(f, i)) + (IF n >= i THEN 1 ELSE 0)
                                         - (IF f[p] >= i THEN 1 ELSE 0)
<1> DEFINE A == AtLeast(f, i)
           g == [f EXCEPT ![p] = n]
<1>1. A \in SUBSET P
  BY DEF AtLeast
<1>2. IsFiniteSet(A)
  BY <1>1, FS_Subset
<1>3. Cardinality(A) \in Nat
  BY <1>2, FS_CardinalityType
<1>4. p \in A <=> f[p] >= i
  BY DEF AtLeast
<1>5. AtLeast(g, i) = IF n >= i THEN A \cup {p} ELSE A \ {p}
  BY DEF AtLeast, MaxSnoops
<1>6. Cardinality(A \cup {p}) = IF p \in A THEN Cardinality(A) ELSE Cardinality(A) + 1
  BY <1>2, FS_AddElement, Zenon
<1>7. Cardinality(A \ {p}) = IF p \in A THEN Cardinality(A) - 1 ELSE Cardinality(A)
  BY <1>2, FS_RemoveElement, Zenon
<1> HIDE DEF A, g
<1>8. Cardinality(AtLeast(g, i)) =
        Cardinality(A) + (IF n >= i THEN 1 ELSE 0) - (IF f[p] >= i THEN 1 ELSE 0)
  BY <1>3, <1>4, <1>5, <1>6, <1>7
<1> QED BY <1>2, <1>3, <1>8 DEF A, g

(* A new value of one counter changes the sum by the difference. *)
LEMMA TotalUpdate ==
  ASSUME NEW P, IsFiniteSet(P), NEW f \in [P -> 0 .. MaxSnoops], NEW p \in P,
         NEW n \in 0 .. MaxSnoops
  PROVE  /\ Total(f) \in Nat
         /\ f[p] <= Total(f)
         /\ Total([f EXCEPT ![p] = n]) = Total(f) + n - f[p]
<1> DEFINE g == [f EXCEPT ![p] = n]
           a == Cardinality(AtLeast(f, 1))
           b == Cardinality(AtLeast(f, MaxSnoops))
<1>1. /\ a \in Nat
      /\ Cardinality(AtLeast(g, 1)) = a + (IF n >= 1 THEN 1 ELSE 0)
                                        - (IF f[p] >= 1 THEN 1 ELSE 0)
  <2> 1 \in {1, MaxSnoops}
    OBVIOUS
  <2> QED BY LevelUpdate
<1>2. /\ b \in Nat
      /\ Cardinality(AtLeast(g, MaxSnoops)) = b + (IF n >= MaxSnoops THEN 1 ELSE 0)
                                                - (IF f[p] >= MaxSnoops THEN 1 ELSE 0)
  <2> MaxSnoops \in {1, MaxSnoops}
    OBVIOUS
  <2> QED BY LevelUpdate, ZenonT(60)
<1>3. n \in {0, 1, 2} /\ f[p] \in {0, 1, 2}
  BY DEF MaxSnoops
<1>4. /\ f[p] >= 1 => a >= 1
      /\ f[p] >= MaxSnoops => b >= 1
  <2>1. \A i \in {1, MaxSnoops} : f[p] >= i => p \in AtLeast(f, i)
    BY DEF AtLeast
  <2>2. \A i \in {1, MaxSnoops} : IsFiniteSet(AtLeast(f, i))
    <3>1. \A i \in {1, MaxSnoops} : AtLeast(f, i) \in SUBSET P
      BY DEF AtLeast
    <3> QED BY <3>1, FS_Subset, Zenon
  <2>3. \A i \in {1, MaxSnoops} : f[p] >= i => Cardinality(AtLeast(f, i)) # 0
    BY <2>1, <2>2, FS_EmptySet, Zenon
  <2> QED BY <2>3, <1>1, <1>2
<1>5. Total(f) = a + b /\ Total(g) = Cardinality(AtLeast(g, 1)) + Cardinality(AtLeast(g, MaxSnoops))
  BY DEF Total
<1> DEFINE k == f[p]
           a1 == Cardinality(AtLeast(g, 1))
           b1 == Cardinality(AtLeast(g, MaxSnoops))
<1>6. /\ a1 = a + (IF n >= 1 THEN 1 ELSE 0) - (IF k >= 1 THEN 1 ELSE 0)
      /\ b1 = b + (IF n >= 2 THEN 1 ELSE 0) - (IF k >= 2 THEN 1 ELSE 0)
      /\ k >= 2 => b >= 1
  BY <1>1, <1>2, <1>4 DEF MaxSnoops
<1> HIDE DEF a, b, g, k, a1, b1
<1>7. a + b \in Nat /\ k <= a + b /\ a1 + b1 = a + b + n - k
  BY <1>1, <1>2, <1>3, <1>4, <1>6 DEF k
<1>8. Total(f) \in Nat /\ f[p] <= Total(f) /\ Total(g) = Total(f) + n - f[p]
  BY <1>7, <1>5 DEF k, a1, b1
<1> QED BY <1>8 DEF g

-----------------------------------------------------------------------------
(* The output queues.                                                      *)

QueueInv ==
  /\ proc \in [Procs -> Process]
  /\ held \in [Queues -> [Procs -> 0 .. MaxSnoops]]
  /\ usage \in [Queues -> Nat]
  /\ reserve \in [Queues -> Nat]
  /\ HoldsOwed
  /\ QueueAccounting

(* A new process, and one the policy has run. *)
LEMMA NewProcType ==
  ASSUME NEW type \in ProcTypes, NEW msg \in Kinds \cup Answers \cup {"EvictAck", None},
         NEW e \in Entries \cup {None}
  PROVE  /\ NewProc(type, msg, e) \in Process
         /\ NewProc(type, msg, e).stage = "Maf"
         /\ NewProc(type, msg, e).type = type
         /\ NewProc(type, msg, e).msg = msg
         /\ NewProc(type, msg, e).action = None
         /\ NewProc(type, msg, e).entry = e
BY DEF NewProc, NoProc, Process, MaxSnoops

(* A process past the policy handler is a process. *)
LEMMA RanType ==
  ASSUME proc \in [Procs -> Process], NEW p \in Procs, NEW action \in Actions,
         NEW n \in 0 .. MaxSnoops, NEW e \in Entries \cup {None}, Ran(p, action, n, e)
  PROVE  /\ RunProc(proc[p], action, n, e) \in Process
         /\ proc' = [proc EXCEPT ![p] = RunProc(proc[p], action, n, e)]
<1>1. proc[p] \in Process
  OBVIOUS
<1>2. RunProc(proc[p], action, n, e) \in Process
  BY <1>1 DEF RunProc, Process
<1> QED BY <1>2 DEF Ran

(* So is the place of one that is done. *)
LEMMA NoProcType == NoProc \in Process
BY DEF NoProc, Process, MaxSnoops

(* Process p becomes r, which holds what it owes. *)
LEMMA QueueStep ==
  ASSUME QueueInv, NEW p \in Procs, NEW r \in Process,
         proc' = [proc EXCEPT ![p] = r],
         held' = [q \in Queues |-> [held[q] EXCEPT ![p] = Owed(r, q)]],
         \A q \in Queues : Owed(r, q) \in 0 .. MaxSnoops,
         usage' \in [Queues -> Nat],
         DOMAIN reserve' = Queues, reserve' = [q \in Queues |-> reserve'[q]],
         \A q \in Queues : /\ reserve'[q] - usage'[q] =
                                reserve[q] - usage[q] + Owed(r, q) - held[q][p]
                           /\ reserve'[q] \in Int
                           /\ reserve'[q] <= QueueSize
  PROVE  QueueInv'
<1>1. proc' \in [Procs -> Process]
  BY DEF QueueInv
<1>2. held' \in [Queues -> [Procs -> 0 .. MaxSnoops]]
  BY DEF QueueInv
<1>3. HoldsOwed'
  <2> SUFFICES ASSUME NEW q \in Queues, NEW x \in Procs
               PROVE  held'[q][x] = Owed(proc'[x], q)
    BY DEF HoldsOwed, Owed
  <2> QED BY DEF QueueInv, HoldsOwed
<1>4. ASSUME NEW q \in Queues
      PROVE  reserve'[q] = usage'[q] + Total(held'[q]) /\ reserve'[q] \in Nat
  <2>1. held[q] \in [Procs -> 0 .. MaxSnoops]
    BY DEF QueueInv
  <2>2. /\ Total(held[q]) \in Nat
        /\ held[q][p] <= Total(held[q])
        /\ Total(held'[q]) = Total(held[q]) + Owed(r, q) - held[q][p]
    BY <2>1, ProcsAssumption, TotalUpdate
  <2>3. /\ reserve[q] = usage[q] + Total(held[q])
        /\ usage'[q] \in Nat /\ usage[q] \in Nat /\ reserve[q] \in Nat
        /\ held[q][p] \in Nat /\ Owed(r, q) \in Nat
    BY <2>1 DEF QueueInv, QueueAccounting, MaxSnoops
  <2> HIDE DEF Owed, Total
  <2> QED BY <2>2, <2>3
<1>5. reserve' \in [Queues -> Nat]
  BY <1>4
<1>6. QueueAccounting'
  BY <1>4 DEF QueueAccounting
<1> QED BY <1>1, <1>2, <1>3, <1>5, <1>6 DEF QueueInv

(* What scheduleNewProcesses reserves is within what a process may hold. *)
LEMMA NeedType ==
  ASSUME NEW type, NEW q \in Queues
  PROVE  Need(type)[q] \in 0 .. MaxSnoops
BY DEF Need, Queues, MaxSnoops

(* What finalizeProcess sends is within it too. *)
LEMMA SentType ==
  ASSUME NEW action, NEW n \in 0 .. MaxSnoops, NEW q \in Queues
  PROVE  Sent(action, n)[q] \in 0 .. MaxSnoops
BY DEF Sent, Queues, MaxSnoops

(* scheduleNewProcesses: what is reserved is what the process holds. *)
LEMMA StartQueue ==
  ASSUME QueueInv, NEW p \in Procs, NEW type \in ProcTypes,
         NEW msg \in Kinds \cup Answers \cup {"EvictAck", None},
         NEW e \in Entries \cup {None}, Start(p, type, msg, e)
  PROVE  QueueInv'
<1> DEFINE r == NewProc(type, msg, e)
<1>1. r \in Process /\ r.stage = "Maf" /\ r.type = type
  BY NewProcType
<1>2. \A q \in Queues : Owed(r, q) = Need(type)[q] /\ Need(type)[q] \in 0 .. MaxSnoops
  BY <1>1, NeedType DEF Owed
<1>3. \A q \in Queues : held[q][p] = 0
  BY DEF QueueInv, HoldsOwed, Owed, Start
<1>4. proc' = [proc EXCEPT ![p] = r]
  BY DEF Start
<1>5. held' = [q \in Queues |-> [held[q] EXCEPT ![p] = Owed(r, q)]]
  <2>1. held' = [q \in Queues |-> [held[q] EXCEPT ![p] = held[q][p] + Need(type)[q]]]
    BY DEF Start, ReserveOut
  <2>2. \A q \in Queues : held[q][p] + Need(type)[q] = Owed(r, q)
    BY <1>2, <1>3, NeedType DEF MaxSnoops
  <2> HIDE DEF r
  <2> QED BY <2>1, <2>2
<1>6. usage' = usage
  BY DEF Start, ReserveOut
<1>7. reserve' = [q \in Queues |-> reserve[q] + Need(type)[q]]
  BY DEF Start, ReserveOut
<1>8. ASSUME NEW q \in Queues
      PROVE  /\ reserve'[q] - usage'[q] = reserve[q] - usage[q] + Owed(r, q) - held[q][p]
             /\ reserve'[q] \in Int
             /\ reserve'[q] <= QueueSize
  <2>1. reserve[q] \in Nat /\ usage[q] \in Nat /\ Need(type)[q] \in Nat
    BY <1>2 DEF QueueInv, MaxSnoops
  <2>2. reserve[q] + Need(type)[q] <= QueueSize
    BY DEF Start, HasSpace
  <2> HIDE DEF r
  <2> QED BY <1>2, <1>3, <1>6, <1>7, <2>1, <2>2
<1> HIDE DEF r
<1> QED
  <2>1. usage' \in [Queues -> Nat]
    BY <1>6 DEF QueueInv
  <2>2. DOMAIN reserve' = Queues /\ reserve' = [q \in Queues |-> reserve'[q]]
    BY <1>7
  <2>3. \A q \in Queues : Owed(r, q) \in 0 .. MaxSnoops
    BY <1>2
  <2> QED BY <1>1, <1>4, <1>5, <1>8, <2>1, <2>2, <2>3, QueueStep

(* The run*Process functions: what is not given back is what is sent. *)
LEMMA RanQueue ==
  ASSUME QueueInv, NEW p \in Procs, NEW action \in Actions, NEW n \in 0 .. MaxSnoops,
         NEW e \in Entries \cup {None}, Ran(p, action, n, e), proc[p].stage = "Maf",
         \A q \in Queues : /\ GivenBack(proc[p].type, action, n)[q] \in Nat
                           /\ Need(proc[p].type)[q] =
                                GivenBack(proc[p].type, action, n)[q] + Sent(action, n)[q]
  PROVE  QueueInv'
<1> DEFINE r == RunProc(proc[p], action, n, e)
           back == GivenBack(proc[p].type, action, n)
<1>1. r \in Process /\ proc' = [proc EXCEPT ![p] = r]
  BY RanType DEF QueueInv
<1>2. \A q \in Queues : Owed(r, q) = Sent(action, n)[q] /\ Owed(r, q) \in 0 .. MaxSnoops
  BY SentType DEF RunProc, Owed
<1>3. \A q \in Queues : held[q][p] = back[q] + Owed(r, q)
  BY <1>2 DEF QueueInv, HoldsOwed, Owed
<1>4. held' = [q \in Queues |-> [held[q] EXCEPT ![p] = Owed(r, q)]]
  <2>1. held' = [q \in Queues |-> [held[q] EXCEPT ![p] = held[q][p] - back[q]]]
    BY DEF Ran, UnreserveOut
  <2>2. \A q \in Queues : held[q][p] - back[q] = Owed(r, q)
    <3>1. \A q \in Queues : back[q] \in Nat /\ Owed(r, q) \in Nat
      BY <1>2 DEF MaxSnoops
    <3> HIDE DEF r, back
    <3> QED BY <1>3, <3>1
  <2> HIDE DEF r, back
  <2> QED BY <2>1, <2>2
<1>5. usage' = usage /\ reserve' = [q \in Queues |-> reserve[q] - back[q]]
  BY DEF Ran, UnreserveOut
<1>6. ASSUME NEW q \in Queues
      PROVE  /\ reserve'[q] - usage'[q] = reserve[q] - usage[q] + Owed(r, q) - held[q][p]
             /\ reserve'[q] \in Int
             /\ reserve'[q] <= QueueSize
  <2>1. reserve[q] \in Nat /\ usage[q] \in Nat /\ back[q] \in Nat /\ Owed(r, q) \in Nat
    BY <1>2 DEF QueueInv, MaxSnoops
  <2>2. reserve[q] <= QueueSize
    BY DEF QueueInv, QueueAccounting
  <2> HIDE DEF r, back
  <2> QED BY <1>3, <1>5, <2>1, <2>2, SizesAssumption
<1>7. usage' \in [Queues -> Nat]
  BY <1>5 DEF QueueInv
<1>8. DOMAIN reserve' = Queues /\ reserve' = [q \in Queues |-> reserve'[q]]
  BY <1>5
<1> HIDE DEF r, back
<1> QED BY <1>1, <1>2, <1>4, <1>6, <1>7, <1>8, QueueStep

(* finalizeProcess and runCacheEvictProcess: the process sends all it holds. *)
LEMMA SendQueue ==
  ASSUME QueueInv, NEW p \in Procs, NEW action, NEW n \in 0 .. MaxSnoops,
         SendHeld(p, action, n), proc' = [proc EXCEPT ![p] = NoProc],
         \A q \in Queues : Owed(proc[p], q) = Sent(action, n)[q]
  PROVE  QueueInv'
<1>1. \A q \in Queues : Owed(NoProc, q) = 0
  BY DEF Owed, NoProc
<1>2. \A q \in Queues : held[q][p] = Sent(action, n)[q] /\ Sent(action, n)[q] \in Nat
  BY SentType DEF QueueInv, HoldsOwed, MaxSnoops
<1>3. held' = [q \in Queues |-> [held[q] EXCEPT ![p] = Owed(NoProc, q)]]
  <2>1. held' = [q \in Queues |-> [held[q] EXCEPT ![p] = held[q][p] - Sent(action, n)[q]]]
    BY DEF SendHeld
  <2>2. \A q \in Queues : held[q][p] - Sent(action, n)[q] = Owed(NoProc, q)
    BY <1>1, <1>2
  <2> QED BY <2>1, <2>2
<1>4. reserve' = reserve /\ usage' = [q \in Queues |-> usage[q] + Sent(action, n)[q]]
  BY DEF SendHeld
<1>5. usage' \in [Queues -> Nat]
  BY <1>2, <1>4 DEF QueueInv
<1>6. ASSUME NEW q \in Queues
      PROVE  /\ reserve'[q] - usage'[q] =
                  reserve[q] - usage[q] + Owed(NoProc, q) - held[q][p]
             /\ reserve'[q] \in Int
             /\ reserve'[q] <= QueueSize
  <2>1. reserve[q] \in Nat /\ usage[q] \in Nat /\ reserve[q] <= QueueSize
    BY DEF QueueInv, QueueAccounting
  <2> QED BY <1>1, <1>2, <1>4, <2>1
<1>7. DOMAIN reserve' = Queues /\ reserve' = [q \in Queues |-> reserve'[q]]
  BY <1>4 DEF QueueInv
<1>8. \A q \in Queues : Owed(NoProc, q) \in 0 .. MaxSnoops
  BY <1>1 DEF MaxSnoops
<1> QED BY <1>3, <1>5, <1>6, <1>7, <1>8, NoProcType, QueueStep, ZenonT(60)

(* busCycle: the place of a message that left is free. *)
LEMMA DrainQueue ==
  ASSUME QueueInv, NEW q \in Queues, Drain(q)
  PROVE  QueueInv'
<1>1. proc' = proc /\ held' = held
  BY DEF Drain
<1>2. \A x \in Queues : usage[x] \in Nat /\ reserve[x] \in Nat /\ Total(held[x]) \in Nat
  BY ProcsAssumption, TotalType DEF QueueInv
<1>3. ASSUME NEW x \in Queues
      PROVE  /\ usage'[x] \in Nat /\ reserve'[x] \in Nat
             /\ reserve'[x] = usage'[x] + Total(held[x])
             /\ reserve'[x] <= QueueSize
  <2>1. reserve[x] = usage[x] + Total(held[x]) /\ reserve[x] <= QueueSize
    BY DEF QueueInv, QueueAccounting
  <2>2. /\ usage'[x] = IF x = q THEN usage[x] - 1 ELSE usage[x]
        /\ reserve'[x] = IF x = q THEN reserve[x] - 1 ELSE reserve[x]
        /\ usage[q] > 0
    BY DEF Drain, QueueInv
  <2> QED BY <1>2, <2>1, <2>2, SizesAssumption
<1>4. usage' \in [Queues -> Nat] /\ reserve' \in [Queues -> Nat]
  BY <1>3 DEF Drain, QueueInv
<1>5. HoldsOwed'
  BY <1>1 DEF QueueInv, HoldsOwed, Owed
<1>6. QueueAccounting'
  BY <1>1, <1>3 DEF QueueAccounting
<1> QED BY <1>1, <1>4, <1>5, <1>6 DEF QueueInv

-----------------------------------------------------------------------------
(* Processes and the MAF entries they work on.                             *)

OwnInv ==
  /\ proc \in [Procs -> Process]
  /\ maf \in [Entries -> MafEntry]
  /\ \A p \in Procs : OwnEntry(p)
  /\ EntriesApart

(* Process p becomes r.  It touches its own entry or ones no process works *)
(* on, and takes none that belongs to another process.                     *)
LEMMA OwnStep ==
  ASSUME OwnInv, NEW p \in Procs, NEW r \in Process,
         proc' = [proc EXCEPT ![p] = r],
         maf' \in [Entries -> MafEntry],
         \A e \in Entries : \/ maf'[e] = maf[e]
                            \/ e = proc[p].entry
                            \/ maf[e].state \notin Busy
                            \/ \A x \in Procs : proc[x].entry # e,
         \/ r.entry = None
         \/ r.entry = proc[p].entry
         \/ r.entry \in Entries /\ maf[r.entry].state \notin Busy
         \/ \A x \in Procs : proc[x].entry # r.entry,
         OwnEntry(p)'
  PROVE  OwnInv'
<1>1. proc' \in [Procs -> Process]
  BY DEF OwnInv
<1>2. ASSUME NEW x \in Procs, x # p
      PROVE  /\ proc'[x] = proc[x]
             /\ proc[x].entry \in Entries => maf'[proc[x].entry] = maf[proc[x].entry]
             /\ r.entry = proc[x].entry => r.entry = None
  <2>1. proc'[x] = proc[x]
    BY <1>2 DEF OwnInv
  <2>2. proc[x].entry = None \/ (proc[x].entry \in Entries /\ maf[proc[x].entry].state \in Busy)
    BY DEF OwnInv, OwnEntry, Owned
  <2>3. proc[x].entry = proc[p].entry => proc[x].entry = None
    BY <1>2 DEF OwnInv, EntriesApart
  <2>4. proc[x].entry \in Entries => maf'[proc[x].entry] = maf[proc[x].entry]
    BY <2>2, <2>3, EntriesAssumption DEF None
  <2>5. r.entry = proc[x].entry => r.entry = None
    BY <2>2, <2>3
  <2> QED BY <2>1, <2>4, <2>5
<1>3. ASSUME NEW x \in Procs
      PROVE  OwnEntry(x)'
  <2>1. CASE x = p
    BY <2>1
  <2>2. CASE x # p
    <3>1. OwnEntry(x) /\ proc'[x] = proc[x]
      BY <1>2, <2>2 DEF OwnInv
    <3>2. proc[x].entry \in Entries => maf'[proc[x].entry] = maf[proc[x].entry]
      BY <1>2, <2>2
    <3> QED BY <3>1, <3>2 DEF OwnEntry, Owned, InMaf, Expected
  <2> QED BY <2>1, <2>2
<1>4. EntriesApart'
  <2> SUFFICES ASSUME NEW x \in Procs, NEW y \in Procs, x # y,
                      proc'[x].entry = proc'[y].entry
               PROVE  proc'[x].entry = None
    BY DEF EntriesApart
  <2>1. proc'[p] = r
    BY DEF OwnInv
  <2>2. CASE x = p
    BY <2>1, <2>2, <1>2
  <2>3. CASE y = p
    BY <2>1, <2>3, <1>2
  <2>4. CASE x # p /\ y # p
    BY <2>4, <1>2 DEF OwnInv, EntriesApart
  <2> QED BY <2>2, <2>3, <2>4
<1> QED BY <1>1, <1>3, <1>4 DEF OwnInv

-----------------------------------------------------------------------------
(* The capacity of the MAF.                                                *)

MafInv ==
  /\ mafHeld \subseteq Procs
  /\ mafReserve \in Nat
  /\ HoldsMaf
  /\ MafAccounting

(* The MAF is finite. *)
LEMMA MafUsedFinite ==
  /\ IsFiniteSet(MafUsed)
  /\ Cardinality(MafUsed) \in Nat
<1>1. MafUsed \in SUBSET Entries
  BY DEF MafUsed
<1>2. IsFiniteSet(MafUsed)
  BY <1>1, EntriesAssumption, FS_Subset
<1> QED BY <1>2, FS_CardinalityType

(* At most one entry more is in use. *)
LEMMA MafUsedGrowth ==
  ASSUME NEW e, MafUsed' \subseteq MafUsed \cup {e}
  PROVE  /\ Cardinality(MafUsed') <= Cardinality(MafUsed) + 1
         /\ e \in MafUsed => Cardinality(MafUsed') <= Cardinality(MafUsed)
         /\ Cardinality(MafUsed') \in Nat
<1> DEFINE U == MafUsed
           V == MafUsed'
<1>1. IsFiniteSet(U) /\ Cardinality(U) \in Nat
  BY MafUsedFinite
<1>2. /\ IsFiniteSet(U \cup {e})
      /\ Cardinality(U \cup {e}) = IF e \in U THEN Cardinality(U) ELSE Cardinality(U) + 1
  BY <1>1, FS_AddElement
<1>3. V \in SUBSET (U \cup {e})
  OBVIOUS
<1> HIDE DEF U, V
<1>4. IsFiniteSet(V) /\ Cardinality(V) <= Cardinality(U \cup {e})
  BY <1>2, <1>3, FS_Subset
<1>5. Cardinality(V) \in Nat
  BY <1>4, FS_CardinalityType
<1>6. Cardinality(V) <= Cardinality(U) + 1 /\ (e \in U => Cardinality(V) <= Cardinality(U))
  BY <1>1, <1>2, <1>4, <1>5
<1> QED BY <1>5, <1>6 DEF U, V

(* p neither takes nor gives back a reservation. *)
LEMMA MafKeep ==
  ASSUME OwnInv, MafInv, NEW p \in Procs, NEW r \in Process,
         proc' = [proc EXCEPT ![p] = r],
         UNCHANGED <<mafHeld, mafReserve>>,
         ~ InMaf(p, {"Request"}), ~ (r.stage = "Maf" /\ r.type = "Request"),
         MafUsed' \subseteq MafUsed
  PROVE  MafInv'
<1>1. HoldsMaf'
  BY DEF OwnInv, MafInv, HoldsMaf, InMaf
<1>2. MafUsed' \in SUBSET MafUsed
  OBVIOUS
<1>3. Cardinality(MafUsed') <= Cardinality(MafUsed)
  BY <1>2, MafUsedFinite, FS_Subset, Zenon
<1>4. Cardinality(MafUsed') \in Nat
  <2>1. IsFiniteSet(MafUsed')
    BY <1>2, MafUsedFinite, FS_Subset, Zenon
  <2> QED BY <2>1, FS_CardinalityType
<1>5. MafAccounting'
  <2> DEFINE V == Cardinality(MafUsed')
  <2>1. mafReserve = Cardinality(mafHeld) /\ Cardinality(MafUsed) + mafReserve <= MafSize
    BY DEF MafInv, MafAccounting
  <2>2. mafReserve' = Cardinality(mafHeld') /\ mafReserve' = mafReserve
    BY <2>1
  <2>3. mafReserve \in Nat
    BY DEF MafInv
  <2> HIDE DEF V
  <2>4. V + mafReserve <= MafSize
    BY <1>3, <1>4, <2>1, <2>3, MafUsedFinite, SizesAssumption DEF V
  <2> QED BY <2>2, <2>4 DEF MafAccounting, V
<1> QED BY <1>1, <1>5 DEF MafInv

(* So are the processes that reserved an entry of it. *)
LEMMA MafHeldFinite ==
  ASSUME MafInv
  PROVE  IsFiniteSet(mafHeld)
BY ProcsAssumption, FS_Subset DEF MafInv

(* scheduleNewProcesses: a new request reserves an entry. *)
LEMMA MafTake ==
  ASSUME OwnInv, MafInv, NEW p \in Procs, NEW r \in Process,
         proc' = [proc EXCEPT ![p] = r], maf' = maf,
         ReserveMaf(p), ~ MafFull,
         ~ InMaf(p, {"Request"}), r.stage = "Maf", r.type = "Request"
  PROVE  MafInv'
<1>1. HoldsMaf'
  BY DEF OwnInv, MafInv, HoldsMaf, InMaf, ReserveMaf
<1>2. p \notin mafHeld
  BY DEF MafInv, HoldsMaf
<1>3. Cardinality(mafHeld \cup {p}) = Cardinality(mafHeld) + 1
  BY <1>2, MafHeldFinite, FS_AddElement
<1>4. MafUsed' = MafUsed
  BY DEF MafUsed
<1>5. mafReserve' = Cardinality(mafHeld')
  BY <1>3 DEF MafInv, MafAccounting, ReserveMaf
<1>6. Cardinality(MafUsed) + (mafReserve + 1) <= MafSize
  <2>1. ~ (Cardinality(MafUsed) + mafReserve >= MafSize) /\ mafReserve \in Nat
    BY DEF MafFull, MafInv
  <2> QED BY <2>1, MafUsedFinite, SizesAssumption
<1>7. MafAccounting'
  BY <1>4, <1>5, <1>6 DEF MafAccounting, ReserveMaf
<1> QED BY <1>1, <1>7 DEF MafInv, ReserveMaf

(* runRequestProcess: the reservation goes, and one entry may be inserted. *)
LEMMA MafGive ==
  ASSUME OwnInv, MafInv, NEW p \in Procs, NEW r \in Process,
         proc' = [proc EXCEPT ![p] = r],
         UnreserveMaf(p), InMaf(p, {"Request"}), r.stage # "Maf",
         NEW e, MafUsed' \subseteq MafUsed \cup {e}
  PROVE  MafInv'
<1>1. mafHeld' = mafHeld \ {p} /\ mafReserve' = mafReserve - 1
  BY DEF UnreserveMaf, InMaf
<1>2. HoldsMaf'
  BY <1>1 DEF OwnInv, MafInv, HoldsMaf, InMaf
<1>3. p \in mafHeld
  BY DEF MafInv, HoldsMaf
<1>4. Cardinality(mafHeld \ {p}) = Cardinality(mafHeld) - 1
  BY <1>3, MafHeldFinite, FS_RemoveElement
<1>5. mafReserve = Cardinality(mafHeld) /\ Cardinality(MafUsed) + mafReserve <= MafSize
      /\ mafReserve \in Nat
  BY DEF MafInv, MafAccounting
<1>6. mafReserve' = Cardinality(mafHeld')
  BY <1>1, <1>4, <1>5
<1>7. mafReserve # 0
  BY <1>3, <1>5, MafHeldFinite, FS_EmptySet
<1>8. mafReserve' \in Nat
  BY <1>1, <1>5, <1>7
<1>9. Cardinality(MafUsed') + mafReserve' <= MafSize
  <2> DEFINE V == Cardinality(MafUsed')
  <2>1. V <= Cardinality(MafUsed) + 1 /\ V \in Nat
    BY MafUsedGrowth
  <2> HIDE DEF V
  <2>2. V + mafReserve' <= MafSize
    BY <1>1, <1>5, <2>1, MafUsedFinite, SizesAssumption
  <2> QED BY <2>2 DEF V
<1> QED BY <1>1, <1>2, <1>6, <1>8, <1>9 DEF MafInv, MafAccounting

-----------------------------------------------------------------------------
(* The evict buffer of the cache.                                          *)

EBInv ==
  /\ ebUsed \in Nat /\ ebPending \in Nat /\ ebReserve \in Nat
  /\ ebProc \in [Procs -> Bit]
  /\ ebMaf \in [Entries -> Bit]
  /\ HoldsEB
  /\ EBAccounting
  /\ ReadsReserved

(* The sum of counters that are zero or one, and how it changes. *)
LEMMA BitTotal ==
  ASSUME NEW P, IsFiniteSet(P), NEW f \in [P -> Bit], NEW p \in P, NEW n \in Bit
  PROVE  /\ Total(f) \in Nat
         /\ f[p] <= Total(f)
         /\ Total([f EXCEPT ![p] = n]) = Total(f) + n - f[p]
<1>1. f \in [P -> 0 .. MaxSnoops] /\ n \in 0 .. MaxSnoops
  BY DEF Bit, MaxSnoops
<1> QED BY <1>1, TotalUpdate

EBTypes == {"WakeMAF", "Request", "IdleWork"}
EBOwed(r) == IF r.stage = "Maf" /\ r.type \in EBTypes THEN 1 ELSE 0

(* Process p becomes r, with the reservation it needs; d reservations more *)
(* are left with MAF entries.                                              *)
LEMMA EBStep ==
  ASSUME OwnInv, EBInv, NEW p \in Procs, NEW r \in Process,
         proc' = [proc EXCEPT ![p] = r],
         ebProc' = [ebProc EXCEPT ![p] = EBOwed(r)],
         ebMaf' \in [Entries -> Bit], NEW d \in Int, Total(ebMaf') = Total(ebMaf) + d,
         ebReserve' = ebReserve + EBOwed(r) - ebProc[p] + d,
         ebUsed' \in Nat, ebPending' \in Nat, ebPending' <= ebUsed',
         ebUsed' + ebReserve' <= EBSize,
         ReadsReserved'
  PROVE  EBInv'
<1>1. EBOwed(r) \in Bit
  BY DEF EBOwed, Bit
<1>2. ebProc' \in [Procs -> Bit]
  BY <1>1 DEF EBInv
<1>3. HoldsEB'
  BY DEF OwnInv, EBInv, HoldsEB, InMaf, EBOwed, EBTypes
<1>4. Total(ebProc') = Total(ebProc) + EBOwed(r) - ebProc[p] /\ Total(ebProc) \in Nat
  BY <1>1, ProcsAssumption, BitTotal DEF EBInv
<1>5. Total(ebMaf) \in Nat /\ Total(ebMaf') \in Nat /\ Total(ebProc') \in Nat
  <2>1. Bit \subseteq 0 .. MaxSnoops
    BY DEF Bit, MaxSnoops
  <2>2. ebMaf \in [Entries -> 0 .. MaxSnoops] /\ ebMaf' \in [Entries -> 0 .. MaxSnoops]
        /\ ebProc' \in [Procs -> 0 .. MaxSnoops]
    BY <2>1, <1>2 DEF EBInv
  <2> QED BY <2>2, EntriesAssumption, ProcsAssumption, TotalType
<1>6. ebReserve = Total(ebProc) + Total(ebMaf)
  BY DEF EBInv, EBAccounting
<1>7. ebReserve' = Total(ebProc') + Total(ebMaf') /\ ebReserve' \in Nat
  <2>1. EBOwed(r) \in Nat /\ ebProc[p] \in Nat
    BY <1>1 DEF EBInv, Bit
  <2> HIDE DEF EBOwed, Total
  <2> QED BY <1>4, <1>5, <1>6, <2>1
<1> QED BY <1>2, <1>3, <1>7 DEF EBInv, EBAccounting

(* The same when no reservation moves from or to a MAF entry. *)
LEMMA EBStepProc ==
  ASSUME OwnInv, EBInv, NEW p \in Procs, NEW r \in Process,
         proc' = [proc EXCEPT ![p] = r],
         ebProc' = [ebProc EXCEPT ![p] = EBOwed(r)],
         ebMaf' = ebMaf,
         ebReserve' = ebReserve + EBOwed(r) - ebProc[p],
         ebUsed' \in Nat, ebPending' \in Nat, ebPending' <= ebUsed',
         ebUsed' + ebReserve' <= EBSize,
         ReadsReserved'
  PROVE  EBInv'
<1>1. Total(ebMaf) \in Nat
  <2>1. ebMaf \in [Entries -> 0 .. MaxSnoops]
    BY DEF EBInv, Bit, MaxSnoops
  <2> QED BY <2>1, EntriesAssumption, TotalType
<1>2. Total(ebMaf') = Total(ebMaf) + 0
  BY <1>1
<1>3. ebMaf' \in [Entries -> Bit]
  BY DEF EBInv
<1>4. ebReserve' = ebReserve + EBOwed(r) - ebProc[p] + 0
  <2>1. ebReserve \in Nat /\ ebProc[p] \in Nat /\ EBOwed(r) \in Nat
    BY DEF EBInv, Bit, EBOwed
  <2> QED BY <2>1
<1>5. 0 \in Int
  OBVIOUS
<1> QED BY <1>2, <1>3, <1>4, <1>5, EBStep

(* The four parts make up the inductive invariant. *)
LEMMA Parts == IInv <=> QueueInv /\ OwnInv /\ MafInv /\ EBInv /\ idleWork \in BOOLEAN
BY DEF IInv, TypeOK, Ownership, QueueInv, OwnInv, MafInv, EBInv

(* The same after a step. *)
LEMMA PartsNext ==
  ASSUME QueueInv', OwnInv', MafInv', EBInv', idleWork' \in BOOLEAN
  PROVE  IInv'
BY DEF IInv, TypeOK, Ownership, QueueInv, OwnInv, MafInv, EBInv

-----------------------------------------------------------------------------
(* scheduleNewProcesses.                                                   *)

(* What holds of every new process: p was idle and held nothing. *)
LEMMA StartFacts ==
  ASSUME IInv, NEW p \in Procs, NEW type \in ProcTypes,
         NEW msg \in Kinds \cup Answers \cup {"EvictAck", None},
         NEW e \in Entries \cup {None}, Start(p, type, msg, e)
  PROVE  /\ QueueInv'
         /\ NewProc(type, msg, e) \in Process
         /\ proc' = [proc EXCEPT ![p] = NewProc(type, msg, e)]
         /\ proc'[p] = NewProc(type, msg, e)
         /\ ~ InMaf(p, {"Request"})
         /\ ebProc[p] = 0
<1>1. QueueInv' /\ NewProc(type, msg, e) \in Process
  BY StartQueue, NewProcType, Parts
<1>2. proc' = [proc EXCEPT ![p] = NewProc(type, msg, e)] /\ proc[p].stage = "Idle"
  BY DEF Start
<1>3. proc'[p] = NewProc(type, msg, e)
  BY <1>2, Parts DEF OwnInv
<1>4. ~ InMaf(p, {"Request"}) /\ ebProc[p] = 0
  BY <1>2, Parts DEF EBInv, HoldsEB, InMaf
<1> QED BY <1>1, <1>2, <1>3, <1>4

(* The evict buffer after ReserveEB: there was space. *)
LEMMA ReserveEBStep ==
  ASSUME IInv, NEW p \in Procs, NEW r \in Process,
         proc' = [proc EXCEPT ![p] = r], EBOwed(r) = 1, ebProc[p] = 0,
         ReserveEB(p), CacheEBHasSpace, ReadsReserved'
  PROVE  EBInv'
<1>1. ebReserve \in Nat /\ ebUsed \in Nat /\ ebPending \in Nat /\ ebPending <= ebUsed
  BY Parts DEF EBInv, EBAccounting
<1>2. ebProc' = [ebProc EXCEPT ![p] = EBOwed(r)]
  BY DEF ReserveEB
<1>3. ebReserve' = ebReserve + EBOwed(r) - ebProc[p]
  BY <1>1 DEF ReserveEB
<1>4. ebUsed' = ebUsed /\ ebPending' = ebPending /\ ebMaf' = ebMaf
  BY DEF ReserveEB
<1>5. ebUsed' + ebReserve' <= EBSize
  BY <1>1, <1>4, SizesAssumption DEF ReserveEB, CacheEBHasSpace
<1> QED BY <1>1, <1>2, <1>3, <1>4, <1>5, Parts, EBStepProc

(* A WakeMAF process takes a waking entry, which becomes eInPipeline. *)
LEMMA ScheduleWakeMAFInv ==
  ASSUME IInv, NEW p \in Procs, ScheduleWakeMAF(p)
  PROVE  IInv'
<1>1. PICK e \in Entries :
        /\ maf[e].state = "Waking"
        /\ Start(p, "WakeMAF", maf[e].kind, e)
        /\ maf' = [maf EXCEPT ![e].state = "InPipeline"]
  BY DEF ScheduleWakeMAF
<1> DEFINE r == NewProc("WakeMAF", maf[e].kind, e)
<1>2. maf \in [Entries -> MafEntry] /\ maf[e].kind \in Kinds \cup {None}
  BY Parts DEF OwnInv, MafEntry
<1>3. /\ QueueInv' /\ r \in Process /\ proc' = [proc EXCEPT ![p] = r] /\ proc'[p] = r
      /\ ~ InMaf(p, {"Request"}) /\ ebProc[p] = 0
  BY <1>1, <1>2, StartFacts DEF ProcTypes
<1>4. r.stage = "Maf" /\ r.type = "WakeMAF" /\ r.entry = e /\ r.msg = maf[e].kind
      /\ r.action = None
  BY DEF NewProc
<1>5. maf' \in [Entries -> MafEntry] /\ maf'[e].state = "InPipeline"
      /\ \A x \in Entries : x # e => maf'[x] = maf[x]
  BY <1>1, <1>2 DEF MafEntry
<1> HIDE DEF r
<1>6. OwnEntry(p)'
  BY <1>2, <1>3, <1>4, <1>5 DEF OwnEntry, Owned, InMaf, Busy
<1>7. OwnInv'
  BY <1>1, <1>3, <1>4, <1>5, <1>6, Parts, OwnStep DEF Busy
<1>8. MafUsed' \subseteq MafUsed
  BY <1>1, <1>5 DEF MafUsed
<1>9. MafInv'
  BY <1>3, <1>4, <1>8, Parts, MafKeep DEF ScheduleWakeMAF
<1>10. ReadsReserved'
  BY <1>1, <1>5, Parts DEF EBInv, ReadsReserved, ScheduleWakeMAF, ReserveEB
<1>11. EBInv'
  <2>1. EBOwed(r) = 1
    BY <1>4 DEF EBOwed, EBTypes
  <2> QED BY <1>3, <1>10, <2>1, ReserveEBStep DEF ScheduleWakeMAF
<1>12. idleWork' \in BOOLEAN
  BY Parts DEF ScheduleWakeMAF
<1> QED BY <1>3, <1>7, <1>9, <1>11, <1>12, PartsNext

(* A step of a process that has no evict buffer reservation before or     *)
(* after it, and moves no block.                                          *)
LEMMA EBNoneStep ==
  ASSUME IInv, NEW p \in Procs, NEW r \in Process,
         proc' = [proc EXCEPT ![p] = r], EBOwed(r) = 0, ebProc[p] = 0,
         UNCHANGED <<ebUsed, ebReserve, ebProc, ebMaf>>,
         ebPending' \in Nat, ebPending' <= ebUsed, ReadsReserved'
  PROVE  EBInv'
<1>1. ebReserve \in Nat /\ ebUsed \in Nat /\ ebUsed + ebReserve <= EBSize
      /\ ebProc \in [Procs -> Bit]
  BY Parts DEF EBInv, EBAccounting
<1>2. ebProc' = [ebProc EXCEPT ![p] = EBOwed(r)]
  BY <1>1
<1>3. ebReserve' = ebReserve + EBOwed(r) - ebProc[p]
  BY <1>1
<1> QED BY <1>1, <1>2, <1>3, Parts, EBStepProc

(* A CacheEvict process marks an evict buffer entry pending. *)
LEMMA ScheduleCacheEvictInv ==
  ASSUME IInv, NEW p \in Procs, ScheduleCacheEvict(p)
  PROVE  IInv'
<1> DEFINE r == NewProc("CacheEvict", None, None)
<1>1. /\ QueueInv' /\ r \in Process /\ proc' = [proc EXCEPT ![p] = r] /\ proc'[p] = r
      /\ ~ InMaf(p, {"Request"}) /\ ebProc[p] = 0
  BY StartFacts DEF ProcTypes, ScheduleCacheEvict
<1>2. r.stage = "Maf" /\ r.type = "CacheEvict" /\ r.entry = None /\ r.msg = None
  BY DEF NewProc
<1>3. maf' = maf /\ maf \in [Entries -> MafEntry]
  BY Parts DEF ScheduleCacheEvict, mafVars, OwnInv
<1> HIDE DEF r
<1>4. OwnEntry(p)'
  BY <1>1, <1>2 DEF OwnEntry, InMaf
<1>5. OwnInv'
  BY <1>1, <1>2, <1>3, <1>4, Parts, OwnStep
<1>6. MafInv'
  BY <1>1, <1>2, <1>3, Parts, MafKeep DEF ScheduleCacheEvict, mafVars, MafUsed
<1>7. ReadsReserved'
  BY <1>3, Parts DEF EBInv, ReadsReserved, ScheduleCacheEvict
<1>8. ebPending' \in Nat /\ ebPending' <= ebUsed
  <2>1. ebPending \in Nat /\ ebUsed \in Nat
    BY Parts DEF EBInv
  <2>2. ebPending' = ebPending + 1 /\ ~ (ebPending > 0) /\ ebUsed > 0
    BY DEF ScheduleCacheEvict, CanCacheEvict, FreeSlotsPending
  <2> QED BY <2>1, <2>2
<1>9. EBInv'
  <2>1. EBOwed(r) = 0
    BY <1>2 DEF EBOwed, EBTypes
  <2> QED BY <1>1, <1>7, <1>8, <2>1, EBNoneStep DEF ScheduleCacheEvict
<1>10. idleWork' \in BOOLEAN
  BY Parts DEF ScheduleCacheEvict
<1> QED BY <1>1, <1>5, <1>6, <1>9, <1>10, PartsNext

(* A reply takes an entry no other process works on, or none. *)
LEMMA ScheduleReplyInv ==
  ASSUME IInv, NEW p \in Procs, ScheduleReply(p)
  PROVE  IInv'
<1>1. PICK m \in Answers \cup {"EvictAck"}, e \in Entries \cup {None} :
        /\ Start(p, "Reply", m, e)
        /\ \/ m = "EvictAck" /\ e = None
           \/ /\ e \in Entries /\ maf[e].state = "WaitAck" /\ m \in Expected(e)
              /\ \A x \in Procs : proc[x].entry # e
  <2>1. CASE \E e \in Entries : \E m \in Expected(e) :
               /\ maf[e].state = "WaitAck"
               /\ \A x \in Procs : proc[x].entry # e
               /\ Start(p, "Reply", m, e)
    <3>1. PICK e \in Entries : \E m \in Expected(e) :
               /\ maf[e].state = "WaitAck"
               /\ \A x \in Procs : proc[x].entry # e
               /\ Start(p, "Reply", m, e)
      BY <2>1
    <3>2. Expected(e) \subseteq Answers
      BY DEF Expected, Answers
    <3> QED BY <3>1, <3>2
  <2>2. CASE Start(p, "Reply", "EvictAck", None)
    BY <2>2
  <2> QED BY <2>1, <2>2 DEF ScheduleReply
<1> DEFINE r == NewProc("Reply", m, e)
<1>2. /\ QueueInv' /\ r \in Process /\ proc' = [proc EXCEPT ![p] = r] /\ proc'[p] = r
      /\ ~ InMaf(p, {"Request"}) /\ ebProc[p] = 0
  BY <1>1, StartFacts DEF ProcTypes
<1>3. r.stage = "Maf" /\ r.type = "Reply" /\ r.entry = e /\ r.msg = m
  BY DEF NewProc
<1>4. maf' = maf /\ maf \in [Entries -> MafEntry] /\ ebMaf' = ebMaf
  BY Parts DEF ScheduleReply, mafVars, ebVars, OwnInv
<1> HIDE DEF r
<1>5. OwnEntry(p)'
  BY <1>1, <1>2, <1>3, <1>4 DEF OwnEntry, InMaf, Owned, Busy, Expected
<1>6. OwnInv'
  BY <1>1, <1>2, <1>3, <1>4, <1>5, Parts, OwnStep
<1>7. MafInv'
  BY <1>2, <1>3, <1>4, Parts, MafKeep DEF ScheduleReply, mafVars, MafUsed
<1>8. ReadsReserved'
  BY <1>4, Parts DEF EBInv, ReadsReserved
<1>9. EBInv'
  <2>1. EBOwed(r) = 0
    BY <1>3 DEF EBOwed, EBTypes
  <2>2. ebPending' \in Nat /\ ebPending' <= ebUsed
    BY Parts DEF ScheduleReply, ebVars, EBInv, EBAccounting
  <2> QED BY <1>2, <1>8, <2>1, <2>2, EBNoneStep DEF ScheduleReply, ebVars
<1>10. idleWork' \in BOOLEAN
  BY Parts DEF ScheduleReply
<1> QED BY <1>2, <1>6, <1>7, <1>9, <1>10, PartsNext

(* A request reserves an entry of the MAF and of the evict buffer. *)
LEMMA ScheduleRequestInv ==
  ASSUME IInv, NEW p \in Procs, ScheduleRequest(p)
  PROVE  IInv'
<1>1. PICK k \in Kinds : Start(p, "Request", k, None)
  BY DEF ScheduleRequest
<1> DEFINE r == NewProc("Request", k, None)
<1>2. /\ QueueInv' /\ r \in Process /\ proc' = [proc EXCEPT ![p] = r] /\ proc'[p] = r
      /\ ~ InMaf(p, {"Request"}) /\ ebProc[p] = 0
  BY <1>1, StartFacts DEF ProcTypes
<1>3. r.stage = "Maf" /\ r.type = "Request" /\ r.entry = None /\ r.msg = k
  BY DEF NewProc
<1>4. maf' = maf /\ maf \in [Entries -> MafEntry] /\ ebMaf' = ebMaf
  BY Parts DEF ScheduleRequest, ReserveEB, OwnInv
<1> HIDE DEF r
<1>5. OwnEntry(p)'
  BY <1>2, <1>3 DEF OwnEntry, InMaf
<1>6. OwnInv'
  BY <1>2, <1>3, <1>4, <1>5, Parts, OwnStep
<1>7. MafInv'
  BY <1>2, <1>3, <1>4, Parts, MafTake DEF ScheduleRequest
<1>8. ReadsReserved'
  BY <1>4, Parts DEF EBInv, ReadsReserved
<1>9. EBInv'
  <2>1. EBOwed(r) = 1
    BY <1>3 DEF EBOwed, EBTypes
  <2> QED BY <1>2, <1>8, <2>1, ReserveEBStep DEF ScheduleRequest
<1>10. idleWork' \in BOOLEAN
  BY Parts DEF ScheduleRequest
<1> QED BY <1>2, <1>6, <1>7, <1>9, <1>10, PartsNext

(* An IdleWork process reserves an entry of the evict buffer. *)
LEMMA ScheduleIdleWorkInv ==
  ASSUME IInv, NEW p \in Procs, ScheduleIdleWork(p)
  PROVE  IInv'
<1> DEFINE r == NewProc("IdleWork", None, None)
<1>1. /\ QueueInv' /\ r \in Process /\ proc' = [proc EXCEPT ![p] = r] /\ proc'[p] = r
      /\ ~ InMaf(p, {"Request"}) /\ ebProc[p] = 0
  BY StartFacts DEF ProcTypes, ScheduleIdleWork
<1>2. r.stage = "Maf" /\ r.type = "IdleWork" /\ r.entry = None /\ r.msg = None
  BY DEF NewProc
<1>3. maf' = maf /\ maf \in [Entries -> MafEntry] /\ ebMaf' = ebMaf
  BY Parts DEF ScheduleIdleWork, mafVars, ReserveEB, OwnInv
<1> HIDE DEF r
<1>4. OwnEntry(p)'
  BY <1>1, <1>2 DEF OwnEntry, InMaf
<1>5. OwnInv'
  BY <1>1, <1>2, <1>3, <1>4, Parts, OwnStep
<1>6. MafInv'
  BY <1>1, <1>2, <1>3, Parts, MafKeep DEF ScheduleIdleWork, mafVars, MafUsed
<1>7. ReadsReserved'
  BY <1>3, Parts DEF EBInv, ReadsReserved
<1>8. EBInv'
  <2>1. EBOwed(r) = 1
    BY <1>2 DEF EBOwed, EBTypes
  <2> QED BY <1>1, <1>7, <2>1, ReserveEBStep DEF ScheduleIdleWork
<1>9. idleWork' \in BOOLEAN
  BY DEF ScheduleIdleWork
<1> QED BY <1>1, <1>5, <1>6, <1>8, <1>9, PartsNext

-----------------------------------------------------------------------------
(* runRequestProcess and runWakeMAFProcess.                                *)

(* What a process in the MAF pipeline becomes. *)
LEMMA RanFacts ==
  ASSUME IInv, NEW p \in Procs, NEW action \in Actions, NEW n \in 0 .. MaxSnoops,
         NEW e \in Entries \cup {None}, Ran(p, action, n, e), proc[p].stage = "Maf",
         \/ proc[p].type \in {"Request", "WakeMAF"} /\ (n = 0 \/ action \in SnoopActions)
         \/ /\ proc[p].type = "Reply" \/ (proc[p].type = "IdleWork" /\ action \notin ReplyActions)
            /\ (n = 1 /\ action = "Forward") \/ action \notin SnoopActions
  PROVE  /\ QueueInv'
         /\ RunProc(proc[p], action, n, e) \in Process
         /\ proc' = [proc EXCEPT ![p] = RunProc(proc[p], action, n, e)]
         /\ proc'[p] = RunProc(proc[p], action, n, e)
<1>1. proc \in [Procs -> Process]
  BY Parts DEF OwnInv
<1>2. /\ RunProc(proc[p], action, n, e) \in Process
      /\ proc' = [proc EXCEPT ![p] = RunProc(proc[p], action, n, e)]
  BY <1>1, RanType
<1>3. n \in {0, 1, 2}
  BY DEF MaxSnoops
<1>4. ASSUME NEW q \in Queues
      PROVE  /\ GivenBack(proc[p].type, action, n)[q] \in Nat
             /\ Need(proc[p].type)[q] =
                  GivenBack(proc[p].type, action, n)[q] + Sent(action, n)[q]
  BY <1>3 DEF GivenBack, Need, Sent, Queues, SnoopActions, ReplyActions, MaxSnoops
<1>5. QueueInv'
  BY <1>4, Parts, RanQueue
<1> QED BY <1>1, <1>2, <1>5

RequestTypes == {"Request", "WakeMAF"}

(* The entry of a request is its own or free, and has no reservation. *)
LEMMA SlotFacts ==
  ASSUME IInv, NEW p \in Procs, InMaf(p, RequestTypes), NEW e \in Slots(p)
  PROVE  /\ e \in Entries
         /\ maf[e].state \in {"Free", "InPipeline"}
         /\ e = proc[p].entry \/ maf[e].state \notin Busy
         /\ proc[p].type = "WakeMAF" => e \in MafUsed
         /\ ebMaf[e] = 0
<1>1. OwnEntry(p) /\ maf \in [Entries -> MafEntry]
  BY Parts DEF OwnInv
<1>2. /\ e \in Entries
      /\ maf[e].state \in {"Free", "InPipeline"}
      /\ e = proc[p].entry \/ maf[e].state \notin Busy
      /\ proc[p].type = "WakeMAF" => e \in MafUsed
  BY <1>1 DEF Slots, InMaf, RequestTypes, OwnEntry, Owned, MafUsed, Busy
<1>3. ebMaf[e] = 0
  BY <1>2, Parts DEF EBInv, ReadsReserved, Bit
<1> QED BY <1>2, <1>3

(* The process inserts its request, or sets the state of its entry. *)
LEMMA RequestEntry ==
  ASSUME IInv, NEW p \in Procs, InMaf(p, RequestTypes), UnreserveMaf(p),
         NEW r \in Process, proc' = [proc EXCEPT ![p] = r], r.stage = "Run",
         NEW e \in Slots(p), NEW E \in MafEntry, maf' = [maf EXCEPT ![e] = E],
         r.entry = None \/ (r.entry = e /\ E.state = "WaitAck"),
         r.action \notin {"WakeEvictMAF", "ReplyAndRemoveMAF", "RemoveAndWakeMAF"}
  PROVE  OwnInv' /\ MafInv'
<1>1. /\ e \in Entries /\ (e = proc[p].entry \/ maf[e].state \notin Busy)
      /\ proc[p].type = "WakeMAF" => e \in MafUsed
  BY SlotFacts
<1>2. maf \in [Entries -> MafEntry] /\ proc \in [Procs -> Process]
  BY Parts DEF OwnInv
<1>3. maf' \in [Entries -> MafEntry] /\ \A x \in Entries : x # e => maf'[x] = maf[x]
  BY <1>1, <1>2
<1>4. e \in Entries /\ maf'[e] = E /\ proc'[p] = r
  BY <1>2, SlotFacts
<1>5. OwnEntry(p)'
  BY <1>4 DEF OwnEntry, InMaf, Owned, Busy
<1>6. OwnInv'
  BY <1>1, <1>3, <1>4, <1>5, Parts, OwnStep
<1>7. MafUsed' \subseteq MafUsed \cup {e}
  BY <1>3 DEF MafUsed
<1>8. MafInv'
  <2>1. CASE proc[p].type = "Request"
    BY <2>1, <1>7, Parts, MafGive DEF InMaf
  <2>2. CASE proc[p].type = "WakeMAF"
    <3>1. MafUsed' \subseteq MafUsed
      BY <2>2, <1>1, <1>7
    <3>2. UNCHANGED <<mafHeld, mafReserve>>
      BY <2>2 DEF UnreserveMaf
    <3> QED BY <2>2, <3>1, <3>2, Parts, MafKeep DEF InMaf
  <2> QED BY <2>1, <2>2 DEF InMaf, RequestTypes
<1> QED BY <1>6, <1>8

(* The MAF stays as it is. *)
LEMMA RequestNoEntry ==
  ASSUME IInv, NEW p \in Procs, InMaf(p, RequestTypes), UnreserveMaf(p),
         NEW r \in Process, proc' = [proc EXCEPT ![p] = r], r.stage = "Run",
         maf' = maf, r.entry \in {None, proc[p].entry},
         r.action \notin {"WakeEvictMAF", "ReplyAndRemoveMAF", "RemoveAndWakeMAF"}
  PROVE  OwnInv' /\ MafInv'
<1>1. maf \in [Entries -> MafEntry] /\ proc \in [Procs -> Process] /\ OwnEntry(p)
  BY Parts DEF OwnInv
<1>2. proc'[p] = r
  BY <1>1
<1>3. OwnEntry(p)'
  BY <1>1, <1>2 DEF OwnEntry, InMaf, Owned
<1>4. OwnInv'
  BY <1>1, <1>3, Parts, OwnStep
<1>5. MafUsed' = MafUsed
  BY DEF MafUsed
<1>6. MafInv'
  <2>1. CASE proc[p].type = "Request"
    <3>1. MafUsed' \subseteq MafUsed \cup {None}
      BY <1>5
    <3> QED BY <2>1, <3>1, Parts, MafGive DEF InMaf
  <2>2. CASE proc[p].type = "WakeMAF"
    <3>1. UNCHANGED <<mafHeld, mafReserve>>
      BY <2>2 DEF UnreserveMaf
    <3> QED BY <2>2, <1>5, <3>1, Parts, MafKeep DEF InMaf
  <2> QED BY <2>1, <2>2 DEF InMaf, RequestTypes
<1> QED BY <1>4, <1>6

(* Blocks move, and the reservation of the process is given back. *)
LEMMA RequestEB ==
  ASSUME IInv, NEW p \in Procs, InMaf(p, EBTypes),
         NEW r \in Process, proc' = [proc EXCEPT ![p] = r], r.stage = "Run",
         UnreserveEB(p, ebProc[p]), ebMaf' = ebMaf, ReadsReserved',
         ebUsed' \in Nat, ebPending' \in Nat, ebPending' <= ebUsed', ebUsed' <= ebUsed + 1
  PROVE  EBInv'
<1>1. ebReserve \in Nat /\ ebUsed \in Nat /\ ebUsed + ebReserve <= EBSize
  BY Parts DEF EBInv, EBAccounting
<1>2. ebProc[p] = 1
  BY Parts DEF EBInv, HoldsEB, InMaf, EBTypes
<1>3. EBOwed(r) = 0
  BY DEF EBOwed
<1>4. ebProc' = [ebProc EXCEPT ![p] = EBOwed(r)] /\ ebReserve' = ebReserve - 1
  BY <1>2, <1>3 DEF UnreserveEB
<1>5. ebReserve' = ebReserve + EBOwed(r) - ebProc[p]
  BY <1>1, <1>2, <1>3, <1>4
<1>6. ebUsed' + ebReserve' <= EBSize
  <2>1. \A a, b, c, s \in Int : a <= b + 1 /\ b + c <= s => a + (c - 1) <= s
    OBVIOUS
  <2>2. ebUsed' \in Int /\ ebUsed \in Int /\ ebReserve \in Int /\ EBSize \in Int
    BY <1>1, SizesAssumption
  <2>3. ebUsed' <= ebUsed + 1 /\ ebUsed + ebReserve <= EBSize
    BY <1>1
  <2>4. ebUsed' + (ebReserve - 1) <= EBSize
    BY <2>1, <2>2, <2>3, Zenon
  <2> QED BY <1>4, <2>4
<1> QED BY <1>4, <1>5, <1>6, Parts, EBStepProc

(* At most one block leaves the evict buffer and one enters it. *)
LEMMA EBMoveFacts ==
  ASSUME IInv, NEW out \in Bit, NEW outPending \in Bit, NEW in \in Bit,
         out + outPending <= 1, EBMove(out, outPending, in)
  PROVE  /\ ebUsed' \in Nat /\ ebPending' \in Nat /\ ebPending' <= ebUsed'
         /\ ebUsed' <= ebUsed + in
         /\ out + outPending = 1 => ebUsed' <= ebUsed
<1>1. ebUsed \in Nat /\ ebPending \in Nat /\ ebPending <= ebUsed
  BY Parts DEF EBInv, EBAccounting
<1> QED BY <1>1 DEF EBMove, Bit

(* Bringing a block back never makes the evict buffer fuller. *)
LEMMA PullBackFacts ==
  ASSUME IInv, PullBack
  PROVE  /\ ebUsed' \in Nat /\ ebPending' \in Nat /\ ebPending' <= ebUsed'
         /\ ebUsed' <= ebUsed
<1>1. ebUsed \in Nat /\ ebPending \in Nat /\ ebPending <= ebUsed
  BY Parts DEF EBInv, EBAccounting
<1> QED BY <1>1 DEF PullBack, EBMove, Bit

(* Requests that leave nothing reserved for later. *)
LEMMA RequestStep ==
  ASSUME IInv, NEW p \in Procs, InMaf(p, RequestTypes), UnreserveMaf(p),
         UNCHANGED idleWork,
         NEW action \in Actions, NEW n \in 0 .. MaxSnoops, n = 0 \/ action \in SnoopActions,
         action \notin {"WakeEvictMAF", "ReplyAndRemoveMAF", "RemoveAndWakeMAF"},
         NEW e \in Slots(p), NEW E \in MafEntry, maf' = [maf EXCEPT ![e] = E],
         NEW x \in {None, e}, x = None \/ E.state = "WaitAck", Ran(p, action, n, x),
         E.state = "WaitAck" => E.expects = "Ack" \/ (E.expects = "Mem" /\ E.kind # "Read"),
         UnreserveEB(p, ebProc[p]), ebMaf' = ebMaf, PullBack
  PROVE  IInv'
<1> DEFINE r == RunProc(proc[p], action, n, x)
<1>1. /\ e \in Entries /\ ebMaf[e] = 0
      /\ proc[p].stage = "Maf" /\ proc[p].type \in {"Request", "WakeMAF"}
  BY SlotFacts DEF InMaf, RequestTypes
<1>2. QueueInv' /\ r \in Process /\ proc' = [proc EXCEPT ![p] = r]
  BY <1>1, RanFacts
<1>3. r.stage = "Run" /\ r.entry = x /\ r.action = action
  BY DEF RunProc
<1> HIDE DEF r
<1>4. OwnInv' /\ MafInv'
  BY <1>2, <1>3, RequestEntry
<1>5. ReadsReserved'
  <2>1. maf \in [Entries -> MafEntry] /\ ReadsReserved
    BY Parts DEF OwnInv, EBInv
  <2>2. maf'[e] = E /\ \A y \in Entries : y # e => maf'[y] = maf[y]
    BY <1>1, <2>1
  <2> QED BY <1>1, <2>1, <2>2 DEF ReadsReserved
<1>6. EBInv'
  <2>1. InMaf(p, EBTypes)
    BY <1>1 DEF InMaf, EBTypes
  <2>2. /\ ebUsed' \in Nat /\ ebPending' \in Nat /\ ebPending' <= ebUsed'
        /\ ebUsed' <= ebUsed + 1
    <3>1. ebUsed \in Nat
      BY Parts DEF EBInv
    <3>2. ebUsed' \in Nat /\ ebPending' \in Nat /\ ebPending' <= ebUsed' /\ ebUsed' <= ebUsed
      BY PullBackFacts
    <3> QED BY <3>1, <3>2
  <2> QED BY <1>2, <1>3, <1>5, <2>1, <2>2, RequestEB
<1>7. idleWork' \in BOOLEAN
  BY Parts
<1> QED BY <1>2, <1>4, <1>6, <1>7, PartsNext

(* A request that waits behind another one, or for a write-back. *)
LEMMA StalledInv ==
  ASSUME IInv, NEW p \in Procs, InMaf(p, RequestTypes), UnreserveMaf(p),
         UNCHANGED idleWork, Stalled(p)
  PROVE  IInv'
<1>1. PICK e \in Slots(p), st \in {"WaitRequest", "WaitEvict"} :
        /\ maf' = [maf EXCEPT ![e] = Entry(st, proc[p].msg, None)]
        /\ Ran(p, "Stall", 0, None)
  BY DEF Stalled
<1> DEFINE E == Entry(st, proc[p].msg, None)
<1>2. proc[p].msg \in Kinds \cup {None}
  BY Parts DEF OwnInv, OwnEntry, InMaf, RequestTypes
<1>3. E \in MafEntry /\ E.state # "WaitAck"
  BY <1>2 DEF Entry, MafEntry
<1>4. "Stall" \in Actions /\ 0 \in 0 .. MaxSnoops
  BY DEF Actions, MaxSnoops
<1>5. UnreserveEB(p, ebProc[p]) /\ ebMaf' = ebMaf /\ PullBack
  BY DEF Stalled
<1>6. None \in {None, e} /\ maf' = [maf EXCEPT ![e] = E]
  BY <1>1
<1> HIDE DEF E
<1> QED BY <1>1, <1>3, <1>4, <1>5, <1>6, RequestStep

(* A write that notifies its L1 and invalidates the sharers. *)
LEMMA WriteNotifiedInv ==
  ASSUME IInv, NEW p \in Procs, InMaf(p, RequestTypes), UnreserveMaf(p),
         UNCHANGED idleWork, WriteNotified(p)
  PROVE  IInv'
<1>1. PICK e \in Slots(p), w \in {"Mem", "Ack"}, n \in 1 .. MaxSnoops :
        /\ maf' = [maf EXCEPT ![e] = Entry("WaitAck", "Write", w)]
        /\ Ran(p, "NotifyAndWaitAck", n, e)
  BY DEF WriteNotified
<1> DEFINE E == Entry("WaitAck", "Write", w)
<1>2. E \in MafEntry /\ E.state = "WaitAck" /\ E.expects \in {"Mem", "Ack"} /\ E.kind = "Write"
  BY DEF Entry, MafEntry, Kinds
<1>3. "NotifyAndWaitAck" \in Actions /\ "NotifyAndWaitAck" \in SnoopActions
      /\ n \in 0 .. MaxSnoops
  BY DEF Actions, SnoopActions, MaxSnoops
<1>4. UnreserveEB(p, ebProc[p]) /\ ebMaf' = ebMaf /\ PullBack
  BY DEF WriteNotified
<1>5. e \in {None, e} /\ maf' = [maf EXCEPT ![e] = E]
  BY <1>1
<1> HIDE DEF E
<1> QED BY <1>1, <1>2, <1>3, <1>4, <1>5, RequestStep

(* A non-allocating store sent to memory. *)
LEMMA NasForwardedInv ==
  ASSUME IInv, NEW p \in Procs, InMaf(p, RequestTypes), UnreserveMaf(p),
         UNCHANGED idleWork, NasForwarded(p)
  PROVE  IInv'
<1>1. PICK e \in Slots(p) :
        /\ maf' = [maf EXCEPT ![e] = Entry("WaitAck", "NAS", "Mem")]
        /\ Ran(p, "FwdAndWaitAck", 1, e)
  BY DEF NasForwarded
<1> DEFINE E == Entry("WaitAck", "NAS", "Mem")
<1>2. E \in MafEntry /\ E.state = "WaitAck" /\ E.expects = "Mem" /\ E.kind = "NAS"
  BY DEF Entry, MafEntry, Kinds
<1>3. "FwdAndWaitAck" \in Actions /\ "FwdAndWaitAck" \in SnoopActions /\ 1 \in 0 .. MaxSnoops
  BY DEF Actions, SnoopActions, MaxSnoops
<1>4. UnreserveEB(p, ebProc[p]) /\ ebMaf' = ebMaf /\ PullBack
  BY DEF NasForwarded
<1>5. e \in {None, e} /\ maf' = [maf EXCEPT ![e] = E]
  BY <1>1
<1> HIDE DEF E
<1> QED BY <1>1, <1>2, <1>3, <1>4, <1>5, RequestStep

(* A request answered from the array. *)
LEMMA AnsweredInv ==
  ASSUME IInv, NEW p \in Procs, InMaf(p, RequestTypes), UnreserveMaf(p),
         UNCHANGED idleWork, Answered(p)
  PROVE  IInv'
<1>1. PICK e \in Slots(p) :
        /\ maf' = [maf EXCEPT ![e] = Entry("WaitAck", proc[p].msg, "Ack")]
        /\ Ran(p, "Reply", 0, e)
  BY DEF Answered
<1> DEFINE E == Entry("WaitAck", proc[p].msg, "Ack")
<1>2. proc[p].msg \in Kinds \cup {None}
  BY Parts DEF OwnInv, OwnEntry, InMaf, RequestTypes
<1>3. E \in MafEntry /\ E.state = "WaitAck" /\ E.expects = "Ack"
  BY <1>2 DEF Entry, MafEntry
<1>4. "Reply" \in Actions /\ 0 \in 0 .. MaxSnoops
  BY DEF Actions, MaxSnoops
<1>5. UnreserveEB(p, ebProc[p]) /\ ebMaf' = ebMaf /\ PullBack
  BY DEF Answered
<1>6. e \in {None, e} /\ maf' = [maf EXCEPT ![e] = E]
  BY <1>1
<1> HIDE DEF E
<1> QED BY <1>1, <1>3, <1>4, <1>5, <1>6, RequestStep

(* The reservation moves from the process to the MAF entry. *)
LEMMA ReadForwardedInv ==
  ASSUME IInv, NEW p \in Procs, InMaf(p, RequestTypes), UnreserveMaf(p),
         UNCHANGED idleWork, ReadForwarded(p)
  PROVE  IInv'
<1>1. PICK e \in Slots(p), w \in {"Fwd", "Mem"} :
        /\ maf' = [maf EXCEPT ![e] = Entry("WaitAck", "Read", w)]
        /\ Ran(p, "FwdAndWaitAck", 1, e)
        /\ ebMaf' = [ebMaf EXCEPT ![e] = ebProc[p]]
  BY DEF ReadForwarded
<1> DEFINE E == Entry("WaitAck", "Read", w)
           r == RunProc(proc[p], "FwdAndWaitAck", 1, e)
<1>2. E \in MafEntry /\ E.state = "WaitAck" /\ E.expects = w /\ E.kind = "Read"
  BY DEF Entry, MafEntry, Kinds
<1>3. /\ e \in Entries /\ ebMaf[e] = 0
      /\ proc[p].stage = "Maf" /\ proc[p].type \in {"Request", "WakeMAF"}
  BY SlotFacts DEF InMaf, RequestTypes
<1>4. QueueInv' /\ r \in Process /\ proc' = [proc EXCEPT ![p] = r]
  <2>1. "FwdAndWaitAck" \in Actions /\ "FwdAndWaitAck" \in SnoopActions /\ 1 \in 0 .. MaxSnoops
    BY DEF Actions, SnoopActions, MaxSnoops
  <2> QED BY <1>1, <1>3, <2>1, RanFacts
<1>5. r.stage = "Run" /\ r.entry = e /\ r.action = "FwdAndWaitAck"
  BY DEF RunProc
<1>6. maf' = [maf EXCEPT ![e] = E]
  BY <1>1
<1> HIDE DEF r, E
<1>7. OwnInv' /\ MafInv'
  BY <1>2, <1>4, <1>5, <1>6, RequestEntry
<1>8. ebProc[p] = 1 /\ ebMaf \in [Entries -> Bit] /\ ebProc \in [Procs -> Bit]
  BY <1>3, Parts DEF EBInv, HoldsEB, InMaf
<1>9. ReadsReserved'
  <2>1. maf \in [Entries -> MafEntry] /\ ReadsReserved
    BY Parts DEF OwnInv, EBInv
  <2>2. maf'[e] = E /\ \A y \in Entries : y # e => maf'[y] = maf[y] /\ ebMaf'[y] = ebMaf[y]
    BY <1>1, <1>3, <1>6, <1>8, <2>1
  <2>3. ebMaf'[e] = 1
    BY <1>1, <1>3, <1>8
  <2> QED BY <1>2, <2>1, <2>2, <2>3 DEF ReadsReserved, None
<1>10. EBInv'
  <2>1. 1 \in Bit /\ EBOwed(r) = 0
    BY <1>5 DEF Bit, EBOwed
  <2>2. Total(ebMaf) \in Nat /\ Total(ebMaf') = Total(ebMaf) + 1 - ebMaf[e]
    <3>1. ebMaf' = [ebMaf EXCEPT ![e] = 1]
      BY <1>1, <1>8
    <3>2. IsFiniteSet(Entries)
      BY EntriesAssumption
    <3>3. /\ Total(ebMaf) \in Nat
          /\ Total([ebMaf EXCEPT ![e] = 1]) = Total(ebMaf) + 1 - ebMaf[e]
      BY <1>3, <1>8, <2>1, <3>2, BitTotal, Zenon
    <3> QED BY <3>1, <3>3, Zenon
  <2>3. Total(ebMaf') = Total(ebMaf) + 1
    BY <1>3, <2>2
  <2>4. ebMaf' \in [Entries -> Bit]
    BY <1>1, <1>8, <2>1
  <2>5. ebProc' = [ebProc EXCEPT ![p] = EBOwed(r)]
    BY <2>1 DEF ReadForwarded
  <2>6. ebReserve' = ebReserve /\ ebReserve \in Nat /\ ebUsed \in Nat
        /\ ebUsed + ebReserve <= EBSize
    BY Parts DEF ReadForwarded, EBInv, EBAccounting
  <2>7. ebReserve' = ebReserve + EBOwed(r) - ebProc[p] + 1
    BY <1>8, <2>1, <2>6
  <2>8. ebUsed' \in Nat /\ ebPending' \in Nat /\ ebPending' <= ebUsed' /\ ebUsed' <= ebUsed
    BY PullBackFacts DEF ReadForwarded
  <2>9. ebUsed' + ebReserve' <= EBSize
    <3>1. \A a, b, c, s \in Nat : a <= b /\ b + c <= s => a + c <= s
      OBVIOUS
    <3>2. EBSize \in Nat
      BY SizesAssumption
    <3> QED BY <2>6, <2>8, <3>1, <3>2, Zenon
  <2>10. 1 \in Int
    OBVIOUS
  <2> QED BY <1>4, <1>9, <2>3, <2>4, <2>5, <2>7, <2>8, <2>9, <2>10, Parts, EBStep
<1>11. idleWork' \in BOOLEAN
  BY Parts
<1> QED BY <1>4, <1>7, <1>10, <1>11, PartsNext

(* A repeated fetch: a woken one removes its entry. *)
LEMMA FetchDroppedInv ==
  ASSUME IInv, NEW p \in Procs, InMaf(p, RequestTypes), UnreserveMaf(p),
         UNCHANGED idleWork, FetchDropped(p)
  PROVE  IInv'
<1> DEFINE r == RunProc(proc[p], "NoAction", 0, None)
<1>1. proc[p].stage = "Maf" /\ proc[p].type \in {"Request", "WakeMAF"}
  BY DEF InMaf, RequestTypes
<1>2. QueueInv' /\ r \in Process /\ proc' = [proc EXCEPT ![p] = r]
  <2>1. "NoAction" \in Actions /\ 0 \in 0 .. MaxSnoops /\ Ran(p, "NoAction", 0, None)
    BY DEF Actions, MaxSnoops, FetchDropped
  <2> QED BY <1>1, <2>1, RanFacts
<1>3. r.stage = "Run" /\ r.entry = None /\ r.action = "NoAction"
  BY DEF RunProc
<1> HIDE DEF r
<1>4. NoEntry \in MafEntry /\ NoEntry.state = "Free"
  BY DEF NoEntry, MafEntry
<1>5. OwnInv' /\ MafInv' /\ ReadsReserved'
  <2>0. maf \in [Entries -> MafEntry] /\ ReadsReserved /\ ebMaf' = ebMaf
    BY Parts DEF OwnInv, EBInv, FetchDropped
  <2>1. CASE proc[p].type = "Request"
    <3>1. maf' = maf
      BY <2>1 DEF FetchDropped
    <3>2. OwnInv' /\ MafInv'
      BY <1>2, <1>3, <3>1, RequestNoEntry
    <3>3. ReadsReserved'
      BY <2>0, <3>1 DEF ReadsReserved
    <3> QED BY <3>2, <3>3
  <2>2. CASE proc[p].type = "WakeMAF"
    <3> DEFINE e == proc[p].entry
    <3>1. e \in Slots(p) /\ maf' = [maf EXCEPT ![e] = NoEntry]
      BY <2>2 DEF FetchDropped, Slots
    <3> HIDE DEF e
    <3>2. e \in Entries /\ ebMaf[e] = 0
      BY <3>1, SlotFacts
    <3>3. OwnInv' /\ MafInv'
      BY <1>2, <1>3, <1>4, <3>1, RequestEntry
    <3>4. maf'[e] = NoEntry /\ \A y \in Entries : y # e => maf'[y] = maf[y]
      BY <2>0, <3>1, <3>2
    <3>5. ReadsReserved'
      BY <1>4, <2>0, <3>2, <3>4 DEF ReadsReserved
    <3> QED BY <3>3, <3>5
  <2> QED BY <1>1, <2>1, <2>2
<1>6. EBInv'
  <2>1. InMaf(p, EBTypes)
    BY <1>1 DEF InMaf, EBTypes
  <2>2. /\ ebUsed' \in Nat /\ ebPending' \in Nat /\ ebPending' <= ebUsed'
        /\ ebUsed' <= ebUsed + 1
    BY Parts DEF EBInv, EBAccounting, FetchDropped
  <2> QED BY <1>2, <1>3, <1>5, <2>1, <2>2, RequestEB DEF FetchDropped
<1>7. idleWork' \in BOOLEAN
  BY Parts
<1> QED BY <1>2, <1>5, <1>6, <1>7, PartsNext

(* An evict of an L1, which may bring a victim into the evict buffer. *)
LEMMA EvictedInv ==
  ASSUME IInv, NEW p \in Procs, InMaf(p, RequestTypes), UnreserveMaf(p),
         UNCHANGED idleWork, Evicted(p)
  PROVE  IInv'
<1> DEFINE r == RunProc(proc[p], "Forward", 1, proc[p].entry)
<1>1. proc[p].stage = "Maf" /\ proc[p].type \in {"Request", "WakeMAF"}
  BY DEF InMaf, RequestTypes
<1>2. proc[p].entry \in Entries \cup {None}
  BY Parts DEF OwnInv, Process
<1>3. QueueInv' /\ r \in Process /\ proc' = [proc EXCEPT ![p] = r]
  <2>1. "Forward" \in Actions /\ "Forward" \in SnoopActions /\ 1 \in 0 .. MaxSnoops
        /\ Ran(p, "Forward", 1, proc[p].entry)
    BY DEF Actions, SnoopActions, MaxSnoops, Evicted
  <2> QED BY <1>1, <1>2, <2>1, RanFacts
<1>4. r.stage = "Run" /\ r.entry = proc[p].entry /\ r.action = "Forward"
  BY DEF RunProc
<1>5. maf' = maf /\ ebMaf' = ebMaf
  BY DEF Evicted
<1> HIDE DEF r
<1>6. OwnInv' /\ MafInv'
  BY <1>3, <1>4, <1>5, RequestNoEntry
<1>7. ReadsReserved'
  BY <1>5, Parts DEF EBInv, ReadsReserved
<1>8. EBInv'
  <2>1. InMaf(p, EBTypes)
    BY <1>1 DEF InMaf, EBTypes
  <2>2. PICK out \in Bit, outPending \in Bit, in \in Bit :
          out + outPending <= 1 /\ EBMove(out, outPending, in)
    BY DEF Evicted
  <2>3. /\ ebUsed' \in Nat /\ ebPending' \in Nat /\ ebPending' <= ebUsed'
        /\ ebUsed' <= ebUsed + in
    BY <2>2, EBMoveFacts
  <2>4. ebUsed' <= ebUsed + 1
    <3>1. ebUsed \in Nat /\ in \in {0, 1}
      BY Parts DEF EBInv, Bit
    <3> QED BY <2>3, <3>1
  <2> QED BY <1>3, <1>4, <1>5, <1>7, <2>1, <2>3, <2>4, RequestEB DEF Evicted
<1>9. idleWork' \in BOOLEAN
  BY Parts
<1> QED BY <1>3, <1>6, <1>8, <1>9, PartsNext

(* Every outcome of doRequest. *)
LEMMA RunRequestInv ==
  ASSUME IInv, NEW p \in Procs, RunRequest(p)
  PROVE  IInv'
<1>1. InMaf(p, RequestTypes) /\ UnreserveMaf(p) /\ UNCHANGED idleWork
  BY DEF RunRequest, InMaf, RequestTypes
<1> QED BY <1>1, StalledInv, ReadForwardedInv, FetchDroppedInv, WriteNotifiedInv,
           NasForwardedInv, AnsweredInv, EvictedInv DEF RunRequest

-----------------------------------------------------------------------------
(* runReplyProcess.                                                        *)

(* An answer finds its MAF entry still waiting for it. *)
LEMMA AnswerFacts ==
  ASSUME IInv, NEW p \in Procs, InMaf(p, {"Reply"}), proc[p].msg # "EvictAck"
  PROVE  /\ proc[p].entry \in Entries
         /\ maf[proc[p].entry].state = "WaitAck"
         /\ proc[p].msg \in Expected(proc[p].entry)
         /\ ebMaf[proc[p].entry] \in {0, 1}
<1>1. OwnEntry(p) /\ ebMaf \in [Entries -> Bit]
  BY Parts DEF OwnInv, EBInv
<1> QED BY <1>1 DEF OwnEntry, Owned, Bit

(* A reply has reserved no entry of the evict buffer or of the MAF. *)
LEMMA ReplyHoldsNoEB ==
  ASSUME IInv, NEW p \in Procs, InMaf(p, {"Reply"})
  PROVE  ebProc[p] = 0 /\ ~ InMaf(p, {"Request"})
BY Parts DEF EBInv, HoldsEB, InMaf

(* The process may change what its entry expects, nothing else of the MAF. *)
LEMMA ReplyEntry ==
  ASSUME IInv, NEW p \in Procs, InMaf(p, {"Reply"}), proc[p].msg # "EvictAck",
         NEW r \in Process, proc' = [proc EXCEPT ![p] = r], r.stage = "Run",
         r.entry = proc[p].entry, r.action # "WakeEvictMAF",
         UNCHANGED <<mafHeld, mafReserve>>,
         NEW w \in {None, "Fwd", "Mem", "Ack"},
         maf' = [maf EXCEPT ![proc[p].entry].expects = w],
         r.action \in {"ReplyAndRemoveMAF", "RemoveAndWakeMAF"} => w = None
  PROVE  OwnInv' /\ MafInv'
<1> DEFINE e == proc[p].entry
<1>1. e \in Entries /\ maf[e].state = "WaitAck"
  BY AnswerFacts
<1>2. maf \in [Entries -> MafEntry] /\ proc \in [Procs -> Process]
  BY Parts DEF OwnInv
<1>3. maf' \in [Entries -> MafEntry] /\ maf'[e].state = "WaitAck" /\ maf'[e].expects = w
      /\ \A x \in Entries : x # e => maf'[x] = maf[x]
  BY <1>1, <1>2 DEF MafEntry
<1>4. proc'[p] = r
  BY <1>2
<1> HIDE DEF e
<1>5. r.entry = e
  BY DEF e
<1>6. OwnEntry(p)'
  BY <1>1, <1>3, <1>4, <1>5 DEF OwnEntry, InMaf, Owned, Busy
<1>7. OwnInv'
  BY <1>3, <1>6, Parts, OwnStep DEF e
<1>8. MafUsed' \subseteq MafUsed
  BY <1>1, <1>3 DEF MafUsed
<1>9. MafInv'
  BY <1>8, Parts, MafKeep, ReplyHoldsNoEB
<1> QED BY <1>7, <1>9

(* The reservation of the entry is given back; the fill may have used it. *)
LEMMA ReplyTakesEB ==
  ASSUME IInv, NEW p \in Procs, InMaf(p, {"Reply"}),
         NEW r \in Process, proc' = [proc EXCEPT ![p] = r], r.stage = "Run",
         NEW e \in Entries, UnreserveEB(p, ebProc[p] + ebMaf[e]),
         ebMaf' = [ebMaf EXCEPT ![e] = 0], ReadsReserved',
         ebUsed' \in Nat, ebPending' \in Nat, ebPending' <= ebUsed',
         ebUsed' <= ebUsed + ebMaf[e]
  PROVE  EBInv'
<1>1. ebProc[p] = 0 /\ ebMaf \in [Entries -> Bit] /\ ebMaf[e] \in Int /\ 0 \in Bit
      /\ EBOwed(r) = 0
  BY Parts, ReplyHoldsNoEB DEF EBInv, Bit, EBOwed
<1>2. ebReserve \in Nat /\ ebUsed \in Nat /\ ebUsed + ebReserve <= EBSize /\ EBSize \in Nat
  BY Parts, SizesAssumption DEF EBInv, EBAccounting
<1>3. Total(ebMaf) \in Nat /\ Total(ebMaf') = Total(ebMaf) + 0 - ebMaf[e]
  <2>1. IsFiniteSet(Entries)
    BY EntriesAssumption
  <2>2. Total(ebMaf) \in Nat /\ Total([ebMaf EXCEPT ![e] = 0]) = Total(ebMaf) + 0 - ebMaf[e]
    BY <1>1, <2>1, BitTotal, Zenon
  <2> QED BY <2>2, Zenon
<1>4. Total(ebMaf') = Total(ebMaf) + (0 - ebMaf[e]) /\ 0 - ebMaf[e] \in Int
  BY <1>1, <1>3
<1>5. ebReserve' = ebReserve - ebMaf[e] /\ ebProc' = [ebProc EXCEPT ![p] = EBOwed(r)]
  BY <1>1 DEF UnreserveEB
<1>6. ebReserve' = ebReserve + EBOwed(r) - ebProc[p] + (0 - ebMaf[e])
  BY <1>1, <1>2, <1>5
<1>7. ebUsed' + ebReserve' <= EBSize
  <2>1. \A a, b, c, s \in Nat, k \in Int : a <= b + k /\ b + c <= s => a + (c - k) <= s
    OBVIOUS
  <2> QED BY <1>1, <1>2, <1>5, <2>1, Zenon
<1>8. ebMaf' \in [Entries -> Bit]
  BY <1>1
<1> QED BY <1>4, <1>5, <1>6, <1>7, <1>8, Parts, EBStep

(* The reservation stays with the entry, if it has one. *)
LEMMA ReplyLeavesEB ==
  ASSUME IInv, NEW p \in Procs, InMaf(p, {"Reply"}),
         NEW r \in Process, proc' = [proc EXCEPT ![p] = r], r.stage = "Run",
         UnreserveEB(p, ebProc[p]) \/ UNCHANGED <<ebReserve, ebProc>>,
         ebMaf' = ebMaf, ReadsReserved',
         ebUsed' \in Nat, ebPending' \in Nat, ebPending' <= ebUsed', ebUsed' <= ebUsed
  PROVE  EBInv'
<1>1. ebProc[p] = 0 /\ EBOwed(r) = 0 /\ ebProc \in [Procs -> Bit]
  BY Parts, ReplyHoldsNoEB DEF EBInv, EBOwed
<1>2. ebReserve \in Nat /\ ebUsed \in Nat /\ ebUsed + ebReserve <= EBSize /\ EBSize \in Nat
  BY Parts, SizesAssumption DEF EBInv, EBAccounting
<1>3. ebReserve' = ebReserve /\ ebProc' = [ebProc EXCEPT ![p] = EBOwed(r)]
  BY <1>1, <1>2 DEF UnreserveEB
<1>4. ebReserve' = ebReserve + EBOwed(r) - ebProc[p]
  BY <1>1, <1>2, <1>3
<1>5. ebUsed' + ebReserve' <= EBSize
  <2>1. \A a, b, c, s \in Nat : a <= b /\ b + c <= s => a + c <= s
    OBVIOUS
  <2> QED BY <1>2, <1>3, <2>1, Zenon
<1> QED BY <1>3, <1>4, <1>5, Parts, EBStepProc

(* What a new expectation does to the MAF. *)
LEMMA ExpectsStep ==
  ASSUME IInv, NEW e \in Entries, NEW w \in {None, "Fwd", "Mem", "Ack"},
         maf' = [maf EXCEPT ![e].expects = w]
  PROVE  /\ \A y \in Entries : y # e => maf'[y] = maf[y]
         /\ maf'[e].expects = w
         /\ maf'[e].kind = maf[e].kind
         /\ maf'[e].state = maf[e].state
<1>1. maf \in [Entries -> MafEntry]
  BY Parts DEF OwnInv
<1> QED BY <1>1 DEF MafEntry

(* An entry whose answer has come keeps no reservation. *)
LEMMA ReadsStep ==
  ASSUME IInv, NEW e \in Entries, NEW w \in {None, "Ack"},
         maf' = [maf EXCEPT ![e].expects = w],
         ebMaf' = [ebMaf EXCEPT ![e] = 0]
  PROVE  ReadsReserved'
<1>1. ebMaf \in [Entries -> Bit] /\ ReadsReserved
  BY Parts DEF EBInv
<1>2. (\A y \in Entries : y # e => maf'[y] = maf[y]) /\ maf'[e].expects = w
  <2>1. w \in {None, "Fwd", "Mem", "Ack"}
    OBVIOUS
  <2> QED BY <2>1, ExpectsStep
<1>3. ebMaf'[e] = 0 /\ \A y \in Entries : y # e => ebMaf'[y] = ebMaf[y]
  BY <1>1
<1>4. ASSUME NEW y \in Entries
      PROVE  /\ ebMaf'[y] = 1 => /\ maf'[y].state = "WaitAck" /\ maf'[y].kind = "Read"
                                /\ maf'[y].expects # None
             /\ maf'[y].state = "WaitAck" /\ maf'[y].expects = "Fwd" => maf'[y].kind = "Read"
             /\ maf'[y].state = "WaitAck" /\ maf'[y].kind = "Read"
                  /\ maf'[y].expects \in {"Fwd", "Mem"} => ebMaf'[y] = 1
  <2>1. CASE y = e
    BY <1>2, <1>3, <2>1 DEF None
  <2>2. CASE y # e
    BY <1>1, <1>2, <1>3, <2>2 DEF ReadsReserved
  <2> QED BY <2>1, <2>2
<1> QED BY <1>4 DEF ReadsReserved

(* A reply of memory uses or gives back the reservation of its read. *)
LEMMA MemRepliedInv ==
  ASSUME IInv, NEW p \in Procs, InMaf(p, {"Reply"}), MemReplied(p),
         UNCHANGED <<mafHeld, mafReserve, idleWork>>
  PROVE  IInv'
<1> DEFINE e == proc[p].entry
<1>1. PICK a \in {"ReplyAndRemoveMAF", "Reply"}, w \in {None, "Ack"} :
        /\ Ran(p, a, 0, e)
        /\ maf' = [maf EXCEPT ![e].expects = w]
        /\ a = "ReplyAndRemoveMAF" => w = None
  BY DEF MemReplied
<1>2. /\ proc[p].msg = "MemReply"
      /\ UnreserveEB(p, ebProc[p] + ebMaf[e]) /\ ebMaf' = [ebMaf EXCEPT ![e] = 0]
      /\ \E v \in IF maf[e].kind = "Read" THEN Bit ELSE {0} : EBMove(0, 0, v)
  BY DEF MemReplied
<1>3. /\ e \in Entries /\ maf[e].state = "WaitAck" /\ ebMaf[e] \in {0, 1}
      /\ proc[p].msg \in Expected(e)
  BY <1>2, AnswerFacts
<1>4. maf[e].expects = "Mem"
  BY <1>2, <1>3 DEF Expected
<1> HIDE DEF e
<1> DEFINE r == RunProc(proc[p], a, 0, e)
<1>5. QueueInv' /\ r \in Process /\ proc' = [proc EXCEPT ![p] = r]
  <2>1. a \in Actions /\ a \notin SnoopActions /\ 0 \in 0 .. MaxSnoops
    BY DEF Actions, SnoopActions, MaxSnoops
  <2> QED BY <1>1, <1>3, <2>1, RanFacts DEF InMaf
<1>6. r.stage = "Run" /\ r.entry = e /\ r.action = a
  BY DEF RunProc
<1> HIDE DEF r
<1>7. OwnInv' /\ MafInv'
  <2>1. w \in {None, "Fwd", "Mem", "Ack"} /\ proc[p].msg # "EvictAck"
        /\ r.action # "WakeEvictMAF"
    BY <1>2, <1>6
  <2> QED BY <1>1, <1>5, <1>6, <2>1, ReplyEntry DEF e
<1>8. ReadsReserved'
  BY <1>1, <1>2, <1>3, ReadsStep
<1>9. /\ ebUsed' \in Nat /\ ebPending' \in Nat /\ ebPending' <= ebUsed'
      /\ ebUsed' <= ebUsed + ebMaf[e]
  <2>1. PICK v \in Bit : EBMove(0, 0, v) /\ (v = 0 \/ maf[e].kind = "Read")
    BY <1>2 DEF Bit
  <2>2. maf[e].kind = "Read" => ebMaf[e] = 1
    BY <1>3, <1>4, Parts DEF EBInv, ReadsReserved
  <2>3. 0 \in Bit /\ 0 + 0 <= 1
    BY DEF Bit
  <2>4. ebUsed' \in Nat /\ ebPending' \in Nat /\ ebPending' <= ebUsed' /\ ebUsed' <= ebUsed + v
    BY <2>1, <2>3, EBMoveFacts
  <2>5. ebUsed \in Nat /\ v \in {0, 1}
    BY Parts DEF EBInv, Bit
  <2> QED BY <1>3, <2>1, <2>2, <2>4, <2>5
<1>10. EBInv'
  BY <1>2, <1>3, <1>5, <1>6, <1>8, <1>9, ReplyTakesEB
<1>11. idleWork' \in BOOLEAN
  BY Parts
<1> QED BY <1>5, <1>7, <1>10, <1>11, PartsNext

(* So does the last ack of a request. *)
LEMMA AckedInv ==
  ASSUME IInv, NEW p \in Procs, InMaf(p, {"Reply"}), Acked(p),
         UNCHANGED <<mafHeld, mafReserve, idleWork>>
  PROVE  IInv'
<1> DEFINE e == proc[p].entry
           r == RunProc(proc[p], "RemoveAndWakeMAF", 0, e)
<1>1. /\ proc[p].msg = "Ack" /\ Ran(p, "RemoveAndWakeMAF", 0, e)
      /\ maf' = [maf EXCEPT ![e].expects = None]
      /\ UnreserveEB(p, ebProc[p] + ebMaf[e]) /\ ebMaf' = [ebMaf EXCEPT ![e] = 0]
      /\ \/ EBMove(0, 0, 0)
         \/ maf[e].kind = "Read" /\ maf[e].expects = "Fwd" /\ EBMove(0, 0, 1)
         \/ EBMove(1, 0, 0)
         \/ EBMove(0, 1, 0)
  BY DEF Acked
<1>2. e \in Entries /\ maf[e].state = "WaitAck" /\ ebMaf[e] \in {0, 1}
  BY <1>1, AnswerFacts
<1>3. QueueInv' /\ r \in Process /\ proc' = [proc EXCEPT ![p] = r]
  <2>1. /\ "RemoveAndWakeMAF" \in Actions /\ "RemoveAndWakeMAF" \notin SnoopActions
        /\ 0 \in 0 .. MaxSnoops
    BY DEF Actions, SnoopActions, MaxSnoops
  <2> QED BY <1>1, <1>2, <2>1, RanFacts DEF InMaf
<1>4. r.stage = "Run" /\ r.entry = e /\ r.action = "RemoveAndWakeMAF"
  BY DEF RunProc
<1> HIDE DEF r, e
<1>5. OwnInv' /\ MafInv'
  <2>1. None \in {None, "Fwd", "Mem", "Ack"} /\ r.action # "WakeEvictMAF"
    BY <1>4
  <2> QED BY <1>1, <1>3, <1>4, <2>1, ReplyEntry DEF e
<1>6. ReadsReserved'
  <2>1. None \in {None, "Ack"}
    OBVIOUS
  <2> QED BY <1>1, <1>2, <2>1, ReadsStep
<1>7. /\ ebUsed' \in Nat /\ ebPending' \in Nat /\ ebPending' <= ebUsed'
      /\ ebUsed' <= ebUsed + ebMaf[e]
  <2>1. maf[e].kind = "Read" /\ maf[e].expects = "Fwd" => ebMaf[e] = 1
    BY <1>2, Parts DEF EBInv, ReadsReserved
  <2>2. ebUsed \in Nat /\ ebPending \in Nat /\ ebPending <= ebUsed
    BY Parts DEF EBInv, EBAccounting
  <2> QED BY <1>1, <1>2, <2>1, <2>2 DEF EBMove
<1>8. EBInv'
  BY <1>1, <1>2, <1>3, <1>4, <1>6, <1>7, ReplyTakesEB
<1>9. idleWork' \in BOOLEAN
  BY Parts
<1> QED BY <1>3, <1>5, <1>8, <1>9, PartsNext

(* A FwdNAck: the reservation of the read stays with its entry. *)
LEMMA FwdNAckedInv ==
  ASSUME IInv, NEW p \in Procs, InMaf(p, {"Reply"}), FwdNAcked(p),
         UNCHANGED <<mafHeld, mafReserve, idleWork>>
  PROVE  IInv'
<1> DEFINE e == proc[p].entry
<1>1. PICK a \in {"Reply", "Forward"}, n \in {0, 1}, w \in {"Fwd", "Mem", "Ack"} :
        /\ Ran(p, a, n, e)
        /\ a = "Forward" => n = 1
        /\ maf' = [maf EXCEPT ![e].expects = w]
  BY DEF FwdNAcked
<1>2. /\ proc[p].msg = "FwdNAck" /\ ebMaf' = ebMaf
      /\ \/ UnreserveEB(p, ebProc[p]) /\ PullBack
         \/ UNCHANGED <<ebReserve, ebProc, ebUsed, ebPending>>
  BY DEF FwdNAcked
<1>3. /\ e \in Entries /\ maf[e].state = "WaitAck" /\ proc[p].msg \in Expected(e)
  BY <1>2, AnswerFacts
<1>4. maf[e].expects = "Fwd"
  BY <1>2, <1>3 DEF Expected
<1> HIDE DEF e
<1> DEFINE r == RunProc(proc[p], a, n, e)
<1>5. QueueInv' /\ r \in Process /\ proc' = [proc EXCEPT ![p] = r]
  <2>1. a \in Actions /\ n \in 0 .. MaxSnoops /\ ((n = 1 /\ a = "Forward") \/ a \notin SnoopActions)
    BY <1>1 DEF Actions, SnoopActions, MaxSnoops
  <2>2. proc[p].stage = "Maf" /\ proc[p].type = "Reply" /\ e \in Entries \cup {None}
    BY <1>3 DEF InMaf
  <2> QED BY <1>1, <2>1, <2>2, RanFacts
<1>6. r.stage = "Run" /\ r.entry = e /\ r.action = a
  BY DEF RunProc
<1> HIDE DEF r
<1>7. OwnInv' /\ MafInv'
  <2>1. w \in {None, "Fwd", "Mem", "Ack"} /\ proc[p].msg # "EvictAck"
        /\ r.action \notin {"WakeEvictMAF", "ReplyAndRemoveMAF", "RemoveAndWakeMAF"}
    BY <1>2, <1>6
  <2> QED BY <1>1, <1>5, <1>6, <2>1, ReplyEntry DEF e
<1>8. ReadsReserved'
  <2>1. ReadsReserved /\ maf[e].kind = "Read" /\ ebMaf[e] = 1
    BY <1>3, <1>4, Parts DEF EBInv, ReadsReserved
  <2>2. /\ \A y \in Entries : y # e => maf'[y] = maf[y]
        /\ maf'[e].expects = w /\ maf'[e].kind = "Read" /\ maf'[e].state = "WaitAck"
    <3>1. w \in {None, "Fwd", "Mem", "Ack"}
      OBVIOUS
    <3> QED BY <1>1, <1>3, <2>1, <3>1, ExpectsStep
  <2>3. w # None
    BY DEF None
  <2> QED BY <1>2, <2>1, <2>2, <2>3 DEF ReadsReserved
<1>9. ebUsed' \in Nat /\ ebPending' \in Nat /\ ebPending' <= ebUsed' /\ ebUsed' <= ebUsed
  <2>1. CASE PullBack
    BY <2>1, PullBackFacts
  <2>2. CASE UNCHANGED <<ebUsed, ebPending>>
    BY <2>2, Parts DEF EBInv, EBAccounting
  <2> QED BY <1>2, <2>1, <2>2
<1>10. EBInv'
  BY <1>2, <1>5, <1>6, <1>8, <1>9, ReplyLeavesEB
<1>11. idleWork' \in BOOLEAN
  BY Parts
<1> QED BY <1>5, <1>7, <1>10, <1>11, PartsNext

(* An EvictAck: the block leaves, and the process takes an entry to wake. *)
LEMMA EvictAckedInv ==
  ASSUME IInv, NEW p \in Procs, InMaf(p, {"Reply"}), EvictAcked(p),
         UNCHANGED <<mafHeld, mafReserve, idleWork>>
  PROVE  IInv'
<1>1. PICK a \in {"WakeEvictMAF", "NoAction"}, e \in Entries \cup {None} :
        /\ Ran(p, a, 0, e)
        /\ \/ e = None /\ a = "NoAction"
           \/ e \in Entries /\ maf[e].state = "WaitEvict" /\ \A x \in Procs : proc[x].entry # e
  BY DEF EvictAcked
<1>2. maf' = maf /\ ebMaf' = ebMaf /\ UnreserveEB(p, ebProc[p]) /\ EBMove(0, 1, 0)
  BY DEF EvictAcked
<1> DEFINE r == RunProc(proc[p], a, 0, e)
<1>3. QueueInv' /\ r \in Process /\ proc' = [proc EXCEPT ![p] = r] /\ proc'[p] = r
  <2>1. a \in Actions /\ 0 \in 0 .. MaxSnoops /\ a \notin SnoopActions
    BY DEF Actions, SnoopActions, MaxSnoops
  <2>2. proc[p].stage = "Maf" /\ proc[p].type = "Reply"
    BY DEF InMaf
  <2> QED BY <1>1, <2>1, <2>2, RanFacts
<1>4. r.stage = "Run" /\ r.entry = e /\ r.action = a
  BY DEF RunProc
<1> HIDE DEF r
<1>5. OwnEntry(p)'
  BY <1>1, <1>2, <1>3, <1>4 DEF OwnEntry, InMaf, Owned, Busy
<1>6. OwnInv'
  <2>1. maf' \in [Entries -> MafEntry]
    BY <1>2, Parts DEF OwnInv
  <2> QED BY <1>1, <1>2, <1>3, <1>4, <1>5, <2>1, Parts, OwnStep
<1>7. MafInv'
  <2>1. MafUsed' \subseteq MafUsed
    BY <1>2 DEF MafUsed
  <2> QED BY <1>3, <1>4, <2>1, Parts, MafKeep, ReplyHoldsNoEB
<1>8. ReadsReserved'
  BY <1>2, Parts DEF EBInv, ReadsReserved
<1>9. ebUsed' \in Nat /\ ebPending' \in Nat /\ ebPending' <= ebUsed' /\ ebUsed' <= ebUsed
  <2>1. ebUsed \in Nat /\ ebPending \in Nat /\ ebPending <= ebUsed
    BY Parts DEF EBInv, EBAccounting
  <2> QED BY <1>2, <2>1 DEF EBMove
<1>10. EBInv'
  BY <1>2, <1>3, <1>4, <1>8, <1>9, ReplyLeavesEB
<1>11. idleWork' \in BOOLEAN
  BY Parts
<1> QED BY <1>3, <1>6, <1>7, <1>10, <1>11, PartsNext

(* Every outcome of handleReply. *)
LEMMA RunReplyInv ==
  ASSUME IInv, NEW p \in Procs, RunReply(p)
  PROVE  IInv'
<1>1. InMaf(p, {"Reply"}) /\ UNCHANGED <<mafHeld, mafReserve, idleWork>>
  BY DEF RunReply, InMaf
<1> QED BY <1>1, MemRepliedInv, AckedInv, FwdNAckedInv, EvictAckedInv DEF RunReply

-----------------------------------------------------------------------------
(* runCacheEvictProcess, runIdleWorkProcess, finalizeProcess, busCycle.    *)

(* A CacheEvict process sends its message at once. *)
LEMMA RunCacheEvictInv ==
  ASSUME IInv, NEW p \in Procs, RunCacheEvict(p)
  PROVE  IInv'
<1>1. /\ InMaf(p, {"CacheEvict"}) /\ SendHeld(p, "Forward", 1)
      /\ proc' = [proc EXCEPT ![p] = NoProc]
      /\ UNCHANGED <<maf, mafHeld, mafReserve>>
      /\ UNCHANGED <<ebUsed, ebPending, ebReserve, ebProc, ebMaf, idleWork>>
  BY DEF RunCacheEvict, InMaf, mafVars, ebVars
<1>2. QueueInv'
  <2>1. \A q \in Queues : Owed(proc[p], q) = Sent("Forward", 1)[q]
    BY <1>1 DEF InMaf, Owed, Need, Sent, SnoopActions, ReplyActions, Queues
  <2>2. 1 \in 0 .. MaxSnoops
    BY DEF MaxSnoops
  <2> QED BY <1>1, <2>1, <2>2, Parts, SendQueue
<1>3. NoProc.stage = "Idle" /\ NoProc.entry = None /\ NoProc \in Process
  BY NoProcType DEF NoProc
<1>4. proc'[p] = NoProc /\ maf' \in [Entries -> MafEntry] /\ maf' = maf
  BY <1>1, Parts DEF OwnInv
<1>5. OwnEntry(p)'
  BY <1>3, <1>4 DEF OwnEntry, InMaf
<1>6. OwnInv'
  BY <1>1, <1>3, <1>4, <1>5, Parts, OwnStep
<1>7. MafInv'
  <2>1. MafUsed' \subseteq MafUsed
    BY <1>1 DEF MafUsed
  <2>2. ~ InMaf(p, {"Request"})
    BY <1>1 DEF InMaf
  <2> QED BY <1>1, <1>3, <2>1, <2>2, Parts, MafKeep
<1>8. EBInv'
  <2>1. ReadsReserved'
    BY <1>1, Parts DEF EBInv, ReadsReserved
  <2>2. ebProc[p] = 0 /\ EBOwed(NoProc) = 0
    BY <1>1, <1>3, Parts DEF EBInv, HoldsEB, InMaf, EBOwed
  <2>3. ebPending' \in Nat /\ ebPending' <= ebUsed
    BY <1>1, Parts DEF EBInv, EBAccounting
  <2> QED BY <1>1, <1>3, <2>1, <2>2, <2>3, EBNoneStep
<1>9. idleWork' \in BOOLEAN
  BY <1>1, Parts
<1> QED BY <1>2, <1>6, <1>7, <1>8, <1>9, PartsNext

(* An IdleWork process sends a write-back, or finds nothing to do. *)
LEMMA RunIdleWorkInv ==
  ASSUME IInv, NEW p \in Procs, RunIdleWork(p)
  PROVE  IInv'
<1>1. PICK a \in {"Forward", "NoAction"}, n \in {0, 1} :
        /\ Ran(p, a, n, None)
        /\ a = "Forward" => n = 1
        /\ (ebUsed > ebPending /\ ebPending' = ebPending + 1) \/ ebPending' = ebPending
  BY DEF RunIdleWork
<1>2. /\ InMaf(p, {"IdleWork"}) /\ UnreserveEB(p, ebProc[p]) /\ idleWork' = FALSE
      /\ UNCHANGED <<maf, mafHeld, mafReserve, ebUsed, ebMaf>>
  BY DEF RunIdleWork, InMaf, mafVars
<1> DEFINE r == RunProc(proc[p], a, n, None)
<1>3. QueueInv' /\ r \in Process /\ proc' = [proc EXCEPT ![p] = r] /\ proc'[p] = r
  <2>1. a \in Actions /\ n \in 0 .. MaxSnoops /\ ((n = 1 /\ a = "Forward") \/ a \notin SnoopActions)
        /\ a \notin ReplyActions
    BY <1>1 DEF Actions, SnoopActions, ReplyActions, MaxSnoops
  <2>2. proc[p].stage = "Maf" /\ proc[p].type = "IdleWork" /\ None \in Entries \cup {None}
    BY <1>2 DEF InMaf
  <2> QED BY <1>1, <2>1, <2>2, RanFacts
<1>4. r.stage = "Run" /\ r.entry = None /\ r.action = a
  BY DEF RunProc
<1> HIDE DEF r
<1>5. OwnEntry(p)'
  BY <1>3, <1>4 DEF OwnEntry, InMaf
<1>6. OwnInv'
  <2>1. maf' \in [Entries -> MafEntry] /\ maf' = maf
    BY <1>2, Parts DEF OwnInv
  <2> QED BY <1>3, <1>4, <1>5, <2>1, Parts, OwnStep
<1>7. MafInv'
  <2>1. MafUsed' \subseteq MafUsed
    BY <1>2 DEF MafUsed
  <2>2. ~ InMaf(p, {"Request"})
    BY <1>2 DEF InMaf
  <2> QED BY <1>2, <1>3, <1>4, <2>1, <2>2, Parts, MafKeep
<1>8. EBInv'
  <2>1. ReadsReserved'
    BY <1>2, Parts DEF EBInv, ReadsReserved
  <2>2. /\ ebUsed' \in Nat /\ ebPending' \in Nat /\ ebPending' <= ebUsed'
        /\ ebUsed' <= ebUsed + 1
    BY <1>1, <1>2, Parts DEF EBInv, EBAccounting
  <2>3. InMaf(p, EBTypes)
    BY <1>2 DEF InMaf, EBTypes
  <2> QED BY <1>2, <1>3, <1>4, <2>1, <2>2, <2>3, RequestEB
<1>9. idleWork' \in BOOLEAN
  BY <1>2
<1> QED BY <1>3, <1>6, <1>7, <1>8, <1>9, PartsNext

(* The entries finalizeProcess removes or wakes belong to the process or   *)
(* to none, and no reservation is left with them.                          *)
LEMMA FinalizeMaf ==
  ASSUME IInv, NEW p \in Procs, FinalizeProcess(p)
  PROVE  /\ maf' \in [Entries -> MafEntry]
         /\ \A y \in Entries :
              \/ maf'[y] = maf[y]
              \/ /\ y = proc[p].entry \/ maf[y].state \notin Busy
                 /\ maf[y].state # "Free" /\ ebMaf[y] # 1
                 /\ maf'[y].state # "WaitAck"
<1> DEFINE a == proc[p].action
           e == proc[p].entry
<1>1. OwnEntry(p) /\ maf \in [Entries -> MafEntry] /\ ReadsReserved /\ proc[p].stage = "Run"
  BY Parts DEF OwnInv, EBInv, FinalizeProcess
<1>2. PICK W \in SUBSET Stalling :
        maf' = CASE a \in {"ReplyAndRemoveMAF", "RemoveAndWakeMAF"} ->
                      Woken([maf EXCEPT ![e] = NoEntry], W)
                 [] a = "WakeEvictMAF" -> Woken(maf, W \cup {e})
                 [] OTHER -> maf
  BY DEF FinalizeProcess
<1>3. \A y \in W : y \in Entries /\ maf[y].state = "WaitRequest" /\ ebMaf[y] # 1
  BY <1>1 DEF Stalling, ReadsReserved
<1>4. CASE a \in {"ReplyAndRemoveMAF", "RemoveAndWakeMAF"}
  <2>1. e \in Entries /\ maf[e].state = "WaitAck" /\ ebMaf[e] # 1
    BY <1>1, <1>4 DEF OwnEntry, Owned, ReadsReserved
  <2>2. maf' = Woken([maf EXCEPT ![e] = NoEntry], W) /\ NoEntry \in MafEntry
        /\ NoEntry.state = "Free"
    BY <1>2, <1>4 DEF NoEntry, MafEntry
  <2>3. e \notin W
    BY <1>3, <2>1
  <2> HIDE DEF e
  <2>4. \A y \in Entries :
          maf'[y] = IF y \in W THEN [maf[y] EXCEPT !.state = "Waking"]
                    ELSE IF y = e THEN NoEntry ELSE maf[y]
    BY <1>1, <2>1, <2>2, <2>3 DEF Woken
  <2>5. maf' \in [Entries -> MafEntry]
    <3>1. \A y \in Entries : [maf[y] EXCEPT !.state = "Waking"] \in MafEntry
      BY <1>1 DEF MafEntry
    <3>2. \A y \in Entries : maf'[y] \in MafEntry
      BY <1>1, <2>2, <2>4, <3>1
    <3>3. maf' = [y \in Entries |-> maf'[y]]
      BY <2>2 DEF Woken
    <3> QED BY <3>2, <3>3
  <2>6. ASSUME NEW y \in Entries, y \in W
        PROVE  maf'[y].state = "Waking" /\ maf[y].state \notin Busy
               /\ maf[y].state # "Free" /\ ebMaf[y] # 1
    <3>1. maf'[y] = [maf[y] EXCEPT !.state = "Waking"] /\ maf[y] \in MafEntry
      BY <1>1, <2>4, <2>6
    <3>2. maf[y].state = "WaitRequest" /\ ebMaf[y] # 1
      BY <1>3, <2>6
    <3> QED BY <3>1, <3>2 DEF Busy, MafEntry
  <2>7. maf'[e].state = "Free"
    BY <2>1, <2>2, <2>3, <2>4
  <2>8. \A y \in Entries : y \notin W /\ y # e => maf'[y] = maf[y]
    BY <2>4
  <2>9. e = proc[p].entry
    BY DEF e
  <2> QED BY <2>1, <2>5, <2>6, <2>7, <2>8, <2>9
<1>5. CASE a = "WakeEvictMAF"
  <2>1. e \in Entries /\ maf[e].state = "WaitEvict" /\ ebMaf[e] # 1
    BY <1>1, <1>5 DEF OwnEntry, Owned, ReadsReserved
  <2>2. maf' = Woken(maf, W \cup {e})
    BY <1>2, <1>5
  <2> HIDE DEF e
  <2>3. \A y \in Entries :
          maf'[y] = IF y \in W \cup {e} THEN [maf[y] EXCEPT !.state = "Waking"] ELSE maf[y]
    BY <2>2 DEF Woken
  <2>4. maf' \in [Entries -> MafEntry]
    <3>1. \A y \in Entries : [maf[y] EXCEPT !.state = "Waking"] \in MafEntry
      BY <1>1 DEF MafEntry
    <3> QED BY <1>1, <2>2, <3>1 DEF Woken
  <2>5. ASSUME NEW y \in Entries, y \in W \cup {e}
        PROVE  maf'[y].state = "Waking" /\ maf[y].state # "Free" /\ ebMaf[y] # 1
    <3>1. maf'[y] = [maf[y] EXCEPT !.state = "Waking"] /\ maf[y] \in MafEntry
      BY <1>1, <2>3, <2>5
    <3>2. maf[y].state # "Free" /\ ebMaf[y] # 1
      BY <1>3, <2>1, <2>5
    <3> QED BY <3>1, <3>2 DEF MafEntry
  <2>6. \A y \in W : maf[y].state \notin Busy
    BY <1>3 DEF Busy
  <2>7. e = proc[p].entry
    BY DEF e
  <2> QED BY <2>3, <2>4, <2>5, <2>6, <2>7
<1>6. CASE a \notin {"ReplyAndRemoveMAF", "RemoveAndWakeMAF", "WakeEvictMAF"}
  BY <1>1, <1>2, <1>6
<1> QED BY <1>4, <1>5, <1>6

(* finalizeProcess sends what the process kept and frees its place. *)
LEMMA FinalizeProcessInv ==
  ASSUME IInv, NEW p \in Procs, FinalizeProcess(p)
  PROVE  IInv'
<1>1. /\ proc[p].stage = "Run" /\ SendHeld(p, proc[p].action, proc[p].snoops)
      /\ proc' = [proc EXCEPT ![p] = NoProc]
      /\ UNCHANGED <<mafHeld, mafReserve>>
      /\ UNCHANGED <<ebUsed, ebPending, ebReserve, ebProc, ebMaf, idleWork>>
  BY DEF FinalizeProcess, ebVars
<1>2. QueueInv'
  <2>1. \A q \in Queues : Owed(proc[p], q) = Sent(proc[p].action, proc[p].snoops)[q]
    BY <1>1 DEF Owed
  <2>2. proc[p].snoops \in 0 .. MaxSnoops
    BY Parts DEF OwnInv, Process
  <2> QED BY <1>1, <2>1, <2>2, Parts, SendQueue
<1>3. NoProc.stage = "Idle" /\ NoProc.entry = None /\ NoProc \in Process
  BY NoProcType DEF NoProc
<1>4. proc'[p] = NoProc
  BY <1>1, Parts DEF OwnInv
<1>5. OwnEntry(p)'
  BY <1>3, <1>4 DEF OwnEntry, InMaf
<1>6. OwnInv'
  <2>1. /\ maf' \in [Entries -> MafEntry]
        /\ \A y \in Entries : \/ maf'[y] = maf[y]
                              \/ y = proc[p].entry
                              \/ maf[y].state \notin Busy
    BY FinalizeMaf
  <2> QED BY <1>1, <1>3, <1>5, <2>1, Parts, OwnStep
<1>7. MafInv'
  <2>1. MafUsed' \subseteq MafUsed
    BY FinalizeMaf DEF MafUsed
  <2>2. ~ InMaf(p, {"Request"})
    BY <1>1 DEF InMaf
  <2> QED BY <1>1, <1>3, <2>1, <2>2, Parts, MafKeep
<1>8. EBInv'
  <2>1. ReadsReserved'
    <3>1. ReadsReserved
      BY Parts DEF EBInv
    <3> QED BY <1>1, <3>1, FinalizeMaf DEF ReadsReserved
  <2>2. ebProc[p] = 0 /\ EBOwed(NoProc) = 0
    BY <1>1, <1>3, Parts DEF EBInv, HoldsEB, InMaf, EBOwed
  <2>3. ebPending' \in Nat /\ ebPending' <= ebUsed
    BY <1>1, Parts DEF EBInv, EBAccounting
  <2> QED BY <1>1, <1>3, <2>1, <2>2, <2>3, EBNoneStep
<1>9. idleWork' \in BOOLEAN
  BY <1>1, Parts
<1> QED BY <1>2, <1>6, <1>7, <1>8, <1>9, PartsNext

(* busCycle takes a message out of an output queue. *)
LEMMA DrainInv ==
  ASSUME IInv, NEW q \in Queues, Drain(q)
  PROVE  IInv'
<1>1. /\ UNCHANGED <<proc, maf, mafHeld, mafReserve>>
      /\ UNCHANGED <<ebUsed, ebPending, ebReserve, ebProc, ebMaf, idleWork>>
  BY DEF Drain, mafVars, ebVars
<1>2. QueueInv'
  BY Parts, DrainQueue
<1>3. OwnInv'
  BY <1>1, Parts DEF OwnInv, OwnEntry, InMaf, Owned, Expected, EntriesApart
<1>4. MafInv'
  BY <1>1, Parts DEF MafInv, HoldsMaf, InMaf, MafAccounting, MafUsed
<1>5. EBInv'
  BY <1>1, Parts DEF EBInv, HoldsEB, InMaf, EBAccounting, ReadsReserved
<1> QED BY <1>1, <1>2, <1>3, <1>4, <1>5, Parts, PartsNext

-----------------------------------------------------------------------------
(* The theorems.                                                           *)

(* Nothing is reserved, used or in a pipeline at first. *)
LEMMA InitInv == Init => IInv
<1> SUFFICES ASSUME Init PROVE IInv
  OBVIOUS
<1>1. NoProc \in Process /\ NoProc.stage = "Idle" /\ NoProc.entry = None
  BY NoProcType DEF NoProc
<1>2. QueueInv
  <2>1. held \in [Queues -> [Procs -> 0 .. MaxSnoops]]
    BY DEF Init, MaxSnoops
  <2>2. \A q \in Queues : Total(held[q]) = 0
    <3> SUFFICES ASSUME NEW q \in Queues PROVE Total(held[q]) = 0
      OBVIOUS
    <3>1. held[q] \in [Procs -> 0 .. MaxSnoops] /\ \A x \in Procs : held[q][x] = 0
      BY <2>1 DEF Init
    <3> QED BY <3>1, ProcsAssumption, TotalType
  <2>3. HoldsOwed
    BY <1>1 DEF Init, HoldsOwed, Owed
  <2>4. QueueAccounting
    BY <2>2, SizesAssumption DEF Init, QueueAccounting
  <2> QED BY <1>1, <2>1, <2>3, <2>4 DEF Init, QueueInv
<1>3. OwnInv
  BY <1>1 DEF Init, OwnInv, OwnEntry, InMaf, EntriesApart, NoEntry, MafEntry
<1>4. MafInv
  <2>1. MafUsed = {}
    BY DEF Init, MafUsed, NoEntry
  <2>2. mafHeld = {} /\ mafReserve = 0
    BY DEF Init
  <2>3. HoldsMaf
    BY <1>1, <2>2 DEF Init, HoldsMaf, InMaf
  <2>4. Cardinality({}) = 0
    BY FS_EmptySet
  <2> QED BY <2>1, <2>2, <2>3, <2>4, SizesAssumption DEF MafInv, MafAccounting
<1>5. EBInv
  <2>1. ebProc \in [Procs -> Bit] /\ ebMaf \in [Entries -> Bit]
    BY DEF Init, Bit
  <2>2. ebProc \in [Procs -> 0 .. MaxSnoops] /\ ebMaf \in [Entries -> 0 .. MaxSnoops]
    BY DEF Init, MaxSnoops
  <2>3. (\A x \in Procs : ebProc[x] = 0) /\ (\A x \in Entries : ebMaf[x] = 0)
    BY DEF Init
  <2>4. Total(ebProc) = 0 /\ Total(ebMaf) = 0
    BY <2>2, <2>3, ProcsAssumption, EntriesAssumption, TotalType
  <2>5. HoldsEB /\ ReadsReserved
    BY <1>1, <2>3 DEF Init, HoldsEB, InMaf, ReadsReserved, NoEntry
  <2>6. EBAccounting
    BY <2>4, SizesAssumption DEF Init, EBAccounting
  <2> QED BY <2>1, <2>5, <2>6 DEF Init, EBInv
<1>6. idleWork \in BOOLEAN
  BY DEF Init
<1> QED BY <1>2, <1>3, <1>4, <1>5, <1>6, Parts

(* Every step of the engine, whatever the policy chooses, keeps the        *)
(* inductive invariant.                                                    *)
LEMMA NextInv == IInv /\ [Next]_vars => IInv'
<1> SUFFICES ASSUME IInv, [Next]_vars PROVE IInv'
  OBVIOUS
<1>1. ASSUME NEW p \in Procs, ScheduleWakeMAF(p) PROVE IInv'
  BY <1>1, ScheduleWakeMAFInv
<1>2. ASSUME NEW p \in Procs, ScheduleCacheEvict(p) PROVE IInv'
  BY <1>2, ScheduleCacheEvictInv
<1>3. ASSUME NEW p \in Procs, ScheduleReply(p) PROVE IInv'
  BY <1>3, ScheduleReplyInv
<1>4. ASSUME NEW p \in Procs, ScheduleRequest(p) PROVE IInv'
  BY <1>4, ScheduleRequestInv
<1>5. ASSUME NEW p \in Procs, ScheduleIdleWork(p) PROVE IInv'
  BY <1>5, ScheduleIdleWorkInv
<1>6. ASSUME NEW p \in Procs, RunRequest(p) PROVE IInv'
  BY <1>6, RunRequestInv
<1>7. ASSUME NEW p \in Procs, RunReply(p) PROVE IInv'
  BY <1>7, RunReplyInv
<1>8. ASSUME NEW p \in Procs, RunCacheEvict(p) PROVE IInv'
  BY <1>8, RunCacheEvictInv
<1>9. ASSUME NEW p \in Procs, RunIdleWork(p) PROVE IInv'
  BY <1>9, RunIdleWorkInv
<1>10. ASSUME NEW p \in Procs, FinalizeProcess(p) PROVE IInv'
  BY <1>10, FinalizeProcessInv
<1>11. ASSUME NEW q \in Queues, Drain(q) PROVE IInv'
  BY <1>11, DrainInv
<1>12. CASE UNCHANGED vars
  <2>1. /\ UNCHANGED <<proc, held, usage, reserve, maf, mafHeld, mafReserve>>
        /\ UNCHANGED <<ebUsed, ebPending, ebReserve, ebProc, ebMaf, idleWork>>
    BY <1>12 DEF vars, queueVars, mafVars, ebVars
  <2>2. QueueInv'
    BY <2>1, Parts DEF QueueInv, HoldsOwed, Owed, QueueAccounting
  <2>3. OwnInv'
    BY <2>1, Parts DEF OwnInv, OwnEntry, InMaf, Owned, Expected, EntriesApart
  <2>4. MafInv'
    BY <2>1, Parts DEF MafInv, HoldsMaf, InMaf, MafAccounting, MafUsed
  <2>5. EBInv'
    BY <2>1, Parts DEF EBInv, HoldsEB, InMaf, EBAccounting, ReadsReserved
  <2> QED BY <2>1, <2>2, <2>3, <2>4, <2>5, Parts, PartsNext
<1> QED BY <1>1, <1>2, <1>3, <1>4, <1>5, <1>6, <1>7, <1>8, <1>9, <1>10, <1>11, <1>12 DEF Next

(* IInv holds always: every process in the pipelines of the L2 bank holds  *)
(* exactly the reservations its stage still needs and works alone on a MAF *)
(* entry in the state it expects.                                          *)
THEOREM ReservationDiscipline == Spec => []IInv
BY InitInv, NextInv, PTL DEF Spec

(* No two processes in the pipelines ever work on one MAF entry, and       *)
(* finalizeProcess removes or wakes only an entry of its own process.      *)
THEOREM EntriesOwned == Spec => []Ownership
<1>1. IInv => Ownership
  BY DEF IInv
<1> QED BY <1>1, ReservationDiscipline, PTL

(* No counter of the queues, of the MAF or of the evict buffer goes below  *)
(* zero, and no process holds more than scheduleNewProcesses reserves.     *)
THEOREM TypeCorrect == Spec => []TypeOK
<1>1. IInv => TypeOK
  BY DEF IInv
<1> QED BY <1>1, ReservationDiscipline, PTL

(* MessageQueue::enqueue always finds room for the messages of             *)
(* finalizeProcess, for any number of processes in the pipelines.          *)
THEOREM QueuesNeverOverflow == Spec => []QueueAccounting
<1>1. IInv => QueueAccounting
  BY DEF IInv
<1> QED BY <1>1, ReservationDiscipline, PTL

(* The evict buffer always has a place for the victim of a late fill.      *)
THEOREM EvictBufferNeverOverflows == Spec => []EBAccounting
<1>1. IInv => EBAccounting
  BY DEF IInv
<1> QED BY <1>1, ReservationDiscipline, PTL

(* MissAddressFile::insert never finds the file full.                      *)
THEOREM MafNeverOverflows == Spec => []MafAccounting
<1>1. IInv => MafAccounting
  BY DEF IInv
<1> QED BY <1>1, ReservationDiscipline, PTL

(* The assertion noReservations at the end of finalizeProcess never fails. *)
THEOREM NothingKept == Spec => []NoReservations
<1>1. IInv => NoReservations
  <2> SUFFICES ASSUME IInv, NEW p \in Procs, proc[p].stage = "Idle"
               PROVE  /\ \A q \in Queues : held[q][p] = 0
                      /\ p \notin mafHeld
                      /\ ebProc[p] = 0
    BY DEF NoReservations
  <2>1. \A q \in Queues : held[q][p] = 0
    BY DEF IInv, Ownership, HoldsOwed, Owed
  <2>2. p \notin mafHeld
    BY DEF IInv, Ownership, HoldsMaf, InMaf
  <2>3. ebProc[p] = 0
    BY DEF IInv, Ownership, HoldsEB, InMaf
  <2> QED BY <2>1, <2>2, <2>3
<1> QED BY <1>1, ReservationDiscipline, PTL

(* A reply or an ack that may fill the array finds the evict buffer        *)
(* reservation of its read in the MAF entry.                               *)
THEOREM FillsAreReserved == Spec => []FillReserved
<1>1. IInv => FillReserved
  <2> SUFFICES ASSUME IInv, NEW p \in Procs,
                      proc[p].stage = "Maf", proc[p].type = "Reply",
                      \/ proc[p].msg = "MemReply"
                      \/ proc[p].msg = "Ack" /\ maf[proc[p].entry].expects = "Fwd",
                      maf[proc[p].entry].kind = "Read"
               PROVE  ebMaf[proc[p].entry] = 1
    BY DEF FillReserved
  <2>1. /\ proc[p].entry \in Entries /\ maf[proc[p].entry].state = "WaitAck"
        /\ proc[p].msg \in Expected(proc[p].entry)
    BY AnswerFacts DEF InMaf
  <2>2. maf[proc[p].entry].expects \in {"Fwd", "Mem"}
    BY <2>1 DEF Expected
  <2> QED BY <2>1, <2>2 DEF IInv, Ownership, ReadsReserved
<1> QED BY <1>1, ReservationDiscipline, PTL
=============================================================================
