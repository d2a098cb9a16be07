---------------------------- MODULE ValueTracker ----------------------------
(***************************************************************************)
(* The value tracker of components/uArch.  Simics keeps one image of       *)
(* memory, yet a core must see its own stores from the cycle they commit   *)
(* and the other cores only when the store buffer has drained.  For every  *)
(* double word with an outstanding store the tracker keeps the globally    *)
(* visible value and one value per CPU, and rewrites the image of Simics   *)
(* whenever another CPU is about to look at it.                            *)
(*                                                                         *)
(* The calls are those of the core model: store when a store commits,      *)
(* commitStore when its reply arrives, load when a load is answered,       *)
(* access before Simics executes a load or an atomic, invalidate when a    *)
(* device writes memory.  An atomic is issued from the head of the memory  *)
(* queue, so its CPU has no store outstanding.                             *)
(*                                                                         *)
(* A double word has Parts, the bytes an access can cover; every write     *)
(* writes a value of its own.                                              *)
(***************************************************************************)
EXTENDS Integers, Sequences, FiniteSets

CONSTANTS
  Cpus,        \* the CPUs of one virtual machine
  Dwords,      \* aligned double words
  Parts,       \* the separately written parts of a double word
  MaxWrites,   \* bound: stores, atomics and device writes of a behaviour
  MaxBuffer,   \* bound: outstanding stores of a CPU
  Devices      \* whether devices write memory

ASSUME ReflectsAssumption == "G" \notin Cpus /\ "Poisoned" \notin Cpus
ASSUME BoundsAssumption == MaxWrites \in Nat /\ MaxBuffer \in Nat /\ Devices \in BOOLEAN

VARIABLES
  track,   \* theTracker: NoTrack or the ValueTrack of each double word
  simics,  \* the memory image of Simics
  buffer,  \* the committed stores of each CPU that wait for their replies
  memory,  \* what memory holds: every drained store, atomic and device write
  mixed,   \* double words an atomic wrote while they were tracked, or a device
           \* while the image was that of one CPU
  writes   \* writes so far

vars == <<track, simics, buffer, memory, mixed, writes>>

Junk == 0 - 1                \* 0xbaadf00d
Values == Junk .. MaxWrites
Dword == [Parts -> Values]
NoLocals == [c \in {} |-> 0]
NoTrack == [reflects |-> "G", global |-> [p \in Parts |-> Junk], locals |-> NoLocals]

(* theLocallyVisibleValues is a map: locals has the CPUs with outstanding  *)
(* stores as its domain.                                                   *)
Local == [value : Dword, stores : 1 .. MaxBuffer]
Track == [reflects : Cpus \cup {"G", "Poisoned"}, global : Dword,
          locals : UNION {[S -> Local] : S \in SUBSET Cpus}]

Store == [dword : Dwords, parts : SUBSET Parts \ {{}}, value : 1 .. MaxWrites]

(* Everything is of its type, and the marker of a double word a device     *)
(* wrote never gets into the image of Simics, where a CPU would see it.    *)
TypeOK ==
  /\ track \in [Dwords -> Track]
  /\ simics \in [Dwords -> [Parts -> Values \ {Junk}]]
  /\ buffer \in [Cpus -> Seq(Store)]
  /\ memory \in [Dwords -> Dword]
  /\ mixed \subseteq Dwords
  /\ writes \in 0 .. MaxWrites

Tracked(d) == track[d] # NoTrack

Init ==
  /\ track = [d \in Dwords |-> NoTrack]
  /\ simics = [d \in Dwords |-> [p \in Parts |-> 0]]
  /\ buffer = [c \in Cpus |-> <<>>]
  /\ memory = simics
  /\ mixed = {}
  /\ writes = 0

-----------------------------------------------------------------------------
(* What the tracker does with one double word: t is its ValueTrack, s the  *)
(* image of Simics, and the result is the pair after the call.             *)

overlay(old, parts, v) == [p \in Parts |-> IF p \in parts THEN v ELSE old[p]]

(* Mutant: a poisoned value is taken as it is. *)
MutResolveNothing(t, s) == [t EXCEPT !.reflects = IF @ = "Poisoned" THEN "G" ELSE @]

(* After a device wrote, the image of Simics is the globally visible value. *)
Resolve(t, s) ==
  IF t.reflects = "Poisoned" THEN [t EXCEPT !.global = s, !.reflects = "G"] ELSE t

HasLocal(t, c) == c \in DOMAIN t.locals
SetLocal(t, c, value, stores) ==
  [t EXCEPT !.locals =
     [x \in DOMAIN t.locals \cup {c} |->
        IF x = c THEN [value |-> value, stores |-> stores] ELSE t.locals[x]]]

(* What c sees of memory. *)
Visible(t, s, c) ==
  IF ~HasLocal(t, c) THEN IF t.reflects = "G" THEN s ELSE t.global
  ELSE IF t.reflects = c THEN s ELSE t.locals[c].value

(* Mutant: a CPU whose value was replaced in Simics starts from the image. *)
MutStoreOverImage(t, s, c, parts, v) ==
  LET new == overlay(s, parts, v)
      r == IF t = NoTrack THEN [t EXCEPT !.global = s] ELSE Resolve(t, s)
      n == IF HasLocal(r, c) THEN r.locals[c].stores ELSE 0
  IN [track |-> [SetLocal(r, c, new, n + 1) EXCEPT !.reflects = c], simics |-> new]

store(t, s, c, parts, v) ==
  LET r == IF t = NoTrack THEN [t EXCEPT !.global = s] ELSE Resolve(t, s)
      old == IF HasLocal(r, c) THEN Visible(r, s, c) ELSE r.global
      new == overlay(old, parts, v)
      n == IF HasLocal(r, c) THEN r.locals[c].stores ELSE 0
  IN [track |-> [SetLocal(r, c, new, n + 1) EXCEPT !.reflects = c], simics |-> new]

(* Mutant: the local value goes with the first of several stores. *)
MutCommitErases(t, s, c, parts, v) ==
  LET r == Resolve(t, s)
      new == overlay(r.global, parts, v)
      left == [x \in DOMAIN r.locals \ {c} |-> r.locals[x]]
  IN [track |-> IF left = NoLocals THEN NoTrack
                ELSE [reflects |-> "G", global |-> new, locals |-> left],
      simics |-> new]

(* Mutant: the image keeps what the committing CPU sees. *)
MutCommitKeepsImage(t, s, c, parts, v) ==
  LET r == Resolve(t, s)
      new == overlay(r.global, parts, v)
      n == r.locals[c].stores
      left == [x \in DOMAIN r.locals \ (IF n = 1 THEN {c} ELSE {}) |->
                 IF x = c THEN [r.locals[c] EXCEPT !.stores = n - 1] ELSE r.locals[x]]
  IN [track |-> IF left = NoLocals THEN NoTrack
                ELSE [reflects |-> "G", global |-> new, locals |-> left],
      simics |-> s]

commitStore(t, s, c, parts, v) ==
  LET r == Resolve(t, s)
      new == overlay(r.global, parts, v)
      n == r.locals[c].stores
      left == [x \in DOMAIN r.locals \ (IF n = 1 THEN {c} ELSE {}) |->
                 IF x = c THEN [r.locals[c] EXCEPT !.stores = n - 1] ELSE r.locals[x]]
  IN [track |-> IF left = NoLocals THEN NoTrack
                ELSE [reflects |-> "G", global |-> new, locals |-> left],
      simics |-> new]

(* access and load: the image becomes what c sees. *)
access(t, s, c) ==
  IF t = NoTrack THEN [track |-> t, simics |-> s]
  ELSE LET r == Resolve(t, s)
           new == Visible(r, s, c)
       IN [track |-> IF HasLocal(r, c)
                     THEN [SetLocal(r, c, new, r.locals[c].stores) EXCEPT !.reflects = c]
                     ELSE [r EXCEPT !.reflects = "G"],
           simics |-> new]

(* invalidate; Simics then lets the device write. *)
invalidate(t) ==
  IF t = NoTrack THEN t
  ELSE [t EXCEPT !.global = [p \in Parts |-> Junk], !.reflects = "Poisoned"]

-----------------------------------------------------------------------------
(* The calls.                                                              *)

Update(d, result) ==
  /\ track' = [track EXCEPT ![d] = result.track]
  /\ simics' = [simics EXCEPT ![d] = result.simics]

Write == writes < MaxWrites /\ writes' = writes + 1

(* CoreImpl::commitStore.  Simics then executes the store: it writes the   *)
(* same bytes again.                                                       *)
CommitOfStore(c, d, parts) ==
  /\ Len(buffer[c]) < MaxBuffer
  /\ Write
  /\ Update(d, store(track[d], simics[d], c, parts, writes'))
  /\ buffer' = [buffer EXCEPT ![c] =
                  Append(@, [dword |-> d, parts |-> parts, value |-> writes'])]
  /\ UNCHANGED <<memory, mixed>>

(* pushMemOp with a StoreReply; the stores of a CPU drain in order. *)
StoreReply(c) ==
  /\ buffer[c] # <<>>
  /\ LET h == Head(buffer[c]) IN
       /\ HasLocal(track[h.dword], c)     \* asserted
       /\ Update(h.dword, commitStore(track[h.dword], simics[h.dword], c,
                                      h.parts, h.value))
       /\ memory' = [memory EXCEPT ![h.dword] = overlay(@, h.parts, h.value)]
  /\ buffer' = [buffer EXCEPT ![c] = Tail(@)]
  /\ UNCHANGED <<mixed, writes>>

(* pushMemOp with a LoadReply or an RMWReply, accessMem when a load        *)
(* commits: the value is read from the image.                              *)
Look(c, d) ==
  /\ Update(d, access(track[d], simics[d], c))
  /\ UNCHANGED <<buffer, memory, mixed, writes>>

(* accessMem when an atomic commits; Simics then executes it on the image. *)
CommitOfAtomic(c, d, parts) ==
  /\ buffer[c] = <<>>
  /\ Write
  /\ LET a == access(track[d], simics[d], c) IN
       Update(d, [a EXCEPT !.simics = overlay(@, parts, writes')])
  /\ memory' = [memory EXCEPT ![d] = overlay(@, parts, writes')]
  /\ mixed' = IF Tracked(d) THEN mixed \cup {d} ELSE mixed
  /\ UNCHANGED buffer

(* dma_mem_hier_operate for a write to the parts w[d] of each d. *)
DmaWrite(w) ==
  /\ Devices
  /\ Write
  /\ LET hit == {d \in Dwords : w[d] # {}} IN
       /\ track' = [d \in Dwords |-> IF d \in hit THEN invalidate(track[d]) ELSE track[d]]
       /\ simics' = [d \in Dwords |-> overlay(simics[d], w[d], writes')]
       /\ memory' = [d \in Dwords |-> overlay(memory[d], w[d], writes')]
       /\ mixed' = mixed \cup {d \in hit : track[d].reflects \in Cpus}
  /\ UNCHANGED buffer

Next ==
  \/ \E c \in Cpus, d \in Dwords :
       \/ \E parts \in SUBSET Parts \ {{}} :
            CommitOfStore(c, d, parts) \/ CommitOfAtomic(c, d, parts)
       \/ Look(c, d)
  \/ \E c \in Cpus : StoreReply(c)
  \/ \E w \in [Dwords -> SUBSET Parts] \ {[d \in Dwords |-> {}]} : DmaWrite(w)

Spec == Init /\ [][Next]_vars

-----------------------------------------------------------------------------
(* Properties.                                                             *)

StoresTo(c, d) == {i \in DOMAIN buffer[c] : buffer[c][i].dword = d}
See(c, d) == access(track[d], simics[d], c).simics

(* A double word is tracked while a store to it is outstanding and no      *)
(* longer, and theOutstandingStores counts the stores of each CPU: the     *)
(* assertions of commitStore hold and the tracker does not leak.           *)
TrackedWhileOutstanding ==
  \A d \in Dwords :
    /\ DOMAIN track[d].locals = {c \in Cpus : StoresTo(c, d) # {}}
    /\ \A c \in DOMAIN track[d].locals :
         track[d].locals[c].stores = Cardinality(StoresTo(c, d))
    /\ Tracked(d) <=> DOMAIN track[d].locals # {}

(* A CPU sees the youngest of its own outstanding stores, whoever looked   *)
(* at, committed to or wrote the double word in between.                   *)
OwnStoresSeen ==
  \A c \in Cpus, d \in Dwords, p \in Parts :
    LET mine == {i \in StoresTo(c, d) : p \in buffer[c][i].parts} IN
    \A i \in mine : (\A j \in mine : j <= i) => See(c, d)[p] = buffer[c][i].value

(* A CPU without an outstanding store to a double word sees what memory    *)
(* holds, unless an atomic wrote it while it was tracked or a device while *)
(* the image of Simics was what some CPU alone sees.                       *)
MemorySeen ==
  \A c \in Cpus, d \in Dwords \ mixed : StoresTo(c, d) = {} => See(c, d) = memory[d]

(* accessMem: "Ensure that the correct memory value for this node is in    *)
(* Simics' memory image before we advance Simics".  A CPU with nothing     *)
(* outstanding should see what memory holds, atomics included.             *)
ImageCorrectBeforeAdvance ==
  \A c \in Cpus, d \in Dwords : StoresTo(c, d) = {} => See(c, d) = memory[d]
=============================================================================
