------------------------- MODULE ValueTrackerProofs -------------------------
(***************************************************************************)
(* The value tracker, proved for any number of CPUs, double words and      *)
(* parts, any number of writes and any number of outstanding stores.       *)
(***************************************************************************)
EXTENDS ValueTracker, FiniteSetTheorems, TLAPS

-----------------------------------------------------------------------------
(* The store buffer of a CPU.                                              *)

(* The stores to d in a buffer. *)
Of(buf, d) == {i \in DOMAIN buf : buf[i].dword = d}

(* val shows, part by part, the youngest store to d in buf. *)
Youngest(buf, d, val) ==
  \A p \in Parts :
    LET mine == {i \in Of(buf, d) : p \in buf[i].parts} IN
    \A i \in mine : (\A j \in mine : j <= i) => val[p] = buf[i].value

(* The stores of a buffer can be counted. *)
LEMMA OfFinite ==
  ASSUME NEW buf \in Seq(Store), NEW d
  PROVE  /\ IsFiniteSet(Of(buf, d))
         /\ Cardinality(Of(buf, d)) \in Nat
         /\ Cardinality(Of(buf, d)) <= Len(buf)
<1>1. Of(buf, d) \in SUBSET (1 .. Len(buf)) /\ Len(buf) \in Nat
  BY DEF Of
<1>2. IsFiniteSet(1 .. Len(buf)) /\ Cardinality(1 .. Len(buf)) = Len(buf)
  <2>1. 1 \in Int /\ Len(buf) \in Int
    BY <1>1
  <2>2. /\ IsFiniteSet(1 .. Len(buf))
        /\ Cardinality(1 .. Len(buf)) = IF 1 > Len(buf) THEN 0 ELSE Len(buf) - 1 + 1
    BY <2>1, FS_Interval, Zenon
  <2> QED BY <1>1, <2>2
<1>3. IsFiniteSet(Of(buf, d)) /\ Cardinality(Of(buf, d)) <= Cardinality(1 .. Len(buf))
  BY <1>1, <1>2, FS_Subset
<1> QED BY <1>2, <1>3, FS_CardinalityType

(* A committed store is counted for its double word. *)
LEMMA OfAppend ==
  ASSUME NEW buf \in Seq(Store), NEW e \in Store, NEW d
  PROVE  /\ Append(buf, e) \in Seq(Store)
         /\ Len(Append(buf, e)) = Len(buf) + 1
         /\ e.dword = d => /\ Of(Append(buf, e), d) # {}
                           /\ Cardinality(Of(Append(buf, e), d)) = Cardinality(Of(buf, d)) + 1
         /\ e.dword # d => Of(Append(buf, e), d) = Of(buf, d)
<1> DEFINE n == Len(buf) + 1
<1>1. /\ Append(buf, e) \in Seq(Store)
      /\ Len(Append(buf, e)) = n
      /\ Append(buf, e)[n] = e
      /\ \A i \in 1 .. Len(buf) : Append(buf, e)[i] = buf[i]
      /\ Len(buf) \in Nat
  OBVIOUS
<1>2. DOMAIN Append(buf, e) = 1 .. n /\ DOMAIN buf = 1 .. Len(buf)
  BY <1>1
<1>3. e.dword # d => Of(Append(buf, e), d) = Of(buf, d)
  BY <1>1, <1>2 DEF Of
<1>4. e.dword = d => Of(Append(buf, e), d) = Of(buf, d) \cup {n}
  BY <1>1, <1>2 DEF Of
<1>5. n \notin Of(buf, d)
  BY <1>1, <1>2 DEF Of
<1>6. Cardinality(Of(buf, d) \cup {n}) = Cardinality(Of(buf, d)) + 1
  BY <1>5, OfFinite, FS_AddElement, Zenon
<1> QED BY <1>1, <1>3, <1>4, <1>6

(* The oldest store is no longer counted when it has drained. *)
LEMMA OfTail ==
  ASSUME NEW buf \in Seq(Store), buf # <<>>, NEW d
  PROVE  /\ Tail(buf) \in Seq(Store)
         /\ Len(Tail(buf)) = Len(buf) - 1
         /\ Cardinality(Of(Tail(buf), d)) =
              Cardinality(Of(buf, d)) - (IF Head(buf).dword = d THEN 1 ELSE 0)
         /\ Head(buf).dword # d => (Of(Tail(buf), d) = {} <=> Of(buf, d) = {})
         /\ Head(buf).dword = d => Of(buf, d) # {}
<1> DEFINE A == Of(Tail(buf), d)
           B == Of(buf, d) \ {1}
           f == [i \in A |-> i + 1]
<1>1. /\ Tail(buf) \in Seq(Store)
      /\ Len(Tail(buf)) = Len(buf) - 1
      /\ Len(buf) \in Nat \ {0}
      /\ \A i \in 1 .. Len(buf) - 1 : Tail(buf)[i] = buf[i + 1]
      /\ Head(buf) = buf[1]
  OBVIOUS
<1>2. DOMAIN Tail(buf) = 1 .. Len(buf) - 1 /\ DOMAIN buf = 1 .. Len(buf)
  BY <1>1
<1>3. 1 \in Of(buf, d) <=> Head(buf).dword = d
  BY <1>1, <1>2 DEF Of
<1>4. \A i : i \in A <=> i \in 1 .. Len(buf) - 1 /\ i + 1 \in B
  BY <1>1, <1>2 DEF Of
<1>5. \A k \in B : k - 1 \in A /\ k = (k - 1) + 1
  BY <1>1, <1>2 DEF Of
<1>6. \A i \in A : i \in Int
  BY <1>4, <1>1
<1> HIDE DEF A, B
<1>7. f \in Bijection(A, B)
  <2>1. f \in [A -> B]
    BY <1>4
  <2>2. \A i, j \in A : f[i] = f[j] => i = j
    BY <1>6
  <2>3. \A k \in B : \E i \in A : f[i] = k
    BY <1>5
  <2> QED BY <2>1, <2>2, <2>3 DEF Bijection, Injection, IsInjective, Surjection
<1>8. IsFiniteSet(A)
  BY <1>1, OfFinite DEF A
<1>9. Cardinality(B) = Cardinality(A)
  BY <1>7, <1>8, FS_Bijection DEF ExistsBijection
<1>10. Cardinality(B) = IF Head(buf).dword = d THEN Cardinality(Of(buf, d)) - 1
                        ELSE Cardinality(Of(buf, d))
  BY <1>3, OfFinite, FS_RemoveElement, Zenon DEF B
<1>11. A = {} <=> B = {}
  BY <1>4, <1>5
<1>12. Cardinality(A) = Cardinality(Of(buf, d)) - (IF Head(buf).dword = d THEN 1 ELSE 0)
  BY <1>9, <1>10, OfFinite
<1>13. Head(buf).dword # d => B = Of(buf, d)
  BY <1>3 DEF B
<1> QED BY <1>1, <1>3, <1>11, <1>12, <1>13 DEF A

(* A new store is the youngest of its CPU in the parts it writes. *)
LEMMA YoungestAppend ==
  ASSUME NEW buf \in Seq(Store), NEW e \in Store, NEW d, NEW val \in [Parts -> Int],
         Of(buf, d) = {} \/ Youngest(buf, d, val)
  PROVE  /\ e.dword = d => Youngest(Append(buf, e), d, overlay(val, e.parts, e.value))
         /\ e.dword # d => Youngest(Append(buf, e), d, val)
<1> DEFINE n == Len(buf) + 1
           new == Append(buf, e)
<1>1. /\ Len(buf) \in Nat
      /\ new[n] = e
      /\ \A i \in 1 .. Len(buf) : new[i] = buf[i]
      /\ DOMAIN new = 1 .. n /\ DOMAIN buf = 1 .. Len(buf)
  OBVIOUS
<1> HIDE DEF n, new
<1>2. Youngest(buf, d, val)
  BY DEF Youngest
<1>3. CASE e.dword # d
  <2>1. \A i : i \in Of(new, d) => i \in Of(buf, d) /\ new[i] = buf[i]
    BY <1>1, <1>3 DEF Of, n
  <2>2. \A i : i \in Of(buf, d) => i \in Of(new, d) /\ new[i] = buf[i]
    BY <1>1, <1>3 DEF Of, n
  <2> QED BY <1>2, <1>3, <2>1, <2>2 DEF Youngest, new
<1>4. CASE e.dword = d
  <2> SUFFICES ASSUME NEW p \in Parts,
                      NEW i \in Of(new, d), p \in new[i].parts,
                      \A j \in Of(new, d) : p \in new[j].parts => j <= i
               PROVE  overlay(val, e.parts, e.value)[p] = new[i].value
    BY <1>4 DEF Youngest, new
  <2>1. n \in Of(new, d)
    BY <1>1, <1>4 DEF Of, n
  <2>2. CASE p \in e.parts
    <3>1. i = n
      BY <1>1, <2>1, <2>2 DEF Of, n
    <3> QED BY <1>1, <2>2, <3>1 DEF overlay
  <2>3. CASE p \notin e.parts
    <3>1. i \in 1 .. Len(buf) /\ i \in Of(buf, d) /\ new[i] = buf[i]
      BY <1>1, <2>3 DEF Of, n
    <3>2. \A j \in Of(buf, d) : j \in Of(new, d) /\ new[j] = buf[j]
      BY <1>1 DEF Of, n
    <3>3. val[p] = buf[i].value
      BY <1>2, <3>1, <3>2 DEF Youngest
    <3> QED BY <2>3, <3>1, <3>3 DEF overlay
  <2> QED BY <2>2, <2>3
<1> QED BY <1>3, <1>4

(* A store that drains was not the youngest, or the only one left. *)
LEMMA YoungestTail ==
  ASSUME NEW buf \in Seq(Store), buf # <<>>, NEW d, NEW val, Youngest(buf, d, val)
  PROVE  Youngest(Tail(buf), d, val)
<1>1. /\ Len(buf) \in Nat \ {0}
      /\ \A i \in 1 .. Len(buf) - 1 : Tail(buf)[i] = buf[i + 1]
      /\ DOMAIN Tail(buf) = 1 .. Len(buf) - 1 /\ DOMAIN buf = 1 .. Len(buf)
  OBVIOUS
<1> SUFFICES ASSUME NEW p \in Parts,
                    NEW i \in Of(Tail(buf), d), p \in Tail(buf)[i].parts,
                    \A j \in Of(Tail(buf), d) : p \in Tail(buf)[j].parts => j <= i
             PROVE  val[p] = Tail(buf)[i].value
  BY DEF Youngest
<1>2. i + 1 \in Of(buf, d) /\ Tail(buf)[i] = buf[i + 1] /\ i \in 1 .. Len(buf) - 1
  BY <1>1 DEF Of
<1>3. ASSUME NEW k \in Of(buf, d), p \in buf[k].parts PROVE k <= i + 1
  <2>1. k \in 1 .. Len(buf)
    BY <1>1 DEF Of
  <2>2. CASE k # 1
    <3>1. k - 1 \in 1 .. Len(buf) - 1 /\ Tail(buf)[k - 1] = buf[k]
      BY <1>1, <2>1, <2>2
    <3>2. k - 1 \in Of(Tail(buf), d)
      BY <1>1, <3>1 DEF Of
    <3> QED BY <1>2, <1>3, <2>1, <3>1, <3>2
  <2> QED BY <1>2, <2>1, <2>2
<1> QED BY <1>2, <1>3 DEF Youngest

-----------------------------------------------------------------------------
(* One double word: its track t and its image s.                           *)

(* Values a CPU may see: never the marker of a device write. *)
Image == [Parts -> Values \ {Junk}]

(* What is globally visible. *)
Base(t, s) == IF t = NoTrack \/ t.reflects = "Poisoned" THEN s ELSE t.global

(* The tracker is consistent: while the image is that of one CPU it is the *)
(* value kept for that CPU, which has a store outstanding; a double word   *)
(* is tracked as long as some CPU has; only a device write leaves the      *)
(* marker.                                                                 *)
Sound(t, s) ==
  /\ t \in Track
  /\ s \in Image
  /\ t.reflects \in Cpus => /\ t.reflects \in DOMAIN t.locals
                            /\ s = t.locals[t.reflects].value
  /\ Base(t, s) \in Image
  /\ \A c \in DOMAIN t.locals : t.locals[c].value \in Image
  /\ t # NoTrack <=> DOMAIN t.locals # {}

(* t and s show the value m of memory. *)
Shows(t, s, m) == Base(t, s) = m /\ (t.reflects \notin Cpus => s = m)

(* theLocallyVisibleValues is a map from CPUs to values and counters. *)
LEMMA LocalsType ==
  ASSUME NEW f
  PROVE  f \in UNION {[S -> Local] : S \in SUBSET Cpus} <=>
           /\ DOMAIN f \in SUBSET Cpus
           /\ f \in [DOMAIN f -> Local]
OBVIOUS

(* An untracked double word is sound. *)
LEMMA NoTrackSound ==
  ASSUME NEW s \in Image
  PROVE  Sound(NoTrack, s)
<1>1. DOMAIN NoTrack.locals = {} /\ NoTrack.reflects = "G"
  BY DEF NoTrack, NoLocals
<1>2. NoTrack.locals \in [{} -> Local]
  BY DEF NoTrack, NoLocals
<1>3. NoTrack.locals \in UNION {[S -> Local] : S \in SUBSET Cpus}
  BY <1>1, <1>2
<1>4. [p \in Parts |-> Junk] \in Dword
  BY BoundsAssumption DEF Dword, Values, Junk
<1>5. NoTrack \in Track
  BY <1>3, <1>4 DEF NoTrack, Track
<1>6. Base(NoTrack, s) = s
  BY DEF Base
<1> QED BY <1>1, <1>5, <1>6, ReflectsAssumption DEF Sound

(* overlay leaves an image an image. *)
LEMMA OverlayImage ==
  ASSUME NEW old \in Image, NEW parts, NEW v \in 1 .. MaxWrites
  PROVE  overlay(old, parts, v) \in Image
BY BoundsAssumption DEF overlay, Image, Values, Junk

(* Every image is a value of a double word. *)
LEMMA ImageDword == Image \subseteq Dword
BY DEF Image, Dword

(* What Resolve leaves: the globally visible value and the same locals. *)
LEMMA ResolveFacts ==
  ASSUME NEW t, NEW s, Sound(t, s)
  PROVE  LET r == Resolve(t, s) IN
         /\ r \in Track
         /\ r.locals = t.locals
         /\ t # NoTrack => r.global = Base(t, s)
         /\ r.reflects = IF t.reflects = "Poisoned" THEN "G" ELSE t.reflects
BY ImageDword DEF Sound, Resolve, Track, Base

(* A record with one more local value. *)
LEMMA SetLocalFacts ==
  ASSUME NEW r \in Track, NEW c \in Cpus, NEW val \in Dword, NEW n \in 1 .. MaxBuffer
  PROVE  LET q == SetLocal(r, c, val, n) IN
         /\ q \in Track
         /\ q.global = r.global /\ q.reflects = r.reflects
         /\ DOMAIN q.locals = DOMAIN r.locals \cup {c}
         /\ q.locals[c] = [value |-> val, stores |-> n]
         /\ \A x \in DOMAIN r.locals \ {c} : q.locals[x] = r.locals[x]
<1> DEFINE f == [x \in DOMAIN r.locals \cup {c} |->
                   IF x = c THEN [value |-> val, stores |-> n] ELSE r.locals[x]]
<1>1. DOMAIN r.locals \in SUBSET Cpus /\ r.locals \in [DOMAIN r.locals -> Local]
  BY LocalsType DEF Track
<1>2. [value |-> val, stores |-> n] \in Local
  BY DEF Local
<1>3. DOMAIN f = DOMAIN r.locals \cup {c} /\ f \in [DOMAIN r.locals \cup {c} -> Local]
  BY <1>1, <1>2
<1>4. f \in UNION {[S -> Local] : S \in SUBSET Cpus}
  BY <1>1, <1>3, LocalsType
<1>5. SetLocal(r, c, val, n) = [r EXCEPT !.locals = f]
  BY DEF SetLocal
<1>6. f[c] = [value |-> val, stores |-> n] /\ \A x \in DOMAIN r.locals \ {c} : f[x] = r.locals[x]
  OBVIOUS
<1> HIDE DEF f
<1>7. r \in Track
  OBVIOUS
<1> QED BY <1>3, <1>4, <1>5, <1>6, <1>7 DEF Track

(* What the locals of a sound double word are. *)
LEMMA SoundLocals ==
  ASSUME NEW t, NEW s, Sound(t, s)
  PROVE  /\ DOMAIN t.locals \in SUBSET Cpus
         /\ \A c \in DOMAIN t.locals : /\ t.locals[c] \in Local
                                       /\ t.locals[c].stores \in 1 .. MaxBuffer
                                       /\ t.locals[c].value \in Image
<1>1. t.locals \in UNION {[S -> Local] : S \in SUBSET Cpus}
  BY DEF Sound, Track
<1>2. DOMAIN t.locals \in SUBSET Cpus /\ t.locals \in [DOMAIN t.locals -> Local]
  BY <1>1, LocalsType
<1> QED BY <1>2 DEF Sound, Local

(* store: the CPU's value is its last one, or what is globally visible,    *)
(* with the new parts; it is in the image, and nothing else changes.       *)
LEMMA StoreEffect ==
  ASSUME NEW t, NEW s, Sound(t, s), NEW c \in Cpus, NEW parts, NEW v \in 1 .. MaxWrites,
         MaxBuffer # 0, HasLocal(t, c) => t.locals[c].stores < MaxBuffer
  PROVE  LET q == store(t, s, c, parts, v) IN
         /\ Sound(q.track, q.simics)
         /\ DOMAIN q.track.locals = DOMAIN t.locals \cup {c}
         /\ q.track.locals[c].stores = (IF HasLocal(t, c) THEN t.locals[c].stores ELSE 0) + 1
         /\ HasLocal(t, c) =>
              q.track.locals[c].value = overlay(t.locals[c].value, parts, v)
         /\ \E val \in Image : q.track.locals[c].value = overlay(val, parts, v)
         /\ \A x \in DOMAIN t.locals \ {c} : q.track.locals[x] = t.locals[x]
         /\ \A m : Shows(t, s, m) => Shows(q.track, q.simics, m)
<1> DEFINE r == IF t = NoTrack THEN [t EXCEPT !.global = s] ELSE Resolve(t, s)
           old == IF HasLocal(r, c) THEN Visible(r, s, c) ELSE r.global
           new == overlay(old, parts, v)
           n == (IF HasLocal(r, c) THEN r.locals[c].stores ELSE 0) + 1
           u == SetLocal(r, c, new, n)
           w == [u EXCEPT !.reflects = c]
<1>1. r \in Track /\ r.locals = t.locals /\ r.global = Base(t, s)
      /\ r.reflects = IF t.reflects = "Poisoned" THEN "G" ELSE t.reflects
  <2>1. CASE t = NoTrack
    <3>1. t \in Track /\ s \in Dword /\ t.reflects = "G"
      BY <2>1, ImageDword DEF Sound, NoTrack
    <3>2. Base(t, s) = s
      BY <2>1 DEF Base
    <3> QED BY <2>1, <3>1, <3>2 DEF Track
  <2>2. CASE t # NoTrack
    BY <2>2, ResolveFacts
  <2> QED BY <2>1, <2>2
<1>2. old = IF HasLocal(t, c) THEN t.locals[c].value ELSE Base(t, s)
  BY <1>1, ReflectsAssumption DEF HasLocal, Visible, Sound
<1>3. old \in Image
  BY <1>2 DEF Sound, HasLocal
<1> HIDE DEF r, old
<1>4. new \in Image /\ new \in Dword
  BY <1>3, OverlayImage, ImageDword
<1>5. n \in 1 .. MaxBuffer
  BY <1>1, SoundLocals, BoundsAssumption DEF HasLocal
<1>6. /\ u \in Track
      /\ u.global = r.global
      /\ DOMAIN u.locals = DOMAIN r.locals \cup {c}
      /\ u.locals[c] = [value |-> new, stores |-> n]
      /\ \A x \in DOMAIN r.locals \ {c} : u.locals[x] = r.locals[x]
  BY <1>1, <1>4, <1>5, SetLocalFacts
<1>7. store(t, s, c, parts, v) = [track |-> w, simics |-> new]
  BY DEF store, r, old
<1> HIDE DEF new, n, u
<1>8. w \in Track /\ w.global = u.global /\ w.locals = u.locals /\ w.reflects = c
  BY <1>6 DEF Track
<1> HIDE DEF w
<1>9. w # NoTrack /\ w.reflects # "Poisoned" /\ Base(w, new) = Base(t, s)
  <2>1. NoTrack.reflects = "G"
    BY DEF NoTrack
  <2>2. w # NoTrack /\ w.reflects # "Poisoned"
    BY <1>8, <2>1, ReflectsAssumption
  <2> QED BY <1>1, <1>6, <1>8, <2>2 DEF Base
<1>10. Sound(w, new)
  <2>1. Base(t, s) \in Image /\ \A x \in DOMAIN t.locals : t.locals[x].value \in Image
    BY DEF Sound
  <2>2. \A x \in DOMAIN w.locals : w.locals[x].value \in Image
    BY <1>1, <1>4, <1>6, <1>8, <2>1
  <2>3. w.reflects \in DOMAIN w.locals /\ new = w.locals[w.reflects].value
    BY <1>6, <1>8
  <2> QED BY <1>4, <1>6, <1>8, <1>9, <2>1, <2>2, <2>3 DEF Sound
<1>11. \A m : Shows(t, s, m) => Shows(w, new, m)
  BY <1>8, <1>9 DEF Shows
<1>12. /\ DOMAIN w.locals = DOMAIN t.locals \cup {c}
       /\ w.locals[c] = [value |-> new, stores |-> n]
       /\ \A x \in DOMAIN t.locals \ {c} : w.locals[x] = t.locals[x]
  BY <1>1, <1>6, <1>8
<1>13. n = (IF HasLocal(t, c) THEN t.locals[c].stores ELSE 0) + 1
  BY <1>1 DEF n, HasLocal
<1>14. /\ HasLocal(t, c) => new = overlay(t.locals[c].value, parts, v)
       /\ \E val \in Image : new = overlay(val, parts, v)
  BY <1>2, <1>3 DEF new
<1> QED BY <1>7, <1>10, <1>11, <1>12, <1>13, <1>14

(* commitStore: what is globally visible, and the image, take the parts of *)
(* the store; the CPU's value goes with its last store only.               *)
LEMMA CommitEffect ==
  ASSUME NEW t, NEW s, Sound(t, s), NEW c \in Cpus, HasLocal(t, c),
         NEW parts, NEW v \in 1 .. MaxWrites
  PROVE  LET q == commitStore(t, s, c, parts, v)
             gone == IF t.locals[c].stores = 1 THEN {c} ELSE {}
         IN /\ Sound(q.track, q.simics)
            /\ DOMAIN q.track.locals = DOMAIN t.locals \ gone
            /\ \A x \in DOMAIN t.locals \ gone :
                 /\ q.track.locals[x].value = t.locals[x].value
                 /\ q.track.locals[x].stores =
                      t.locals[x].stores - (IF x = c THEN 1 ELSE 0)
            /\ \A m : Shows(t, s, m) => Shows(q.track, q.simics, overlay(m, parts, v))
<1> DEFINE r == Resolve(t, s)
           new == overlay(r.global, parts, v)
           n == r.locals[c].stores
           gone == IF t.locals[c].stores = 1 THEN {c} ELSE {}
           left == [x \in DOMAIN r.locals \ (IF n = 1 THEN {c} ELSE {}) |->
                      IF x = c THEN [r.locals[c] EXCEPT !.stores = n - 1] ELSE r.locals[x]]
           w == IF left = NoLocals THEN NoTrack
                ELSE [reflects |-> "G", global |-> new, locals |-> left]
<1>1. t # NoTrack /\ c \in DOMAIN t.locals
  BY DEF Sound, HasLocal
<1>2. r \in Track /\ r.locals = t.locals /\ r.global = Base(t, s)
  BY <1>1, ResolveFacts
<1>3. commitStore(t, s, c, parts, v) = [track |-> w, simics |-> new]
  BY DEF commitStore
<1>4. /\ DOMAIN t.locals \in SUBSET Cpus
      /\ \A x \in DOMAIN t.locals : /\ t.locals[x] \in Local
                                    /\ t.locals[x].stores \in 1 .. MaxBuffer
                                    /\ t.locals[x].value \in Image
  BY SoundLocals
<1>5. new \in Image /\ new = overlay(Base(t, s), parts, v)
  BY <1>2, OverlayImage DEF Sound
<1>6. /\ DOMAIN left = DOMAIN t.locals \ gone
      /\ left = [x \in DOMAIN left |-> left[x]]
  BY <1>2
<1>7. \A x \in DOMAIN left :
        /\ left[x] \in Local
        /\ left[x].value = t.locals[x].value
        /\ left[x].stores = t.locals[x].stores - (IF x = c THEN 1 ELSE 0)
  <2> SUFFICES ASSUME NEW x \in DOMAIN left
               PROVE  /\ left[x] \in Local
                      /\ left[x].value = t.locals[x].value
                      /\ left[x].stores = t.locals[x].stores - (IF x = c THEN 1 ELSE 0)
    OBVIOUS
  <2>1. CASE x = c
    <3>1. n \in 1 .. MaxBuffer /\ n # 1 /\ n = t.locals[c].stores
      BY <1>1, <1>2, <1>4, <2>1
    <3>2. left[x] = [t.locals[c] EXCEPT !.stores = n - 1]
      BY <1>2, <2>1
    <3>3. n - 1 \in 1 .. MaxBuffer
      BY <3>1, BoundsAssumption
    <3>4. t.locals[c] \in Local
      BY <1>1, <1>4
    <3> HIDE DEF left, n
    <3> QED BY <2>1, <3>1, <3>2, <3>3, <3>4 DEF Local
  <2>2. CASE x # c
    <3>1. left[x] = t.locals[x] /\ x \in DOMAIN t.locals
      BY <1>2, <2>2
    <3> HIDE DEF left
    <3>2. left[x] \in Local /\ left[x].stores \in 1 .. MaxBuffer
      BY <1>4, <3>1
    <3> QED BY <2>2, <3>1, <3>2
  <2> QED BY <2>1, <2>2
<1> HIDE DEF left, new
<1>8. CASE left = NoLocals
  <2>1. DOMAIN left = {} /\ w = NoTrack /\ w.locals = left
    BY <1>8 DEF NoLocals, NoTrack
  <2>2. Base(w, new) = new
    BY <2>1 DEF Base
  <2> HIDE DEF w
  <2>3. Sound(w, new)
    BY <1>5, <2>1, NoTrackSound
  <2>4. \A m : Shows(t, s, m) => Shows(w, new, overlay(m, parts, v))
    BY <1>5, <2>2 DEF Shows
  <2>5. /\ DOMAIN w.locals = DOMAIN t.locals \ gone
        /\ \A x \in DOMAIN t.locals \ gone : FALSE
    BY <1>6, <2>1
  <2> HIDE DEF gone
  <2> QED BY <1>3, <2>3, <2>4, <2>5 DEF gone, w
<1>9. CASE left # NoLocals
  <2>1. DOMAIN left # {}
    BY <1>6, <1>9 DEF NoLocals
  <2>2. w = [reflects |-> "G", global |-> new, locals |-> left]
    BY <1>9
  <2>3. w.reflects = "G" /\ w.global = new /\ w.locals = left
    BY <2>2
  <2>4. w # NoTrack
    <3>1. DOMAIN NoTrack.locals = {}
      BY DEF NoTrack, NoLocals
    <3> QED BY <2>1, <2>3, <3>1
  <2>5. left \in UNION {[S -> Local] : S \in SUBSET Cpus}
    <3>1. left \in [DOMAIN left -> Local]
      BY <1>6, <1>7
    <3>2. DOMAIN left \in SUBSET Cpus
      BY <1>4, <1>6
    <3> QED BY <3>1, <3>2, LocalsType
  <2>6. w \in Track
    <3>1. new \in Dword
      BY <1>5, ImageDword
    <3> QED BY <2>2, <2>5, <3>1 DEF Track
  <2> HIDE DEF w
  <2>7. Base(w, new) = new
    BY <2>3, <2>4 DEF Base
  <2>8. Sound(w, new)
    <3>1. \A x \in DOMAIN left : left[x].value \in Image
      BY <1>4, <1>6, <1>7
    <3> QED BY <1>5, <2>1, <2>3, <2>4, <2>6, <2>7, <3>1, ReflectsAssumption DEF Sound
  <2>9. \A m : Shows(t, s, m) => Shows(w, new, overlay(m, parts, v))
    BY <1>5, <2>7 DEF Shows
  <2> HIDE DEF gone
  <2>10. /\ DOMAIN w.locals = DOMAIN t.locals \ gone
         /\ \A x \in DOMAIN t.locals \ gone :
              /\ w.locals[x].value = t.locals[x].value
              /\ w.locals[x].stores = t.locals[x].stores - (IF x = c THEN 1 ELSE 0)
    BY <1>6, <1>7, <2>3 DEF gone
  <2> QED BY <1>3, <2>8, <2>9, <2>10 DEF gone, w
<1> QED BY <1>8, <1>9

(* access: the image becomes what c sees, its own value or the globally    *)
(* visible one, and the values of every CPU stay.                          *)
LEMMA AccessEffect ==
  ASSUME NEW t, NEW s, Sound(t, s), NEW c \in Cpus
  PROVE  LET q == access(t, s, c) IN
         /\ Sound(q.track, q.simics)
         /\ q.track.locals = t.locals
         /\ t = NoTrack => q.track = NoTrack /\ q.simics = s
         /\ HasLocal(t, c) => q.simics = t.locals[c].value
         /\ ~HasLocal(t, c) => q.track.reflects = "G"
         /\ \A m : Shows(t, s, m) => /\ Shows(q.track, q.simics, m)
                                     /\ ~HasLocal(t, c) => q.simics = m
<1>1. CASE t = NoTrack
  <2>1. access(t, s, c) = [track |-> t, simics |-> s]
    BY <1>1 DEF access
  <2>2. t.reflects = "G" /\ DOMAIN t.locals = {}
    BY <1>1 DEF NoTrack, NoLocals
  <2>3. ~HasLocal(t, c) /\ t.reflects \notin Cpus
    BY <2>2, ReflectsAssumption DEF HasLocal
  <2> QED BY <1>1, <2>1, <2>2, <2>3 DEF Shows
<1>2. CASE t # NoTrack
  <2> DEFINE r == Resolve(t, s)
             new == Visible(r, s, c)
             u == SetLocal(r, c, new, r.locals[c].stores)
             w == IF HasLocal(r, c) THEN [u EXCEPT !.reflects = c]
                  ELSE [r EXCEPT !.reflects = "G"]
  <2>1. access(t, s, c) = [track |-> w, simics |-> new]
    BY <1>2 DEF access
  <2>2. r \in Track /\ r.locals = t.locals /\ r.global = Base(t, s)
        /\ r.reflects = IF t.reflects = "Poisoned" THEN "G" ELSE t.reflects
    BY <1>2, ResolveFacts
  <2>3. HasLocal(r, c) <=> HasLocal(t, c)
    BY <2>2 DEF HasLocal
  <2>4. DOMAIN t.locals # {} /\ DOMAIN NoTrack.locals = {}
    BY <1>2 DEF Sound, NoTrack, NoLocals
  <2> HIDE DEF r
  <2>5. CASE HasLocal(t, c)
    <3>1. new = t.locals[c].value
      BY <2>2, <2>3, <2>5, ReflectsAssumption DEF Visible, Sound, HasLocal
    <3>2. /\ new \in Image /\ new \in Dword
          /\ r.locals[c].stores \in 1 .. MaxBuffer
          /\ t.locals[c] = [value |-> new, stores |-> r.locals[c].stores]
      <4>1. t.locals[c] \in Local /\ t.locals[c].value \in Image
            /\ t.locals[c].stores \in 1 .. MaxBuffer
        BY <2>5, SoundLocals DEF HasLocal
      <4>2. t.locals[c] = [value |-> t.locals[c].value, stores |-> t.locals[c].stores]
        BY <4>1 DEF Local
      <4> QED BY <2>2, <3>1, <4>1, <4>2, ImageDword
    <3> HIDE DEF new
    <3>3. /\ u \in Track
          /\ u.global = r.global
          /\ DOMAIN u.locals = DOMAIN r.locals
          /\ \A x \in DOMAIN r.locals : u.locals[x] = r.locals[x]
      <4>1. c \in DOMAIN r.locals
        BY <2>2, <2>5 DEF HasLocal
      <4>2. /\ u \in Track
            /\ u.global = r.global
            /\ DOMAIN u.locals = DOMAIN r.locals \cup {c}
            /\ u.locals[c] = [value |-> new, stores |-> r.locals[c].stores]
            /\ \A x \in DOMAIN r.locals \ {c} : u.locals[x] = r.locals[x]
        BY <2>2, <3>2, SetLocalFacts
      <4> HIDE DEF u
      <4> QED BY <2>2, <3>2, <4>1, <4>2
    <3>4. w = [u EXCEPT !.reflects = c]
      BY <2>3, <2>5
    <3> HIDE DEF u, w
    <3>5. w \in Track /\ w.global = u.global /\ w.locals = u.locals /\ w.reflects = c
      BY <3>3, <3>4 DEF Track
    <3>6. w.locals = t.locals
      <4>1. u.locals \in UNION {[S -> Local] : S \in SUBSET Cpus}
        BY <3>3 DEF Track
      <4>2. t.locals \in UNION {[S -> Local] : S \in SUBSET Cpus}
        BY DEF Sound, Track
      <4>3. u.locals \in [DOMAIN t.locals -> Local] /\ t.locals \in [DOMAIN t.locals -> Local]
        BY <2>2, <3>3, <4>1, <4>2, LocalsType
      <4> QED BY <2>2, <3>3, <3>5, <4>3
    <3>7. w # NoTrack /\ Base(w, new) = Base(t, s)
      <4>1. w # NoTrack
        BY <2>4, <3>6
      <4> QED BY <2>2, <3>3, <3>5, <4>1, ReflectsAssumption DEF Base
    <3>8. Sound(w, new)
      <4>1. Base(t, s) \in Image /\ \A x \in DOMAIN t.locals : t.locals[x].value \in Image
        BY DEF Sound
      <4>2. c \in DOMAIN w.locals /\ new = w.locals[c].value
        BY <2>5, <3>1, <3>6 DEF HasLocal
      <4> QED BY <2>4, <3>2, <3>5, <3>6, <3>7, <4>1, <4>2 DEF Sound
    <3>9. \A m : Shows(t, s, m) => Shows(w, new, m)
      BY <3>5, <3>7 DEF Shows
    <3> QED BY <1>2, <2>1, <2>5, <3>1, <3>6, <3>8, <3>9 DEF w, new, u
  <2>6. CASE ~HasLocal(t, c)
    <3>1. new = IF r.reflects = "G" THEN s ELSE r.global
      BY <2>3, <2>6 DEF Visible
    <3>2. new \in Image
      BY <2>2, <3>1 DEF Sound
    <3>3. w = [r EXCEPT !.reflects = "G"]
      BY <2>3, <2>6
    <3> HIDE DEF new, w
    <3>4. w \in Track /\ w.global = r.global /\ w.locals = t.locals /\ w.reflects = "G"
      BY <2>2, <3>3 DEF Track
    <3>5. w # NoTrack /\ Base(w, new) = Base(t, s)
      <4>1. w # NoTrack
        BY <2>4, <3>4
      <4> QED BY <2>2, <3>4, <4>1 DEF Base
    <3>6. Sound(w, new)
      <4>1. Base(t, s) \in Image /\ \A x \in DOMAIN t.locals : t.locals[x].value \in Image
        BY DEF Sound
      <4> QED BY <2>4, <3>2, <3>4, <3>5, <4>1, ReflectsAssumption DEF Sound
    <3>7. \A m : Shows(t, s, m) => Shows(w, new, m) /\ new = m
      BY <2>2, <3>1, <3>5, ReflectsAssumption DEF Shows
    <3> QED BY <1>2, <2>1, <2>6, <3>4, <3>6, <3>7 DEF w, new
  <2> QED BY <2>5, <2>6
<1> QED BY <1>1, <1>2

(* invalidate and the device's write: the image is what is globally        *)
(* visible, which is right unless the image was that of one CPU.           *)
LEMMA InvalidateEffect ==
  ASSUME NEW t, NEW s, Sound(t, s), NEW parts, NEW v \in 1 .. MaxWrites
  PROVE  LET q == invalidate(t)
             n == overlay(s, parts, v)
         IN /\ Sound(q, n)
            /\ q.locals = t.locals
            /\ \A m : Shows(t, s, m) /\ t.reflects \notin Cpus
                        => Shows(q, n, overlay(m, parts, v))
<1> DEFINE q == invalidate(t)
           n == overlay(s, parts, v)
<1>1. n \in Image
  BY OverlayImage DEF Sound
<1>2. CASE t = NoTrack
  <2>1. q = NoTrack
    BY <1>2 DEF invalidate
  <2>2. Base(q, n) = n
    BY <2>1 DEF Base
  <2>3. Sound(q, n)
    BY <1>1, <2>1, NoTrackSound
  <2>4. \A m : Shows(t, s, m) /\ t.reflects \notin Cpus => Shows(q, n, overlay(m, parts, v))
    BY <2>2 DEF Shows
  <2> HIDE DEF q, n
  <2> QED BY <1>2, <2>1, <2>3, <2>4 DEF q, n
<1>3. CASE t # NoTrack
  <2>1. t \in Track /\ [p \in Parts |-> Junk] \in Dword
    BY BoundsAssumption DEF Sound, Dword, Values, Junk
  <2>2. q = [t EXCEPT !.global = [p \in Parts |-> Junk], !.reflects = "Poisoned"]
    BY <1>3 DEF invalidate
  <2> HIDE DEF q, n
  <2>3. q \in Track /\ q.locals = t.locals /\ q.reflects = "Poisoned"
    BY <2>1, <2>2 DEF Track
  <2>4. q # NoTrack /\ Base(q, n) = n
    <3>1. NoTrack.reflects = "G"
      BY DEF NoTrack
    <3> QED BY <2>3, <3>1 DEF Base
  <2>5. Sound(q, n)
    <3>1. DOMAIN t.locals # {} /\ \A x \in DOMAIN t.locals : t.locals[x].value \in Image
      BY <1>3 DEF Sound
    <3> QED BY <1>1, <2>3, <2>4, <3>1, ReflectsAssumption DEF Sound
  <2>6. \A m : Shows(t, s, m) /\ t.reflects \notin Cpus => Shows(q, n, overlay(m, parts, v))
    BY <2>4 DEF Shows, n
  <2> QED BY <2>3, <2>5, <2>6 DEF q, n
<1> QED BY <1>2, <1>3

-----------------------------------------------------------------------------
(* One double word and the store buffers.                                  *)

(* theOutstandingStores counts the stores of each CPU to d. *)
Counted(t, bufs, d) ==
  /\ DOMAIN t.locals = {c \in Cpus : Of(bufs[c], d) # {}}
  /\ \A c \in DOMAIN t.locals : t.locals[c].stores = Cardinality(Of(bufs[c], d))

(* The value kept for a CPU shows its youngest stores. *)
Kept(t, bufs, d) == \A c \in DOMAIN t.locals : Youngest(bufs[c], d, t.locals[c].value)

(* What holds of every double word: m is what memory holds of it, apart    *)
(* whether an atomic or a device broke the correspondence with the image.  *)
Good(t, s, bufs, d, m, apart) ==
  Sound(t, s) /\ Counted(t, bufs, d) /\ Kept(t, bufs, d) /\ (~apart => Shows(t, s, m))

Buffers == {b \in [Cpus -> Seq(Store)] : \A c \in Cpus : Len(b[c]) <= MaxBuffer}

(* A store commits. *)
LEMMA GoodStore ==
  ASSUME NEW t, NEW s, NEW bufs \in Buffers, NEW d \in Dwords, NEW m, NEW apart,
         Good(t, s, bufs, d, m, apart), NEW c \in Cpus, Len(bufs[c]) < MaxBuffer,
         NEW e \in Store
  PROVE  LET new == [bufs EXCEPT ![c] = Append(@, e)]
             q == store(t, s, c, e.parts, e.value)
         IN /\ new \in Buffers
            /\ e.dword = d => Good(q.track, q.simics, new, d, m, apart)
            /\ e.dword # d => Good(t, s, new, d, m, apart)
<1> DEFINE new == [bufs EXCEPT ![c] = Append(@, e)]
           q == store(t, s, c, e.parts, e.value)
<1>1. /\ bufs[c] \in Seq(Store) /\ Len(bufs[c]) \in Nat
      /\ new[c] = Append(bufs[c], e)
      /\ \A x \in Cpus \ {c} : new[x] = bufs[x]
  BY DEF Buffers
<1>2. /\ Append(bufs[c], e) \in Seq(Store)
      /\ Len(Append(bufs[c], e)) = Len(bufs[c]) + 1
      /\ e.dword = d => /\ Of(new[c], d) # {}
                        /\ Cardinality(Of(new[c], d)) = Cardinality(Of(bufs[c], d)) + 1
      /\ e.dword # d => Of(new[c], d) = Of(bufs[c], d)
  BY <1>1, OfAppend
<1>3. new \in Buffers
  BY <1>1, <1>2, BoundsAssumption DEF Buffers
<1>4. e.parts \in SUBSET Parts /\ e.value \in 1 .. MaxWrites
  BY DEF Store
<1>5. Sound(t, s) /\ Counted(t, bufs, d) /\ Kept(t, bufs, d)
  BY DEF Good
<1>6. DOMAIN t.locals \in SUBSET Cpus
      /\ \A x \in DOMAIN t.locals : /\ t.locals[x].stores \in 1 .. MaxBuffer
                                    /\ t.locals[x].value \in Image
  BY <1>5, SoundLocals
<1>7. HasLocal(t, c) <=> Of(bufs[c], d) # {}
  BY <1>5 DEF HasLocal, Counted
<1>8. Image \subseteq [Parts -> Int]
  BY BoundsAssumption DEF Image, Values, Junk
<1> HIDE DEF new, q
<1>9. CASE e.dword = d
  <2>1. MaxBuffer # 0 /\ (HasLocal(t, c) => t.locals[c].stores < MaxBuffer)
    <3>1. Cardinality(Of(bufs[c], d)) <= Len(bufs[c]) /\ Cardinality(Of(bufs[c], d)) \in Nat
      BY <1>1, OfFinite
    <3>2. HasLocal(t, c) => t.locals[c].stores = Cardinality(Of(bufs[c], d))
      BY <1>5 DEF HasLocal, Counted
    <3> QED BY <1>1, <3>1, <3>2, BoundsAssumption
  <2>2. /\ Sound(q.track, q.simics)
        /\ DOMAIN q.track.locals = DOMAIN t.locals \cup {c}
        /\ q.track.locals[c].stores = (IF HasLocal(t, c) THEN t.locals[c].stores ELSE 0) + 1
        /\ HasLocal(t, c) =>
             q.track.locals[c].value = overlay(t.locals[c].value, e.parts, e.value)
        /\ \E val \in Image : q.track.locals[c].value = overlay(val, e.parts, e.value)
        /\ \A x \in DOMAIN t.locals \ {c} : q.track.locals[x] = t.locals[x]
        /\ Shows(t, s, m) => Shows(q.track, q.simics, m)
    BY <1>4, <1>5, <2>1, StoreEffect DEF q
  <2>3. Counted(q.track, new, d)
    <3>1. DOMAIN q.track.locals = {x \in Cpus : Of(new[x], d) # {}}
      BY <1>1, <1>2, <1>5, <1>9, <2>2 DEF Counted
    <3>2. ~HasLocal(t, c) => Cardinality(Of(bufs[c], d)) = 0
      BY <1>7, FS_EmptySet
    <3>3. q.track.locals[c].stores = Cardinality(Of(new[c], d))
      BY <1>2, <1>5, <1>9, <2>2, <3>2 DEF Counted, HasLocal
    <3>4. \A x \in DOMAIN t.locals \ {c} : q.track.locals[x].stores = Cardinality(Of(new[x], d))
      BY <1>1, <1>5, <1>6, <2>2 DEF Counted
    <3> QED BY <2>2, <3>1, <3>3, <3>4 DEF Counted
  <2>4. Kept(q.track, new, d)
    <3>1. Youngest(new[c], d, q.track.locals[c].value)
      <4>1. PICK val \in Image :
              /\ q.track.locals[c].value = overlay(val, e.parts, e.value)
              /\ Of(bufs[c], d) = {} \/ Youngest(bufs[c], d, val)
        <5>1. CASE HasLocal(t, c)
          BY <1>5, <1>6, <2>2, <5>1 DEF HasLocal, Kept
        <5>2. CASE ~HasLocal(t, c)
          BY <1>7, <2>2, <5>2
        <5> QED BY <5>1, <5>2
      <4>2. val \in [Parts -> Int]
        BY <1>8
      <4> QED BY <1>1, <1>9, <4>1, <4>2, YoungestAppend
    <3>2. \A x \in DOMAIN t.locals \ {c} : Youngest(new[x], d, q.track.locals[x].value)
      BY <1>1, <1>5, <1>6, <2>2 DEF Kept
    <3> QED BY <2>2, <3>1, <3>2 DEF Kept
  <2> QED BY <1>3, <1>9, <2>2, <2>3, <2>4 DEF Good, q, new
<1>10. CASE e.dword # d
  <2>1. Counted(t, new, d)
    BY <1>1, <1>2, <1>5, <1>6, <1>10 DEF Counted
  <2>2. Kept(t, new, d)
    <3>1. c \in DOMAIN t.locals => Youngest(new[c], d, t.locals[c].value)
      <4> HAVE c \in DOMAIN t.locals
      <4>1. t.locals[c].value \in [Parts -> Int] /\ Youngest(bufs[c], d, t.locals[c].value)
        BY <1>5, <1>6, <1>8 DEF Kept
      <4> QED BY <1>1, <1>10, <4>1, YoungestAppend
    <3> QED BY <1>1, <1>5, <1>6, <3>1 DEF Kept
  <2> QED BY <1>3, <1>5, <1>10, <2>1, <2>2 DEF Good, new
<1> QED BY <1>9, <1>10

(* The oldest store of a CPU drains; its double word is tracked for it. *)
LEMMA GoodReply ==
  ASSUME NEW t, NEW s, NEW bufs \in Buffers, NEW d \in Dwords, NEW m, NEW apart,
         Good(t, s, bufs, d, m, apart), NEW c \in Cpus, bufs[c] # <<>>
  PROVE  LET new == [bufs EXCEPT ![c] = Tail(@)]
             h == Head(bufs[c])
             q == commitStore(t, s, c, h.parts, h.value)
         IN /\ new \in Buffers
            /\ h \in Store
            /\ h.dword = d => /\ HasLocal(t, c)
                              /\ Good(q.track, q.simics, new, d,
                                      overlay(m, h.parts, h.value), apart)
            /\ h.dword # d => Good(t, s, new, d, m, apart)
<1> DEFINE new == [bufs EXCEPT ![c] = Tail(@)]
           h == Head(bufs[c])
           q == commitStore(t, s, c, h.parts, h.value)
<1>1. /\ bufs[c] \in Seq(Store) /\ Len(bufs[c]) \in Nat
      /\ new[c] = Tail(bufs[c])
      /\ \A x \in Cpus \ {c} : new[x] = bufs[x]
  BY DEF Buffers
<1>2. h \in Store
  BY <1>1
<1>3. /\ Tail(bufs[c]) \in Seq(Store)
      /\ Len(Tail(bufs[c])) = Len(bufs[c]) - 1
      /\ Cardinality(Of(new[c], d)) =
           Cardinality(Of(bufs[c], d)) - (IF h.dword = d THEN 1 ELSE 0)
      /\ h.dword # d => (Of(new[c], d) = {} <=> Of(bufs[c], d) = {})
      /\ h.dword = d => Of(bufs[c], d) # {}
  BY <1>1, OfTail
<1>4. new \in Buffers
  BY <1>1, <1>3, BoundsAssumption DEF Buffers
<1>5. Sound(t, s) /\ Counted(t, bufs, d) /\ Kept(t, bufs, d)
  BY DEF Good
<1>6. DOMAIN t.locals \in SUBSET Cpus
      /\ \A x \in DOMAIN t.locals : t.locals[x].stores \in 1 .. MaxBuffer
  BY <1>5, SoundLocals
<1>7. HasLocal(t, c) <=> Of(bufs[c], d) # {}
  BY <1>5 DEF HasLocal, Counted
<1>8. \A val : Youngest(bufs[c], d, val) => Youngest(new[c], d, val)
  BY <1>1, YoungestTail
<1>9. /\ IsFiniteSet(Of(new[c], d))
      /\ Cardinality(Of(bufs[c], d)) \in Nat /\ Cardinality(Of(new[c], d)) \in Nat
  BY <1>1, <1>3, OfFinite
<1> HIDE DEF new, q, h
<1>10. CASE h.dword = d
  <2>1. HasLocal(t, c)
    BY <1>3, <1>7, <1>10
  <2>2. h.value \in 1 .. MaxWrites
    BY <1>2 DEF Store
  <2> DEFINE gone == IF t.locals[c].stores = 1 THEN {c} ELSE {}
  <2>3. /\ Sound(q.track, q.simics)
        /\ DOMAIN q.track.locals = DOMAIN t.locals \ gone
        /\ \A x \in DOMAIN t.locals \ gone :
             /\ q.track.locals[x].value = t.locals[x].value
             /\ q.track.locals[x].stores = t.locals[x].stores - (IF x = c THEN 1 ELSE 0)
        /\ Shows(t, s, m) => Shows(q.track, q.simics, overlay(m, h.parts, h.value))
    BY <1>5, <2>1, <2>2, CommitEffect DEF q
  <2>4. t.locals[c].stores = Cardinality(Of(bufs[c], d))
    BY <1>5, <2>1 DEF Counted, HasLocal
  <2>5. t.locals[c].stores = 1 <=> Of(new[c], d) = {}
    <3>1. t.locals[c].stores = 1 <=> Cardinality(Of(new[c], d)) = 0
      BY <1>3, <1>9, <1>10, <2>4
    <3> QED BY <1>9, <3>1, FS_EmptySet
  <2>6. Counted(q.track, new, d)
    <3>1. DOMAIN q.track.locals = {x \in Cpus : Of(new[x], d) # {}}
      <4>1. \A x \in Cpus \ {c} : x \in DOMAIN q.track.locals <=> Of(new[x], d) # {}
        BY <1>1, <1>5, <2>3 DEF Counted
      <4>2. c \in DOMAIN q.track.locals <=> Of(new[c], d) # {}
        BY <2>1, <2>3, <2>5 DEF HasLocal
      <4>3. DOMAIN q.track.locals \in SUBSET Cpus
        BY <1>6, <2>3
      <4> QED BY <4>1, <4>2, <4>3
    <3>2. ASSUME NEW x \in DOMAIN q.track.locals
          PROVE  q.track.locals[x].stores = Cardinality(Of(new[x], d))
      <4>1. x \in DOMAIN t.locals \ gone /\ x \in DOMAIN t.locals
        BY <2>3, <3>2
      <4>2. q.track.locals[x].stores = t.locals[x].stores - (IF x = c THEN 1 ELSE 0)
        BY <2>3, <4>1
      <4>3. t.locals[x].stores = Cardinality(Of(bufs[x], d)) /\ t.locals[x].stores \in Int
        BY <1>5, <1>6, <4>1 DEF Counted
      <4>4. CASE x = c
        BY <1>3, <1>10, <4>2, <4>3, <4>4
      <4>5. CASE x # c
        BY <1>1, <1>6, <4>1, <4>2, <4>3, <4>5
      <4> QED BY <4>4, <4>5
    <3> QED BY <3>1, <3>2 DEF Counted
  <2>7. Kept(q.track, new, d)
    <3> SUFFICES ASSUME NEW x \in DOMAIN q.track.locals
                 PROVE  Youngest(new[x], d, q.track.locals[x].value)
      BY DEF Kept
    <3>1. x \in DOMAIN t.locals /\ q.track.locals[x].value = t.locals[x].value /\ x \in Cpus
      BY <1>6, <2>3
    <3>2. Youngest(bufs[x], d, t.locals[x].value)
      BY <1>5, <3>1 DEF Kept
    <3> QED BY <1>1, <1>8, <3>1, <3>2
  <2> QED BY <1>2, <1>4, <1>10, <2>1, <2>3, <2>6, <2>7 DEF Good, q, new, h
<1>11. CASE h.dword # d
  <2>1. \A x \in Cpus : Of(new[x], d) = {} <=> Of(bufs[x], d) = {}
    BY <1>1, <1>3, <1>11
  <2>2. \A x \in Cpus : Cardinality(Of(new[x], d)) = Cardinality(Of(bufs[x], d))
    BY <1>1, <1>3, <1>9, <1>11
  <2>3. Counted(t, new, d)
    BY <1>5, <1>6, <2>1, <2>2 DEF Counted
  <2>4. Kept(t, new, d)
    BY <1>1, <1>5, <1>6, <1>8 DEF Kept
  <2> QED BY <1>2, <1>4, <1>5, <1>11, <2>3, <2>4 DEF Good, new, h
<1> QED BY <1>10, <1>11

-----------------------------------------------------------------------------
(* The inductive invariant and the theorems.                               *)

IInv ==
  /\ TypeOK
  /\ buffer \in Buffers
  /\ \A d \in Dwords : Good(track[d], simics[d], buffer, d, memory[d], d \in mixed)

(* Nothing is tracked at the start. *)
LEMMA InitIInv == Init => IInv
<1> SUFFICES ASSUME Init PROVE IInv
  OBVIOUS
<1>1. /\ track = [d \in Dwords |-> NoTrack]
      /\ simics = [d \in Dwords |-> [p \in Parts |-> 0]]
      /\ buffer = [c \in Cpus |-> <<>>]
      /\ memory = simics
      /\ mixed = {} /\ writes = 0
  BY DEF Init
<1>2. [p \in Parts |-> 0] \in Image /\ [p \in Parts |-> 0] \in Dword
  BY BoundsAssumption DEF Image, Dword, Values, Junk
<1>3. buffer \in Buffers
  BY <1>1, BoundsAssumption DEF Buffers
<1>4. ASSUME NEW d \in Dwords
      PROVE  Good(track[d], simics[d], buffer, d, memory[d], d \in mixed)
  <2>1. Sound(track[d], simics[d]) /\ track[d] = NoTrack /\ memory[d] = simics[d]
    BY <1>1, <1>2, NoTrackSound
  <2>2. DOMAIN track[d].locals = {}
    BY <2>1 DEF NoTrack, NoLocals
  <2>3. \A c \in Cpus : Of(buffer[c], d) = {}
    BY <1>1 DEF Of
  <2>4. Counted(track[d], buffer, d) /\ Kept(track[d], buffer, d)
    BY <2>2, <2>3 DEF Counted, Kept
  <2>5. Shows(track[d], simics[d], memory[d])
    BY <2>1 DEF Shows, Base
  <2> QED BY <2>1, <2>4, <2>5 DEF Good
<1>5. track \in [Dwords -> Track] /\ simics \in [Dwords -> [Parts -> Values \ {Junk}]]
  <2>1. NoTrack \in Track
    BY <1>2, NoTrackSound DEF Sound
  <2> QED BY <1>1, <1>2, <2>1 DEF Image
<1>6. TypeOK
  <2>1. buffer \in [Cpus -> Seq(Store)]
    BY <1>3 DEF Buffers
  <2>2. memory \in [Dwords -> Dword] /\ mixed \subseteq Dwords /\ writes \in 0 .. MaxWrites
    BY <1>1, <1>2, BoundsAssumption
  <2> QED BY <1>5, <2>1, <2>2 DEF TypeOK
<1> QED BY <1>3, <1>4, <1>6 DEF IInv

(* overlay leaves a double word a double word. *)
LEMMA OverlayDword ==
  ASSUME NEW old \in Dword, NEW parts, NEW v \in 1 .. MaxWrites
  PROVE  overlay(old, parts, v) \in Dword
BY BoundsAssumption DEF overlay, Dword, Values, Junk

(* The number of a new write. *)
LEMMA WriteValue ==
  ASSUME writes \in 0 .. MaxWrites, Write
  PROVE  writes' \in 1 .. MaxWrites /\ writes' \in 0 .. MaxWrites
BY BoundsAssumption DEF Write

(* CommitOfStore preserves the invariant. *)
LEMMA StepCommitOfStore ==
  ASSUME IInv, NEW c \in Cpus, NEW d \in Dwords, NEW parts \in SUBSET Parts \ {{}},
         CommitOfStore(c, d, parts)
  PROVE  IInv'
<1> DEFINE e == [dword |-> d, parts |-> parts, value |-> writes']
           q == store(track[d], simics[d], c, parts, writes')
<1>1. /\ TypeOK /\ buffer \in Buffers
      /\ \A x \in Dwords : Good(track[x], simics[x], buffer, x, memory[x], x \in mixed)
  BY DEF IInv
<1>2. writes' \in 1 .. MaxWrites /\ writes' \in 0 .. MaxWrites
  BY <1>1, WriteValue DEF CommitOfStore, TypeOK
<1>3. e \in Store /\ e.dword = d /\ e.parts = parts /\ e.value = writes'
  BY <1>2 DEF Store
<1>4. /\ Len(buffer[c]) < MaxBuffer
      /\ buffer' = [buffer EXCEPT ![c] = Append(@, e)]
      /\ track' = [track EXCEPT ![d] = q.track]
      /\ simics' = [simics EXCEPT ![d] = q.simics]
      /\ memory' = memory /\ mixed' = mixed
  BY DEF CommitOfStore, Update
<1> HIDE DEF e
<1>5. buffer' \in Buffers
  BY <1>1, <1>3, <1>4, GoodStore
<1>6. q = store(track[d], simics[d], c, e.parts, e.value)
  BY <1>3
<1> HIDE DEF q
<1>7. /\ DOMAIN track = Dwords /\ DOMAIN simics = Dwords
      /\ track'[d] = q.track /\ simics'[d] = q.simics
      /\ \A x \in Dwords \ {d} : track'[x] = track[x] /\ simics'[x] = simics[x]
      /\ track' = [x \in Dwords |-> track'[x]] /\ simics' = [x \in Dwords |-> simics'[x]]
  BY <1>1, <1>4 DEF TypeOK
<1>8. ASSUME NEW x \in Dwords
      PROVE  Good(track'[x], simics'[x], buffer', x, memory'[x], x \in mixed')
  <2>1. CASE x = d
    BY <1>1, <1>3, <1>4, <1>6, <1>7, <2>1, GoodStore
  <2>2. CASE x # d
    BY <1>1, <1>3, <1>4, <1>7, <2>2, GoodStore
  <2> QED BY <2>1, <2>2
<1>9. track' \in [Dwords -> Track] /\ simics' \in [Dwords -> [Parts -> Values \ {Junk}]]
  <2>1. \A x \in Dwords : track'[x] \in Track /\ simics'[x] \in [Parts -> Values \ {Junk}]
    BY <1>8 DEF Good, Sound, Image
  <2> QED BY <1>7, <2>1
<1>10. TypeOK'
  BY <1>1, <1>2, <1>4, <1>5, <1>9 DEF TypeOK, Buffers
<1> QED BY <1>5, <1>8, <1>10 DEF IInv

(* StoreReply preserves the invariant. *)
LEMMA StepStoreReply ==
  ASSUME IInv, NEW c \in Cpus, StoreReply(c)
  PROVE  IInv'
<1> DEFINE h == Head(buffer[c])
           d == h.dword
           q == commitStore(track[d], simics[d], c, h.parts, h.value)
<1>1. /\ TypeOK /\ buffer \in Buffers
      /\ \A x \in Dwords : Good(track[x], simics[x], buffer, x, memory[x], x \in mixed)
  BY DEF IInv
<1>2. /\ buffer[c] # <<>>
      /\ buffer' = [buffer EXCEPT ![c] = Tail(@)]
      /\ track' = [track EXCEPT ![d] = q.track]
      /\ simics' = [simics EXCEPT ![d] = q.simics]
      /\ memory' = [memory EXCEPT ![d] = overlay(@, h.parts, h.value)]
      /\ mixed' = mixed /\ writes' = writes
  BY DEF StoreReply, Update
<1>3. buffer[c] \in Seq(Store)
  BY <1>1 DEF Buffers
<1>4. h \in Store
  BY <1>2, <1>3
<1>5. d \in Dwords /\ h.value \in 1 .. MaxWrites
  BY <1>4 DEF Store
<1>6. buffer' \in Buffers
  BY <1>1, <1>2, <1>5, GoodReply
<1>7. ASSUME NEW x \in Dwords
      PROVE  /\ h.dword = x =>
                  LET r == commitStore(track[x], simics[x], c, h.parts, h.value) IN
                  Good(r.track, r.simics, buffer', x,
                       overlay(memory[x], h.parts, h.value), x \in mixed)
             /\ h.dword # x => Good(track[x], simics[x], buffer', x, memory[x], x \in mixed)
  BY <1>1, <1>2, GoodReply
<1> HIDE DEF h, q
<1>8. /\ DOMAIN track = Dwords /\ DOMAIN simics = Dwords
      /\ track'[d] = q.track /\ simics'[d] = q.simics
      /\ memory'[d] = overlay(memory[d], h.parts, h.value)
      /\ \A x \in Dwords \ {d} :
           track'[x] = track[x] /\ simics'[x] = simics[x] /\ memory'[x] = memory[x]
      /\ track' = [x \in Dwords |-> track'[x]] /\ simics' = [x \in Dwords |-> simics'[x]]
  BY <1>1, <1>2, <1>5 DEF TypeOK
<1>9. ASSUME NEW x \in Dwords
      PROVE  Good(track'[x], simics'[x], buffer', x, memory'[x], x \in mixed')
  <2>1. CASE x = d
    <3>1. Good(q.track, q.simics, buffer', d, overlay(memory[d], h.parts, h.value), d \in mixed)
      BY <1>5, <1>7 DEF q
    <3> HIDE DEF d
    <3> QED BY <1>2, <1>8, <2>1, <3>1
  <2>2. CASE x # d
    BY <1>2, <1>7, <1>8, <2>2
  <2> QED BY <2>1, <2>2
<1>10. track' \in [Dwords -> Track] /\ simics' \in [Dwords -> [Parts -> Values \ {Junk}]]
  <2>1. \A x \in Dwords : track'[x] \in Track /\ simics'[x] \in [Parts -> Values \ {Junk}]
    BY <1>9 DEF Good, Sound, Image
  <2> QED BY <1>8, <2>1
<1>11. memory' \in [Dwords -> Dword]
  <2>1. memory \in [Dwords -> Dword]
    BY <1>1 DEF TypeOK
  <2>2. overlay(memory[d], h.parts, h.value) \in Dword
    BY <1>5, <2>1, OverlayDword
  <2> QED BY <1>2, <2>1, <2>2
<1>12. TypeOK'
  BY <1>1, <1>2, <1>6, <1>10, <1>11 DEF TypeOK, Buffers
<1> QED BY <1>6, <1>9, <1>12 DEF IInv

(* Counted and Kept are about the values the tracker keeps only. *)
LEMMA SameLocals ==
  ASSUME NEW t, NEW u, NEW bufs, NEW d, u.locals = t.locals,
         Counted(t, bufs, d), Kept(t, bufs, d)
  PROVE  Counted(u, bufs, d) /\ Kept(u, bufs, d)
BY DEF Counted, Kept

(* Look preserves the invariant. *)
LEMMA StepLook ==
  ASSUME IInv, NEW c \in Cpus, NEW d \in Dwords, Look(c, d)
  PROVE  IInv'
<1> DEFINE q == access(track[d], simics[d], c)
<1>1. /\ TypeOK /\ buffer \in Buffers
      /\ \A x \in Dwords : Good(track[x], simics[x], buffer, x, memory[x], x \in mixed)
  BY DEF IInv
<1>2. /\ track' = [track EXCEPT ![d] = q.track]
      /\ simics' = [simics EXCEPT ![d] = q.simics]
      /\ buffer' = buffer /\ memory' = memory /\ mixed' = mixed /\ writes' = writes
  BY DEF Look, Update
<1>3. Good(q.track, q.simics, buffer, d, memory[d], d \in mixed)
  <2>1. Sound(track[d], simics[d])
    BY <1>1 DEF Good
  <2>2. /\ Sound(q.track, q.simics)
        /\ q.track.locals = track[d].locals
        /\ Shows(track[d], simics[d], memory[d]) => Shows(q.track, q.simics, memory[d])
    BY <2>1, AccessEffect
  <2> HIDE DEF q
  <2> QED BY <1>1, <2>2, SameLocals DEF Good
<1> HIDE DEF q
<1>4. /\ track'[d] = q.track /\ simics'[d] = q.simics
      /\ \A x \in Dwords \ {d} : track'[x] = track[x] /\ simics'[x] = simics[x]
      /\ track' = [x \in Dwords |-> track'[x]] /\ simics' = [x \in Dwords |-> simics'[x]]
  BY <1>1, <1>2 DEF TypeOK
<1>5. ASSUME NEW x \in Dwords
      PROVE  Good(track'[x], simics'[x], buffer', x, memory'[x], x \in mixed')
  BY <1>1, <1>2, <1>3, <1>4
<1>6. track' \in [Dwords -> Track] /\ simics' \in [Dwords -> [Parts -> Values \ {Junk}]]
  <2>1. \A x \in Dwords : track'[x] \in Track /\ simics'[x] \in [Parts -> Values \ {Junk}]
    BY <1>5 DEF Good, Sound, Image
  <2> QED BY <1>4, <2>1
<1> QED BY <1>1, <1>2, <1>5, <1>6 DEF IInv, TypeOK

(* CommitOfAtomic preserves the invariant. *)
LEMMA StepCommitOfAtomic ==
  ASSUME IInv, NEW c \in Cpus, NEW d \in Dwords, NEW parts \in SUBSET Parts \ {{}},
         CommitOfAtomic(c, d, parts)
  PROVE  IInv'
<1> DEFINE q == access(track[d], simics[d], c)
           img == overlay(q.simics, parts, writes')
<1>1. /\ TypeOK /\ buffer \in Buffers
      /\ \A x \in Dwords : Good(track[x], simics[x], buffer, x, memory[x], x \in mixed)
  BY DEF IInv
<1>2. writes' \in 1 .. MaxWrites /\ writes' \in 0 .. MaxWrites
  BY <1>1, WriteValue DEF CommitOfAtomic, TypeOK
<1>3. /\ track' = [track EXCEPT ![d] = q.track]
      /\ simics' = [simics EXCEPT ![d] = img]
      /\ memory' = [memory EXCEPT ![d] = overlay(@, parts, writes')]
      /\ mixed' = IF Tracked(d) THEN mixed \cup {d} ELSE mixed
      /\ buffer' = buffer /\ buffer[c] = <<>>
  <2>1. q = [track |-> q.track, simics |-> q.simics]
    BY DEF access
  <2>2. Update(d, [q EXCEPT !.simics = overlay(@, parts, writes')])
    BY DEF CommitOfAtomic
  <2>3. /\ memory' = [memory EXCEPT ![d] = overlay(@, parts, writes')]
        /\ mixed' = IF Tracked(d) THEN mixed \cup {d} ELSE mixed
        /\ buffer' = buffer /\ buffer[c] = <<>>
    BY DEF CommitOfAtomic
  <2> HIDE DEF q
  <2>4. LET r == [q EXCEPT !.simics = overlay(@, parts, writes')] IN
        r.track = q.track /\ r.simics = img
    BY <2>1
  <2> HIDE DEF img
  <2> QED BY <2>2, <2>3, <2>4 DEF Update
<1>4. /\ Sound(track[d], simics[d]) /\ Counted(track[d], buffer, d) /\ Kept(track[d], buffer, d)
      /\ d \notin mixed => Shows(track[d], simics[d], memory[d])
  BY <1>1 DEF Good
<1>5. ~HasLocal(track[d], c)
  BY <1>3, <1>4 DEF HasLocal, Counted, Of
<1>6. /\ Sound(q.track, q.simics)
      /\ q.track.locals = track[d].locals
      /\ q.track.reflects = "G"
      /\ track[d] = NoTrack => q.track = NoTrack /\ q.simics = simics[d]
  BY <1>4, <1>5, AccessEffect
<1> HIDE DEF q
<1>7. img \in Image
  BY <1>2, <1>6, OverlayImage DEF Sound
<1> HIDE DEF img
<1>8. Sound(q.track, img)
  <2>1. CASE q.track = NoTrack
    BY <1>7, <2>1, NoTrackSound
  <2>2. CASE q.track # NoTrack
    BY <1>6, <1>7, <2>2, ReflectsAssumption DEF Sound, Base
  <2> QED BY <2>1, <2>2
<1>9. /\ track'[d] = q.track /\ simics'[d] = img
      /\ memory'[d] = overlay(memory[d], parts, writes')
      /\ \A x \in Dwords \ {d} :
           track'[x] = track[x] /\ simics'[x] = simics[x] /\ memory'[x] = memory[x]
      /\ track' = [x \in Dwords |-> track'[x]] /\ simics' = [x \in Dwords |-> simics'[x]]
  BY <1>1, <1>3 DEF TypeOK
<1>10. ASSUME NEW x \in Dwords
       PROVE  Good(track'[x], simics'[x], buffer', x, memory'[x], x \in mixed')
  <2>1. CASE x = d
    <3>1. Counted(q.track, buffer, d) /\ Kept(q.track, buffer, d)
      BY <1>4, <1>6, SameLocals
    <3>2. d \notin mixed' => track[d] = NoTrack /\ d \notin mixed
      BY <1>3 DEF Tracked
    <3>3. d \notin mixed' => Shows(q.track, img, memory'[d])
      <4> HAVE d \notin mixed'
      <4>1. Base(track[d], simics[d]) = simics[d] /\ Base(track[d], simics[d]) = memory[d]
        BY <1>4, <3>2 DEF Base, Shows
      <4>2. img = memory'[d]
        BY <1>6, <1>9, <3>2, <4>1 DEF img
      <4>3. Base(q.track, img) = img
        BY <1>6, <3>2 DEF Base
      <4> QED BY <4>2, <4>3 DEF Shows
    <3> QED BY <1>3, <1>8, <1>9, <2>1, <3>1, <3>3 DEF Good
  <2>2. CASE x # d
    <3>1. x \in mixed' <=> x \in mixed
      BY <1>3, <2>2
    <3> QED BY <1>1, <1>3, <1>9, <2>2, <3>1 DEF Good
  <2> QED BY <2>1, <2>2
<1>11. track' \in [Dwords -> Track] /\ simics' \in [Dwords -> [Parts -> Values \ {Junk}]]
  <2>1. \A x \in Dwords : track'[x] \in Track /\ simics'[x] \in [Parts -> Values \ {Junk}]
    BY <1>10 DEF Good, Sound, Image
  <2> QED BY <1>9, <2>1
<1>12. memory' \in [Dwords -> Dword] /\ mixed' \subseteq Dwords
  <2>1. memory \in [Dwords -> Dword] /\ mixed \subseteq Dwords
    BY <1>1 DEF TypeOK
  <2>2. overlay(memory[d], parts, writes') \in Dword
    BY <1>2, <2>1, OverlayDword
  <2> QED BY <1>3, <2>1, <2>2
<1> QED BY <1>1, <1>2, <1>3, <1>10, <1>11, <1>12 DEF IInv, TypeOK

(* DmaWrite preserves the invariant. *)
LEMMA StepDmaWrite ==
  ASSUME IInv, NEW w \in [Dwords -> SUBSET Parts], DmaWrite(w)
  PROVE  IInv'
<1> DEFINE hit == {d \in Dwords : w[d] # {}}
<1>1. /\ TypeOK /\ buffer \in Buffers
      /\ \A x \in Dwords : Good(track[x], simics[x], buffer, x, memory[x], x \in mixed)
  BY DEF IInv
<1>2. writes' \in 1 .. MaxWrites /\ writes' \in 0 .. MaxWrites
  BY <1>1, WriteValue DEF DmaWrite, TypeOK
<1>3. /\ track' = [d \in Dwords |-> IF d \in hit THEN invalidate(track[d]) ELSE track[d]]
      /\ simics' = [d \in Dwords |-> overlay(simics[d], w[d], writes')]
      /\ memory' = [d \in Dwords |-> overlay(memory[d], w[d], writes')]
      /\ mixed' = mixed \cup {d \in hit : track[d].reflects \in Cpus}
      /\ buffer' = buffer
  BY DEF DmaWrite
<1>4. ASSUME NEW x \in Dwords
      PROVE  Good(track'[x], simics'[x], buffer', x, memory'[x], x \in mixed')
  <2>1. /\ Sound(track[x], simics[x]) /\ Counted(track[x], buffer, x)
        /\ Kept(track[x], buffer, x)
        /\ x \notin mixed => Shows(track[x], simics[x], memory[x])
    BY <1>1 DEF Good
  <2>2. CASE x \in hit
    <3> DEFINE q == invalidate(track[x])
               n == overlay(simics[x], w[x], writes')
    <3>1. /\ Sound(q, n) /\ q.locals = track[x].locals
          /\ Shows(track[x], simics[x], memory[x]) /\ track[x].reflects \notin Cpus
               => Shows(q, n, overlay(memory[x], w[x], writes'))
      BY <1>2, <2>1, InvalidateEffect
    <3>2. track'[x] = q /\ simics'[x] = n /\ memory'[x] = overlay(memory[x], w[x], writes')
      BY <1>3, <2>2
    <3>3. x \notin mixed' => x \notin mixed /\ track[x].reflects \notin Cpus
      BY <1>3, <2>2
    <3> HIDE DEF q, n
    <3>4. Counted(q, buffer, x) /\ Kept(q, buffer, x)
      BY <2>1, <3>1, SameLocals
    <3> QED BY <1>3, <2>1, <3>1, <3>2, <3>3, <3>4 DEF Good
  <2>3. CASE x \notin hit
    <3>1. simics[x] \in Image /\ memory[x] \in Dword
      BY <1>1, <2>1 DEF Sound, TypeOK
    <3>2. overlay(simics[x], w[x], writes') = simics[x] /\ overlay(memory[x], w[x], writes') = memory[x]
      BY <2>3, <3>1 DEF overlay, Image, Dword
    <3>3. track'[x] = track[x] /\ simics'[x] = simics[x] /\ memory'[x] = memory[x]
      BY <1>3, <2>3, <3>2
    <3>4. x \in mixed' <=> x \in mixed
      BY <1>3, <2>3
    <3> QED BY <1>1, <1>3, <3>3, <3>4 DEF Good
  <2> QED BY <2>2, <2>3
<1>5. track' \in [Dwords -> Track] /\ simics' \in [Dwords -> [Parts -> Values \ {Junk}]]
  <2>1. \A x \in Dwords : track'[x] \in Track /\ simics'[x] \in [Parts -> Values \ {Junk}]
    BY <1>4 DEF Good, Sound, Image
  <2>2. track' = [x \in Dwords |-> track'[x]] /\ simics' = [x \in Dwords |-> simics'[x]]
    BY <1>3
  <2> QED BY <2>1, <2>2
<1>6. memory' \in [Dwords -> Dword] /\ mixed' \subseteq Dwords
  <2>1. memory \in [Dwords -> Dword] /\ mixed \subseteq Dwords
    BY <1>1 DEF TypeOK
  <2>2. \A x \in Dwords : overlay(memory[x], w[x], writes') \in Dword
    BY <1>2, <2>1, OverlayDword
  <2> QED BY <1>3, <2>1, <2>2
<1> QED BY <1>1, <1>2, <1>3, <1>4, <1>5, <1>6 DEF IInv, TypeOK

(* Every step of the tracker preserves the invariant. *)
THEOREM TrackerInvariant == Spec => []IInv
<1>1. Init => IInv
  BY InitIInv
<1>2. IInv /\ [Next]_vars => IInv'
  <2> SUFFICES ASSUME IInv, [Next]_vars PROVE IInv'
    OBVIOUS
  <2>1. CASE UNCHANGED vars
    BY <2>1 DEF vars, IInv, TypeOK
  <2>2. CASE \E c \in Cpus, d \in Dwords : \E parts \in SUBSET Parts \ {{}} :
               CommitOfStore(c, d, parts)
    BY <2>2, StepCommitOfStore
  <2>3. CASE \E c \in Cpus, d \in Dwords : \E parts \in SUBSET Parts \ {{}} :
               CommitOfAtomic(c, d, parts)
    BY <2>3, StepCommitOfAtomic
  <2>4. CASE \E c \in Cpus, d \in Dwords : Look(c, d)
    BY <2>4, StepLook
  <2>5. CASE \E c \in Cpus : StoreReply(c)
    BY <2>5, StepStoreReply
  <2>6. CASE \E w \in [Dwords -> SUBSET Parts] : DmaWrite(w)
    BY <2>6, StepDmaWrite
  <2> QED BY <2>1, <2>2, <2>3, <2>4, <2>5, <2>6 DEF Next
<1> QED BY <1>1, <1>2, PTL DEF Spec

(* The types hold in every state; the marker of a device write never       *)
(* reaches the image of Simics, whatever access, store or reply follows    *)
(* invalidate.                                                             *)
THEOREM TrackerTyped == Spec => []TypeOK
<1>1. IInv => TypeOK
  BY DEF IInv
<1> QED BY <1>1, TrackerInvariant, PTL

(* The assertions of commitStore hold and the tracker does not leak: for   *)
(* any number of CPUs a double word is tracked exactly while some CPU has  *)
(* a store to it outstanding, and theOutstandingStores counts its stores.  *)
THEOREM TrackerCounts == Spec => []TrackedWhileOutstanding
<1>1. IInv => TrackedWhileOutstanding
  <2> SUFFICES ASSUME IInv, NEW d \in Dwords
               PROVE  /\ DOMAIN track[d].locals = {c \in Cpus : StoresTo(c, d) # {}}
                      /\ \A c \in DOMAIN track[d].locals :
                           track[d].locals[c].stores = Cardinality(StoresTo(c, d))
                      /\ Tracked(d) <=> DOMAIN track[d].locals # {}
    BY DEF TrackedWhileOutstanding
  <2>1. Sound(track[d], simics[d]) /\ Counted(track[d], buffer, d)
    BY DEF IInv, Good
  <2>2. \A c : StoresTo(c, d) = Of(buffer[c], d)
    BY DEF StoresTo, Of
  <2> QED BY <2>1, <2>2 DEF Counted, Sound, Tracked
<1> QED BY <1>1, TrackerInvariant, PTL

(* Whatever the other CPUs and the devices do to a double word, access and *)
(* load show a CPU, part by part, the youngest of its outstanding stores.  *)
THEOREM TrackerShowsOwnStores == Spec => []OwnStoresSeen
<1>1. IInv => OwnStoresSeen
  <2> SUFFICES ASSUME IInv, NEW c \in Cpus, NEW d \in Dwords, NEW p \in Parts,
                      NEW i \in {j \in StoresTo(c, d) : p \in buffer[c][j].parts},
                      \A j \in {k \in StoresTo(c, d) : p \in buffer[c][k].parts} : j <= i
               PROVE  See(c, d)[p] = buffer[c][i].value
    BY DEF OwnStoresSeen
  <2>1. /\ Sound(track[d], simics[d]) /\ Counted(track[d], buffer, d)
        /\ Kept(track[d], buffer, d)
    BY DEF IInv, Good
  <2>2. StoresTo(c, d) = Of(buffer[c], d)
    BY DEF StoresTo, Of
  <2>3. HasLocal(track[d], c)
    BY <2>1, <2>2 DEF Counted, HasLocal
  <2>4. See(c, d) = track[d].locals[c].value
    BY <2>1, <2>3, AccessEffect DEF See
  <2>5. Youngest(buffer[c], d, track[d].locals[c].value)
    BY <2>1, <2>3 DEF Kept, HasLocal
  <2>6. track[d].locals[c].value[p] = buffer[c][i].value
    BY <2>2, <2>5 DEF Youngest
  <2> QED BY <2>4, <2>6
<1> QED BY <1>1, TrackerInvariant, PTL

(* A CPU with no store to a double word outstanding sees what memory       *)
(* holds, unless an atomic or a device wrote it at the wrong moment.       *)
THEOREM TrackerShowsMemory == Spec => []MemorySeen
<1>1. IInv => MemorySeen
  <2> SUFFICES ASSUME IInv, NEW c \in Cpus, NEW d \in Dwords \ mixed, StoresTo(c, d) = {}
               PROVE  See(c, d) = memory[d]
    BY DEF MemorySeen
  <2>1. /\ Sound(track[d], simics[d]) /\ Counted(track[d], buffer, d)
        /\ Shows(track[d], simics[d], memory[d])
    BY DEF IInv, Good
  <2>2. StoresTo(c, d) = Of(buffer[c], d)
    BY DEF StoresTo, Of
  <2>3. ~HasLocal(track[d], c)
    BY <2>1, <2>2 DEF Counted, HasLocal
  <2> QED BY <2>1, <2>3, AccessEffect DEF See
<1> QED BY <1>1, TrackerInvariant, PTL
=============================================================================
