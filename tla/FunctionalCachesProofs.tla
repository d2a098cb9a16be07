----------------------- MODULE FunctionalCachesProofs -----------------------
(***************************************************************************)
(* The functional hierarchy, proved for any number of cores, blocks and    *)
(* ways.  A set of a cache is described by its entries and by the state of *)
(* each block, a request by what it does to the block it asks for and to   *)
(* the block it replaces, and the invariant speaks of one block at a time. *)
(***************************************************************************)
EXTENDS FunctionalCaches, SequenceTheorems, FiniteSetTheorems, WellFoundedInduction, TLAPS

-----------------------------------------------------------------------------
(* The entries of a set.                                                   *)

WF(set, n) ==
  /\ set \in Seq(Entry) /\ Len(set) <= n
  /\ \A i, j \in DOMAIN set : set[i].tag = set[j].tag => i = j

Entries(set) == {set[i] : i \in DOMAIN set}

(* One element is taken out of a sequence. *)
LEMMA WithoutSeq ==
  ASSUME NEW s \in Seq(Entry), NEW i \in 1 .. Len(s)
  PROVE  LET r == Without(s, i) IN
         /\ r \in Seq(Entry) /\ Len(r) = Len(s) - 1
         /\ \A k \in 1 .. Len(s) - 1 : r[k] = IF k < i THEN s[k] ELSE s[k + 1]
<1> DEFINE n == Len(s)
           a == SubSeq(s, 1, i - 1)
           b == SubSeq(s, i + 1, n)
<1>1. n \in Nat /\ i \in 1 .. n /\ i \in Int /\ n \in Int
      /\ \A k \in 1 .. n : s[k] \in Entry
  OBVIOUS
<1>2. /\ a \in Seq(Entry) /\ Len(a) = i - 1
      /\ \A k \in 1 .. i - 1 : a[k] = s[k]
  <2>1. \A k \in 1 .. i - 1 : s[k] \in Entry
    BY <1>1
  <2>2. 1 \in Int /\ i - 1 \in Int
    BY <1>1
  <2>3. /\ a \in Seq(Entry)
        /\ Len(a) = IF 1 <= i - 1 THEN (i - 1) - 1 + 1 ELSE 0
        /\ \A k \in 1 .. (i - 1) - 1 + 1 : a[k] = s[1 + k - 1]
    BY <2>1, <2>2, SubSeqProperties
  <2> HIDE DEF a
  <2> QED BY <1>1, <2>3
<1>3. /\ b \in Seq(Entry) /\ Len(b) = n - i
      /\ \A k \in 1 .. n - i : b[k] = s[i + k]
  <2>1. \A k \in i + 1 .. n : s[k] \in Entry
    BY <1>1
  <2>2. i + 1 \in Int /\ n \in Int
    BY <1>1
  <2>3. /\ b \in Seq(Entry)
        /\ Len(b) = IF i + 1 <= n THEN n - (i + 1) + 1 ELSE 0
        /\ \A k \in 1 .. n - (i + 1) + 1 : b[k] = s[(i + 1) + k - 1]
    BY <2>1, <2>2, SubSeqProperties
  <2> HIDE DEF b, n
  <2> QED BY <1>1, <2>3
<1>4. Without(s, i) = a \o b
  BY DEF Without
<1> HIDE DEF a, b
<1>5. /\ a \o b \in Seq(Entry)
      /\ Len(a \o b) = Len(a) + Len(b)
      /\ \A k \in 1 .. Len(a) + Len(b) :
           (a \o b)[k] = IF k <= Len(a) THEN a[k] ELSE b[k - Len(a)]
  BY <1>2, <1>3, ConcatProperties
<1> DEFINE r == a \o b
<1> HIDE DEF r, n
<1>6. Len(r) = n - 1 /\ \A k \in 1 .. n - 1 : r[k] = IF k <= i - 1 THEN a[k] ELSE b[k - (i - 1)]
  <2>1. Len(a) + Len(b) = n - 1
    BY <1>1, <1>2, <1>3
  <2> QED BY <1>2, <1>5, <2>1 DEF r
<1>7. \A k \in 1 .. n - 1 : r[k] = IF k < i THEN s[k] ELSE s[k + 1]
  <2> TAKE k \in 1 .. n - 1
  <2>1. CASE k < i
    <3>1. k \in 1 .. i - 1 /\ k <= i - 1
      BY <1>1, <2>1
    <3> QED BY <1>2, <1>6, <2>1, <3>1
  <2>2. CASE ~(k < i)
    <3>1. ~(k <= i - 1) /\ k - (i - 1) \in 1 .. n - i /\ i + (k - (i - 1)) = k + 1
      BY <1>1, <2>2
    <3>2. b[k - (i - 1)] = s[i + (k - (i - 1))]
      BY <1>3, <3>1
    <3> QED BY <1>6, <2>2, <3>1, <3>2
  <2> QED BY <2>1, <2>2
<1> QED BY <1>4, <1>5, <1>6, <1>7 DEF r, n

(* The state of a block is that of its entry, if there is one. *)
LEMMA EntryFacts ==
  ASSUME NEW n \in Nat, NEW set, WF(set, n), NEW b
  PROVE  /\ Entries(set) \subseteq Entry
         /\ \A e, f \in Entries(set) : e.tag = f.tag => e = f
         /\ \A e \in Entries(set) : e.tag = b => Present(set, b) /\ StateOf(set, b) = e.state
         /\ (\A e \in Entries(set) : e.tag # b) => ~Present(set, b) /\ StateOf(set, b) = "I"
         /\ StateOf(set, b) \in States
         /\ Present(set, b) => LET i == CHOOSE j \in Way(set, b) : TRUE
                               IN i \in 1 .. Len(set) /\ set[i].tag = b
<1>1. /\ set \in Seq(Entry) /\ DOMAIN set = 1 .. Len(set)
      /\ \A i \in DOMAIN set : set[i] \in Entry
      /\ \A i, j \in DOMAIN set : set[i].tag = set[j].tag => i = j
  BY DEF WF
<1>2. /\ Entries(set) \subseteq Entry
      /\ \A e, f \in Entries(set) : e.tag = f.tag => e = f
  BY <1>1 DEF Entries
<1> DEFINE i == CHOOSE j \in Way(set, b) : TRUE
<1>3. Present(set, b) => i \in 1 .. Len(set) /\ set[i].tag = b
  BY <1>1 DEF Present, Way
<1>4. Present(set, b) <=> \E e \in Entries(set) : e.tag = b
  BY DEF Present, Way, Entries
<1>5. StateOf(set, b) = IF Present(set, b) THEN set[i].state ELSE "I"
  BY DEF StateOf
<1> HIDE DEF i
<1>6. Present(set, b) => set[i] \in Entries(set)
  BY <1>1, <1>3 DEF Entries
<1>7. ASSUME NEW e \in Entries(set), e.tag = b PROVE Present(set, b) /\ StateOf(set, b) = e.state
  BY <1>2, <1>3, <1>4, <1>5, <1>6, <1>7
<1>8. (\A e \in Entries(set) : e.tag # b) => ~Present(set, b) /\ StateOf(set, b) = "I"
  BY <1>4, <1>5
<1>9. StateOf(set, b) \in States
  BY <1>2, <1>5, <1>6 DEF Entry, States
<1> QED BY <1>2, <1>3, <1>7, <1>8, <1>9 DEF i

(* An entry is taken out. *)
LEMMA WithoutFacts ==
  ASSUME NEW n \in Nat, NEW set, WF(set, n), NEW i \in 1 .. Len(set)
  PROVE  /\ WF(Without(set, i), n)
         /\ Len(Without(set, i)) = Len(set) - 1 /\ Len(set) \in Nat
         /\ Entries(Without(set, i)) = Entries(set) \ {set[i]}
         /\ set[i] \in Entries(set)
<1> DEFINE r == Without(set, i)
           m == Len(set)
<1>1. /\ set \in Seq(Entry) /\ m \in Nat /\ m <= n /\ DOMAIN set = 1 .. m
      /\ \A j, k \in DOMAIN set : set[j].tag = set[k].tag => j = k
  BY DEF WF
<1>2. /\ r \in Seq(Entry) /\ Len(r) = m - 1
      /\ \A k \in 1 .. m - 1 : r[k] = IF k < i THEN set[k] ELSE set[k + 1]
  BY <1>1, WithoutSeq
<1> HIDE DEF r
<1>3. DOMAIN r = 1 .. m - 1
  BY <1>2
<1>4. \A k \in 1 .. m - 1 : \E x \in 1 .. m : r[k] = set[x] /\ x # i /\ x = IF k < i THEN k ELSE k + 1
  BY <1>1, <1>2
<1>5. \A j, k \in DOMAIN r : r[j].tag = r[k].tag => j = k
  <2> SUFFICES ASSUME NEW j \in 1 .. m - 1, NEW k \in 1 .. m - 1, r[j].tag = r[k].tag
               PROVE  j = k
    BY <1>3
  <2>1. PICK x \in 1 .. m : r[j] = set[x] /\ x = IF j < i THEN j ELSE j + 1
    BY <1>4
  <2>2. PICK y \in 1 .. m : r[k] = set[y] /\ y = IF k < i THEN k ELSE k + 1
    BY <1>4
  <2>3. x = y
    BY <1>1, <2>1, <2>2
  <2> QED BY <1>1, <2>1, <2>2, <2>3
<1>6. ASSUME NEW x \in 1 .. m, x # i PROVE \E k \in 1 .. m - 1 : r[k] = set[x]
  <2>1. CASE x < i
    <3>1. x \in 1 .. m - 1 /\ r[x] = set[x]
      BY <1>1, <1>2, <2>1
    <3> QED BY <3>1
  <2>2. CASE ~(x < i)
    <3>1. x - 1 \in 1 .. m - 1 /\ ~(x - 1 < i) /\ (x - 1) + 1 = x
      BY <1>1, <1>6, <2>2
    <3>2. r[x - 1] = set[x]
      BY <1>2, <3>1
    <3> QED BY <3>1, <3>2
  <2> QED BY <2>1, <2>2
<1>7. \A x \in 1 .. m : set[x] = set[i] => x = i
  BY <1>1
<1>8. Entries(r) = Entries(set) \ {set[i]}
  <2>1. \A k \in DOMAIN r : r[k] \in Entries(set) \ {set[i]}
    BY <1>1, <1>3, <1>4, <1>7 DEF Entries
  <2>2. \A x \in DOMAIN set : set[x] # set[i] => \E k \in DOMAIN r : r[k] = set[x]
    BY <1>1, <1>3, <1>6
  <2> QED BY <2>1, <2>2 DEF Entries
<1>9. Len(r) <= n
  BY <1>1, <1>2
<1> QED BY <1>1, <1>2, <1>5, <1>8, <1>9 DEF WF, Entries, r

(* An entry of a block that is not there is added, at either end. *)
LEMMA AddFacts ==
  ASSUME NEW n \in Nat, NEW set, WF(set, n), NEW e \in Entry, \A f \in Entries(set) : f.tag # e.tag,
         NEW m \in Nat, Len(set) + 1 <= m
  PROVE  /\ WF(Append(set, e), m) /\ WF(<<e>> \o set, m)
         /\ Len(Append(set, e)) = Len(set) + 1 /\ Len(<<e>> \o set) = Len(set) + 1
         /\ Entries(Append(set, e)) = Entries(set) \cup {e}
         /\ Entries(<<e>> \o set) = Entries(set) \cup {e}
<1>1. /\ set \in Seq(Entry) /\ DOMAIN set = 1 .. Len(set) /\ Len(set) \in Nat
      /\ \A i, j \in DOMAIN set : set[i].tag = set[j].tag => i = j
      /\ \A i \in DOMAIN set : set[i].tag # e.tag
  BY DEF WF, Entries
<1> DEFINE a == Append(set, e)
           k == Len(set)
           c == <<e>> \o set
<1>2. /\ a \in Seq(Entry) /\ Len(a) = k + 1 /\ DOMAIN a = 1 .. k + 1
      /\ a[k + 1] = e /\ \A i \in 1 .. k : a[i] = set[i]
  BY <1>1
<1>3. /\ c \in Seq(Entry) /\ Len(c) = k + 1 /\ DOMAIN c = 1 .. k + 1
      /\ c[1] = e /\ \A i \in 1 .. k : c[i + 1] = set[i]
  <2>1. <<e>> \in Seq(Entry) /\ Len(<<e>>) = 1 /\ <<e>>[1] = e
    OBVIOUS
  <2>2. /\ c \in Seq(Entry) /\ Len(c) = Len(<<e>>) + k
        /\ \A i \in 1 .. Len(<<e>>) + k :
             c[i] = IF i <= Len(<<e>>) THEN <<e>>[i] ELSE set[i - Len(<<e>>)]
    BY <1>1, <2>1, ConcatProperties
  <2> HIDE DEF c
  <2>3. /\ Len(c) = 1 + k
        /\ \A i \in 1 .. 1 + k : c[i] = IF i <= 1 THEN <<e>>[i] ELSE set[i - 1]
    BY <2>1, <2>2
  <2>4. c[1] = e
    BY <1>1, <2>1, <2>3
  <2>5. \A i \in 1 .. k : i + 1 \in 1 .. 1 + k /\ ~(i + 1 <= 1) /\ (i + 1) - 1 = i
    BY <1>1
  <2>6. \A i \in 1 .. k : c[i + 1] = set[i]
    BY <2>3, <2>5
  <2>7. k + 1 = 1 + k /\ DOMAIN c = 1 .. Len(c)
    BY <1>1, <2>2
  <2> QED BY <2>2, <2>3, <2>4, <2>6, <2>7
<1> HIDE DEF a, c
<1>4. \A i \in 1 .. k + 1 : i \in 1 .. k \/ i = k + 1
  BY <1>1
<1>5. \A i \in 1 .. k + 1 : i = 1 \/ (i - 1 \in 1 .. k /\ i = (i - 1) + 1 /\ c[i] = set[i - 1])
  <2>1. \A i \in 1 .. k + 1 : i = 1 \/ (i - 1 \in 1 .. k /\ i = (i - 1) + 1)
    BY <1>1
  <2> QED BY <1>3, <2>1
<1>6. Entries(a) = Entries(set) \cup {e}
  BY <1>1, <1>2, <1>4 DEF Entries
<1>7. Entries(c) = Entries(set) \cup {e}
  <2>1. \A i \in 1 .. k : i + 1 \in 1 .. k + 1
    BY <1>1
  <2>2. \A i \in DOMAIN c : c[i] \in Entries(set) \cup {e}
    BY <1>1, <1>3, <1>5 DEF Entries
  <2>3. 1 \in DOMAIN c /\ \A i \in DOMAIN set : i + 1 \in DOMAIN c /\ c[i + 1] = set[i]
    BY <1>1, <1>3, <2>1
  <2>4. e \in Entries(c)
    BY <1>3, <2>3 DEF Entries
  <2>5. Entries(set) \subseteq Entries(c)
    BY <2>3 DEF Entries
  <2>6. Entries(c) \subseteq Entries(set) \cup {e}
    BY <2>2 DEF Entries
  <2> QED BY <2>4, <2>5, <2>6
<1>8. \A i, j \in DOMAIN a : a[i].tag = a[j].tag => i = j
  BY <1>1, <1>2, <1>4
<1>9. \A i, j \in DOMAIN c : c[i].tag = c[j].tag => i = j
  <2> SUFFICES ASSUME NEW i \in 1 .. k + 1, NEW j \in 1 .. k + 1, c[i].tag = c[j].tag
               PROVE  i = j
    BY <1>3
  <2>1. i - 1 \in DOMAIN set /\ j - 1 \in DOMAIN set => i - 1 = j - 1 \/ i = 1 \/ j = 1
    BY <1>1, <1>5
  <2>2. i = 1 \/ j = 1 => i = j
    BY <1>1, <1>3, <1>5
  <2>3. i - 1 = j - 1 => i = j
    OBVIOUS
  <2> QED BY <1>1, <1>5, <2>1, <2>2, <2>3
<1> QED BY <1>1, <1>2, <1>3, <1>6, <1>7, <1>8, <1>9 DEF WF, a, c

InPlace(set, i, st) == [set EXCEPT ![i].state = st]

(* The state of an entry is changed in its place. *)
LEMMA InPlaceFacts ==
  ASSUME NEW n \in Nat, NEW set, WF(set, n), NEW i \in 1 .. Len(set), NEW st \in States,
         NEW r, r = InPlace(set, i, st)
  PROVE  /\ WF(r, n) /\ Len(r) = Len(set)
         /\ Entries(r) = (Entries(set) \ {set[i]}) \cup {Block(set[i].tag, st)}
         /\ set[i] \in Entries(set)
<1> DEFINE m == Len(set)
           e == Block(set[i].tag, st)
<1>1. /\ set \in Seq(Entry) /\ m \in Nat /\ m <= n /\ DOMAIN set = 1 .. m
      /\ \A j, k \in DOMAIN set : set[j].tag = set[k].tag => j = k
      /\ \A k \in DOMAIN set : set[k] \in Entry
  BY DEF WF
<1>2. [set[i] EXCEPT !.state = st] = e
  <2>1. set[i] \in [tag : Blocks, state : States]
    BY <1>1 DEF Entry
  <2> QED BY <2>1 DEF Block
<1>3. e \in Entry /\ e.tag = set[i].tag
  <2>1. set[i] \in [tag : Blocks, state : States]
    BY <1>1 DEF Entry
  <2> QED BY <2>1 DEF Block, Entry
<1>4. r = [set EXCEPT ![i] = e]
  BY <1>2 DEF InPlace
<1> HIDE DEF e
<1>5. /\ r \in Seq(Entry) /\ Len(r) = m /\ DOMAIN r = 1 .. m
      /\ r[i] = e /\ \A k \in 1 .. m : k # i => r[k] = set[k]
  BY <1>1, <1>3, <1>4
<1>6. \A k \in 1 .. m : r[k].tag = set[k].tag
  BY <1>3, <1>5
<1>7. WF(r, n)
  BY <1>1, <1>5, <1>6 DEF WF
<1>8. \A k \in 1 .. m : set[k] = set[i] => k = i
  BY <1>1
<1>9. Entries(r) = (Entries(set) \ {set[i]}) \cup {e}
  <2>1. \A k \in DOMAIN r : r[k] \in (Entries(set) \ {set[i]}) \cup {e}
    BY <1>1, <1>5, <1>8 DEF Entries
  <2>2. e \in Entries(r)
    BY <1>5 DEF Entries
  <2>3. \A k \in DOMAIN set : set[k] # set[i] => set[k] \in Entries(r)
    BY <1>1, <1>5 DEF Entries
  <2>4. Entries(set) \ {set[i]} \subseteq Entries(r)
    BY <2>3 DEF Entries
  <2>5. Entries(r) \subseteq (Entries(set) \ {set[i]}) \cup {e}
    BY <2>1 DEF Entries
  <2> QED BY <2>2, <2>4, <2>5
<1> QED BY <1>1, <1>5, <1>7, <1>9 DEF e, Entries

(* One block gets an entry, some others lose theirs. *)
After(set, r, gone, b, st) ==
  gone \subseteq Entries(set) /\ Entries(r) = (Entries(set) \ gone) \cup {Block(b, st)}

(* The states of the blocks then. *)
LEMMA StatesAfter ==
  ASSUME NEW n \in Nat, NEW set, WF(set, n), NEW r, WF(r, n),
         NEW gone, NEW b, NEW st, After(set, r, gone, b, st)
  PROVE  /\ Present(r, b) /\ StateOf(r, b) = st
         /\ \A x : x # b => StateOf(r, x) = IF \E e \in gone : e.tag = x THEN "I"
                                            ELSE StateOf(set, x)
<1> DEFINE d == Block(b, st)
<1>1. d.tag = b /\ d.state = st
  BY DEF Block
<1> HIDE DEF d
<1>0. gone \subseteq Entries(set) /\ Entries(r) = (Entries(set) \ gone) \cup {d}
  BY DEF After, d
<1>2. Present(r, b) /\ StateOf(r, b) = st
  BY <1>0, <1>1, EntryFacts
<1>3. ASSUME NEW x, x # b
      PROVE  StateOf(r, x) = IF \E e \in gone : e.tag = x THEN "I" ELSE StateOf(set, x)
  <2>1. /\ \A e, f \in Entries(set) : e.tag = f.tag => e = f
        /\ \A e \in Entries(set) : e.tag = x => StateOf(set, x) = e.state
        /\ (\A e \in Entries(set) : e.tag # x) => StateOf(set, x) = "I"
    BY EntryFacts
  <2>2. /\ \A e \in Entries(r) : e.tag = x => StateOf(r, x) = e.state
        /\ (\A e \in Entries(r) : e.tag # x) => StateOf(r, x) = "I"
    BY EntryFacts
  <2>3. \A e : e \in Entries(r) <=> (e \in Entries(set) /\ e \notin gone) \/ e = d
    BY <1>0
  <2>4. CASE \E e \in gone : e.tag = x
    <3>1. \A e \in Entries(r) : e.tag # x
      BY <1>0, <1>1, <1>3, <2>1, <2>3, <2>4
    <3> QED BY <2>2, <2>4, <3>1
  <2>5. CASE ~ \E e \in gone : e.tag = x
    <3>1. CASE \E e \in Entries(set) : e.tag = x
      BY <2>1, <2>2, <2>3, <2>5, <3>1
    <3>2. CASE \A e \in Entries(set) : e.tag # x
      <4>1. \A e \in Entries(r) : e.tag # x
        BY <1>1, <1>3, <2>3, <3>2
      <4> QED BY <2>1, <2>2, <2>5, <3>2, <4>1
    <3> QED BY <3>1, <3>2
  <2> QED BY <2>4, <2>5
<1> QED BY <1>2, <1>3

(* A lookup changes no state, and leaves a way for the block. *)
LEMMA LookupFacts ==
  ASSUME NEW n \in Nat \ {0}, NEW set, WF(set, n), NEW b \in Blocks
  PROVE  /\ WF(Lookup(set, b, n), n)
         /\ \A x : StateOf(Lookup(set, b, n), x) = StateOf(set, x)
         /\ Len(Lookup(set, b, n)) > 0
<1>1. set \in Seq(Entry) /\ Len(set) \in Nat /\ Len(set) <= n
  BY DEF WF
<1>2. CASE Present(set, b)
  <2>1. Lookup(set, b, n) = set
    BY <1>2 DEF Lookup
  <2>2. DOMAIN set # {}
    BY <1>2 DEF Present, Way
  <2> QED BY <1>1, <2>1, <2>2
<1>3. CASE Len(set) >= n
  <2>1. Lookup(set, b, n) = set
    BY <1>3 DEF Lookup
  <2> QED BY <1>1, <1>3, <2>1
<1>4. CASE ~Present(set, b) /\ ~(Len(set) >= n)
  <2> DEFINE e == Block(b, "I")
             r == <<e>> \o set
  <2>1. Lookup(set, b, n) = r
    BY <1>4 DEF Lookup
  <2>2. e \in Entry /\ e.tag = b
    BY DEF Block, Entry, States
  <2>3. \A f \in Entries(set) : f.tag # e.tag
    BY <1>4, <2>2, EntryFacts
  <2>4. Len(set) + 1 <= n
    BY <1>1, <1>4
  <2> HIDE DEF e
  <2>5. WF(r, n) /\ Len(r) = Len(set) + 1 /\ Entries(r) = Entries(set) \cup {e}
    BY <2>2, <2>3, <2>4, AddFacts
  <2> HIDE DEF r
  <2>6. After(set, r, {}, b, "I")
    BY <2>5 DEF After, e
  <2>7. /\ StateOf(r, b) = "I"
        /\ \A x : x # b => StateOf(r, x) = IF \E f \in {} : f.tag = x THEN "I"
                                           ELSE StateOf(set, x)
    <3>1. n \in Nat
      OBVIOUS
    <3> QED BY <2>5, <2>6, <3>1, StatesAfter
  <2>8. StateOf(set, b) = "I"
    BY <1>4 DEF StateOf
  <2> QED BY <1>1, <2>1, <2>5, <2>7, <2>8
<1> QED BY <1>2, <1>3, <1>4

(* A block that is not Invalid has an entry. *)
LEMMA ValidPresent ==
  ASSUME NEW set, NEW b, StateOf(set, b) # "I"
  PROVE  Present(set, b)
BY DEF StateOf

(* The state of a block is changed, wherever the block goes in the order. *)
LEMMA ChangeStateFacts ==
  ASSUME NEW n \in Nat, NEW set, WF(set, n), NEW b \in Blocks, Present(set, b),
         NEW st \in States, NEW order
  PROVE  LET r == ChangeState(set, b, st, order) IN
         /\ WF(r, n) /\ Present(r, b) /\ StateOf(r, b) = st
         /\ \A x : x # b => StateOf(r, x) = StateOf(set, x)
<1> DEFINE i == CHOOSE j \in Way(set, b) : TRUE
           r == ChangeState(set, b, st, order)
           e == Block(b, st)
<1>1. i \in 1 .. Len(set) /\ set[i].tag = b
  BY EntryFacts
<1>2. /\ set \in Seq(Entry) /\ Len(set) \in Nat /\ Len(set) <= n
  BY DEF WF
<1>3. e \in Entry /\ e.tag = b
  BY DEF Block, Entry
<1>4. r = IF order = "MRU" THEN Append(Without(set, i), e)
          ELSE IF order = "LRU" THEN <<e>> \o Without(set, i)
          ELSE [set EXCEPT ![i].state = st]
  BY DEF ChangeState
<1> HIDE DEF i, r
<1>5. /\ WF(Without(set, i), n) /\ Len(Without(set, i)) = Len(set) - 1
      /\ Entries(Without(set, i)) = Entries(set) \ {set[i]} /\ set[i] \in Entries(set)
  BY <1>1, WithoutFacts
<1>6. \A f \in Entries(Without(set, i)) : f.tag # e.tag
  BY <1>1, <1>3, <1>5, EntryFacts
<1>7. Len(Without(set, i)) + 1 <= n
  BY <1>2, <1>5
<1> HIDE DEF e
<1>8. WF(r, n) /\ Entries(r) = (Entries(set) \ {set[i]}) \cup {e}
  <2>1. CASE order = "MRU" \/ order = "LRU"
    <3>1. r = Append(Without(set, i), e) \/ r = <<e>> \o Without(set, i)
      BY <1>4, <2>1
    <3> DEFINE w == Without(set, i)
    <3>2. WF(w, n) /\ Entries(w) = Entries(set) \ {set[i]} /\ Len(w) + 1 <= n
          /\ \A f \in Entries(w) : f.tag # e.tag
      BY <1>5, <1>6, <1>7
    <3>3. r = Append(w, e) \/ r = <<e>> \o w
      BY <3>1
    <3> HIDE DEF w
    <3>4. /\ WF(Append(w, e), n) /\ WF(<<e>> \o w, n)
          /\ Entries(Append(w, e)) = Entries(w) \cup {e}
          /\ Entries(<<e>> \o w) = Entries(w) \cup {e}
      BY <1>3, <3>2, AddFacts, Zenon
    <3> QED BY <3>2, <3>3, <3>4
  <2>2. CASE order # "MRU" /\ order # "LRU"
    <3>1. r = InPlace(set, i, st)
      BY <1>4, <2>2 DEF InPlace
    <3>2. WF(r, n) /\ Entries(r) = (Entries(set) \ {set[i]}) \cup {Block(set[i].tag, st)}
      BY <1>1, <3>1, InPlaceFacts
    <3> QED BY <1>1, <3>1, <3>2 DEF e
  <2> QED BY <2>1, <2>2
<1>9. /\ Present(r, b) /\ StateOf(r, b) = st
      /\ \A x : x # b => StateOf(r, x) = IF \E f \in {set[i]} : f.tag = x THEN "I"
                                         ELSE StateOf(set, x)
  <2>1. After(set, r, {set[i]}, b, st)
    BY <1>5, <1>8 DEF After, e
  <2> QED BY <1>8, <2>1, StatesAfter
<1>10. \A x : x # b => StateOf(r, x) = StateOf(set, x)
  BY <1>1, <1>9
<1> QED BY <1>8, <1>9, <1>10 DEF r

(* r is set with b in the way of another block, or in its own; gone is the *)
(* valid block that had the way.                                           *)
Exchanged(set, r, gone, b) ==
  \E v \in Entry :
    /\ StateOf(set, v.tag) = v.state
    /\ gone = IF v.tag # b /\ v.state # "I" THEN {v} ELSE {}
    /\ \A x : x # b => StateOf(r, x) = IF x = v.tag THEN "I" ELSE StateOf(set, x)

(* A block is allocated; the entry whose way it takes is gone. *)
LEMMA AllocateFacts ==
  ASSUME NEW n \in Nat, NEW set, WF(set, n), Len(set) > 0, NEW b \in Blocks, NEW st \in States,
         NEW r, r = Allocate(set, b, st)
  PROVE  /\ WF(r, n) /\ StateOf(r, b) = st
         /\ Exchanged(set, r, Replaced(set, b), b)
<1> DEFINE i == Victim(set, b)
           w == Without(set, i)
           e == Block(b, st)
<1>1. set \in Seq(Entry) /\ Len(set) \in Nat /\ Len(set) <= n /\ DOMAIN set = 1 .. Len(set)
  BY DEF WF
<1>2. i \in 1 .. Len(set) /\ (Present(set, b) => set[i].tag = b)
  <2>1. CASE Present(set, b)
    BY <2>1, EntryFacts DEF Victim
  <2>2. CASE ~Present(set, b)
    BY <1>1, <2>2 DEF Victim
  <2> QED BY <2>1, <2>2
<1>3. set[i] \in Entries(set) /\ Replaced(set, b) = {v \in {set[i]} : v.tag # b /\ v.state # "I"}
  BY <1>1, <1>2 DEF Replaced, Entries
<1>4. r = Append(w, e)
  BY DEF Allocate
<1> HIDE DEF i
<1>5. /\ WF(w, n) /\ Len(w) = Len(set) - 1
      /\ Entries(w) = Entries(set) \ {set[i]}
  BY <1>2, WithoutFacts
<1> HIDE DEF w
<1>6. e \in Entry /\ e.tag = b
  BY DEF Block, Entry
<1>7. \A f \in Entries(w) : f.tag # e.tag
  BY <1>2, <1>3, <1>5, <1>6, EntryFacts
<1>8. Len(w) + 1 <= n
  BY <1>1, <1>5
<1> HIDE DEF e
<1>9. WF(r, n) /\ Entries(r) = (Entries(set) \ {set[i]}) \cup {e}
  <2>1. WF(Append(w, e), n) /\ Entries(Append(w, e)) = Entries(w) \cup {e}
    BY <1>5, <1>6, <1>7, <1>8, AddFacts, Zenon
  <2> QED BY <1>4, <1>5, <2>1
<1>10. After(set, r, {set[i]}, b, st)
  BY <1>3, <1>9 DEF After, e
<1>11. /\ StateOf(r, b) = st
       /\ \A x : x # b => StateOf(r, x) = IF \E f \in {set[i]} : f.tag = x THEN "I"
                                          ELSE StateOf(set, x)
  BY <1>9, <1>10, StatesAfter
<1> DEFINE v == set[i]
<1>12. v \in Entry /\ StateOf(set, v.tag) = v.state
  BY <1>3, EntryFacts
<1>13. Replaced(set, b) = IF v.tag # b /\ v.state # "I" THEN {v} ELSE {}
  BY <1>3
<1>14. \A x : x # b => StateOf(r, x) = IF x = v.tag THEN "I" ELSE StateOf(set, x)
  BY <1>11
<1> HIDE DEF v
<1> QED BY <1>9, <1>11, <1>12, <1>13, <1>14 DEF Exchanged

Snoops == {"Invalidate", "Downgrade", "ReturnReq"}

(* The state a snoop leaves. *)
SnoopedState(st, type) == IF st = "I" \/ type = "Invalidate" THEN "I" ELSE "S"

L1Sets == {set \in Seq(Entry) : WF(set, L1Assoc)}
L2Sets == {set \in Seq(Entry) : WF(set, L2Assoc)}

(* The ways are counted. *)
LEMMA Ways ==
  /\ L1Assoc \in Nat \ {0} /\ L2Assoc \in Nat \ {0} /\ Cores \in Nat \ {0}
  /\ \A set : set \in L1Sets <=> WF(set, L1Assoc)
  /\ \A set : set \in L2Sets <=> WF(set, L2Assoc)
BY SizeAssumption DEF L1Sets, L2Sets, WF

(* A snoop of an L1. *)
LEMMA SnoopL1Facts ==
  ASSUME NEW set \in L1Sets, NEW b \in Blocks, NEW type \in Snoops
  PROVE  /\ SnoopL1(set, b, type) \in L1Sets
         /\ StateOf(SnoopL1(set, b, type), b) = SnoopedState(StateOf(set, b), type)
         /\ \A x : x # b => StateOf(SnoopL1(set, b, type), x) = StateOf(set, x)
<1> DEFINE seen == Lookup(set, b, L1Assoc)
           st == StateOf(seen, b)
           r == SnoopL1(set, b, type)
<1>1. WF(set, L1Assoc) /\ L1Assoc \in Nat \ {0} /\ L1Assoc \in Nat
  BY Ways
<1>2. WF(seen, L1Assoc) /\ \A x : StateOf(seen, x) = StateOf(set, x)
  BY <1>1, LookupFacts
<1>3. st \in States
  BY <1>1, <1>2, EntryFacts
<1>4. /\ st = "I" \/ (st = "S" /\ type # "Invalidate") => r = seen
      /\ ~(st = "I" \/ (st = "S" /\ type # "Invalidate")) =>
           r = CASE type = "Invalidate" -> ChangeState(seen, b, "I", "LRU")
                 [] type = "Downgrade" -> ChangeState(seen, b, "S", "LRU")
                 [] type = "ReturnReq" -> ChangeState(seen, b, "S", "Same")
  BY DEF SnoopL1
<1> HIDE DEF seen, r
<1>5. st # "I" => Present(seen, b)
  BY ValidPresent
<1>6. {"I", "S"} \subseteq States
  BY DEF States
<1>7. ASSUME NEW new \in {"I", "S"}, NEW order, st # "I", r = ChangeState(seen, b, new, order)
      PROVE  WF(r, L1Assoc) /\ StateOf(r, b) = new /\ \A x : x # b => StateOf(r, x) = StateOf(seen, x)
  BY <1>1, <1>2, <1>5, <1>6, <1>7, ChangeStateFacts
<1>8. CASE r = seen /\ (st = "I" \/ (st = "S" /\ type # "Invalidate"))
  BY <1>2, <1>8, Ways DEF SnoopedState, r
<1>9. CASE ~(st = "I" \/ (st = "S" /\ type # "Invalidate"))
  <2>1. \E new \in {"I", "S"} : \E order :
          new = SnoopedState(st, type) /\ r = ChangeState(seen, b, new, order)
    BY <1>4, <1>9 DEF SnoopedState, Snoops
  <2> QED BY <1>2, <1>7, <1>9, <2>1, Ways DEF r
<1> QED BY <1>4, <1>8, <1>9

-----------------------------------------------------------------------------
(* The invariant of a block: f[d] is its state in cache d, cs that in the  *)
(* L2, D its sharers in the directory, own whether memory is behind.       *)

GoodBlock(clean, f, cs, D, own) ==
  /\ \A d \in Caches : f[d] # "I" => d \in D
  /\ clean => \A d \in D : f[d] # "I"
  /\ \A d \in Caches : f[d] \in {"M", "E"} => D = {d} /\ cs \in {"E", "I"}
  /\ clean /\ own => cs = "M" \/ \E d \in Caches : f[d] = "M"

View(sets, b) == [d \in Caches |-> StateOf(sets[d], b)]

CountedType ==
  {NotCounted} \cup [block : Blocks, class : {"OffChip", "OnChip", "Hit"}]

IInv ==
  /\ l1 \in [Caches -> L1Sets] /\ l2 \in L2Sets
  /\ dir \in [Blocks -> SUBSET Caches]
  /\ cfg \in [clean : BOOLEAN, multicast : BOOLEAN]
  /\ failed = FALSE /\ counted \in CountedType /\ owed \subseteq Blocks
  /\ \A b \in Blocks : GoodBlock(cfg.clean, View(l1, b), StateOf(l2, b), dir[b], b \in owed)

-----------------------------------------------------------------------------
(* The actions of SingleCMP, field by field.                               *)

(* The snoop, the replies and the next states of an action. *)
Is(a, snoop, t1, t2, r1, r2, n1, n2) ==
  /\ a.poison = FALSE /\ a.snoop = snoop
  /\ a.terminal[1] = t1 /\ a.terminal[2] = t2
  /\ a.reply[1] = r1 /\ a.reply[2] = r2
  /\ a.next[1] = n1 /\ a.next[2] = n2

(* An action that snoops nobody. *)
LEMMA PlainIs ==
  ASSUME NEW a, NEW reply, NEW next, NEW fwd \in BOOLEAN, NEW alloc \in BOOLEAN,
         a = Plain(reply, next, fwd, alloc)
  PROVE  /\ Is(a, "NoRequest", "NoRequest", "NoRequest", reply, "NO_RESP", next, next)
         /\ a.multi = FALSE /\ a.fwd = fwd /\ a.alloc = alloc
BY DEF Is, Plain

(* The eviction of an L1. *)
LEMMA KeepIs ==
  ASSUME NEW a, NEW next, NEW alloc \in BOOLEAN,
         a = [Plain("NO_RESP", next, FALSE, alloc) EXCEPT !.update = FALSE]
  PROVE  /\ Is(a, "NoRequest", "NoRequest", "NoRequest", "NO_RESP", "NO_RESP", next, next)
         /\ a.multi = FALSE /\ a.fwd = FALSE /\ a.alloc = alloc
BY DEF Is, Plain

(* An action that asks for a copy. *)
LEMMA ReturnIs ==
  ASSUME NEW a, NEW reply2, NEW next, NEW next2, NEW alloc \in BOOLEAN,
         a = Return(reply2, next, next2, alloc)
  PROVE  /\ Is(a, "ReturnReq", "ReturnReply", "ReturnReplyDirty", "MissReply", reply2, next, next2)
         /\ a.multi = FALSE /\ a.fwd = FALSE /\ a.alloc = alloc
BY DEF Is, Return, Plain

(* An action that invalidates the copies. *)
LEMMA InvalidatingIs ==
  ASSUME NEW a, NEW ds, NEW reply, NEW reply2, NEW next, a = Invalidating(ds, reply, reply2, next)
  PROVE  /\ Is(a, "Invalidate", "InvalidateAck", "InvUpdateAck", reply, reply2, next, next)
         /\ (a.multi <=> ds = "Many") /\ ~a.fwd /\ ~a.alloc
         /\ a.fwd \in BOOLEAN /\ a.alloc \in BOOLEAN
<1>1. /\ Is(a, "Invalidate", "InvalidateAck", "InvUpdateAck", reply, reply2, next, next)
      /\ a.multi = (ds = "Many") /\ a.fwd = FALSE /\ a.alloc = FALSE
  BY DEF Is, Invalidating, Plain
<1> QED BY <1>1

Forwarded(ds, reply, reply2, next) ==
  [Invalidating(ds, reply, reply2, next) EXCEPT
     !.terminal = <<"NoRequest", "NoRequest">>, !.fwd = TRUE]

(* The same, forwarded to memory whatever the answers. *)
LEMMA ForwardedIs ==
  ASSUME NEW a, NEW ds, NEW reply, NEW reply2, NEW next, a = Forwarded(ds, reply, reply2, next)
  PROVE  /\ Is(a, "Invalidate", "NoRequest", "NoRequest", reply, reply2, next, next)
         /\ (a.multi <=> ds = "Many") /\ a.fwd /\ ~a.alloc
         /\ a.fwd \in BOOLEAN /\ a.alloc \in BOOLEAN
<1>1. /\ Is(a, "Invalidate", "NoRequest", "NoRequest", reply, reply2, next, next)
      /\ a.multi = (ds = "Many") /\ a.fwd = TRUE /\ a.alloc = FALSE
  BY DEF Is, Forwarded, Invalidating, Plain
<1> QED BY <1>1

(* Sharing *)
LEMMA SharingFacts ==
  ASSUME NEW D, D \subseteq Caches
  PROVE  /\ D = {} <=> Sharing(D) = "Zero"
         /\ (\E h : D = {h}) <=> Sharing(D) = "One"
         /\ Sharing(D) \in {"Zero", "One", "Many"}
         /\ Cardinality(D) \in Nat
         /\ Cardinality(D) > 1 <=> Sharing(D) = "Many"
<1>1. 0 \in Int /\ 2 * Cores - 1 \in Int
  BY Ways
<1>2. IsFiniteSet(Caches)
  BY <1>1, FS_Interval, Zenon DEF Caches
<1>3. IsFiniteSet(D)
  BY <1>2, FS_Subset
<1>4. Cardinality(D) \in Nat
  BY <1>3, FS_CardinalityType
<1>5. Cardinality(D) = 0 <=> D = {}
  BY <1>3, FS_EmptySet
<1>6. Cardinality(D) = 1 <=> \E h : D = {h}
  BY <1>3, FS_Singleton
<1> DEFINE n == Cardinality(D)
<1>7. Sharing(D) = CASE n = 0 -> "Zero" [] n = 1 -> "One" [] OTHER -> "Many"
  BY DEF Sharing
<1> HIDE DEF n
<1>8. /\ n = 0 <=> Sharing(D) = "Zero"
      /\ n = 1 <=> Sharing(D) = "One"
      /\ Sharing(D) \in {"Zero", "One", "Many"}
  BY <1>7
<1>9. n \in Nat
  BY <1>4 DEF n
<1>10. n > 1 <=> Sharing(D) = "Many"
  BY <1>8, <1>9
<1> QED BY <1>4, <1>5, <1>6, <1>8, <1>10 DEF n

-----------------------------------------------------------------------------
(* The snoops of a request.                                                *)

Replies == {"none", "NO_RESP", "MissReply", "MissReplyWritable", "MissReplyDirty",
            "UpgradeReply", "NonAllocatingStoreReply"}

ChipType ==
  [l1 : [Caches -> L1Sets], l2 : L2Sets, dir : [Blocks -> SUBSET Caches],
   owed : SUBSET Blocks, failed : BOOLEAN, counted : CountedType, reply : Replies]

(* The first of some numbers. *)
LEMMA FirstOf ==
  ASSUME NEW S, S \subseteq Nat, S # {}
  PROVE  \E m \in S : \A k \in S : m <= k
<1> DEFINE R == OpToRel(<, Nat)
<1>1. IsWellFoundedOn(R, Nat)
  BY NatLessThanWellFounded
<1>2. \A x, y \in Nat : <<x, y>> \in R <=> x < y
  BY DEF OpToRel
<1> HIDE DEF R
<1>3. PICK m \in S : \A k \in S : ~(<<k, m>> \in R)
  BY <1>1, WFMin
<1>4. m \in Nat /\ \A k \in S : k \in Nat /\ ~(k < m)
  BY <1>2, <1>3
<1>5. \A k \in S : m <= k
  BY <1>4
<1> QED BY <1>5

(* What the protocol relies on: a single sharer and the sharers of a       *)
(* multicast are all asked, and a copy that exists is found.               *)
AskedOK(asked, f, D, c, a) ==
  /\ asked \subseteq D \ {c}
  /\ a.snoop = "NoRequest" => asked = {}
  /\ a.snoop # "NoRequest" /\ (a.multi \/ Sharing(D) = "One") => asked = D \ {c}
  /\ a.snoop # "NoRequest" /\ (\E d \in D \ {c} : f[d] # "I") => \E d \in asked : f[d] # "I"

(* Asked does that. *)
LEMMA AskedFacts ==
  ASSUME NEW s \in ChipType, NEW c \in Caches, NEW b \in Blocks, NEW a
  PROVE  AskedOK(Asked(s, c, b, a), View(s.l1, b), s.dir[b], c, a)
<1> DEFINE D == s.dir[b]
           f == View(s.l1, b)
           listed == IF a.snoop = "NoRequest" THEN {} ELSE D \ {c}
           holders == {d \in listed : StateOf(s.l1[d], b) # "I"}
           all == a.multi \/ (cfg.multicast /\ Cardinality(listed) > 1)
           asked == Asked(s, c, b, a)
<1>1. asked = {d \in listed : all \/ \A h \in holders : d <= h}
  BY DEF Asked
<1>2. D \subseteq Caches
  BY DEF ChipType
<1>3. Caches \subseteq Nat
  BY Ways DEF Caches
<1>4. \A d \in Caches : f[d] = StateOf(s.l1[d], b)
  BY DEF View
<1>5. holders = {d \in listed : f[d] # "I"}
  BY <1>2, <1>4
<1>6. listed \subseteq Nat /\ holders \subseteq Nat
  BY <1>2, <1>3
<1> HIDE DEF all, asked, f, D, holders
<1>7. Sharing(D) = "One" => asked = listed
  <2> SUFFICES ASSUME Sharing(D) = "One", NEW d \in listed PROVE \A h \in holders : d <= h
    BY <1>1
  <2>1. PICK h : D = {h}
    BY <1>2, SharingFacts
  <2>2. \A g \in holders : g = d
    BY <1>5, <2>1
  <2> QED BY <1>6, <2>2
<1>8. a.multi => asked = listed
  BY <1>1 DEF all
<1>9. ASSUME NEW d \in listed, f[d] # "I" PROVE \E e \in asked : f[e] # "I"
  <2>1. PICK m \in holders : \A k \in holders : m <= k
    BY <1>5, <1>6, <1>9, FirstOf
  <2>2. m \in asked
    BY <1>1, <1>5, <2>1
  <2> QED BY <1>5, <2>1, <2>2
<1>10. asked \subseteq listed
  BY <1>1
<1> QED BY <1>7, <1>8, <1>9, <1>10 DEF AskedOK, asked, f, D

(* What comes back from the caches that are asked. *)
Response(a, f, asked) == Combined(a.snoop, {f[d] : d \in asked})

(* It is the reply of the cache with the best copy. *)
LEMMA ResponseFacts ==
  ASSUME NEW a, NEW f, NEW asked, NEW type, type = a.snoop, NEW r, r = Response(a, f, asked)
  PROVE  /\ asked = {} => r = "NoRequest"
         /\ asked # {} =>
              /\ (\A d \in asked : f[d] = "I") =>
                   r = IF type = "Invalidate" THEN "Invalidate" ELSE "ReturnNAck"
              /\ (\E d \in asked : f[d] = "M") =>
                   r = IF type = "Invalidate" THEN "InvUpdateAck" ELSE "ReturnReplyDirty"
              /\ (\E d \in asked : f[d] # "I") /\ (\A d \in asked : f[d] # "M") =>
                   r = IF type = "Invalidate" THEN "InvalidateAck" ELSE "ReturnReply"
<1> DEFINE S == {f[d] : d \in asked}
<1>0. r = Combined(type, S)
  BY DEF Response
<1>1. /\ asked = {} <=> S = {}
      /\ asked # {} => ((\A d \in asked : f[d] = "I") <=> S = {"I"})
      /\ (\E d \in asked : f[d] = "M") <=> "M" \in S
  OBVIOUS
<1> HIDE DEF S
<1>2. CASE S = {}
  BY <1>0, <1>1, <1>2 DEF Combined, S
<1>3. CASE S # {} /\ S = {"I"}
  <2>1. r = IF type = "Invalidate" THEN "Invalidate" ELSE "ReturnNAck"
    BY <1>0, <1>3 DEF Combined
  <2> QED BY <1>1, <1>3, <2>1 DEF S
<1>4. CASE S # {} /\ S # {"I"} /\ "M" \in S
  <2>1. r = IF type = "Invalidate" THEN "InvUpdateAck" ELSE "ReturnReplyDirty"
    BY <1>0, <1>4 DEF Combined
  <2> QED BY <1>1, <1>4, <2>1 DEF S
<1>5. CASE S # {} /\ S # {"I"} /\ "M" \notin S
  <2>1. r = IF type = "Invalidate" THEN "InvalidateAck" ELSE "ReturnReply"
    BY <1>0, <1>5 DEF Combined
  <2> QED BY <1>1, <1>5, <2>1 DEF S
<1> QED BY <1>2, <1>3, <1>4, <1>5

(* The caches and the directory after the snoops. *)
LEMMA SendSnoopsFacts ==
  ASSUME NEW s \in ChipType, NEW b \in Blocks, NEW a, NEW asked, asked \subseteq Caches,
         asked = {} \/ a.snoop \in Snoops,
         NEW t, t = SendSnoops(s, b, a, asked)
  PROVE  /\ t \in ChipType
         /\ t.l2 = s.l2 /\ t.owed = s.owed /\ t.failed = s.failed
         /\ t.counted = s.counted /\ t.reply = s.reply
         /\ t.dir = [s.dir EXCEPT ![b] = @ \ RemovedSharers(a.snoop, b, asked, s.l1)]
         /\ \A d \in Caches \ asked : t.l1[d] = s.l1[d]
         /\ \A d \in Caches : StateOf(t.l1[d], b) =
              IF d \in asked THEN SnoopedState(StateOf(s.l1[d], b), a.snoop)
              ELSE StateOf(s.l1[d], b)
         /\ \A d \in Caches, x \in Blocks : x # b => StateOf(t.l1[d], x) = StateOf(s.l1[d], x)
<1> DEFINE new == [d \in Caches |-> IF d \in asked THEN SnoopL1(s.l1[d], b, a.snoop) ELSE s.l1[d]]
           gone == RemovedSharers(a.snoop, b, asked, s.l1)
<1>1. /\ s.l1 \in [Caches -> L1Sets] /\ s.dir \in [Blocks -> SUBSET Caches]
      /\ s \in [l1 : [Caches -> L1Sets], l2 : L2Sets, dir : [Blocks -> SUBSET Caches],
                owed : SUBSET Blocks, failed : BOOLEAN, counted : CountedType, reply : Replies]
  BY DEF ChipType
<1>2. t = [s EXCEPT !.l1 = new, !.dir = [s.dir EXCEPT ![b] = @ \ gone]]
  BY DEF SendSnoops
<1>3. ASSUME NEW d \in asked
      PROVE  /\ SnoopL1(s.l1[d], b, a.snoop) \in L1Sets
             /\ StateOf(SnoopL1(s.l1[d], b, a.snoop), b) = SnoopedState(StateOf(s.l1[d], b), a.snoop)
             /\ \A x : x # b => StateOf(SnoopL1(s.l1[d], b, a.snoop), x) = StateOf(s.l1[d], x)
  <2>1. a.snoop \in Snoops /\ s.l1[d] \in L1Sets
    BY <1>1
  <2> QED BY <2>1, SnoopL1Facts
<1>4. new \in [Caches -> L1Sets]
  BY <1>1, <1>3
<1>5. \A d \in Caches : new[d] = IF d \in asked THEN SnoopL1(s.l1[d], b, a.snoop) ELSE s.l1[d]
  OBVIOUS
<1> HIDE DEF new, gone
<1> DEFINE nd == [s.dir EXCEPT ![b] = @ \ gone]
<1>6. nd \in [Blocks -> SUBSET Caches]
  BY <1>1
<1>7. t = [s EXCEPT !.l1 = new, !.dir = nd]
  BY <1>2
<1> HIDE DEF nd
<1>8. /\ t \in ChipType /\ t.l1 = new /\ t.dir = nd
      /\ t.l2 = s.l2 /\ t.owed = s.owed /\ t.failed = s.failed
      /\ t.counted = s.counted /\ t.reply = s.reply
  BY <1>1, <1>4, <1>6, <1>7 DEF ChipType
<1>9. /\ \A d \in Caches : StateOf(t.l1[d], b) =
              IF d \in asked THEN SnoopedState(StateOf(s.l1[d], b), a.snoop)
              ELSE StateOf(s.l1[d], b)
      /\ \A d \in Caches, x \in Blocks : x # b => StateOf(t.l1[d], x) = StateOf(s.l1[d], x)
      /\ \A d \in Caches \ asked : t.l1[d] = s.l1[d]
  BY <1>3, <1>5, <1>8
<1> QED BY <1>8, <1>9 DEF nd, gone

-----------------------------------------------------------------------------
(* The answer of a request.                                                *)

(* The set of the L2: the block gets its next state, at most one other     *)
(* block is replaced.                                                      *)
LEMMA UpdateFacts ==
  ASSUME NEW set, WF(set, L2Assoc), Len(set) > 0, NEW b \in Blocks, NEW a,
         a.alloc \in BOOLEAN, NEW next \in States,
         a.alloc \/ next = StateOf(set, b) \/ StateOf(set, b) # "I",
         NEW r, r = UpdateCache(set, b, a, StateOf(set, b), next),
         NEW gone, gone = IF a.alloc THEN Replaced(set, b) ELSE {}
  PROVE  /\ r \in L2Sets /\ StateOf(r, b) = next
         /\ \A e \in gone : e.tag \in Blocks /\ e.tag # b
         /\ \A x : x # b => \/ /\ StateOf(r, x) = StateOf(set, x)
                               /\ \A e \in gone : e.tag = x => StateOf(set, x) = "I"
                            \/ /\ StateOf(r, x) = "I"
                               /\ StateOf(set, x) # "I" =>
                                    \E e \in gone : e.tag = x /\ e.state = StateOf(set, x)
<1> DEFINE cs == StateOf(set, b)
<1>1. L2Assoc \in Nat
  BY Ways
<1>2. CASE a.alloc
  <2>1. r = Allocate(set, b, next) /\ gone = Replaced(set, b)
    BY <1>2 DEF UpdateCache
  <2>2. WF(r, L2Assoc) /\ StateOf(r, b) = next /\ Exchanged(set, r, gone, b)
    BY <1>1, <2>1, AllocateFacts
  <2>3. PICK v \in Entry :
              /\ StateOf(set, v.tag) = v.state
              /\ gone = IF v.tag # b /\ v.state # "I" THEN {v} ELSE {}
              /\ \A x : x # b => StateOf(r, x) = IF x = v.tag THEN "I" ELSE StateOf(set, x)
    BY <2>2 DEF Exchanged
  <2>4. v.tag \in Blocks
    BY DEF Entry
  <2> QED BY <2>2, <2>3, <2>4, Ways
<1>3. CASE ~a.alloc /\ (next # cs \/ (a.update /\ cs # "I"))
  <2>1. cs # "I"
    BY <1>3
  <2>2. Present(set, b)
    BY <2>1, ValidPresent
  <2>3. PICK order : r = ChangeState(set, b, next, order)
    BY <1>3 DEF UpdateCache
  <2>4. /\ WF(r, L2Assoc) /\ StateOf(r, b) = next
        /\ \A x : x # b => StateOf(r, x) = StateOf(set, x)
    BY <1>1, <2>2, <2>3, ChangeStateFacts
  <2>5. gone = {}
    BY <1>3
  <2> QED BY <2>4, <2>5, Ways
<1>4. CASE ~a.alloc /\ ~(next # cs \/ (a.update /\ cs # "I"))
  <2>1. r = set /\ gone = {} /\ next = cs
    BY <1>4 DEF UpdateCache
  <2> QED BY <2>1, Ways
<1> QED BY <1>2, <1>3, <1>4

(* What a request leaves of another block in the L2: its state and whether *)
(* memory is behind, unless the block is replaced.                         *)
L2Kept(s, t, x) ==
  /\ StateOf(t.l2, x) = StateOf(s.l2, x) \/ StateOf(t.l2, x) = "I"
  /\ x \in t.owed => x \in s.owed
  /\ x \in t.owed /\ StateOf(s.l2, x) = "M" => StateOf(t.l2, x) = "M"

(* The L2 can answer: it has the set, and no assertion fails. *)
CanRespond(s, b, set, a, n, answer) ==
  /\ s.failed = FALSE /\ WF(set, L2Assoc) /\ Len(set) > 0
  /\ \A x : StateOf(set, x) = StateOf(s.l2, x)
  /\ a.alloc \in BOOLEAN /\ a.next[n] \in States /\ a.reply[n] \in Replies
  /\ answer.ok /\ answer.sharers \subseteq Caches
  /\ a.alloc \/ a.next[n] = StateOf(s.l2, b) \/ StateOf(s.l2, b) # "I"

Responded(s, t, req, b, a, n, success, offChip, answer) ==
  /\ t \in ChipType /\ t.failed = FALSE /\ t.l1 = s.l1
  /\ t.dir = [s.dir EXCEPT ![b] = answer.sharers]
  /\ t.reply = a.reply[n]
  /\ t.counted = Classify(s.counted, req, b, offChip, success)
  /\ StateOf(t.l2, b) = a.next[n]
  /\ b \in t.owed <=> IF req = "NonAllocatingStoreReq" THEN ~offChip ELSE b \in s.owed
  /\ \A x \in Blocks : x # b => L2Kept(s, t, x)

(* Respond: the block, the directory, the counters and what memory is owed. *)
LEMMA RespondFacts ==
  ASSUME NEW s \in ChipType, NEW b \in Blocks, NEW set, NEW a, NEW n, NEW answer,
         CanRespond(s, b, set, a, n, answer),
         NEW req, NEW success \in BOOLEAN, NEW offChip \in BOOLEAN,
         NEW t, t = Respond(s, req, b, set, a, n, success, offChip, answer)
  PROVE  Responded(s, t, req, b, a, n, success, offChip, answer)
<1> USE DEF CanRespond
<1> DEFINE cs == StateOf(set, b)
           next == a.next[n]
           gone == IF a.alloc THEN Replaced(set, b) ELSE {}
           r == UpdateCache(set, b, a, cs, next)
           nd == [s.dir EXCEPT ![b] = answer.sharers]
           no == Owed(s.owed, req, b, offChip, gone)
           nc == Classify(s.counted, req, b, offChip, success)
<1>1. cs = StateOf(s.l2, b)
  OBVIOUS
<1>2. t = [s EXCEPT !.l2 = r, !.dir = nd, !.owed = no, !.counted = nc, !.reply = a.reply[n]]
  BY <1>1 DEF Respond
<1>3. /\ s.l1 \in [Caches -> L1Sets] /\ s.dir \in [Blocks -> SUBSET Caches]
      /\ s.owed \subseteq Blocks /\ s.counted \in CountedType
      /\ s \in [l1 : [Caches -> L1Sets], l2 : L2Sets, dir : [Blocks -> SUBSET Caches],
                owed : SUBSET Blocks, failed : BOOLEAN, counted : CountedType, reply : Replies]
  BY DEF ChipType
<1>4. a.alloc \/ next = StateOf(set, b) \/ StateOf(set, b) # "I"
  BY <1>1
<1>5. /\ r \in L2Sets /\ StateOf(r, b) = next
      /\ \A e \in gone : e.tag \in Blocks /\ e.tag # b
      /\ \A x : x # b => \/ /\ StateOf(r, x) = StateOf(set, x)
                            /\ \A e \in gone : e.tag = x => StateOf(set, x) = "I"
                         \/ /\ StateOf(r, x) = "I"
                            /\ StateOf(set, x) # "I" =>
                                 \E e \in gone : e.tag = x /\ e.state = StateOf(set, x)
  BY <1>4, UpdateFacts
<1>6. nd \in [Blocks -> SUBSET Caches]
  BY <1>3
<1>7. nc \in CountedType
  <2>1. \A class \in {"OffChip", "OnChip", "Hit"} : [block |-> b, class |-> class] \in CountedType
    BY DEF CountedType
  <2>2. nc = s.counted \/ \E class \in {"OffChip", "OnChip", "Hit"} : nc = [block |-> b, class |-> class]
    BY DEF Classify
  <2> QED BY <1>3, <2>1, <2>2
<1> HIDE DEF gone, r, nd
<1>8. /\ no \subseteq Blocks
      /\ b \in no <=> IF req = "NonAllocatingStoreReq" THEN ~offChip ELSE b \in s.owed
      /\ \A x : x # b => (x \in no <=> x \in s.owed /\ ~ \E e \in gone : e.tag = x /\ e.state = "M")
  <2> DEFINE base == IF req # "NonAllocatingStoreReq" THEN s.owed
                     ELSE IF offChip THEN s.owed \ {b} ELSE s.owed \cup {b}
             out == {e.tag : e \in {v \in gone : v.state = "M"}}
  <2>1. no = base \ out
    BY DEF Owed
  <2>2. \A x : x \in out <=> \E e \in gone : e.tag = x /\ e.state = "M"
    OBVIOUS
  <2>3. b \notin out
    BY <1>5
  <2>4. base \subseteq Blocks /\ (\A x : x # b => (x \in base <=> x \in s.owed))
        /\ (b \in base <=> IF req = "NonAllocatingStoreReq" THEN ~offChip ELSE b \in s.owed)
    BY <1>3
  <2> HIDE DEF base, out, no
  <2> QED BY <2>1, <2>2, <2>3, <2>4
<1> HIDE DEF no, nc
<1>9. /\ t \in ChipType /\ t.failed = FALSE /\ t.l1 = s.l1 /\ t.l2 = r /\ t.dir = nd
      /\ t.owed = no /\ t.counted = nc /\ t.reply = a.reply[n]
  <2>1. t = [l1 |-> s.l1, l2 |-> r, dir |-> nd, owed |-> no, failed |-> s.failed,
             counted |-> nc, reply |-> a.reply[n]]
    BY <1>2, <1>3
  <2>2. s.failed \in BOOLEAN
    BY <1>3
  <2> QED BY <1>3, <1>5, <1>6, <1>7, <1>8, <2>1, <2>2 DEF ChipType
<1>10. ASSUME NEW x \in Blocks, x # b PROVE L2Kept(s, t, x)
  <2>1. StateOf(set, x) = StateOf(s.l2, x)
    OBVIOUS
  <2> QED BY <1>5, <1>8, <1>9, <1>10, <2>1 DEF L2Kept
<1> QED BY <1>5, <1>8, <1>9, <1>10 DEF nd, nc, Responded

-----------------------------------------------------------------------------
(* A request, in terms of the block it asks for: a the action, f the       *)
(* states in the L1s, D the sharers, asked the caches that are snooped.    *)

Chosen(a, f, asked) ==
  IF Response(a, f, asked) # a.terminal[1] /\ Response(a, f, asked) = a.terminal[2] THEN 2 ELSE 1
Success(a, f, asked) ==
  a.snoop # "NoRequest" /\ Response(a, f, asked) \in {a.terminal[1], a.terminal[2]}
OffChip(a, f, asked) == a.fwd /\ ~Success(a, f, asked)
NextState(a, f, asked) == a.next[Chosen(a, f, asked)]
Reply(a, f, asked) == a.reply[Chosen(a, f, asked)]
Left(a, f, asked, D) ==
  D \ (IF a.snoop = "Invalidate" THEN asked ELSE {d \in asked : f[d] = "I"})
Answer(req, a, f, asked, D, c) ==
  processRequestResponse(Left(a, f, asked, D), c, req, Reply(a, f, asked))
AfterSnoops(a, f, asked) ==
  [d \in Caches |-> IF d \in asked THEN SnoopedState(f[d], a.snoop) ELSE f[d]]

ActionOK(a) ==
  /\ a.poison = FALSE /\ a.snoop \in {"NoRequest", "Invalidate", "ReturnReq"}
  /\ a.alloc \in BOOLEAN /\ a.fwd \in BOOLEAN
  /\ {a.next[1], a.next[2]} \subseteq States /\ {a.reply[1], a.reply[2]} \subseteq Replies

(* No assertion of the L2 fails. *)
Fits(req, a, f, cs, asked, D, c) ==
  /\ ActionOK(a)
  /\ Answer(req, a, f, asked, D, c).ok
  /\ Answer(req, a, f, asked, D, c).sharers \subseteq Caches
  /\ a.alloc \/ NextState(a, f, asked) = cs \/ cs # "I"

(* The other blocks, and the cache that asks, are left alone. *)
Elsewhere(s, t, c, b) ==
  /\ t.l1[c] = s.l1[c]
  /\ \A x \in Blocks : x # b =>
       /\ L2Kept(s, t, x) /\ t.dir[x] = s.dir[x]
       /\ View(t.l1, x) = View(s.l1, x)

(* The block that is asked for. *)
Served(s, t, c, b, req, a, asked) ==
  LET f == View(s.l1, b) IN
  /\ View(t.l1, b) = AfterSnoops(a, f, asked)
  /\ StateOf(t.l2, b) = NextState(a, f, asked)
  /\ t.dir[b] = Answer(req, a, f, asked, s.dir[b], c).sharers
  /\ t.reply = Reply(a, f, asked)
  /\ t.counted = Classify(s.counted, req, b, OffChip(a, f, asked), Success(a, f, asked))
  /\ b \in t.owed <=> IF req = "NonAllocatingStoreReq" THEN ~OffChip(a, f, asked)
                      ELSE b \in s.owed

(* processRequest *)
LEMMA RequestFacts ==
  ASSUME NEW s \in ChipType, s.failed = FALSE, NEW c \in Caches, NEW b \in Blocks, NEW req,
         NEW a, a = getAction(req, StateOf(s.l2, b), Sharing(s.dir[b])),
         NEW asked, asked = Asked(s, c, b, a),
         Fits(req, a, View(s.l1, b), StateOf(s.l2, b), asked, s.dir[b], c),
         NEW t, t = processRequest(s, c, req, b)
  PROVE  /\ t \in ChipType /\ t.failed = FALSE
         /\ Elsewhere(s, t, c, b)
         /\ Served(s, t, c, b, req, a, asked)
<1> DEFINE f == View(s.l1, b)
           set == Lookup(s.l2, b, L2Assoc)
           u == SendSnoops(s, b, a, asked)
           resp == Response(a, f, asked)
           n == Chosen(a, f, asked)
           success == Success(a, f, asked)
           answer == Answer(req, a, f, asked, s.dir[b], c)
<1>1. /\ s.l1 \in [Caches -> L1Sets] /\ s.dir \in [Blocks -> SUBSET Caches] /\ s.l2 \in L2Sets
  BY DEF ChipType
<1>2. ActionOK(a) /\ answer.ok /\ answer.sharers \subseteq Caches
      /\ (a.alloc \/ a.next[n] = StateOf(s.l2, b) \/ StateOf(s.l2, b) # "I")
  BY DEF Fits, NextState
<1>3. /\ WF(set, L2Assoc) /\ Len(set) > 0 /\ \A x : StateOf(set, x) = StateOf(s.l2, x)
  BY <1>1, Ways, LookupFacts
<1>4. \A d \in Caches : f[d] = StateOf(s.l1[d], b)
  BY DEF View
<1>5. AskedOK(asked, f, s.dir[b], c, a)
  BY AskedFacts
<1>6. asked \subseteq Caches /\ c \notin asked /\ (asked = {} \/ a.snoop \in Snoops)
  BY <1>1, <1>2, <1>5 DEF AskedOK, ActionOK, Snoops
<1>7. {StateOf(s.l1[d], b) : d \in asked} = {f[d] : d \in asked}
  BY <1>4, <1>6
<1>8. t = Snooped(u, c, req, b, set, a, resp)
  <2>1. t = Perform(s, c, req, b, set, a)
    BY <1>3 DEF processRequest
  <2>2. a.poison = FALSE
    BY <1>2 DEF ActionOK
  <2> QED BY <1>7, <2>1, <2>2 DEF Perform, Response
<1>9. u.dir[b] = Left(a, f, asked, s.dir[b])
  <2>1. u.dir = [s.dir EXCEPT ![b] = @ \ RemovedSharers(a.snoop, b, asked, s.l1)]
    BY <1>6, SendSnoopsFacts
  <2>2. RemovedSharers(a.snoop, b, asked, s.l1)
          = IF a.snoop = "Invalidate" THEN asked ELSE {d \in asked : f[d] = "I"}
    BY <1>4, <1>6 DEF RemovedSharers
  <2> QED BY <1>1, <2>1, <2>2 DEF Left
<1>10. t = Respond(u, req, b, set, a, n, success, OffChip(a, f, asked), answer)
  <2> DEFINE k == IF resp # a.terminal[1] /\ resp = a.terminal[2] THEN 2 ELSE 1
             ok == a.snoop # "NoRequest" /\ resp \in {a.terminal[1], a.terminal[2]}
  <2>1. n = k /\ success = ok /\ OffChip(a, f, asked) = (a.fwd /\ ~success)
    BY DEF Chosen, Success, OffChip
  <2> HIDE DEF u, resp, set
  <2>2. t = Respond(u, req, b, set, a, k, ok, a.fwd /\ ~ok,
                    processRequestResponse(u.dir[b], c, req, a.reply[k]))
    BY <1>8 DEF Snooped
  <2>3. answer = processRequestResponse(u.dir[b], c, req, a.reply[n])
    BY <1>9 DEF Answer, Reply
  <2> HIDE DEF n, success, answer, k, ok
  <2> QED BY <2>1, <2>2, <2>3
<1>11. /\ u \in ChipType /\ u.l2 = s.l2 /\ u.owed = s.owed /\ u.failed = s.failed
       /\ u.counted = s.counted
       /\ u.dir = [s.dir EXCEPT ![b] = @ \ RemovedSharers(a.snoop, b, asked, s.l1)]
       /\ \A d \in Caches \ asked : u.l1[d] = s.l1[d]
       /\ \A d \in Caches : StateOf(u.l1[d], b) =
              IF d \in asked THEN SnoopedState(StateOf(s.l1[d], b), a.snoop)
              ELSE StateOf(s.l1[d], b)
       /\ \A d \in Caches, x \in Blocks : x # b => StateOf(u.l1[d], x) = StateOf(s.l1[d], x)
  BY <1>6, SendSnoopsFacts
<1>12. /\ n \in {1, 2} /\ a.next[n] \in States /\ a.reply[n] \in Replies /\ a.alloc \in BOOLEAN
       /\ success \in BOOLEAN /\ OffChip(a, f, asked) \in BOOLEAN
  BY <1>2 DEF ActionOK, Chosen, Success, OffChip
<1> DEFINE off == OffChip(a, f, asked)
<1> HIDE DEF u, n, success, answer, f, resp, set, off
<1>13. /\ t \in ChipType /\ t.failed = FALSE /\ t.l1 = u.l1
       /\ t.dir = [u.dir EXCEPT ![b] = answer.sharers]
       /\ t.reply = a.reply[n]
       /\ t.counted = Classify(u.counted, req, b, OffChip(a, f, asked), success)
       /\ StateOf(t.l2, b) = a.next[n]
       /\ b \in t.owed <=> IF req = "NonAllocatingStoreReq" THEN ~OffChip(a, f, asked)
                           ELSE b \in u.owed
       /\ \A x \in Blocks : x # b => L2Kept(u, t, x)
  <2>1. u.failed = FALSE /\ \A x : StateOf(set, x) = StateOf(u.l2, x)
    BY <1>3, <1>11
  <2>2. a.alloc \/ a.next[n] = StateOf(u.l2, b) \/ StateOf(u.l2, b) # "I"
    BY <1>2, <1>11
  <2>3. off \in BOOLEAN /\ t = Respond(u, req, b, set, a, n, success, off, answer)
    BY <1>10, <1>12 DEF off
  <2>4. CanRespond(u, b, set, a, n, answer)
    BY <1>2, <1>3, <1>12, <2>1, <2>2 DEF CanRespond
  <2>5. Responded(u, t, req, b, a, n, success, off, answer)
    BY <1>11, <1>12, <2>3, <2>4, RespondFacts
  <2> QED BY <2>5 DEF off, Responded
<1>14. /\ t.dir[b] = answer.sharers /\ \A x \in Blocks : x # b => t.dir[x] = s.dir[x]
  BY <1>1, <1>11, <1>13
<1>15. View(t.l1, b) = AfterSnoops(a, f, asked)
  BY <1>4, <1>11, <1>13 DEF View, AfterSnoops
<1>16. \A x \in Blocks : x # b => View(t.l1, x) = View(s.l1, x)
  BY <1>11, <1>13 DEF View
<1>17. \A x \in Blocks : x # b => L2Kept(s, t, x)
  BY <1>11, <1>13 DEF L2Kept
<1>18. t.l1[c] = s.l1[c]
  BY <1>6, <1>11, <1>13
<1>19. Elsewhere(s, t, c, b)
  BY <1>14, <1>16, <1>17, <1>18 DEF Elsewhere
<1>20. Served(s, t, c, b, req, a, asked)
  BY <1>11, <1>13, <1>14, <1>15 DEF Served, NextState, Reply, f, n, success, answer
<1> QED BY <1>13, <1>19, <1>20

-----------------------------------------------------------------------------
(* What the protocol does with one block.                                  *)

(* The outcome of an action once the snoops have been answered. *)
Yields(a, f, asked, D, next, reply, left) ==
  /\ NextState(a, f, asked) = next /\ Reply(a, f, asked) = reply
  /\ Left(a, f, asked, D) = left

(* Nobody is snooped. *)
LEMMA PlainYields ==
  ASSUME NEW a, NEW r1, NEW r2, NEW n1, NEW n2, a.fwd \in BOOLEAN,
         Is(a, "NoRequest", "NoRequest", "NoRequest", r1, r2, n1, n2),
         NEW f \in [Caches -> States], NEW D, NEW c, NEW asked, AskedOK(asked, f, D, c, a)
  PROVE  /\ Yields(a, f, asked, D, n1, r1, D)
         /\ (OffChip(a, f, asked) <=> a.fwd) /\ ~Success(a, f, asked)
         /\ AfterSnoops(a, f, asked) = f
<1>1. a.snoop = "NoRequest" /\ asked = {}
  BY DEF Is, AskedOK
<1>2. Response(a, f, asked) = "NoRequest"
  BY <1>1, ResponseFacts
<1>3. Chosen(a, f, asked) = 1 /\ Success(a, f, asked) = FALSE
  BY <1>1, <1>2 DEF Chosen, Success, Is
<1>4. OffChip(a, f, asked) = a.fwd /\ NextState(a, f, asked) = n1 /\ Reply(a, f, asked) = r1
  BY <1>3 DEF OffChip, NextState, Reply, Is
<1>5. Left(a, f, asked, D) = D
  BY <1>1 DEF Left
<1>6. AfterSnoops(a, f, asked) = f
  BY <1>1 DEF AfterSnoops
<1> QED BY <1>3, <1>4, <1>5, <1>6 DEF Yields

(* A copy is asked for: a sharer that has one answers, with the second     *)
(* reply when it is dirty, and the sharers found without one leave.        *)
LEMMA ReturnYields ==
  ASSUME NEW a, NEW r1, NEW r2, NEW n1, NEW n2, ~a.fwd,
         Is(a, "ReturnReq", "ReturnReply", "ReturnReplyDirty", r1, r2, n1, n2),
         NEW f \in [Caches -> States], NEW D, D \subseteq Caches, NEW c, NEW asked,
         AskedOK(asked, f, D, c, a),
         NEW left, left = Left(a, f, asked, D)
  PROVE  \/ /\ Yields(a, f, asked, D, n1, r1, left)
            /\ \A d \in D \ {c} : f[d] = "I"
         \/ /\ Yields(a, f, asked, D, n1, r1, left) /\ Success(a, f, asked)
            /\ \A d \in asked : f[d] # "M"
         \/ /\ Yields(a, f, asked, D, n2, r2, left) /\ Success(a, f, asked)
            /\ \E d \in asked : f[d] = "M"
<1> DEFINE resp == Response(a, f, asked)
<1>1. a.snoop = "ReturnReq"
  BY DEF Is
<1>2. /\ asked = {} => resp = "NoRequest"
      /\ asked # {} /\ (\A d \in asked : f[d] = "I") => resp = "ReturnNAck"
      /\ (\E d \in asked : f[d] = "M") => resp = "ReturnReplyDirty"
      /\ (\E d \in asked : f[d] # "I") /\ (\A d \in asked : f[d] # "M") => resp = "ReturnReply"
  BY <1>1, ResponseFacts
<1>3. /\ Chosen(a, f, asked) = IF resp = "ReturnReplyDirty" THEN 2 ELSE 1
      /\ Success(a, f, asked) = (resp \in {"ReturnReply", "ReturnReplyDirty"})
      /\ OffChip(a, f, asked) = FALSE
  BY DEF Chosen, Success, OffChip, Is
<1>4. Left(a, f, asked, D) = left
  OBVIOUS
<1>5. (\A d \in asked : f[d] = "I") => \A d \in D \ {c} : f[d] = "I"
  BY <1>1 DEF AskedOK
<1> HIDE DEF resp
<1>6. /\ NextState(a, f, asked) = IF resp = "ReturnReplyDirty" THEN n2 ELSE n1
      /\ Reply(a, f, asked) = IF resp = "ReturnReplyDirty" THEN r2 ELSE r1
  BY <1>3 DEF NextState, Reply, Is
<1>7. CASE \A d \in asked : f[d] = "I"
  BY <1>2, <1>3, <1>4, <1>5, <1>6, <1>7 DEF Yields
<1>8. CASE \E d \in asked : f[d] = "M"
  BY <1>2, <1>3, <1>4, <1>6, <1>8 DEF Yields
<1>9. CASE (\E d \in asked : f[d] # "I") /\ \A d \in asked : f[d] # "M"
  BY <1>2, <1>3, <1>4, <1>6, <1>9 DEF Yields
<1> QED BY <1>7, <1>8, <1>9

InvalidatingOutcome(a, f, asked, D, c, n1, n2, r1, r2, left) ==
  \/ /\ Yields(a, f, asked, D, n1, r1, left)
     /\ \A d \in D \ {c} : f[d] = "I"
  \/ Yields(a, f, asked, D, n1, r1, left) /\ Success(a, f, asked)
  \/ /\ Yields(a, f, asked, D, n2, r2, left) /\ Success(a, f, asked)
     /\ \E d \in D \ {c} : f[d] = "M"

(* All the copies are invalidated: only the requester can be left, and the *)
(* second reply is that of a dirty copy.                                   *)
LEMMA InvalidatingYields ==
  ASSUME NEW a, NEW r1, NEW r2, NEW n1, NEW n2, ~a.fwd,
         Is(a, "Invalidate", "InvalidateAck", "InvUpdateAck", r1, r2, n1, n2),
         NEW f \in [Caches -> States], NEW D, D \subseteq Caches, NEW c, NEW asked,
         AskedOK(asked, f, D, c, a), a.multi \/ Sharing(D) = "One",
         NEW left, left = D \cap {c}
  PROVE  /\ asked = D \ {c}
         /\ InvalidatingOutcome(a, f, asked, D, c, n1, n2, r1, r2, left)
<1> DEFINE resp == Response(a, f, asked)
<1>1. a.snoop = "Invalidate" /\ asked = D \ {c}
  BY DEF Is, AskedOK
<1>2. /\ asked = {} => resp = "NoRequest"
      /\ asked # {} /\ (\A d \in asked : f[d] = "I") => resp = "Invalidate"
      /\ (\E d \in asked : f[d] = "M") => resp = "InvUpdateAck"
      /\ (\E d \in asked : f[d] # "I") /\ (\A d \in asked : f[d] # "M") => resp = "InvalidateAck"
  BY <1>1, ResponseFacts
<1>3. /\ Chosen(a, f, asked) = IF resp = "InvUpdateAck" THEN 2 ELSE 1
      /\ Success(a, f, asked) = (resp \in {"InvalidateAck", "InvUpdateAck"})
      /\ OffChip(a, f, asked) = FALSE
  BY DEF Chosen, Success, OffChip, Is
<1>4. Left(a, f, asked, D) = left
  BY <1>1 DEF Left
<1> HIDE DEF resp
<1>6. /\ NextState(a, f, asked) = IF resp = "InvUpdateAck" THEN n2 ELSE n1
      /\ Reply(a, f, asked) = IF resp = "InvUpdateAck" THEN r2 ELSE r1
  BY <1>3 DEF NextState, Reply, Is
<1>7. CASE \A d \in asked : f[d] = "I"
  BY <1>1, <1>2, <1>3, <1>4, <1>6, <1>7 DEF Yields, InvalidatingOutcome
<1>8. CASE \E d \in asked : f[d] = "M"
  BY <1>1, <1>2, <1>3, <1>4, <1>6, <1>8 DEF Yields, InvalidatingOutcome
<1>9. CASE (\E d \in asked : f[d] # "I") /\ \A d \in asked : f[d] # "M"
  BY <1>1, <1>2, <1>3, <1>4, <1>6, <1>9 DEF Yields, InvalidatingOutcome
<1> QED BY <1>1, <1>7, <1>8, <1>9

ForwardedOutcome(a, f, asked, D, c, next, reply, left) ==
  /\ asked = D \ {c} /\ Yields(a, f, asked, D, next, reply, left)
  /\ OffChip(a, f, asked) <=> asked # {}

(* A forwarded store: it goes to memory if there was somebody to ask. *)
LEMMA ForwardedYields ==
  ASSUME NEW a, NEW r1, NEW r2, NEW n1, NEW n2, a.fwd = TRUE,
         Is(a, "Invalidate", "NoRequest", "NoRequest", r1, r2, n1, n2),
         NEW f \in [Caches -> States], NEW D, D \subseteq Caches, NEW c, NEW asked,
         AskedOK(asked, f, D, c, a), a.multi \/ Sharing(D) = "One",
         NEW left, left = D \cap {c}
  PROVE  ForwardedOutcome(a, f, asked, D, c, n1, r1, left)
<1> DEFINE resp == Response(a, f, asked)
<1>1. a.snoop = "Invalidate" /\ asked = D \ {c}
  BY DEF Is, AskedOK
<1>2. resp = "NoRequest" <=> asked = {}
  BY <1>1, ResponseFacts
<1>3. /\ Chosen(a, f, asked) = 1
      /\ Success(a, f, asked) = (resp = "NoRequest")
      /\ OffChip(a, f, asked) = ~(resp = "NoRequest")
  BY DEF Chosen, Success, OffChip, Is
<1>4. Left(a, f, asked, D) = left
  BY <1>1 DEF Left
<1> HIDE DEF resp
<1>5. NextState(a, f, asked) = n1 /\ Reply(a, f, asked) = r1
  BY <1>3 DEF NextState, Reply, Is
<1> QED BY <1>1, <1>2, <1>3, <1>4, <1>5 DEF Yields, ForwardedOutcome

(* The states of the block in the L1s when the requester takes state new. *)
Filled(a, f, asked, c, new) == [AfterSnoops(a, f, asked) EXCEPT ![c] = new]

(* The request is answered without an assertion, the block keeps its       *)
(* invariant when the requester takes state new and memory is then behind  *)
(* or not (own), and with clean evictions a request that neither memory    *)
(* nor another L1 satisfied found the block in the L2.                     *)
Works(req, a, clean, f, cs, D, c, asked, new, own) ==
  /\ Fits(req, a, f, cs, asked, D, c)
  /\ GoodBlock(clean, Filled(a, f, asked, c, new), NextState(a, f, asked),
               Answer(req, a, f, asked, D, c).sharers, own)
  /\ clean /\ ~OffChip(a, f, asked) /\ ~Success(a, f, asked)
       => cs # "I" \/ IsEvict(req) \/ req = "UpgradeReq"

(* An action whose fields are those of a table is one. *)
LEMMA IsOK ==
  ASSUME NEW a, NEW snoop, NEW t1, NEW t2, NEW r1, NEW r2, NEW n1, NEW n2,
         Is(a, snoop, t1, t2, r1, r2, n1, n2),
         snoop \in {"NoRequest", "Invalidate", "ReturnReq"}, r1 \in Replies, r2 \in Replies,
         n1 \in States, n2 \in States, a.fwd \in BOOLEAN, a.alloc \in BOOLEAN
  PROVE  ActionOK(a) /\ a.snoop = snoop
<1>1. /\ a.poison = FALSE /\ a.snoop = snoop /\ a.reply[1] = r1 /\ a.reply[2] = r2
      /\ a.next[1] = n1 /\ a.next[2] = n2
  BY DEF Is
<1> QED BY <1>1 DEF ActionOK

(* From the outcome to the request. *)
LEMMA WorksFrom ==
  ASSUME NEW a, ActionOK(a), NEW f, NEW asked, NEW D, NEW next, NEW reply, NEW left,
         Yields(a, f, asked, D, next, reply, left),
         NEW c, NEW req, NEW sharers, sharers \subseteq Caches,
         processRequestResponse(left, c, req, reply) = [sharers |-> sharers, ok |-> TRUE],
         NEW cs, a.alloc \/ next = cs \/ cs # "I", NEW clean, NEW own, NEW new,
         GoodBlock(clean, Filled(a, f, asked, c, new), next, sharers, own),
         clean /\ ~OffChip(a, f, asked) /\ ~Success(a, f, asked)
           => cs # "I" \/ IsEvict(req) \/ req = "UpgradeReq"
  PROVE  Works(req, a, clean, f, cs, D, c, asked, new, own)
<1>1. /\ NextState(a, f, asked) = next /\ Reply(a, f, asked) = reply
      /\ Left(a, f, asked, D) = left
  BY DEF Yields
<1>2. Answer(req, a, f, asked, D, c) = [sharers |-> sharers, ok |-> TRUE]
  BY <1>1 DEF Answer
<1>3. Answer(req, a, f, asked, D, c).ok /\ Answer(req, a, f, asked, D, c).sharers = sharers
  BY <1>2
<1> QED BY <1>1, <1>3 DEF Works, Fits

(* The states of the block in the L1s, with the one the requester takes. *)
LEMMA ViewAfter ==
  ASSUME NEW a, NEW f, NEW asked, NEW c \in Caches, NEW new
  PROVE  \A d \in Caches :
           Filled(a, f, asked, c, new)[d] =
             IF d = c THEN new
             ELSE IF d \in asked THEN SnoopedState(f[d], a.snoop) ELSE f[d]
BY DEF AfterSnoops, Filled

(* ReadReq: the L1 fills with the state of the reply. *)
LEMMA ReadWorks ==
  ASSUME NEW clean \in BOOLEAN, NEW f \in [Caches -> States], NEW cs \in States,
         NEW D, D \subseteq Caches, NEW c \in Caches, NEW own \in BOOLEAN,
         GoodBlock(clean, f, cs, D, own), f[c] = "I",
         NEW a, a = ReadAction(cs, Sharing(D)), NEW asked, AskedOK(asked, f, D, c, a)
  PROVE  Works("ReadReq", a, clean, f, cs, D, c, asked, FillState(Reply(a, f, asked)), own)
<1> DEFINE ds == Sharing(D)
           h(new) == Filled(a, f, asked, c, new)
<1>1. /\ \A d \in Caches : f[d] # "I" => d \in D
      /\ clean => \A d \in D : f[d] # "I"
      /\ \A d \in Caches : f[d] \in {"M", "E"} => D = {d} /\ cs \in {"E", "I"}
      /\ clean /\ own => cs = "M" \/ \E d \in Caches : f[d] = "M"
  BY DEF GoodBlock
<1>2. /\ D = {} <=> ds = "Zero"
      /\ (\E x : D = {x}) <=> ds = "One"
      /\ ds \in {"Zero", "One", "Many"}
  BY SharingFacts
<1> HIDE DEF ds
<1>3. ASSUME ActionOK(a), NEW next, NEW reply, NEW old,
             Yields(a, f, asked, D, next, reply, old), old \subseteq Caches,
             \/ reply = "MissReply"
             \/ reply \in {"MissReplyWritable", "MissReplyDirty"} /\ old \subseteq {c},
             a.alloc \/ next = cs \/ cs # "I",
             GoodBlock(clean, h(FillState(reply)), next, old \cup {c}, own),
             clean /\ ~OffChip(a, f, asked) /\ ~Success(a, f, asked) => cs # "I"
      PROVE  Works("ReadReq", a, clean, f, cs, D, c, asked, FillState(Reply(a, f, asked)), own)
  <2>1. processRequestResponse(old, c, "ReadReq", reply) = [sharers |-> old \cup {c}, ok |-> TRUE]
    BY <1>3 DEF processRequestResponse, IsEvict
  <2>2. Reply(a, f, asked) = reply /\ old \cup {c} \subseteq Caches
    BY <1>3 DEF Yields
  <2> QED BY <1>3, <2>1, <2>2, WorksFrom
<1>4. FillState("MissReply") = "S" /\ FillState("MissReplyWritable") = "E" /\ FillState("MissReplyDirty") = "M"
  BY DEF FillState
<1>5. \A new : \A d \in Caches :
        h(new)[d] = IF d = c THEN new
                    ELSE IF d \in asked THEN SnoopedState(f[d], a.snoop) ELSE f[d]
  BY ViewAfter
<1> HIDE DEF h
<1>6. asked \subseteq D \ {c} /\ (a.snoop = "NoRequest" => asked = {})
      /\ (a.snoop # "NoRequest" /\ ds = "One" => asked = D \ {c})
  BY DEF AskedOK, ds
<1>7. ASSUME NEW reply \in {"MissReply", "MissReplyWritable", "MissReplyDirty"}, NEW next \in States,
             Is(a, "NoRequest", "NoRequest", "NoRequest", reply, "NO_RESP", next, next),
             a.fwd \in BOOLEAN, a.alloc \in BOOLEAN,
             reply = "MissReply" \/ D = {},
             a.alloc \/ next = cs \/ cs # "I", cs = "I" => a.fwd,
             GoodBlock(clean, h(FillState(reply)), next, D \cup {c}, own)
      PROVE  Works("ReadReq", a, clean, f, cs, D, c, asked, FillState(Reply(a, f, asked)), own)
  <2>2. ActionOK(a)
    BY <1>7, IsOK DEF Replies
  <2>3. Yields(a, f, asked, D, next, reply, D) /\ (OffChip(a, f, asked) <=> a.fwd)
    BY <1>7, PlainYields
  <2>4. reply = "MissReply" \/ (reply \in {"MissReplyWritable", "MissReplyDirty"} /\ D \subseteq {c})
    BY <1>7
  <2> QED BY <1>3, <1>7, <2>2, <2>3, <2>4
<1>8. CASE ds = "Zero" /\ cs # "S"
  <2>1. D = {} /\ \A d \in Caches : f[d] = "I"
    BY <1>1, <1>2, <1>8
  <2>2. CASE cs = "I"
    <3>0. a = Plain("MissReplyWritable", "E", TRUE, TRUE)
      BY <1>8, <2>2 DEF ReadAction, ds
    <3>1. /\ Is(a, "NoRequest", "NoRequest", "NoRequest", "MissReplyWritable", "NO_RESP", "E", "E")
          /\ a.fwd = TRUE /\ a.alloc = TRUE
      BY <3>0 DEF Plain, Is
    <3>2. asked = {}
      BY <1>6, <2>1
    <3>3. GoodBlock(clean, h("E"), "E", D \cup {c}, own)
      BY <1>1, <1>5, <2>1, <2>2, <3>2 DEF GoodBlock
    <3> QED BY <1>4, <1>7, <2>1, <2>2, <3>1, <3>3 DEF States
  <2>3. CASE cs = "E"
    <3>0. a = Plain("MissReplyWritable", "E", FALSE, FALSE)
      BY <1>8, <2>3 DEF ReadAction, ds
    <3>1. /\ Is(a, "NoRequest", "NoRequest", "NoRequest", "MissReplyWritable", "NO_RESP", "E", "E")
          /\ a.fwd = FALSE /\ a.alloc = FALSE
      BY <3>0 DEF Plain, Is
    <3>2. asked = {}
      BY <1>6, <2>1
    <3>3. GoodBlock(clean, h("E"), "E", D \cup {c}, own)
      BY <1>1, <1>5, <2>1, <2>3, <3>2 DEF GoodBlock
    <3> QED BY <1>4, <1>7, <2>1, <2>3, <3>1, <3>3 DEF States
  <2>4. CASE cs = "M"
    <3>0. a = Plain("MissReplyDirty", "I", FALSE, FALSE)
      BY <1>8, <2>4 DEF ReadAction, ds
    <3>1. /\ Is(a, "NoRequest", "NoRequest", "NoRequest", "MissReplyDirty", "NO_RESP", "I", "I")
          /\ a.fwd = FALSE /\ a.alloc = FALSE
      BY <3>0 DEF Plain, Is
    <3>2. asked = {}
      BY <1>6, <2>1
    <3>3. GoodBlock(clean, h("M"), "I", D \cup {c}, own)
      BY <1>1, <1>5, <2>1, <2>4, <3>2 DEF GoodBlock
    <3> QED BY <1>4, <1>7, <2>1, <2>4, <3>1, <3>3 DEF States
  <2> QED BY <1>8, <2>2, <2>3, <2>4 DEF States
<1>9. CASE cs = "S" \/ (cs = "M" /\ ds # "Zero") \/ (cs = "E" /\ ds = "Many")
  <2>1. a = Plain("MissReply", cs, FALSE, FALSE)
    BY <1>2, <1>9 DEF ReadAction, ds
  <2>0. /\ Is(a, "NoRequest", "NoRequest", "NoRequest", "MissReply", "NO_RESP", cs, cs)
        /\ a.fwd = FALSE /\ a.alloc = FALSE
    BY <2>1 DEF Plain, Is
  <2>2. asked = {}
    BY <1>6, <2>0 DEF Is
  <2>3. \A d \in Caches : f[d] \notin {"M", "E"}
    BY <1>1, <1>2, <1>9
  <2>4. GoodBlock(clean, h("S"), cs, D \cup {c}, own)
    BY <1>1, <1>5, <2>2, <2>3 DEF GoodBlock
  <2>5. cs # "I"
    BY <1>9
  <2> QED BY <1>4, <1>7, <2>0, <2>4, <2>5
<1>10. CASE (cs = "I" /\ ds # "Zero") \/ (cs = "E" /\ ds = "One")
  <2> DEFINE n1 == IF cs = "I" THEN "S" ELSE "E"
             alloc == cs = "I"
  <2>1. a = Return("MissReply", n1, "M", alloc)
    BY <1>10 DEF ReadAction, ds
  <2>2. n1 \in States /\ alloc \in BOOLEAN /\ n1 # "I" /\ "M" \in States /\ (alloc \/ cs # "I")
        /\ (n1 = "E" => cs = "E") /\ n1 # "M"
    BY <1>10 DEF States
  <2> HIDE DEF n1, alloc
  <2>3. /\ Is(a, "ReturnReq", "ReturnReply", "ReturnReplyDirty", "MissReply", "MissReply", n1, "M")
        /\ a.fwd = FALSE /\ a.alloc = alloc
    BY <2>1, <2>2, ReturnIs
  <2>4. ActionOK(a) /\ a.alloc = alloc /\ a.snoop = "ReturnReq"
    BY <2>2, <2>3, IsOK DEF Replies
  <2>5. \A d \in Caches : h("S")[d] = IF d = c THEN "S" ELSE IF d \in asked /\ f[d] # "I" THEN "S" ELSE f[d]
    BY <1>5, <2>4 DEF SnoopedState
  <2>6. \A d \in D \ {c} : f[d] \in {"M", "E"} => d \in asked
    BY <1>1, <1>2, <1>6, <2>4
  <2> DEFINE left == Left(a, f, asked, D)
  <2>9. left = D \ {d \in asked : f[d] = "I"} /\ left \subseteq Caches
    BY <2>4 DEF Left
  <2> HIDE DEF left
  <2>7. ASSUME NEW next, \/ next = "M"
                         \/ next = n1 /\ ~(clean /\ own)
        PROVE  GoodBlock(clean, h("S"), next, left \cup {c}, own)
    <3>1. \A d \in Caches : h("S")[d] \notin {"M", "E"}
      <4> SUFFICES ASSUME NEW d \in Caches, h("S")[d] \in {"M", "E"} PROVE FALSE
        OBVIOUS
      <4>1. d # c /\ f[d] \in {"M", "E"} /\ d \notin asked
        BY <2>5
      <4> QED BY <1>1, <2>6, <4>1
    <3>2. \A d \in Caches : h("S")[d] # "I" => d \in left \cup {c}
      BY <1>1, <2>5, <2>9
    <3>3. clean => \A d \in left \cup {c} : h("S")[d] # "I"
      BY <1>1, <2>5, <2>9
    <3> QED BY <2>7, <3>1, <3>2, <3>3 DEF GoodBlock
  <2>8. (\E d \in D \ {c} : f[d] = "M") \/ ~(clean /\ own)
    BY <1>1, <1>10
  <2>11. \/ /\ Yields(a, f, asked, D, n1, "MissReply", left)
            /\ \A d \in D \ {c} : f[d] = "I"
         \/ /\ Yields(a, f, asked, D, n1, "MissReply", left) /\ Success(a, f, asked)
            /\ \A d \in asked : f[d] # "M"
         \/ /\ Yields(a, f, asked, D, "M", "MissReply", left) /\ Success(a, f, asked)
            /\ \E d \in asked : f[d] = "M"
    BY <2>3, ReturnYields DEF left
  <2>12. CASE Yields(a, f, asked, D, n1, "MissReply", left)
            /\ \A d \in D \ {c} : f[d] = "I"
    <3>1. ~(clean /\ own) /\ (clean => cs # "I")
      <4>1. clean => D \ {c} = D
        BY <1>1
      <4> QED BY <1>1, <1>2, <1>10, <2>8, <2>12, <4>1
    <3>2. GoodBlock(clean, h("S"), n1, left \cup {c}, own)
      BY <2>7, <3>1
    <3> QED BY <1>3, <1>4, <2>2, <2>4, <2>9, <2>12, <3>1, <3>2
  <2>13. CASE Yields(a, f, asked, D, n1, "MissReply", left) /\ Success(a, f, asked)
            /\ \A d \in asked : f[d] # "M"
    <3>1. ~(clean /\ own)
      BY <2>6, <2>8, <2>13
    <3>2. GoodBlock(clean, h("S"), n1, left \cup {c}, own)
      BY <2>7, <3>1
    <3> QED BY <1>3, <1>4, <2>2, <2>4, <2>9, <2>13, <3>2
  <2>14. CASE Yields(a, f, asked, D, "M", "MissReply", left) /\ Success(a, f, asked)
            /\ \E d \in asked : f[d] = "M"
    <3>1. GoodBlock(clean, h("S"), "M", left \cup {c}, own)
      BY <2>7
    <3> QED BY <1>3, <1>4, <2>2, <2>4, <2>9, <2>14, <3>1
  <2> QED BY <2>11, <2>12, <2>13, <2>14
<1> QED BY <1>2, <1>8, <1>9, <1>10 DEF States

(* FetchReq: the L1I fills Shared. *)
LEMMA FetchWorks ==
  ASSUME NEW clean \in BOOLEAN, NEW f \in [Caches -> States], NEW cs \in States,
         NEW D, D \subseteq Caches, NEW c \in Caches, NEW own \in BOOLEAN,
         GoodBlock(clean, f, cs, D, own), f[c] = "I",
         NEW a, a = FetchAction(cs, Sharing(D)), NEW asked, AskedOK(asked, f, D, c, a)
  PROVE  Works("FetchReq", a, clean, f, cs, D, c, asked, "S", own)
<1> DEFINE ds == Sharing(D)
           h == Filled(a, f, asked, c, "S")
<1>1. /\ \A d \in Caches : f[d] # "I" => d \in D
      /\ clean => \A d \in D : f[d] # "I"
      /\ \A d \in Caches : f[d] \in {"M", "E"} => D = {d} /\ cs \in {"E", "I"}
      /\ clean /\ own => cs = "M" \/ \E d \in Caches : f[d] = "M"
  BY DEF GoodBlock
<1>2. /\ D = {} <=> ds = "Zero"
      /\ (\E x : D = {x}) <=> ds = "One"
      /\ ds \in {"Zero", "One", "Many"}
  BY SharingFacts
<1> HIDE DEF ds
<1>3. ASSUME ActionOK(a), NEW next, NEW old,
             Yields(a, f, asked, D, next, "MissReply", old), old \subseteq Caches,
             a.alloc \/ next = cs \/ cs # "I",
             GoodBlock(clean, h, next, old \cup {c}, own),
             clean /\ ~OffChip(a, f, asked) /\ ~Success(a, f, asked) => cs # "I"
      PROVE  Works("FetchReq", a, clean, f, cs, D, c, asked, "S", own)
  <2>1. processRequestResponse(old, c, "FetchReq", "MissReply") = [sharers |-> old \cup {c}, ok |-> TRUE]
    BY <1>3 DEF processRequestResponse, IsEvict
  <2>2. old \cup {c} \subseteq Caches
    BY <1>3
  <2> QED BY <1>3, <2>1, <2>2, WorksFrom
<1>5. \A d \in Caches :
        h[d] = IF d = c THEN "S"
               ELSE IF d \in asked THEN SnoopedState(f[d], a.snoop) ELSE f[d]
  BY ViewAfter
<1> HIDE DEF h
<1>6. asked \subseteq D \ {c} /\ (a.snoop = "NoRequest" => asked = {})
      /\ (a.snoop # "NoRequest" /\ ds = "One" => asked = D \ {c})
  BY DEF AskedOK, ds
<1>7. ASSUME NEW next \in States,
             Is(a, "NoRequest", "NoRequest", "NoRequest", "MissReply", "NO_RESP", next, next),
             a.fwd \in BOOLEAN, a.alloc \in BOOLEAN,
             a.alloc \/ next = cs \/ cs # "I", cs = "I" => a.fwd,
             GoodBlock(clean, h, next, D \cup {c}, own)
      PROVE  Works("FetchReq", a, clean, f, cs, D, c, asked, "S", own)
  <2>2. ActionOK(a)
    BY <1>7, IsOK DEF Replies
  <2>3. Yields(a, f, asked, D, next, "MissReply", D) /\ (OffChip(a, f, asked) <=> a.fwd)
    BY <1>7, PlainYields
  <2> QED BY <1>3, <1>7, <2>2, <2>3
<1>8. CASE ds = "Zero" /\ cs = "I"
  <2>1. D = {} /\ \A d \in Caches : f[d] = "I"
    BY <1>1, <1>2, <1>8
  <2>2. a = Plain("MissReply", "S", TRUE, TRUE)
    BY <1>8 DEF FetchAction, ds
  <2>3. /\ Is(a, "NoRequest", "NoRequest", "NoRequest", "MissReply", "NO_RESP", "S", "S")
        /\ a.fwd = TRUE /\ a.alloc = TRUE
    BY <2>2 DEF Plain, Is
  <2>4. asked = {}
    BY <1>6, <2>1
  <2>5. GoodBlock(clean, h, "S", D \cup {c}, own)
    BY <1>1, <1>5, <1>8, <2>1, <2>4 DEF GoodBlock
  <2> QED BY <1>7, <2>3, <2>5 DEF States
<1>9. CASE cs = "S" \/ (cs \in {"M", "E"} /\ ds # "One")
  <2>1. a = Plain("MissReply", cs, FALSE, FALSE)
    BY <1>2, <1>9 DEF FetchAction, ds
  <2>2. /\ Is(a, "NoRequest", "NoRequest", "NoRequest", "MissReply", "NO_RESP", cs, cs)
        /\ a.fwd = FALSE /\ a.alloc = FALSE
    BY <2>1 DEF Plain, Is
  <2>3. asked = {}
    BY <1>6, <2>2 DEF Is
  <2>4. \A d \in Caches : f[d] \notin {"M", "E"}
    BY <1>1, <1>2, <1>9
  <2>5. GoodBlock(clean, h, cs, D \cup {c}, own)
    BY <1>1, <1>5, <2>3, <2>4 DEF GoodBlock
  <2>6. cs # "I"
    BY <1>9
  <2> QED BY <1>7, <2>2, <2>5, <2>6
<1>10. CASE (cs = "I" /\ ds # "Zero") \/ (cs \in {"M", "E"} /\ ds = "One")
  <2> DEFINE n1 == IF cs = "I" THEN "S" ELSE cs
             r2 == IF cs # "I" \/ ds = "One" THEN "MissReply" ELSE "NO_RESP"
  <2>1. \/ cs = "I" /\ a = Return(r2, n1, "M", TRUE)
        \/ cs # "I" /\ a = Return(r2, n1, "M", FALSE)
    BY <1>10 DEF FetchAction, ds
  <2>2. n1 \in States /\ n1 # "I" /\ "M" \in States /\ r2 \in Replies /\ (ds = "One" => r2 = "MissReply")
    BY <1>10 DEF States, Replies
  <2> HIDE DEF n1, r2
  <2>3. /\ Is(a, "ReturnReq", "ReturnReply", "ReturnReplyDirty", "MissReply", r2, n1, "M")
        /\ a.fwd = FALSE /\ a.alloc \in BOOLEAN /\ (a.alloc \/ cs # "I")
    <3>1. CASE cs = "I"
      <4>1. a = Return(r2, n1, "M", TRUE)
        BY <2>1, <3>1
      <4> QED BY <4>1 DEF Return, Plain, Is
    <3>2. CASE cs # "I"
      <4>1. a = Return(r2, n1, "M", FALSE)
        BY <2>1, <3>2
      <4> QED BY <3>2, <4>1 DEF Return, Plain, Is
    <3> QED BY <3>1, <3>2
  <2>4. ActionOK(a) /\ a.snoop = "ReturnReq"
    BY <2>2, <2>3, IsOK DEF Replies
  <2>5. \A d \in Caches : h[d] = IF d = c THEN "S" ELSE IF d \in asked /\ f[d] # "I" THEN "S" ELSE f[d]
    BY <1>5, <2>4 DEF SnoopedState
  <2>6. \A d \in D \ {c} : f[d] \in {"M", "E"} => d \in asked
    BY <1>1, <1>2, <1>6, <2>4
  <2> DEFINE left == Left(a, f, asked, D)
  <2>9. left = D \ {d \in asked : f[d] = "I"} /\ left \subseteq Caches
    BY <2>4 DEF Left
  <2> HIDE DEF left
  <2>7. ASSUME NEW next, next = "M" \/ ~(clean /\ own)
        PROVE  GoodBlock(clean, h, next, left \cup {c}, own)
    <3>1. \A d \in Caches : h[d] \notin {"M", "E"}
      <4> SUFFICES ASSUME NEW d \in Caches, h[d] \in {"M", "E"} PROVE FALSE
        OBVIOUS
      <4>1. d # c /\ f[d] \in {"M", "E"} /\ d \notin asked
        BY <2>5
      <4> QED BY <1>1, <2>6, <4>1
    <3>2. \A d \in Caches : h[d] # "I" => d \in left \cup {c}
      BY <1>1, <2>5, <2>9
    <3>3. clean => \A d \in left \cup {c} : h[d] # "I"
      BY <1>1, <2>5, <2>9
    <3> QED BY <2>7, <3>1, <3>2, <3>3 DEF GoodBlock
  <2>8. (\E d \in D \ {c} : f[d] = "M") \/ ~(clean /\ own) \/ (cs = "M" /\ n1 = "M")
    BY <1>1, <1>10 DEF n1
  <2>11. \/ /\ Yields(a, f, asked, D, n1, "MissReply", left)
            /\ \A d \in D \ {c} : f[d] = "I"
         \/ /\ Yields(a, f, asked, D, n1, "MissReply", left) /\ Success(a, f, asked)
            /\ \A d \in asked : f[d] # "M"
         \/ /\ Yields(a, f, asked, D, "M", r2, left) /\ Success(a, f, asked)
            /\ \E d \in asked : f[d] = "M"
    BY <2>3, ReturnYields DEF left
  <2>12. CASE Yields(a, f, asked, D, n1, "MissReply", left)
            /\ \A d \in D \ {c} : f[d] = "I"
    <3>1. n1 = "M" \/ ~(clean /\ own)
      BY <2>8, <2>12
    <3>2. GoodBlock(clean, h, n1, left \cup {c}, own)
      BY <2>7, <3>1
    <3>3. clean => cs # "I"
      BY <1>1, <1>2, <1>10, <2>12
    <3> QED BY <1>3, <2>2, <2>3, <2>4, <2>9, <2>12, <3>2, <3>3
  <2>13. CASE Yields(a, f, asked, D, n1, "MissReply", left) /\ Success(a, f, asked)
            /\ \A d \in asked : f[d] # "M"
    <3>1. n1 = "M" \/ ~(clean /\ own)
      BY <2>6, <2>8, <2>13
    <3>2. GoodBlock(clean, h, n1, left \cup {c}, own)
      BY <2>7, <3>1
    <3> QED BY <1>3, <2>2, <2>3, <2>4, <2>9, <2>13, <3>2
  <2>14. CASE Yields(a, f, asked, D, "M", r2, left) /\ Success(a, f, asked)
            /\ \E d \in asked : f[d] = "M"
    <3>1. GoodBlock(clean, h, "M", left \cup {c}, own)
      BY <2>7
    <3>2. ds = "One"
      BY <1>1, <1>2, <1>6, <2>14
    <3> QED BY <1>3, <2>2, <2>3, <2>4, <2>9, <2>14, <3>1, <3>2
  <2> QED BY <2>11, <2>12, <2>13, <2>14
<1> QED BY <1>2, <1>8, <1>9, <1>10 DEF States

(* Once the other sharers are invalidated the requester is alone. *)
LEMMA AloneGood ==
  ASSUME NEW clean \in BOOLEAN, NEW f \in [Caches -> States], NEW cs, NEW D, NEW own0, NEW c \in Caches,
         GoodBlock(clean, f, cs, D, own0), NEW a, NEW asked,
         asked = D \ {c}, asked = {} \/ a.snoop = "Invalidate"
  PROVE  \A own : GoodBlock(clean, Filled(a, f, asked, c, "M"), "I", {c}, own)
<1> DEFINE h == Filled(a, f, asked, c, "M")
<1>1. \A d \in Caches : f[d] # "I" => d \in D
  BY DEF GoodBlock
<1>2. \A d \in Caches : h[d] = IF d = c THEN "M"
                               ELSE IF d \in asked THEN SnoopedState(f[d], a.snoop) ELSE f[d]
  BY ViewAfter
<1> HIDE DEF h
<1>3. \A d \in Caches : h[d] = IF d = c THEN "M" ELSE "I"
  BY <1>1, <1>2 DEF SnoopedState
<1>4. TAKE own
<1> QED BY <1>3 DEF GoodBlock, h

(* WriteReq: the L1 gets the only copy. *)
LEMMA WriteWorks ==
  ASSUME NEW clean \in BOOLEAN, NEW f \in [Caches -> States], NEW cs \in States,
         NEW D, D \subseteq Caches, NEW c \in Caches, NEW own \in BOOLEAN,
         GoodBlock(clean, f, cs, D, own), f[c] = "I",
         NEW a, a = WriteAction(cs, Sharing(D)), NEW asked, AskedOK(asked, f, D, c, a)
  PROVE  Works("WriteReq", a, clean, f, cs, D, c, asked, "M", TRUE)
<1> DEFINE ds == Sharing(D)
<1>1. /\ \A d \in Caches : f[d] # "I" => d \in D
      /\ clean => \A d \in D : f[d] # "I"
      /\ \A d \in Caches : f[d] \in {"M", "E"} => D = {d} /\ cs \in {"E", "I"}
  BY DEF GoodBlock
<1>2. /\ D = {} <=> ds = "Zero"
      /\ (\E x : D = {x}) <=> ds = "One"
      /\ ds \in {"Zero", "One", "Many"}
  BY SharingFacts
<1> HIDE DEF ds
<1>3. ASSUME ActionOK(a), NEW reply \in {"MissReply", "MissReplyWritable", "MissReplyDirty"}, NEW old,
             Yields(a, f, asked, D, "I", reply, old), old \subseteq {c},
             asked = D \ {c}, asked = {} \/ a.snoop = "Invalidate",
             clean /\ ~OffChip(a, f, asked) /\ ~Success(a, f, asked) => cs # "I"
      PROVE  Works("WriteReq", a, clean, f, cs, D, c, asked, "M", TRUE)
  <2>1. processRequestResponse(old, c, "WriteReq", reply) = [sharers |-> {c}, ok |-> TRUE]
    <3>1. old \cup {c} = {c} /\ old \subseteq {c}
      BY <1>3
    <3> QED BY <1>3, <3>1 DEF processRequestResponse, IsEvict
  <2>2. {c} \subseteq Caches
    OBVIOUS
  <2>3. GoodBlock(clean, Filled(a, f, asked, c, "M"), "I", {c}, TRUE)
    BY <1>3, AloneGood
  <2>4. a.alloc \/ "I" = cs \/ cs # "I"
    OBVIOUS
  <2> QED BY <1>3, <2>1, <2>2, <2>3, <2>4, WorksFrom
<1>4. CASE ds = "Zero"
  <2> DEFINE reply == IF cs = "M" THEN "MissReplyDirty" ELSE "MissReplyWritable"
  <2>2. reply \in {"MissReply", "MissReplyWritable", "MissReplyDirty"}
    OBVIOUS
  <2> HIDE DEF reply
  <2>3. /\ Is(a, "NoRequest", "NoRequest", "NoRequest", reply, "NO_RESP", "I", "I")
        /\ a.fwd \in BOOLEAN /\ (a.fwd <=> cs = "I") /\ a.alloc = FALSE
    <3>1. CASE cs = "I"
      <4>1. a = Plain(reply, "I", TRUE, FALSE)
        BY <1>4, <3>1 DEF WriteAction, ds, reply
      <4>2. /\ Is(a, "NoRequest", "NoRequest", "NoRequest", reply, "NO_RESP", "I", "I")
            /\ a.fwd = TRUE /\ a.alloc = FALSE
        BY <4>1 DEF Plain, Is
      <4> QED BY <3>1, <4>2
    <3>2. CASE cs # "I"
      <4>1. a = Plain(reply, "I", FALSE, FALSE)
        BY <1>4, <3>2 DEF WriteAction, ds, reply
      <4> QED BY <3>2, <4>1 DEF Plain, Is
    <3> QED BY <3>1, <3>2
  <2>4. ActionOK(a)
    BY <2>2, <2>3, IsOK DEF Replies, States
  <2>5. Yields(a, f, asked, D, "I", reply, D) /\ (OffChip(a, f, asked) <=> cs = "I")
    BY <2>3, PlainYields
  <2>6. D = {} /\ asked = {} /\ asked = D \ {c} /\ D \subseteq {c}
    BY <1>2, <1>4 DEF AskedOK
  <2> QED BY <1>3, <2>2, <2>4, <2>5, <2>6
<1>5. CASE ds # "Zero"
  <2> DEFINE r1 == IF cs = "M" THEN "MissReplyDirty" ELSE "MissReply"
             r2 == CASE cs \in {"M", "E"} -> "MissReplyDirty"
                     [] cs \in {"S", "I"} /\ ds = "One" -> "MissReply"
                     [] OTHER -> "NO_RESP"
  <2>1. a = Invalidating(ds, r1, r2, "I")
    BY <1>5 DEF WriteAction, ds
  <2>2. /\ r1 \in {"MissReply", "MissReplyDirty"}
        /\ r2 \in {"MissReply", "MissReplyDirty", "NO_RESP"}
        /\ ds = "One" /\ cs \in {"E", "I"} => r2 \in {"MissReply", "MissReplyDirty"}
    OBVIOUS
  <2> HIDE DEF r1, r2
  <2>3. /\ Is(a, "Invalidate", "InvalidateAck", "InvUpdateAck", r1, r2, "I", "I")
        /\ (a.multi <=> ds = "Many") /\ ~a.fwd /\ ~a.alloc
        /\ a.fwd \in BOOLEAN /\ a.alloc \in BOOLEAN
    BY <2>1, InvalidatingIs
  <2>4. ActionOK(a) /\ a.snoop = "Invalidate"
    BY <2>2, <2>3, IsOK DEF Replies, States
  <2>5. a.multi \/ Sharing(D) = "One"
    BY <1>2, <1>5, <2>3 DEF ds
  <2>0. PICK left : left = D \cap {c}
    OBVIOUS
  <2>6. /\ asked = D \ {c}
        /\ \/ /\ Yields(a, f, asked, D, "I", r1, left)
              /\ \A d \in D \ {c} : f[d] = "I"
           \/ Yields(a, f, asked, D, "I", r1, left) /\ Success(a, f, asked)
           \/ /\ Yields(a, f, asked, D, "I", r2, left) /\ Success(a, f, asked)
              /\ \E d \in D \ {c} : f[d] = "M"
    <3>1. asked = D \ {c} /\ InvalidatingOutcome(a, f, asked, D, c, "I", "I", r1, r2, left)
      BY <2>0, <2>3, <2>5, InvalidatingYields
    <3> QED BY <3>1 DEF InvalidatingOutcome
  <2>7. left \subseteq {c}
    BY <2>0
  <2>8. CASE Yields(a, f, asked, D, "I", r1, left) /\ \A d \in D \ {c} : f[d] = "I"
    <3>1. ~clean
      BY <1>1, <1>2, <1>5, <2>8
    <3> QED BY <1>3, <2>2, <2>4, <2>6, <2>7, <2>8, <3>1
  <2>9. CASE Yields(a, f, asked, D, "I", r1, left) /\ Success(a, f, asked)
    BY <1>3, <2>2, <2>4, <2>6, <2>7, <2>9
  <2>10. CASE Yields(a, f, asked, D, "I", r2, left) /\ Success(a, f, asked)
              /\ \E d \in D \ {c} : f[d] = "M"
    <3>1. ds = "One" /\ cs \in {"E", "I"}
      BY <1>1, <1>2, <2>10
    <3> QED BY <1>3, <2>2, <2>4, <2>6, <2>7, <2>10, <3>1
  <2> QED BY <2>6, <2>8, <2>9, <2>10
<1> QED BY <1>4, <1>5

(* UpgradeReq: the L1 has the only copy. *)
LEMMA UpgradeWorks ==
  ASSUME NEW clean \in BOOLEAN, NEW f \in [Caches -> States], NEW cs \in States,
         NEW D, D \subseteq Caches, NEW c \in Caches, NEW own \in BOOLEAN,
         GoodBlock(clean, f, cs, D, own), f[c] = "S",
         NEW a, a = UpgradeAction(cs, Sharing(D)), NEW asked, AskedOK(asked, f, D, c, a)
  PROVE  Works("UpgradeReq", a, clean, f, cs, D, c, asked, "M", TRUE)
<1> DEFINE ds == Sharing(D)
<1>1. c \in D
  BY DEF GoodBlock
<1>2. /\ D = {} <=> ds = "Zero"
      /\ (\E x : D = {x}) <=> ds = "One"
      /\ ds \in {"One", "Many"}
  BY <1>1, SharingFacts
<1> HIDE DEF ds
<1>3. ASSUME ActionOK(a), NEW old,
             Yields(a, f, asked, D, "I", "UpgradeReply", old), old = {c},
             asked = D \ {c}, asked = {} \/ a.snoop = "Invalidate"
      PROVE  Works("UpgradeReq", a, clean, f, cs, D, c, asked, "M", TRUE)
  <2>1. processRequestResponse(old, c, "UpgradeReq", "UpgradeReply") = [sharers |-> {c}, ok |-> TRUE]
    BY <1>3 DEF processRequestResponse, IsEvict
  <2>2. {c} \subseteq Caches
    OBVIOUS
  <2>3. GoodBlock(clean, Filled(a, f, asked, c, "M"), "I", {c}, TRUE)
    BY <1>3, AloneGood
  <2>4. a.alloc \/ "I" = cs \/ cs # "I"
    OBVIOUS
  <2> QED BY <1>3, <2>1, <2>2, <2>3, <2>4, WorksFrom
<1>4. CASE ds = "One"
  <2>1. a = Plain("UpgradeReply", "I", FALSE, FALSE)
    BY <1>4 DEF UpgradeAction, ds
  <2>3. /\ Is(a, "NoRequest", "NoRequest", "NoRequest", "UpgradeReply", "NO_RESP", "I", "I")
        /\ a.fwd \in BOOLEAN /\ a.alloc \in BOOLEAN
    BY <2>1 DEF Plain, Is
  <2>4. ActionOK(a)
    BY <2>3, IsOK DEF Replies, States
  <2>5. Yields(a, f, asked, D, "I", "UpgradeReply", D)
    BY <2>3, PlainYields
  <2>6. D = {c}
    BY <1>1, <1>2, <1>4
  <2>7. asked = {} /\ asked = D \ {c}
    BY <2>6 DEF AskedOK
  <2> QED BY <1>3, <2>4, <2>5, <2>6, <2>7
<1>5. CASE ds = "Many"
  <2>0. PICK left : left = D \cap {c}
    OBVIOUS
  <2>1. a = Invalidating(ds, "UpgradeReply", "UpgradeReply", "I")
    BY <1>5 DEF UpgradeAction, ds
  <2>3. /\ Is(a, "Invalidate", "InvalidateAck", "InvUpdateAck", "UpgradeReply", "UpgradeReply", "I", "I")
        /\ (a.multi <=> ds = "Many") /\ ~a.fwd /\ ~a.alloc
        /\ a.fwd \in BOOLEAN /\ a.alloc \in BOOLEAN
    BY <2>1, InvalidatingIs
  <2>4. ActionOK(a) /\ a.snoop = "Invalidate"
    BY <2>3, IsOK DEF Replies, States
  <2>5. a.multi
    BY <1>5, <2>3
  <2>6. asked = D \ {c} /\ Yields(a, f, asked, D, "I", "UpgradeReply", left)
    <3>1. asked = D \ {c}
          /\ InvalidatingOutcome(a, f, asked, D, c, "I", "I", "UpgradeReply", "UpgradeReply", left)
      BY <2>0, <2>3, <2>5, InvalidatingYields
    <3> QED BY <3>1 DEF InvalidatingOutcome
  <2>7. left = {c}
    BY <1>1, <2>0
  <2> QED BY <1>3, <2>4, <2>6, <2>7
<1> QED BY <1>2, <1>4, <1>5

(* NonAllocatingStoreReq: no L1 has a copy, and the store is in the L2 or, *)
(* off chip, in memory.                                                    *)
LEMMA StoreAroundWorks ==
  ASSUME NEW clean \in BOOLEAN, NEW f \in [Caches -> States], NEW cs \in States,
         NEW D, D \subseteq Caches, NEW c \in Caches, NEW own \in BOOLEAN,
         GoodBlock(clean, f, cs, D, own), f[c] = "I",
         NEW a, a = NonAllocatingStoreAction(cs, Sharing(D)), NEW asked, AskedOK(asked, f, D, c, a),
         NEW behind \in BOOLEAN, behind <=> ~OffChip(a, f, asked)
  PROVE  Works("NonAllocatingStoreReq", a, clean, f, cs, D, c, asked, "I", behind)
<1> DEFINE ds == Sharing(D)
           rp == "NonAllocatingStoreReply"
           r2 == IF cs \in {"S", "I"} /\ ds = "Many" THEN "NO_RESP" ELSE rp
           h == Filled(a, f, asked, c, "I")
<1>1. /\ \A d \in Caches : f[d] # "I" => d \in D
      /\ clean => \A d \in D : f[d] # "I"
      /\ \A d \in Caches : f[d] \in {"M", "E"} => D = {d} /\ cs \in {"E", "I"}
  BY DEF GoodBlock
<1>2. /\ D = {} <=> ds = "Zero"
      /\ (\E x : D = {x}) <=> ds = "One"
      /\ ds \in {"Zero", "One", "Many"}
  BY SharingFacts
<1> HIDE DEF ds
<1>3. \A d \in Caches : h[d] = IF d = c THEN "I"
                               ELSE IF d \in asked THEN SnoopedState(f[d], a.snoop) ELSE f[d]
  BY ViewAfter
<1> HIDE DEF h
<1>4. ASSUME ActionOK(a), NEW next, NEW old,
             Yields(a, f, asked, D, next, rp, old), old = D \cap {c},
             asked = D \ {c}, asked = {} \/ a.snoop = "Invalidate",
             \/ next = "M" /\ cs # "I"
             \/ next = "I" /\ cs = "I" /\ (clean => OffChip(a, f, asked))
      PROVE  Works("NonAllocatingStoreReq", a, clean, f, cs, D, c, asked, "I", behind)
  <2>1. processRequestResponse(old, c, "NonAllocatingStoreReq", rp) = [sharers |-> old, ok |-> TRUE]
    BY <1>4 DEF processRequestResponse, IsEvict
  <2>2. \A d \in Caches : h[d] = "I"
    BY <1>1, <1>3, <1>4 DEF SnoopedState
  <2>3. clean => old = {}
    BY <1>1, <1>4
  <2>4. GoodBlock(clean, h, next, old, behind)
    BY <1>4, <2>2, <2>3 DEF GoodBlock
  <2>5. old \subseteq Caches
    BY <1>4
  <2>6. a.alloc \/ next = cs \/ cs # "I"
    BY <1>4
  <2>7. clean /\ ~OffChip(a, f, asked) /\ ~Success(a, f, asked) => cs # "I"
    BY <1>4
  <2> QED BY <1>4, <2>1, <2>4, <2>5, <2>6, <2>7, WorksFrom DEF h
<1>5. rp \in Replies /\ r2 \in Replies /\ "NO_RESP" \in Replies /\ {"M", "I"} \subseteq States
      /\ (ds # "Many" => r2 = rp)
  BY DEF Replies, States
<1>6. CASE ds = "Zero"
  <2> DEFINE next == IF cs # "I" THEN "M" ELSE "I"
  <2>1. /\ cs # "I" => a = Plain(rp, "M", FALSE, FALSE)
        /\ cs = "I" => a = Plain(rp, "I", TRUE, FALSE)
    BY <1>6 DEF NonAllocatingStoreAction, ds
  <2>2. /\ Is(a, "NoRequest", "NoRequest", "NoRequest", rp, "NO_RESP", next, next)
        /\ a.fwd \in BOOLEAN /\ a.alloc \in BOOLEAN /\ (cs = "I" => a.fwd)
    <3>1. CASE cs = "I"
      <4>1. a = Plain(rp, "I", TRUE, FALSE) /\ next = "I"
        BY <2>1, <3>1
      <4> QED BY <4>1 DEF Plain, Is
    <3>2. CASE cs # "I"
      <4>1. a = Plain(rp, "M", FALSE, FALSE) /\ next = "M"
        BY <2>1, <3>2
      <4> QED BY <3>2, <4>1 DEF Plain, Is
    <3> QED BY <3>1, <3>2
  <2>3. next \in States /\ ((next = "M" /\ cs # "I") \/ (next = "I" /\ cs = "I"))
    BY DEF States
  <2> HIDE DEF next
  <2>4. ActionOK(a)
    BY <1>5, <2>2, <2>3, IsOK
  <2>5. Yields(a, f, asked, D, next, rp, D) /\ (OffChip(a, f, asked) <=> a.fwd)
    BY <2>2, PlainYields
  <2>6. D = {} /\ asked = {} /\ asked = D \ {c} /\ D = D \cap {c}
    BY <1>2, <1>6 DEF AskedOK
  <2> QED BY <1>4, <2>2, <2>3, <2>4, <2>5, <2>6
<1>7. PICK left : left = D \cap {c}
  OBVIOUS
<1>8. CASE ds # "Zero" /\ cs # "I"
  <2>1. a = Invalidating(ds, rp, r2, "M")
    BY <1>8 DEF NonAllocatingStoreAction, ds
  <2> HIDE DEF r2
  <2>2. /\ Is(a, "Invalidate", "InvalidateAck", "InvUpdateAck", rp, r2, "M", "M")
        /\ (a.multi <=> ds = "Many") /\ ~a.fwd /\ ~a.alloc
        /\ a.fwd \in BOOLEAN /\ a.alloc \in BOOLEAN
    BY <2>1, InvalidatingIs
  <2>3. ActionOK(a) /\ a.snoop = "Invalidate"
    BY <1>5, <2>2, IsOK
  <2>4. a.multi \/ Sharing(D) = "One"
    BY <1>2, <1>8, <2>2 DEF ds
  <2>5. asked = D \ {c} /\ InvalidatingOutcome(a, f, asked, D, c, "M", "M", rp, r2, left)
    BY <1>7, <2>2, <2>4, InvalidatingYields
  <2>6. Yields(a, f, asked, D, "M", rp, left)
    <3>1. (\E d \in D \ {c} : f[d] = "M") => r2 = rp
      BY <1>1, <1>2, <1>5
    <3> QED BY <2>5, <3>1 DEF InvalidatingOutcome
  <2>7. asked = {} \/ a.snoop = "Invalidate"
    BY <2>3
  <2> HIDE DEF rp
  <2> QED BY <1>4, <1>7, <1>8, <2>3, <2>5, <2>6, <2>7
<1>9. CASE ds # "Zero" /\ cs = "I"
  <2>1. a = Forwarded(ds, rp, r2, "I")
    BY <1>9 DEF NonAllocatingStoreAction, Forwarded, ds
  <2> HIDE DEF r2
  <2>2. /\ Is(a, "Invalidate", "NoRequest", "NoRequest", rp, r2, "I", "I")
        /\ (a.multi <=> ds = "Many") /\ a.fwd = TRUE /\ ~a.alloc
        /\ a.fwd \in BOOLEAN /\ a.alloc \in BOOLEAN
    BY <2>1, ForwardedIs
  <2>3. ActionOK(a) /\ a.snoop = "Invalidate"
    BY <1>5, <2>2, IsOK
  <2>4. a.multi \/ Sharing(D) = "One"
    BY <1>2, <1>9, <2>2 DEF ds
  <2>5. /\ asked = D \ {c} /\ Yields(a, f, asked, D, "I", rp, left)
        /\ OffChip(a, f, asked) <=> asked # {}
    <3> HIDE DEF rp
    <3>1. ForwardedOutcome(a, f, asked, D, c, "I", rp, left)
      BY <1>7, <2>2, <2>4, ForwardedYields
    <3> QED BY <3>1 DEF ForwardedOutcome
  <2>6. clean => asked # {}
    BY <1>1, <1>2, <1>9, <2>5
  <2> QED BY <1>4, <1>7, <1>9, <2>3, <2>5, <2>6
<1> QED BY <1>6, <1>8, <1>9

(* The eviction of an L1: the L2 takes over what the L1 had. *)
LEMMA EvictWorks ==
  ASSUME NEW clean \in BOOLEAN, NEW f \in [Caches -> States], NEW cs \in States,
         NEW D, D \subseteq Caches, NEW c \in Caches, NEW own \in BOOLEAN,
         GoodBlock(clean, f, cs, D, own), f[c] # "I", NEW req, req = EvictType(f[c]),
         NEW a, a = EvictAction(req, cs, Sharing(D)), NEW asked, AskedOK(asked, f, D, c, a)
  PROVE  Works(req, a, clean, f, cs, D, c, asked, "I", own)
<1> DEFINE ds == Sharing(D)
           h == Filled(a, f, asked, c, "I")
           keep(next, alloc) == [Plain("NO_RESP", next, FALSE, alloc) EXCEPT !.update = FALSE]
<1>1. /\ \A d \in Caches : f[d] # "I" => d \in D
      /\ clean => \A d \in D : f[d] # "I"
      /\ \A d \in Caches : f[d] \in {"M", "E"} => D = {d} /\ cs \in {"E", "I"}
      /\ clean /\ own => cs = "M" \/ \E d \in Caches : f[d] = "M"
      /\ f[c] \in {"M", "E", "S"}
  BY DEF GoodBlock, States
<1>2. /\ D = {} <=> ds = "Zero"
      /\ (\E x : D = {x}) <=> ds = "One"
      /\ ds \in {"Zero", "One", "Many"}
  BY SharingFacts
<1> HIDE DEF ds
<1>3. \A d \in Caches : h[d] = IF d = c THEN "I"
                               ELSE IF d \in asked THEN SnoopedState(f[d], a.snoop) ELSE f[d]
  BY ViewAfter
<1> HIDE DEF h
<1>4. /\ IsEvict(req)
      /\ f[c] = "M" => req = "EvictDirty"
      /\ f[c] = "E" => req = "EvictWritable"
      /\ f[c] = "S" => req = "EvictClean"
  BY <1>1 DEF EvictType, IsEvict
<1>5. ASSUME NEW next \in States,
             Is(a, "NoRequest", "NoRequest", "NoRequest", "NO_RESP", "NO_RESP", next, next),
             a.fwd \in BOOLEAN, a.alloc \in BOOLEAN, a.alloc \/ next = cs \/ cs # "I",
             \/ next = cs /\ f[c] # "M"
             \/ next = "M" /\ f[c] = "M"
             \/ next = "E" /\ f[c] = "E"
      PROVE  Works(req, a, clean, f, cs, D, c, asked, "I", own)
  <2>1. ActionOK(a)
    BY <1>5, IsOK DEF Replies
  <2>2. Yields(a, f, asked, D, next, "NO_RESP", D)
    BY <1>5, PlainYields
  <2>3. asked = {}
    BY <1>5 DEF Is, AskedOK
  <2>4. processRequestResponse(D, c, req, "NO_RESP") = [sharers |-> D \ {c}, ok |-> TRUE]
    BY <1>4 DEF processRequestResponse, IsEvict
  <2>5. \A d \in Caches : h[d] = IF d = c THEN "I" ELSE f[d]
    BY <1>3, <2>3
  <2>6. GoodBlock(clean, h, next, D \ {c}, own)
    <3>1. \A d \in Caches : h[d] # "I" => d \in D \ {c}
      BY <1>1, <2>5
    <3>2. clean => \A d \in D \ {c} : h[d] # "I"
      BY <1>1, <2>5
    <3>3. ASSUME NEW d \in Caches, h[d] \in {"M", "E"} PROVE D \ {c} = {d} /\ next \in {"E", "I"}
      <4>1. d # c /\ f[d] \in {"M", "E"} /\ D = {d} /\ cs \in {"E", "I"}
        BY <1>1, <2>5, <3>3
      <4>2. c \in D
        BY <1>1
      <4> QED BY <4>1, <4>2
    <3>4. clean /\ own => next = "M" \/ \E d \in Caches : h[d] = "M"
      BY <1>1, <1>5, <2>5
    <3> QED BY <3>1, <3>2, <3>3, <3>4 DEF GoodBlock
  <2>7. D \ {c} \subseteq Caches
    OBVIOUS
  <2> DEFINE sharers == D \ {c}
  <2> HIDE DEF sharers
  <2>8. /\ processRequestResponse(D, c, req, "NO_RESP") = [sharers |-> sharers, ok |-> TRUE]
        /\ GoodBlock(clean, h, next, sharers, own) /\ sharers \subseteq Caches
    BY <2>4, <2>6, <2>7 DEF sharers
  <2> QED BY <1>4, <1>5, <2>1, <2>2, <2>8, WorksFrom DEF h
<1>6. CASE f[c] = "S"
  <2>1. c \in D
    BY <1>1
  <2>2. ds # "Zero"
    BY <1>2, <2>1
  <2>3. a = keep(cs, FALSE)
    BY <1>4, <1>6, <2>2 DEF EvictAction, ds
  <2>4. /\ Is(a, "NoRequest", "NoRequest", "NoRequest", "NO_RESP", "NO_RESP", cs, cs)
        /\ a.fwd \in BOOLEAN /\ a.alloc \in BOOLEAN
    BY <2>3 DEF Plain, Is
  <2> QED BY <1>5, <1>6, <2>4
<1>7. CASE f[c] = "E"
  <2>1. ds = "One" /\ cs \in {"E", "I"}
    BY <1>1, <1>2, <1>7
  <2>2. /\ cs = "E" => a = keep("E", FALSE)
        /\ cs = "I" => a = keep("E", TRUE)
    BY <1>4, <1>7, <2>1 DEF EvictAction, ds
  <2>3. /\ Is(a, "NoRequest", "NoRequest", "NoRequest", "NO_RESP", "NO_RESP", "E", "E")
        /\ a.fwd \in BOOLEAN /\ a.alloc \in BOOLEAN /\ (cs = "I" => a.alloc)
    <3>1. CASE cs = "E"
      <4>1. a = keep("E", FALSE)
        BY <2>2, <3>1
      <4>2. /\ Is(a, "NoRequest", "NoRequest", "NoRequest", "NO_RESP", "NO_RESP", "E", "E")
            /\ a.fwd = FALSE /\ a.alloc = FALSE
        BY <4>1 DEF Plain, Is
      <4> QED BY <3>1, <4>2
    <3>2. CASE cs = "I"
      <4>1. a = keep("E", TRUE)
        BY <2>2, <3>2
      <4> QED BY <4>1 DEF Plain, Is
    <3> QED BY <2>1, <3>1, <3>2
  <2> QED BY <1>5, <1>7, <2>3 DEF States
<1>8. CASE f[c] = "M"
  <2>1. ds = "One" /\ cs \in {"E", "I"}
    BY <1>1, <1>2, <1>8
  <2>2. a = keep("M", TRUE)
    BY <1>4, <1>8, <2>1 DEF EvictAction, ds
  <2>3. /\ Is(a, "NoRequest", "NoRequest", "NoRequest", "NO_RESP", "NO_RESP", "M", "M")
        /\ a.fwd \in BOOLEAN /\ a.alloc = TRUE
    BY <2>2 DEF Plain, Is
  <2> QED BY <1>5, <1>8, <2>3 DEF States
<1> QED BY <1>1, <1>6, <1>7, <1>8

-----------------------------------------------------------------------------
(* The requests on the chip.                                               *)

Good(s, clean, x) == GoodBlock(clean, View(s.l1, x), StateOf(s.l2, x), s.dir[x], x \in s.owed)

(* The block is good once cache c has taken state new. *)
GoodWith(s, clean, b, c, new, own) ==
  GoodBlock(clean, [View(s.l1, b) EXCEPT ![c] = new], StateOf(s.l2, b), s.dir[b], own)

(* A request counted as a hit found its block in the set of the L2. *)
HitOK(clean, set, n) == clean /\ n.class = "Hit" => StateOf(set, n.block) # "I"

(* The result of a request that works. *)
Asks(s, t, c, b, req, clean, new, own) ==
  /\ t \in ChipType /\ t.failed = FALSE /\ Elsewhere(s, t, c, b)
  /\ GoodWith(t, clean, b, c, new, own)
  /\ t.counted = s.counted \/ HitOK(clean, s.l2, t.counted)
  /\ IsEvict(req) \/ req = "UpgradeReq" => t.counted = s.counted
  /\ req # "NonAllocatingStoreReq" => (b \in t.owed <=> b \in s.owed)

Answered(s, t, c, b, req, a, f, asked, clean, new, own) ==
  /\ Asks(s, t, c, b, req, clean, new, own)
  /\ t.reply = Reply(a, f, asked)
  /\ req = "NonAllocatingStoreReq" => (b \in t.owed <=> ~OffChip(a, f, asked))

(* The action of a request, the caches it asks and the view they have. *)
Working(s, c, b, req, a, f, asked, clean, new, own) ==
  /\ a = getAction(req, StateOf(s.l2, b), Sharing(s.dir[b]))
  /\ asked = Asked(s, c, b, a) /\ f = View(s.l1, b)
  /\ Works(req, a, clean, f, StateOf(s.l2, b), s.dir[b], c, asked, new, own)

(* A request, from what the protocol does with the block. *)
LEMMA Requested ==
  ASSUME NEW s \in ChipType, s.failed = FALSE, NEW c \in Caches, NEW b \in Blocks, NEW req,
         NEW a, NEW f, NEW asked, NEW clean, NEW new, NEW own,
         Working(s, c, b, req, a, f, asked, clean, new, own),
         NEW t, t = processRequest(s, c, req, b)
  PROVE  Answered(s, t, c, b, req, a, f, asked, clean, new, own)
<1>0. /\ a = getAction(req, StateOf(s.l2, b), Sharing(s.dir[b]))
      /\ asked = Asked(s, c, b, a) /\ f = View(s.l1, b)
  BY DEF Working
<1>1. /\ Fits(req, a, f, StateOf(s.l2, b), asked, s.dir[b], c)
      /\ GoodBlock(clean, Filled(a, f, asked, c, new), NextState(a, f, asked),
                   Answer(req, a, f, asked, s.dir[b], c).sharers, own)
      /\ clean /\ ~OffChip(a, f, asked) /\ ~Success(a, f, asked)
           => StateOf(s.l2, b) # "I" \/ IsEvict(req) \/ req = "UpgradeReq"
  BY DEF Works, Working
<1>2. /\ t \in ChipType /\ t.failed = FALSE
      /\ Elsewhere(s, t, c, b)
      /\ Served(s, t, c, b, req, a, asked)
  BY <1>0, <1>1, RequestFacts
<1>3. /\ View(t.l1, b) = AfterSnoops(a, f, asked)
      /\ StateOf(t.l2, b) = NextState(a, f, asked)
      /\ t.dir[b] = Answer(req, a, f, asked, s.dir[b], c).sharers
      /\ t.reply = Reply(a, f, asked)
      /\ t.counted = Classify(s.counted, req, b, OffChip(a, f, asked), Success(a, f, asked))
      /\ b \in t.owed <=> IF req = "NonAllocatingStoreReq" THEN ~OffChip(a, f, asked)
                          ELSE b \in s.owed
  BY <1>0, <1>2 DEF Served
<1>4. GoodWith(t, clean, b, c, new, own)
  BY <1>1, <1>3 DEF GoodWith, Filled
<1>5. IsEvict(req) \/ req = "UpgradeReq" => t.counted = s.counted
  BY <1>3 DEF Classify
<1>6. ASSUME ~(IsEvict(req) \/ req = "UpgradeReq") PROVE HitOK(clean, s.l2, t.counted)
  <2> DEFINE off == OffChip(a, f, asked)
             ok == Success(a, f, asked)
             class == CASE off -> "OffChip" [] ok -> "OnChip" [] OTHER -> "Hit"
  <2>1. off => ~ok
    BY DEF OffChip
  <2> HIDE DEF off, ok
  <2>2. class = "Hit" => ~off /\ ~ok
    BY <2>1
  <2>3. t.counted = [block |-> b, class |-> class]
    BY <1>3, <1>6 DEF Classify, off, ok
  <2> HIDE DEF class
  <2>4. t.counted.block = b /\ t.counted.class = class
    BY <2>3
  <2> QED BY <1>1, <1>6, <2>2, <2>4 DEF HitOK, off, ok
<1> QED BY <1>2, <1>3, <1>4, <1>5, <1>6 DEF Asks, Answered

(* The other blocks stay good. *)
LEMMA OtherGood ==
  ASSUME NEW s, NEW t, NEW c, NEW b, Elsewhere(s, t, c, b), NEW clean \in BOOLEAN,
         NEW x \in Blocks, x # b, Good(s, clean, x)
  PROVE  Good(t, clean, x)
BY DEF Elsewhere, L2Kept, Good, GoodBlock

(* What a chip in a good state is. *)
GoodChip(s, clean) ==
  s \in ChipType /\ s.failed = FALSE /\ \A x \in Blocks : Good(s, clean, x)

(* Types of the view of a block. *)
LEMMA ViewTyped ==
  ASSUME NEW s \in ChipType, NEW b \in Blocks
  PROVE  /\ View(s.l1, b) \in [Caches -> States]
         /\ StateOf(s.l2, b) \in States
         /\ s.dir[b] \subseteq Caches
         /\ \A d \in Caches : View(s.l1, b)[d] = StateOf(s.l1[d], b)
<1>1. /\ s.l1 \in [Caches -> L1Sets] /\ s.l2 \in L2Sets /\ s.dir \in [Blocks -> SUBSET Caches]
  BY DEF ChipType
<1>2. \A d \in Caches : StateOf(s.l1[d], b) \in States
  BY <1>1, Ways, EntryFacts
<1>3. StateOf(s.l2, b) \in States
  BY <1>1, Ways, EntryFacts
<1> QED BY <1>1, <1>2, <1>3 DEF View

(* The requests of a cache for a good block. *)
LEMMA ReadAsks ==
  ASSUME NEW s \in ChipType, s.failed = FALSE, NEW c \in Caches, NEW b \in Blocks,
         NEW clean \in BOOLEAN, Good(s, clean, b), StateOf(s.l1[c], b) = "I",
         NEW t, t = processRequest(s, c, "ReadReq", b)
  PROVE  Asks(s, t, c, b, "ReadReq", clean, FillState(t.reply), b \in s.owed)
<1> DEFINE f == View(s.l1, b)
           a == getAction("ReadReq", StateOf(s.l2, b), Sharing(s.dir[b]))
           asked == Asked(s, c, b, a)
           own == b \in s.owed
<1>1. a = ReadAction(StateOf(s.l2, b), Sharing(s.dir[b]))
  BY DEF getAction
<1>2. f \in [Caches -> States] /\ StateOf(s.l2, b) \in States /\ s.dir[b] \subseteq Caches
      /\ f[c] = "I" /\ own \in BOOLEAN
  BY ViewTyped
<1>3. GoodBlock(clean, f, StateOf(s.l2, b), s.dir[b], own)
  BY DEF Good
<1>4. AskedOK(asked, f, s.dir[b], c, a)
  BY AskedFacts
<1> HIDE DEF f, a, asked, own
<1>5. Works("ReadReq", a, clean, f, StateOf(s.l2, b), s.dir[b], c, asked, FillState(Reply(a, f, asked)), own)
  BY <1>1, <1>2, <1>3, <1>4, ReadWorks
<1> DEFINE new == FillState(Reply(a, f, asked))
<1>6. Working(s, c, b, "ReadReq", a, f, asked, clean, new, own)
  BY <1>5 DEF Working, a, asked, f
<1> HIDE DEF new
<1>7. Answered(s, t, c, b, "ReadReq", a, f, asked, clean, new, own)
  BY <1>6, Requested
<1> QED BY <1>7 DEF Answered, new, own

(* The state a cache has and takes, and whether memory is then behind, for *)
(* the requests whose reply does not decide it.                            *)
Turns(req, st, new, own, behind) ==
  \/ req = "FetchReq" /\ st = "I" /\ new = "S" /\ own = behind
  \/ req = "WriteReq" /\ st = "I" /\ new = "M" /\ own = TRUE
  \/ req = "UpgradeReq" /\ st = "S" /\ new = "M" /\ own = TRUE
  \/ st # "I" /\ req = EvictType(st) /\ new = "I" /\ own = behind

(* Those requests. *)
LEMMA TurnAsks ==
  ASSUME NEW s \in ChipType, s.failed = FALSE, NEW c \in Caches, NEW b \in Blocks, NEW req,
         NEW clean \in BOOLEAN, Good(s, clean, b), NEW new, NEW own \in BOOLEAN,
         NEW behind \in BOOLEAN, behind <=> b \in s.owed,
         Turns(req, StateOf(s.l1[c], b), new, own, behind),
         NEW t, t = processRequest(s, c, req, b)
  PROVE  Asks(s, t, c, b, req, clean, new, own)
<1> DEFINE f == View(s.l1, b)
           cs == StateOf(s.l2, b)
           D == s.dir[b]
           a == getAction(req, cs, Sharing(D))
           asked == Asked(s, c, b, a)
           st == StateOf(s.l1[c], b)
<1>2. f \in [Caches -> States] /\ cs \in States /\ D \subseteq Caches /\ f[c] = st
  BY ViewTyped
<1>3. GoodBlock(clean, f, cs, D, behind)
  BY DEF Good
<1>4. AskedOK(asked, f, D, c, a)
  BY AskedFacts
<1>5. a = getAction(req, cs, Sharing(D)) /\ asked = Asked(s, c, b, a) /\ f = View(s.l1, b)
      /\ cs = StateOf(s.l2, b) /\ D = s.dir[b] /\ Turns(req, st, new, own, behind)
  OBVIOUS
<1> HIDE DEF f, a, asked, cs, D, st
<1>6. Works(req, a, clean, f, cs, D, c, asked, new, own)
  <2>1. CASE req = "FetchReq" /\ st = "I" /\ new = "S" /\ own = behind
    <3>1. a = FetchAction(cs, Sharing(D)) /\ f[c] = "I"
      BY <1>2, <1>5, <2>1 DEF getAction
    <3>2. Works("FetchReq", a, clean, f, cs, D, c, asked, "S", behind)
      BY <1>2, <1>3, <1>4, <3>1, FetchWorks
    <3> QED BY <2>1, <3>2
  <2>2. CASE req = "WriteReq" /\ st = "I" /\ new = "M" /\ own = TRUE
    <3>1. a = WriteAction(cs, Sharing(D)) /\ f[c] = "I"
      BY <1>2, <1>5, <2>2 DEF getAction
    <3>2. Works("WriteReq", a, clean, f, cs, D, c, asked, "M", TRUE)
      BY <1>2, <1>3, <1>4, <3>1, WriteWorks
    <3> QED BY <2>2, <3>2
  <2>3. CASE req = "UpgradeReq" /\ st = "S" /\ new = "M" /\ own = TRUE
    <3>1. a = UpgradeAction(cs, Sharing(D)) /\ f[c] = "S"
      BY <1>2, <1>5, <2>3 DEF getAction
    <3>2. Works("UpgradeReq", a, clean, f, cs, D, c, asked, "M", TRUE)
      BY <1>2, <1>3, <1>4, <3>1, UpgradeWorks
    <3> QED BY <2>3, <3>2
  <2>4. CASE st # "I" /\ req = EvictType(st) /\ new = "I" /\ own = behind
    <3>1. req \in {"EvictDirty", "EvictWritable", "EvictClean"}
      BY <2>4 DEF EvictType
    <3>2. a = EvictAction(req, cs, Sharing(D)) /\ f[c] # "I" /\ req = EvictType(f[c])
      BY <1>2, <1>5, <2>4, <3>1 DEF getAction
    <3>3. Works(req, a, clean, f, cs, D, c, asked, "I", behind)
      BY <1>2, <1>3, <1>4, <3>2, EvictWorks
    <3> QED BY <2>4, <3>3
  <2> QED BY <1>5, <2>1, <2>2, <2>3, <2>4 DEF Turns
<1>7. Working(s, c, b, req, a, f, asked, clean, new, own)
  BY <1>5, <1>6 DEF Working
<1>8. Answered(s, t, c, b, req, a, f, asked, clean, new, own)
  BY <1>7, Requested
<1> QED BY <1>8 DEF Answered

(* A non-allocating store that misses in the L1. *)
LEMMA StoreAroundAsks ==
  ASSUME NEW s \in ChipType, s.failed = FALSE, NEW c \in Caches, NEW b \in Blocks,
         NEW clean \in BOOLEAN, Good(s, clean, b), StateOf(s.l1[c], b) = "I",
         NEW t, t = processRequest(s, c, "NonAllocatingStoreReq", b)
  PROVE  Asks(s, t, c, b, "NonAllocatingStoreReq", clean, "I", b \in t.owed)
<1> DEFINE f == View(s.l1, b)
           cs == StateOf(s.l2, b)
           D == s.dir[b]
           a == getAction("NonAllocatingStoreReq", cs, Sharing(D))
           asked == Asked(s, c, b, a)
           behind == ~OffChip(a, f, asked)
           own == b \in s.owed
<1>1. a = NonAllocatingStoreAction(cs, Sharing(D))
  BY DEF getAction
<1>2. f \in [Caches -> States] /\ cs \in States /\ D \subseteq Caches /\ f[c] = "I" /\ own \in BOOLEAN
  BY ViewTyped
<1>3. GoodBlock(clean, f, cs, D, own)
  BY DEF Good
<1>4. AskedOK(asked, f, D, c, a)
  BY AskedFacts
<1>5. /\ a = getAction("NonAllocatingStoreReq", StateOf(s.l2, b), Sharing(s.dir[b]))
      /\ asked = Asked(s, c, b, a) /\ f = View(s.l1, b)
      /\ cs = StateOf(s.l2, b) /\ D = s.dir[b]
      /\ behind \in BOOLEAN /\ (behind <=> ~OffChip(a, f, asked))
  OBVIOUS
<1> HIDE DEF f, a, asked, cs, D, own, behind
<1>6. Works("NonAllocatingStoreReq", a, clean, f, cs, D, c, asked, "I", behind)
  <2>1. behind \in BOOLEAN /\ (behind <=> ~OffChip(a, f, asked))
    BY <1>5
  <2> QED BY <1>1, <1>2, <1>3, <1>4, <2>1, StoreAroundWorks
<1>7. Working(s, c, b, "NonAllocatingStoreReq", a, f, asked, clean, "I", behind)
  BY <1>5, <1>6 DEF Working
<1>8. Answered(s, t, c, b, "NonAllocatingStoreReq", a, f, asked, clean, "I", behind)
  BY <1>7, Requested
<1>9. behind = (b \in t.owed)
  BY <1>5, <1>8 DEF Answered
<1>10. Asks(s, t, c, b, "NonAllocatingStoreReq", clean, "I", behind)
  BY <1>8 DEF Answered
<1> QED BY <1>9, <1>10

-----------------------------------------------------------------------------
(* The sets of the L1s.                                                    *)

Put(s, c, r) == [s EXCEPT !.l1[c] = r]

PutIn(s, u, c, r) ==
  /\ u \in ChipType /\ u.l2 = s.l2 /\ u.dir = s.dir /\ u.owed = s.owed
  /\ u.failed = s.failed /\ u.counted = s.counted /\ u.reply = s.reply
  /\ u.l1[c] = r
  /\ \A x : View(u.l1, x) = [View(s.l1, x) EXCEPT ![c] = StateOf(r, x)]

(* The set of one L1 is replaced. *)
LEMMA PutFacts ==
  ASSUME NEW s \in ChipType, NEW c \in Caches, NEW r \in L1Sets, NEW u, u = Put(s, c, r)
  PROVE  PutIn(s, u, c, r)
<1>1. s.l1 \in [Caches -> L1Sets]
  BY DEF ChipType
<1> DEFINE n == [s.l1 EXCEPT ![c] = r]
<1>2. n \in [Caches -> L1Sets] /\ n[c] = r /\ \A d \in Caches : d # c => n[d] = s.l1[d]
  BY <1>1
<1>3. u = [s EXCEPT !.l1 = n]
  BY DEF Put
<1> HIDE DEF n
<1>4. /\ u \in ChipType /\ u.l1 = n /\ u.l2 = s.l2 /\ u.dir = s.dir /\ u.owed = s.owed
      /\ u.failed = s.failed /\ u.counted = s.counted /\ u.reply = s.reply
  BY <1>2, <1>3 DEF ChipType
<1>5. ASSUME NEW x PROVE View(u.l1, x) = [View(s.l1, x) EXCEPT ![c] = StateOf(r, x)]
  BY <1>2, <1>4 DEF View
<1> QED BY <1>2, <1>4, <1>5 DEF PutIn

(* The view of a block does not change with a state it had. *)
LEMMA ViewSame ==
  ASSUME NEW s, NEW c \in Caches, NEW x
  PROVE  [View(s.l1, x) EXCEPT ![c] = StateOf(s.l1[c], x)] = View(s.l1, x)
BY DEF View

(* What an allocation leaves of the block that is allocated. *)
Placed(t, u, c, b, st, clean) ==
  /\ u \in ChipType /\ u.failed = FALSE /\ u.counted = t.counted
  /\ View(u.l1, b) = [View(t.l1, b) EXCEPT ![c] = st]
  /\ u.dir[b] = t.dir[b] /\ L2Kept(t, u, b)
  /\ \A x \in Blocks : x # b => Good(u, clean, x)

(* A block that is clean or Invalid may leave an L1 that does not tell. *)
LEMMA SilentDrop ==
  ASSUME NEW s, NEW c \in Caches, NEW x, Good(s, FALSE, x)
  PROVE  GoodBlock(FALSE, [View(s.l1, x) EXCEPT ![c] = "I"], StateOf(s.l2, x), s.dir[x], x \in s.owed)
<1> DEFINE f == View(s.l1, x)
           h == [f EXCEPT ![c] = "I"]
<1>1. \A d \in Caches : h[d] = IF d = c THEN "I" ELSE f[d]
  BY DEF View
<1>2. GoodBlock(FALSE, f, StateOf(s.l2, x), s.dir[x], x \in s.owed)
  BY DEF Good
<1> HIDE DEF f, h
<1>3. GoodBlock(FALSE, h, StateOf(s.l2, x), s.dir[x], x \in s.owed)
  BY <1>1, <1>2 DEF GoodBlock
<1> QED BY <1>3 DEF h, f

(* AllocateL1: the other blocks stay good, the victim among them. *)
LEMMA AllocateGood ==
  ASSUME NEW t \in ChipType, t.failed = FALSE, NEW c \in Caches, NEW b \in Blocks, NEW st \in States,
         Len(t.l1[c]) > 0, NEW clean \in BOOLEAN, clean = cfg.clean,
         \A x \in Blocks : x # b => Good(t, clean, x),
         NEW u, u = AllocateL1(t, c, b, st)
  PROVE  Placed(t, u, c, b, st, clean)
<1> DEFINE set == t.l1[c]
           r == Allocate(set, b, st)
           gone == Replaced(set, b)
           victim == {e \in gone : e.state = "M" \/ cfg.clean}
<1>1. WF(set, L1Assoc) /\ L1Assoc \in Nat
  BY Ways DEF ChipType
<1>2. WF(r, L1Assoc) /\ StateOf(r, b) = st /\ Exchanged(set, r, gone, b)
  BY <1>1, AllocateFacts
<1>3. r \in L1Sets
  BY <1>2, Ways
<1>4. PICK v \in Entry :
        /\ StateOf(set, v.tag) = v.state
        /\ gone = IF v.tag # b /\ v.state # "I" THEN {v} ELSE {}
        /\ \A x : x # b => StateOf(r, x) = IF x = v.tag THEN "I" ELSE StateOf(set, x)
  BY <1>2 DEF Exchanged
<1>5. v.tag \in Blocks /\ v.state \in States
  BY DEF Entry
<1>6. u = IF victim = {} THEN Put(t, c, r)
          ELSE Put(processRequest(t, c, EvictType((CHOOSE e \in victim : TRUE).state),
                                  (CHOOSE e \in victim : TRUE).tag), c, r)
  BY DEF AllocateL1, Put
<1>7. set = t.l1[c] /\ (\A x : x # b /\ x # v.tag => StateOf(r, x) = StateOf(set, x))
      /\ (v.tag # b => StateOf(r, v.tag) = "I")
  BY <1>4
<1> HIDE DEF set, r, gone
<1>8. CASE victim = {}
  <2>1. u = Put(t, c, r)
    BY <1>6, <1>8
  <2>2. /\ u \in ChipType /\ u.l2 = t.l2 /\ u.dir = t.dir /\ u.owed = t.owed
        /\ u.failed = t.failed /\ u.counted = t.counted
        /\ \A x : View(u.l1, x) = [View(t.l1, x) EXCEPT ![c] = StateOf(r, x)]
    <3>1. PutIn(t, u, c, r)
      BY <1>3, <2>1, PutFacts
    <3> QED BY <3>1 DEF PutIn
  <2>3. View(u.l1, b) = [View(t.l1, b) EXCEPT ![c] = st] /\ L2Kept(t, u, b)
    BY <1>2, <2>2 DEF L2Kept
  <2>4. ASSUME NEW x \in Blocks, x # b PROVE Good(u, clean, x)
    <3>0. Good(t, clean, x)
      BY <2>4
    <3>1. CASE StateOf(r, x) = StateOf(set, x)
      <4>1. View(u.l1, x) = View(t.l1, x)
        <5>1. [View(t.l1, x) EXCEPT ![c] = StateOf(t.l1[c], x)] = View(t.l1, x)
          BY ViewSame
        <5> QED BY <1>7, <2>2, <3>1, <5>1
      <4> QED BY <2>2, <3>0, <4>1 DEF Good
    <3>2. CASE StateOf(r, x) # StateOf(set, x)
      <4>1. x = v.tag /\ v.state # "I"
        BY <1>4, <1>7, <2>4, <3>2
      <4>2. gone = {v}
        BY <1>4, <2>4, <4>1
      <4>3. ~cfg.clean
        BY <1>8, <4>2
      <4>4. clean = FALSE
        BY <4>3
      <4>5. StateOf(r, x) = "I"
        BY <1>7, <2>4, <4>1
      <4>6. Good(t, FALSE, x)
        BY <3>0, <4>4
      <4>7. GoodBlock(FALSE, [View(t.l1, x) EXCEPT ![c] = "I"], StateOf(t.l2, x), t.dir[x], x \in t.owed)
        BY <4>6, SilentDrop
      <4>8. Good(u, FALSE, x)
        BY <2>2, <4>5, <4>7 DEF Good
      <4> QED BY <4>4, <4>8
    <3> QED BY <3>1, <3>2
  <2> QED BY <2>2, <2>3, <2>4 DEF Placed
<1>9. CASE victim # {}
  <2>1. gone = {v} /\ victim = {v} /\ v.tag # b /\ v.state # "I"
    BY <1>4, <1>9
  <2>2. (CHOOSE e \in victim : TRUE) = v
    BY <2>1
  <2> DEFINE q == v.tag
             req == EvictType(v.state)
             p == processRequest(t, c, req, q)
             own == q \in t.owed
  <2>3. u = Put(p, c, r)
    BY <1>6, <1>9, <2>2
  <2>4. q \in Blocks /\ q # b /\ Good(t, clean, q) /\ StateOf(t.l1[c], q) = v.state
    BY <1>4, <1>5, <1>7, <2>1
  <2>5. Turns(req, StateOf(t.l1[c], q), "I", own, own) /\ IsEvict(req) /\ req # "NonAllocatingStoreReq"
    BY <2>1, <2>4 DEF Turns, IsEvict, EvictType
  <2>6. own \in BOOLEAN /\ (own <=> q \in t.owed) /\ p = processRequest(t, c, req, q)
    OBVIOUS
  <2> HIDE DEF q, req, p, own
  <2>7. Asks(t, p, c, q, req, clean, "I", own)
    BY <2>4, <2>5, <2>6, TurnAsks
  <2>8. /\ p \in ChipType /\ p.failed = FALSE /\ Elsewhere(t, p, c, q)
        /\ GoodWith(p, clean, q, c, "I", own) /\ p.counted = t.counted
        /\ q \in p.owed <=> q \in t.owed
    BY <2>5, <2>7 DEF Asks
  <2>9. /\ p.l1[c] = set
        /\ \A x \in Blocks : x # q =>
             /\ L2Kept(t, p, x) /\ p.dir[x] = t.dir[x]
             /\ View(p.l1, x) = View(t.l1, x)
    BY <1>7, <2>8 DEF Elsewhere
  <2>10. /\ u \in ChipType /\ u.l2 = p.l2 /\ u.dir = p.dir /\ u.owed = p.owed
         /\ u.failed = p.failed /\ u.counted = p.counted
         /\ \A x : View(u.l1, x) = [View(p.l1, x) EXCEPT ![c] = StateOf(r, x)]
    <3>1. PutIn(p, u, c, r)
      BY <1>3, <2>3, <2>8, PutFacts
    <3> QED BY <3>1 DEF PutIn
  <2>11. View(u.l1, b) = [View(t.l1, b) EXCEPT ![c] = st]
    BY <1>2, <2>4, <2>9, <2>10
  <2>12. L2Kept(t, u, b) /\ u.dir[b] = t.dir[b]
    BY <2>4, <2>9, <2>10 DEF L2Kept
  <2>13. ASSUME NEW x \in Blocks, x # b PROVE Good(u, clean, x)
    <3>1. CASE x = q
      <4>1. StateOf(r, x) = "I"
        BY <1>7, <2>4, <3>1 DEF q
      <4>2. GoodBlock(clean, [View(p.l1, x) EXCEPT ![c] = "I"], StateOf(p.l2, x), p.dir[x], own)
        BY <2>8, <3>1 DEF GoodWith
      <4>3. own = (x \in p.owed)
        BY <2>6, <2>8, <3>1
      <4> QED BY <2>10, <4>1, <4>2, <4>3 DEF Good
    <3>2. CASE x # q
      <4>1. Good(p, clean, x)
        BY <2>8, <2>13, <3>2, OtherGood
      <4>2. StateOf(r, x) = StateOf(p.l1[c], x)
        BY <1>7, <2>9, <2>13, <3>2 DEF q
      <4>3. View(u.l1, x) = View(p.l1, x)
        <5>1. [View(p.l1, x) EXCEPT ![c] = StateOf(p.l1[c], x)] = View(p.l1, x)
          BY ViewSame
        <5> QED BY <2>10, <4>2, <5>1
      <4> QED BY <2>10, <4>1, <4>3 DEF Good
    <3> QED BY <3>1, <3>2
  <2> QED BY <2>8, <2>10, <2>11, <2>12, <2>13 DEF Placed
<1> QED BY <1>8, <1>9

-----------------------------------------------------------------------------
(* The references.                                                         *)

(* The block, once it is placed, is good if it was to be. *)
LEMMA PlacedGood ==
  ASSUME NEW t, NEW u, NEW c \in Caches, NEW b \in Blocks, NEW st, NEW clean \in BOOLEAN,
         Placed(t, u, c, b, st, clean), NEW own \in BOOLEAN, GoodWith(t, clean, b, c, st, own),
         b \in t.owed => own
  PROVE  GoodChip(u, clean)
<1> DEFINE f == [View(t.l1, b) EXCEPT ![c] = st]
           cs == StateOf(t.l2, b)
           next == StateOf(u.l2, b)
           D == t.dir[b]
<1>1. GoodBlock(clean, f, cs, D, own)
  BY DEF GoodWith
<1>2. /\ next = cs \/ next = "I"
      /\ b \in u.owed => own
      /\ b \in u.owed /\ cs = "M" => next = "M"
      /\ View(u.l1, b) = f /\ u.dir[b] = D
  BY DEF Placed, L2Kept
<1> HIDE DEF f, cs, D
<1>3. GoodBlock(clean, f, next, D, b \in u.owed)
  <2> HIDE DEF next
  <2> QED BY <1>1, <1>2 DEF GoodBlock
<1>4. Good(u, clean, b)
  BY <1>2, <1>3 DEF Good
<1> QED BY <1>4 DEF GoodChip, Placed

(* A block that an L1 has changes its state there. *)
LEMMA TouchGood ==
  ASSUME NEW t \in ChipType, t.failed = FALSE, NEW c \in Caches, NEW b \in Blocks, NEW st \in States,
         StateOf(t.l1[c], b) # "I", NEW clean \in BOOLEAN,
         \A x \in Blocks : x # b => Good(t, clean, x),
         NEW u, u = Touch(t, c, b, st)
  PROVE  Placed(t, u, c, b, st, clean)
<1> DEFINE set == t.l1[c]
           r == ChangeState(set, b, st, "MRU")
<1>1. WF(set, L1Assoc) /\ L1Assoc \in Nat /\ Present(set, b)
  BY Ways, ValidPresent DEF ChipType
<1>2. WF(r, L1Assoc) /\ StateOf(r, b) = st /\ \A x : x # b => StateOf(r, x) = StateOf(set, x)
  BY <1>1, ChangeStateFacts
<1>3. r \in L1Sets
  BY <1>2, Ways
<1>4. u = Put(t, c, r)
  BY DEF Touch, Put
<1>5. set = t.l1[c]
  OBVIOUS
<1> HIDE DEF set, r
<1>6. PutIn(t, u, c, r)
  BY <1>3, <1>4, PutFacts
<1>7. /\ u \in ChipType /\ u.l2 = t.l2 /\ u.dir = t.dir /\ u.owed = t.owed
      /\ u.failed = FALSE /\ u.counted = t.counted
      /\ \A x : View(u.l1, x) = [View(t.l1, x) EXCEPT ![c] = StateOf(r, x)]
  BY <1>6 DEF PutIn
<1>8. View(u.l1, b) = [View(t.l1, b) EXCEPT ![c] = st] /\ L2Kept(t, u, b)
  BY <1>2, <1>7 DEF L2Kept
<1>9. ASSUME NEW x \in Blocks, x # b PROVE Good(u, clean, x)
  <2>1. [View(t.l1, x) EXCEPT ![c] = StateOf(t.l1[c], x)] = View(t.l1, x)
    BY ViewSame
  <2>2. StateOf(r, x) = StateOf(t.l1[c], x)
    BY <1>2, <1>5, <1>9
  <2>3. View(u.l1, x) = View(t.l1, x)
    BY <1>7, <2>1, <2>2
  <2>4. Good(t, clean, x)
    BY <1>9
  <2> QED BY <1>7, <2>3, <2>4 DEF Good
<1> QED BY <1>7, <1>8, <1>9 DEF Placed

(* The chip as a reference of cache c finds it. *)
SeenOK(s, c, b) ==
  /\ GoodChip(s, cfg.clean) /\ Len(s.l1[c]) > 0 /\ s.l2 = l2 /\ s.counted = NotCounted
  /\ StateOf(s.l1[c], b) = StateOf(l1[c], b)

(* The lookup in the L1 changes nothing but the free ways. *)
LEMMA SeenFacts ==
  ASSUME IInv, NEW c \in Caches, NEW b \in Blocks, NEW s, s = Seen(c, b)
  PROVE  SeenOK(s, c, b)
<1> DEFINE set == l1[c]
           r == Lookup(set, b, L1Assoc)
           t == Chip
<1>1. /\ t \in ChipType /\ t.l1 = l1 /\ t.l2 = l2 /\ t.dir = dir /\ t.owed = owed
      /\ t.failed = FALSE /\ t.counted = NotCounted
  BY DEF IInv, Chip, ChipType, Replies, CountedType
<1>2. s = Put(t, c, r)
  BY DEF Seen, Put, Chip
<1>3. WF(set, L1Assoc) /\ L1Assoc \in Nat \ {0}
  BY Ways DEF IInv
<1>4. WF(r, L1Assoc) /\ Len(r) > 0 /\ \A x : StateOf(r, x) = StateOf(set, x)
  BY <1>3, LookupFacts
<1>5. r \in L1Sets
  BY <1>4, Ways
<1>6. set = t.l1[c]
  BY <1>1
<1> HIDE DEF r, t
<1>7. PutIn(t, s, c, r)
  BY <1>1, <1>2, <1>5, PutFacts
<1>8. /\ s \in ChipType /\ s.l2 = t.l2 /\ s.dir = t.dir /\ s.owed = t.owed /\ s.failed = t.failed
      /\ s.counted = t.counted /\ s.l1[c] = r
      /\ \A x : View(s.l1, x) = [View(t.l1, x) EXCEPT ![c] = StateOf(r, x)]
  BY <1>7 DEF PutIn
<1>9. ASSUME NEW x \in Blocks PROVE Good(s, cfg.clean, x)
  <2>1. [View(t.l1, x) EXCEPT ![c] = StateOf(t.l1[c], x)] = View(t.l1, x)
    BY ViewSame
  <2>2. StateOf(r, x) = StateOf(t.l1[c], x)
    BY <1>4, <1>6
  <2>3. View(s.l1, x) = View(l1, x)
    BY <1>1, <1>8, <2>1, <2>2
  <2>4. GoodBlock(cfg.clean, View(l1, x), StateOf(l2, x), dir[x], x \in owed)
    BY DEF IInv
  <2> QED BY <1>1, <1>8, <2>3, <2>4 DEF Good
<1> QED BY <1>1, <1>4, <1>8, <1>9 DEF GoodChip, SeenOK

(* What a reference must leave. *)
Lands(u) == GoodChip(u, cfg.clean) /\ HitOK(cfg.clean, l2, u.counted)

(* A request that was not counted is no hit. *)
LEMMA NoHit ==
  ASSUME NEW clean, NEW set
  PROVE  HitOK(clean, set, NotCounted)
BY DEF HitOK, NotCounted

(* A request, and then the block is placed in the L1. *)
LEMMA AskedLands ==
  ASSUME NEW c \in Caches, NEW b \in Blocks, NEW s, SeenOK(s, c, b), cfg.clean \in BOOLEAN,
         NEW t, NEW req, NEW st, NEW own \in BOOLEAN, Asks(s, t, c, b, req, cfg.clean, st, own),
         req # "NonAllocatingStoreReq", b \in s.owed => own,
         NEW u, Placed(t, u, c, b, st, cfg.clean)
  PROVE  Lands(u)
<1>1. /\ GoodWith(t, cfg.clean, b, c, st, own) /\ (b \in t.owed <=> b \in s.owed)
      /\ t.counted = s.counted \/ HitOK(cfg.clean, s.l2, t.counted)
  BY DEF Asks
<1>2. HitOK(cfg.clean, l2, t.counted)
  <2>1. s.l2 = l2 /\ s.counted = NotCounted /\ HitOK(cfg.clean, l2, NotCounted)
    BY NoHit DEF SeenOK
  <2> QED BY <1>1, <2>1
<1>3. b \in t.owed => own
  BY <1>1
<1>4. GoodChip(u, cfg.clean)
  BY <1>1, <1>3, PlacedGood
<1>5. u.counted = t.counted
  BY DEF Placed
<1> QED BY <1>2, <1>4, <1>5 DEF Lands

(* The other blocks and the set of the L1 after a request. *)
LEMMA AskedElse ==
  ASSUME NEW c \in Caches, NEW b \in Blocks, NEW s, SeenOK(s, c, b), cfg.clean \in BOOLEAN,
         NEW t, NEW req, NEW st, NEW own, Asks(s, t, c, b, req, cfg.clean, st, own)
  PROVE  /\ t \in ChipType /\ t.failed = FALSE /\ Len(t.l1[c]) > 0
         /\ StateOf(t.l1[c], b) = StateOf(l1[c], b)
         /\ \A x \in Blocks : x # b => Good(t, cfg.clean, x)
<1>1. t \in ChipType /\ t.failed = FALSE /\ Elsewhere(s, t, c, b) /\ t.l1[c] = s.l1[c]
  BY DEF Asks, Elsewhere
<1>2. Len(s.l1[c]) > 0 /\ StateOf(s.l1[c], b) = StateOf(l1[c], b)
      /\ \A x \in Blocks : Good(s, cfg.clean, x)
  BY DEF SeenOK, GoodChip
<1>3. ASSUME NEW x \in Blocks, x # b PROVE Good(t, cfg.clean, x)
  BY <1>1, <1>2, <1>3, OtherGood
<1> QED BY <1>1, <1>2, <1>3

(* A load or a fetch that hits: the block is only made the most recent. *)
LEMMA HitLands ==
  ASSUME NEW c \in Caches, NEW b \in Blocks, NEW s, SeenOK(s, c, b), cfg.clean \in BOOLEAN,
         NEW st, st = StateOf(l1[c], b), st # "I",
         NEW u, u = Touch(s, c, b, st)
  PROVE  Lands(u)
<1>1. /\ s \in ChipType /\ s.failed = FALSE /\ StateOf(s.l1[c], b) = st
      /\ s.counted = NotCounted /\ \A x \in Blocks : Good(s, cfg.clean, x)
  BY DEF SeenOK, GoodChip
<1>2. st \in States
  <2>1. View(s.l1, b) \in [Caches -> States] /\ View(s.l1, b)[c] = StateOf(s.l1[c], b)
    BY <1>1, ViewTyped
  <2> QED BY <1>1, <2>1
<1>3. Placed(s, u, c, b, st, cfg.clean)
  BY <1>1, <1>2, TouchGood
<1> DEFINE own == b \in s.owed
<1>4. GoodWith(s, cfg.clean, b, c, st, own)
  <2>1. [View(s.l1, b) EXCEPT ![c] = StateOf(s.l1[c], b)] = View(s.l1, b)
    BY ViewSame
  <2>2. [View(s.l1, b) EXCEPT ![c] = st] = View(s.l1, b)
    BY <1>1, <2>1
  <2>3. Good(s, cfg.clean, b)
    BY <1>1
  <2> QED BY <2>2, <2>3 DEF Good, GoodWith
<1>5. own \in BOOLEAN /\ (b \in s.owed => own)
  OBVIOUS
<1> HIDE DEF own
<1>6. GoodChip(u, cfg.clean)
  BY <1>3, <1>4, <1>5, PlacedGood
<1>7. u.counted = NotCounted
  BY <1>1, <1>3 DEF Placed
<1> QED BY <1>6, <1>7, NoHit DEF Lands

(* A load. *)
LEMMA LoadLands ==
  ASSUME NEW c \in Caches, NEW b \in Blocks, NEW s, SeenOK(s, c, b), cfg.clean \in BOOLEAN,
         NEW st, st = StateOf(l1[c], b), NEW u, u = LoadAccess(s, c, b, st)
  PROVE  Lands(u)
<1>1. CASE st # "I"
  BY <1>1, HitLands DEF LoadAccess
<1>2. CASE st = "I"
  <2> DEFINE t == processRequest(s, c, "ReadReq", b)
             new == FillState(t.reply)
             own == b \in s.owed
  <2>1. u = AllocateL1(t, c, b, new)
    BY <1>2 DEF LoadAccess
  <2>2. s \in ChipType /\ s.failed = FALSE /\ StateOf(s.l1[c], b) = "I" /\ Good(s, cfg.clean, b)
    BY <1>2 DEF SeenOK, GoodChip
  <2>3. t = processRequest(s, c, "ReadReq", b) /\ new = FillState(t.reply) /\ new \in States
        /\ own \in BOOLEAN /\ (b \in s.owed => own)
    BY DEF FillState, States
  <2> HIDE DEF t
  <2>4. Asks(s, t, c, b, "ReadReq", cfg.clean, new, own)
    BY <2>2, <2>3, ReadAsks
  <2> HIDE DEF new, own
  <2>5. /\ t \in ChipType /\ t.failed = FALSE /\ Len(t.l1[c]) > 0
        /\ \A x \in Blocks : x # b => Good(t, cfg.clean, x)
    BY <2>4, AskedElse
  <2>6. Placed(t, u, c, b, new, cfg.clean)
    BY <2>1, <2>3, <2>5, AllocateGood
  <2> QED BY <2>3, <2>4, <2>6, AskedLands
<1> QED BY <1>1, <1>2

(* An instruction fetch. *)
LEMMA FetchLands ==
  ASSUME NEW c \in Caches, NEW b \in Blocks, NEW s, SeenOK(s, c, b), cfg.clean \in BOOLEAN,
         NEW st, st = StateOf(l1[c], b), NEW u, u = FetchAccess(s, c, b, st)
  PROVE  Lands(u)
<1>1. CASE st # "I"
  BY <1>1, HitLands DEF FetchAccess
<1>2. CASE st = "I"
  <2> DEFINE t == processRequest(s, c, "FetchReq", b)
             own == b \in s.owed
  <2>1. u = AllocateL1(t, c, b, "S") /\ "S" \in States
    BY <1>2 DEF FetchAccess, States
  <2>2. s \in ChipType /\ s.failed = FALSE /\ StateOf(s.l1[c], b) = "I" /\ Good(s, cfg.clean, b)
    BY <1>2 DEF SeenOK, GoodChip
  <2>3. t = processRequest(s, c, "FetchReq", b)
        /\ own \in BOOLEAN /\ (b \in s.owed => own) /\ (own <=> b \in s.owed)
    OBVIOUS
  <2> HIDE DEF t, own
  <2>4. Turns("FetchReq", StateOf(s.l1[c], b), "S", own, own)
    BY <2>2 DEF Turns
  <2>5. Asks(s, t, c, b, "FetchReq", cfg.clean, "S", own)
    BY <2>2, <2>3, <2>4, TurnAsks
  <2>6. /\ t \in ChipType /\ t.failed = FALSE /\ Len(t.l1[c]) > 0
        /\ \A x \in Blocks : x # b => Good(t, cfg.clean, x)
    BY <2>5, AskedElse
  <2>7. Placed(t, u, c, b, "S", cfg.clean)
    BY <2>1, <2>6, AllocateGood
  <2> QED BY <2>3, <2>5, <2>7, AskedLands
<1> QED BY <1>1, <1>2

(* A store to a block that an L1 has. *)
LEMMA WriteHitLands ==
  ASSUME NEW c \in Caches, NEW b \in Blocks, NEW s, SeenOK(s, c, b), cfg.clean \in BOOLEAN,
         NEW st, st = StateOf(l1[c], b),
         NEW u, \/ st \in {"M", "E"} /\ u = Touch(s, c, b, "M")
                \/ st = "S" /\ u = Touch(processRequest(s, c, "UpgradeReq", b), c, b, "M")
  PROVE  Lands(u) /\ View(u.l1, b)[c] = "M"
<1>1. /\ s \in ChipType /\ s.failed = FALSE /\ StateOf(s.l1[c], b) = st
      /\ s.counted = NotCounted /\ \A x \in Blocks : Good(s, cfg.clean, x)
      /\ "M" \in States
  BY DEF SeenOK, GoodChip, States
<1>2. CASE st \in {"M", "E"} /\ u = Touch(s, c, b, "M")
  <2>1. Placed(s, u, c, b, "M", cfg.clean)
    BY <1>1, <1>2, TouchGood
  <2>2. GoodWith(s, cfg.clean, b, c, "M", TRUE)
    <3> DEFINE f == View(s.l1, b)
               h == [f EXCEPT ![c] = "M"]
               cs == StateOf(s.l2, b)
               D == s.dir[b]
    <3>1. \A d \in Caches : h[d] = IF d = c THEN "M" ELSE f[d]
      BY DEF View
    <3>2. f[c] \in {"M", "E"}
      BY <1>1, <1>2 DEF View
    <3>3. GoodBlock(cfg.clean, f, cs, D, b \in s.owed)
      BY <1>1 DEF Good
    <3> HIDE DEF f, h, cs, D
    <3>4. D = {c} /\ cs \in {"E", "I"} /\ (\A d \in Caches : f[d] # "I" => d \in D)
      BY <3>2, <3>3 DEF GoodBlock
    <3>5. GoodBlock(cfg.clean, h, cs, D, TRUE)
      BY <3>1, <3>4 DEF GoodBlock
    <3> QED BY <3>5 DEF GoodWith, h, f, cs, D
  <2>3. GoodChip(u, cfg.clean)
    BY <2>1, <2>2, PlacedGood
  <2>4. u.counted = NotCounted /\ View(u.l1, b)[c] = "M"
    BY <1>1, <2>1 DEF Placed, View
  <2> QED BY <2>3, <2>4, NoHit DEF Lands
<1>3. CASE st = "S" /\ u = Touch(processRequest(s, c, "UpgradeReq", b), c, b, "M")
  <2> DEFINE t == processRequest(s, c, "UpgradeReq", b)
             behind == b \in s.owed
  <2>1. u = Touch(t, c, b, "M")
    BY <1>3
  <2>2. Good(s, cfg.clean, b)
    BY <1>1
  <2>3. t = processRequest(s, c, "UpgradeReq", b) /\ behind \in BOOLEAN /\ (behind <=> b \in s.owed)
    OBVIOUS
  <2> HIDE DEF t, behind
  <2>4. Turns("UpgradeReq", StateOf(s.l1[c], b), "M", TRUE, behind)
    BY <1>1, <1>3 DEF Turns
  <2>5. Asks(s, t, c, b, "UpgradeReq", cfg.clean, "M", TRUE)
    BY <1>1, <2>2, <2>3, <2>4, TurnAsks
  <2>6. /\ t \in ChipType /\ t.failed = FALSE /\ StateOf(t.l1[c], b) = st
        /\ \A x \in Blocks : x # b => Good(t, cfg.clean, x)
    BY <2>5, AskedElse
  <2>7. Placed(t, u, c, b, "M", cfg.clean)
    BY <1>1, <1>3, <2>1, <2>6, TouchGood
  <2>8. Lands(u)
    BY <2>5, <2>7, AskedLands
  <2>9. View(u.l1, b)[c] = "M"
    BY <2>7 DEF Placed, View
  <2> QED BY <2>8, <2>9
<1> QED BY <1>2, <1>3

(* Once the store is done, memory is behind. *)
LEMMA StoredLands ==
  ASSUME NEW c \in Caches, NEW b \in Blocks, NEW u, Lands(u), View(u.l1, b)[c] = "M",
         cfg.clean \in BOOLEAN, NEW w, w = [u EXCEPT !.owed = @ \cup {b}]
  PROVE  Lands(w)
<1>1. u \in ChipType /\ u.failed = FALSE /\ \A x \in Blocks : Good(u, cfg.clean, x)
  BY DEF Lands, GoodChip
<1>2. u.owed \cup {b} \in SUBSET Blocks
  BY <1>1 DEF ChipType
<1>3. /\ w \in ChipType /\ w.l1 = u.l1 /\ w.l2 = u.l2 /\ w.dir = u.dir /\ w.failed = u.failed
      /\ w.counted = u.counted /\ w.owed = u.owed \cup {b}
  BY <1>1, <1>2 DEF ChipType
<1>4. ASSUME NEW x \in Blocks PROVE Good(w, cfg.clean, x)
  <2>1. GoodBlock(cfg.clean, View(u.l1, x), StateOf(u.l2, x), u.dir[x], x \in u.owed)
    BY <1>1 DEF Good
  <2>2. x \in w.owed => x \in u.owed \/ \E d \in Caches : View(u.l1, x)[d] = "M"
    BY <1>3
  <2>3. GoodBlock(cfg.clean, View(u.l1, x), StateOf(u.l2, x), u.dir[x], x \in w.owed)
    BY <2>1, <2>2 DEF GoodBlock
  <2> QED BY <1>3, <2>3 DEF Good
<1> QED BY <1>1, <1>3, <1>4 DEF Lands, GoodChip

(* A store. *)
LEMMA StoreLands ==
  ASSUME NEW c \in Caches, NEW b \in Blocks, NEW s, SeenOK(s, c, b), cfg.clean \in BOOLEAN,
         NEW st \in States, st = StateOf(l1[c], b), NEW u, u = StoreAccess(s, c, b, st)
  PROVE  Lands(u) /\ View(u.l1, b)[c] = "M"
<1>1. CASE st \in {"M", "E"}
  BY <1>1, WriteHitLands DEF StoreAccess
<1>2. CASE st = "S"
  BY <1>2, WriteHitLands DEF StoreAccess
<1>3. CASE st = "I"
  <2> DEFINE t == processRequest(s, c, "WriteReq", b)
             behind == b \in s.owed
  <2>1. u = AllocateL1(t, c, b, "M") /\ "M" \in States
    BY <1>3 DEF StoreAccess, States
  <2>2. s \in ChipType /\ s.failed = FALSE /\ StateOf(s.l1[c], b) = "I" /\ Good(s, cfg.clean, b)
    BY <1>3 DEF SeenOK, GoodChip
  <2>3. t = processRequest(s, c, "WriteReq", b)
        /\ behind \in BOOLEAN /\ (behind <=> b \in s.owed)
    OBVIOUS
  <2> HIDE DEF t, behind
  <2>4. Turns("WriteReq", StateOf(s.l1[c], b), "M", TRUE, behind)
    BY <2>2 DEF Turns
  <2>5. Asks(s, t, c, b, "WriteReq", cfg.clean, "M", TRUE)
    BY <2>2, <2>3, <2>4, TurnAsks
  <2>6. /\ t \in ChipType /\ t.failed = FALSE /\ Len(t.l1[c]) > 0
        /\ \A x \in Blocks : x # b => Good(t, cfg.clean, x)
    BY <2>5, AskedElse
  <2>7. Placed(t, u, c, b, "M", cfg.clean)
    BY <2>1, <2>6, AllocateGood
  <2>8. Lands(u)
    BY <2>5, <2>7, AskedLands
  <2>9. View(u.l1, b)[c] = "M"
    BY <2>7 DEF Placed, View
  <2> QED BY <2>8, <2>9
<1> QED BY <1>1, <1>2, <1>3 DEF States

(* A non-allocating store that misses in the L1. *)
LEMMA StoreAroundLands ==
  ASSUME NEW c \in Caches, NEW b \in Blocks, NEW s, SeenOK(s, c, b), cfg.clean \in BOOLEAN,
         StateOf(l1[c], b) = "I", NEW u, u = processRequest(s, c, "NonAllocatingStoreReq", b)
  PROVE  Lands(u)
<1>1. /\ s \in ChipType /\ s.failed = FALSE /\ StateOf(s.l1[c], b) = "I" /\ Good(s, cfg.clean, b)
      /\ s.l2 = l2 /\ s.counted = NotCounted
  BY DEF SeenOK, GoodChip
<1>2. Asks(s, u, c, b, "NonAllocatingStoreReq", cfg.clean, "I", b \in u.owed)
  BY <1>1, StoreAroundAsks
<1>3. /\ u \in ChipType /\ u.failed = FALSE /\ StateOf(u.l1[c], b) = "I"
      /\ \A x \in Blocks : x # b => Good(u, cfg.clean, x)
  BY <1>2, AskedElse
<1>4. Good(u, cfg.clean, b)
  <2>1. [View(u.l1, b) EXCEPT ![c] = StateOf(u.l1[c], b)] = View(u.l1, b)
    BY ViewSame
  <2>2. [View(u.l1, b) EXCEPT ![c] = "I"] = View(u.l1, b)
    BY <1>3, <2>1
  <2>3. GoodWith(u, cfg.clean, b, c, "I", b \in u.owed)
    BY <1>2 DEF Asks
  <2> QED BY <2>2, <2>3 DEF Good, GoodWith
<1>5. HitOK(cfg.clean, l2, u.counted)
  <2>1. u.counted = s.counted \/ HitOK(cfg.clean, s.l2, u.counted)
    BY <1>2 DEF Asks
  <2>2. HitOK(cfg.clean, l2, NotCounted)
    BY NoHit
  <2> QED BY <1>1, <2>1, <2>2
<1> QED BY <1>3, <1>4, <1>5 DEF Lands, GoodChip

-----------------------------------------------------------------------------
(* DMA.                                                                    *)

DmaAsked(type, b) == IF type = "Downgrade" /\ Cardinality(dir[b]) > 1 THEN {} ELSE dir[b]
DmaL2(type, set, b) ==
  CASE type = "Downgrade" /\ StateOf(set, b) = "M" -> ChangeState(set, b, "E", "Same")
    [] type = "Invalidate" /\ StateOf(set, b) # "I" -> ChangeState(set, b, "I", "Same")
    [] OTHER -> set
DmaL1(type, b, asked) == [c \in Caches |-> IF c \in asked THEN SnoopL1(l1[c], b, type) ELSE l1[c]]
Dma(type, b) ==
  [Chip EXCEPT
     !.l2 = DmaL2(type, Lookup(l2, b, L2Assoc), b),
     !.l1 = DmaL1(type, b, DmaAsked(type, b)),
     !.dir[b] = IF type = "Invalidate" THEN @ \ DmaAsked(type, b) ELSE @,
     !.owed = @ \ {b}]

(* The set of the L2. *)
LEMMA DmaL2Facts ==
  ASSUME NEW set, WF(set, L2Assoc), NEW b \in Blocks, NEW type \in {"Downgrade", "Invalidate"},
         NEW r, r = DmaL2(type, set, b)
  PROVE  r \in L2Sets /\ \A x : x # b => StateOf(r, x) = StateOf(set, x)
<1>0. L2Assoc \in Nat /\ (WF(r, L2Assoc) => r \in L2Sets) /\ "E" \in States /\ "I" \in States
  BY Ways DEF States
<1>1. CASE type = "Downgrade" /\ StateOf(set, b) = "M"
  <2>1. r = ChangeState(set, b, "E", "Same")
    BY <1>1 DEF DmaL2
  <2>2. Present(set, b)
    BY <1>1, ValidPresent
  <2> QED BY <1>0, <2>1, <2>2, ChangeStateFacts
<1>2. CASE type = "Invalidate" /\ StateOf(set, b) # "I"
  <2>1. r = ChangeState(set, b, "I", "Same")
    BY <1>2 DEF DmaL2
  <2>2. Present(set, b)
    BY <1>2, ValidPresent
  <2> QED BY <1>0, <2>1, <2>2, ChangeStateFacts
<1>3. CASE /\ ~(type = "Downgrade" /\ StateOf(set, b) = "M")
           /\ ~(type = "Invalidate" /\ StateOf(set, b) # "I")
  BY <1>0, <1>3 DEF DmaL2
<1> QED BY <1>1, <1>2, <1>3

(* A DMA access leaves every block good: a read finds no writable copy     *)
(* among several sharers, and a write leaves no copy at all.               *)
LEMMA DmaLands ==
  ASSUME IInv, NEW b \in Blocks, NEW type \in {"Downgrade", "Invalidate"}, NEW u, u = Dma(type, b)
  PROVE  Lands(u)
<1> DEFINE set == Lookup(l2, b, L2Assoc)
           asked == DmaAsked(type, b)
           n2 == DmaL2(type, set, b)
           n1 == DmaL1(type, b, asked)
           nd == IF type = "Invalidate" THEN dir[b] \ asked ELSE dir[b]
<1>1. /\ l1 \in [Caches -> L1Sets] /\ l2 \in L2Sets /\ dir \in [Blocks -> SUBSET Caches]
      /\ cfg.clean \in BOOLEAN /\ failed = FALSE /\ owed \subseteq Blocks
      /\ \A x \in Blocks : GoodBlock(cfg.clean, View(l1, x), StateOf(l2, x), dir[x], x \in owed)
  BY DEF IInv
<1>2. WF(set, L2Assoc) /\ \A x : StateOf(set, x) = StateOf(l2, x)
  BY <1>1, Ways, LookupFacts
<1>3. asked \subseteq dir[b] /\ dir[b] \subseteq Caches
  BY <1>1 DEF DmaAsked
<1>4. nd \subseteq Caches /\ (type = "Downgrade" => nd = dir[b]) /\ (type = "Invalidate" => nd = {} /\ asked = dir[b])
  BY <1>3 DEF DmaAsked
<1>5. u = [l1 |-> n1, l2 |-> n2, dir |-> [dir EXCEPT ![b] = nd], owed |-> owed \ {b},
           failed |-> failed, counted |-> NotCounted, reply |-> "none"]
  BY <1>1 DEF Dma, Chip
<1>6. type \in Snoops
  BY DEF Snoops
<1>7. n1 = DmaL1(type, b, asked) /\ n2 = DmaL2(type, set, b)
  OBVIOUS
<1>8. type = "Downgrade" => asked = IF Cardinality(dir[b]) > 1 THEN {} ELSE dir[b]
  BY DEF DmaAsked
<1> HIDE DEF set, asked, n1, n2, nd
<1>9. n2 \in L2Sets /\ \A x : x # b => StateOf(n2, x) = StateOf(l2, x)
  BY <1>2, <1>7, DmaL2Facts
<1>10. /\ n1 \in [Caches -> L1Sets]
       /\ \A d \in Caches : StateOf(n1[d], b) = IF d \in asked THEN SnoopedState(StateOf(l1[d], b), type)
                                                ELSE StateOf(l1[d], b)
       /\ \A d \in Caches, x \in Blocks : x # b => StateOf(n1[d], x) = StateOf(l1[d], x)
  <2>1. \A d \in Caches : n1[d] = IF d \in asked THEN SnoopL1(l1[d], b, type) ELSE l1[d]
    BY <1>7 DEF DmaL1
  <2>2. ASSUME NEW d \in Caches
        PROVE  /\ n1[d] \in L1Sets
               /\ StateOf(n1[d], b) = IF d \in asked THEN SnoopedState(StateOf(l1[d], b), type)
                                      ELSE StateOf(l1[d], b)
               /\ \A x : x # b => StateOf(n1[d], x) = StateOf(l1[d], x)
    <3>1. l1[d] \in L1Sets
      BY <1>1
    <3>2. /\ SnoopL1(l1[d], b, type) \in L1Sets
          /\ StateOf(SnoopL1(l1[d], b, type), b) = SnoopedState(StateOf(l1[d], b), type)
          /\ \A x : x # b => StateOf(SnoopL1(l1[d], b, type), x) = StateOf(l1[d], x)
      BY <1>6, <3>1, SnoopL1Facts
    <3> QED BY <2>1, <3>1, <3>2
  <2>3. DOMAIN n1 = Caches /\ n1 = [d \in Caches |-> n1[d]]
    BY <1>7 DEF DmaL1
  <2> QED BY <2>2, <2>3
<1>11. /\ u \in ChipType /\ u.l1 = n1 /\ u.l2 = n2 /\ u.dir = [dir EXCEPT ![b] = nd]
       /\ u.owed = owed \ {b} /\ u.failed = FALSE /\ u.counted = NotCounted
  <2>1. [dir EXCEPT ![b] = nd] \in [Blocks -> SUBSET Caches]
    BY <1>1, <1>4
  <2>2. owed \ {b} \in SUBSET Blocks /\ failed = FALSE /\ NotCounted \in CountedType
    BY <1>1 DEF CountedType
  <2>3. "none" \in Replies /\ n2 \in L2Sets /\ n1 \in [Caches -> L1Sets]
    BY <1>9, <1>10 DEF Replies
  <2> DEFINE k == [dir EXCEPT ![b] = nd]
             o == owed \ {b}
  <2> HIDE DEF k, o
  <2>4. u = [l1 |-> n1, l2 |-> n2, dir |-> k, owed |-> o, failed |-> failed, counted |-> NotCounted,
             reply |-> "none"]
    BY <1>5 DEF k, o
  <2>5. k \in [Blocks -> SUBSET Caches] /\ o \in SUBSET Blocks /\ failed \in BOOLEAN
    BY <2>1, <2>2 DEF k, o
  <2>6. u \in ChipType
    BY <2>2, <2>3, <2>4, <2>5 DEF ChipType
  <2>7. /\ u.l1 = n1 /\ u.l2 = n2 /\ u.dir = k /\ u.owed = o /\ u.failed = failed
        /\ u.counted = NotCounted
    BY <2>4
  <2> QED BY <2>2, <2>6, <2>7 DEF k, o
<1>12. ASSUME NEW x \in Blocks, x # b PROVE Good(u, cfg.clean, x)
  <2>1. View(u.l1, x) = View(l1, x)
    BY <1>10, <1>11, <1>12 DEF View
  <2>2. StateOf(u.l2, x) = StateOf(l2, x) /\ u.dir[x] = dir[x] /\ (x \in u.owed <=> x \in owed)
    BY <1>1, <1>9, <1>11, <1>12
  <2>3. (x \in u.owed) = (x \in owed)
    BY <2>2
  <2> QED BY <1>1, <2>1, <2>2, <2>3 DEF Good
<1>13. Good(u, cfg.clean, b)
  <2> DEFINE f == View(l1, b)
             h == View(u.l1, b)
             D == dir[b]
             cs == StateOf(u.l2, b)
  <2>1. \A d \in Caches : h[d] = IF d \in asked THEN SnoopedState(f[d], type) ELSE f[d]
    BY <1>10, <1>11 DEF View
  <2>2. GoodBlock(cfg.clean, f, StateOf(l2, b), D, b \in owed)
    BY <1>1
  <2>3. b \notin u.owed /\ u.dir[b] = nd
    BY <1>1, <1>11
  <2>4. D = dir[b] /\ D \subseteq Caches
    BY <1>1
  <2>5. CASE type = "Invalidate"
    <3> HIDE DEF f, h, D, cs
    <3>1. \A d \in Caches : h[d] = "I"
      BY <1>4, <2>1, <2>2, <2>4, <2>5 DEF GoodBlock, SnoopedState
    <3>2. GoodBlock(cfg.clean, h, cs, nd, b \in u.owed)
      BY <1>4, <2>3, <2>5, <3>1 DEF GoodBlock
    <3> QED BY <2>3, <3>2 DEF Good, h, cs
  <2>6. CASE type = "Downgrade"
    <3>1. ASSUME NEW d \in Caches, D = {d} PROVE asked = D
      <4>1. Sharing(D) = "One" /\ (Cardinality(D) > 1 <=> Sharing(D) = "Many")
        BY <2>4, <3>1, SharingFacts
      <4>2. ~(Cardinality(D) > 1)
        BY <4>1
      <4> QED BY <1>8, <2>6, <4>2
    <3>0. nd = D
      BY <1>4, <2>6
    <3> HIDE DEF f, h, D, cs
    <3>2. \A d \in Caches : h[d] \notin {"M", "E"}
      <4> SUFFICES ASSUME NEW d \in Caches, h[d] \in {"M", "E"} PROVE FALSE
        OBVIOUS
      <4>1. d \notin asked /\ f[d] \in {"M", "E"}
        BY <2>1, <2>6 DEF SnoopedState
      <4>2. D = {d}
        BY <2>2, <4>1 DEF GoodBlock
      <4> QED BY <3>1, <4>1, <4>2
    <3>3. \A d \in Caches : h[d] # "I" <=> f[d] # "I"
      BY <2>1, <2>6 DEF SnoopedState
    <3>4. GoodBlock(cfg.clean, h, cs, D, b \in u.owed)
      BY <2>2, <2>3, <2>4, <3>2, <3>3 DEF GoodBlock
    <3> QED BY <2>3, <3>0, <3>4 DEF Good, h, cs
  <2> QED BY <2>5, <2>6
<1> QED BY <1>11, <1>12, <1>13, NoHit DEF Lands, GoodChip

-----------------------------------------------------------------------------
(* The steps.                                                              *)

(* A good chip is a good state. *)
LEMMA BecomeGood ==
  ASSUME IInv, NEW u, Lands(u), Become(u)
  PROVE  IInv' /\ HitOK(cfg.clean, l2, counted')
<1>1. /\ u \in ChipType /\ u.failed = FALSE /\ HitOK(cfg.clean, l2, u.counted)
      /\ \A x \in Blocks : Good(u, cfg.clean, x)
  BY DEF Lands, GoodChip
<1>2. /\ l1' = u.l1 /\ l2' = u.l2 /\ dir' = u.dir /\ owed' = u.owed /\ failed' = u.failed
      /\ counted' = u.counted /\ cfg' = cfg
  BY DEF Become
<1>3. /\ u.l1 \in [Caches -> L1Sets] /\ u.l2 \in L2Sets /\ u.dir \in [Blocks -> SUBSET Caches]
      /\ u.owed \subseteq Blocks /\ u.counted \in CountedType
  BY <1>1 DEF ChipType
<1>4. \A x \in Blocks : GoodBlock(cfg.clean, View(u.l1, x), StateOf(u.l2, x), u.dir[x], x \in u.owed)
  BY <1>1 DEF Good
<1>5. cfg \in [clean : BOOLEAN, multicast : BOOLEAN]
  BY DEF IInv
<1>6. \A x \in Blocks : GoodBlock(cfg'.clean, View(l1', x), StateOf(l2', x), dir'[x], x \in owed')
  BY <1>2, <1>4
<1> QED BY <1>1, <1>2, <1>3, <1>5, <1>6 DEF IInv

(* Every reference and every DMA access keeps the invariant and counts as  *)
(* a hit only what the L2 had.                                             *)
LEMMA NextGood ==
  ASSUME IInv, Next
  PROVE  IInv' /\ HitOK(cfg.clean, l2, counted')
<1>1. PICK b \in Blocks :
        \/ \E c \in DCaches : Load(c, b) \/ Store(c, b) \/ NonAllocatingStore(c, b)
        \/ \E c \in ICaches : Fetch(c, b)
        \/ DMARead(b)
        \/ DMAWrite(b)
  BY DEF Next
<1>2. DCaches \subseteq Caches /\ ICaches \subseteq Caches
  <2>1. \A k \in 0 .. Cores - 1 : 2 * k \in 0 .. 2 * Cores - 1
    BY Ways
  <2> QED BY <2>1 DEF DCaches, ICaches, Caches
<1>3. cfg.clean \in BOOLEAN
  BY DEF IInv
<1>4. ASSUME NEW c \in Caches PROVE StateOf(l1[c], b) \in States
  <2>1. WF(l1[c], L1Assoc) /\ L1Assoc \in Nat
    BY Ways DEF IInv
  <2> QED BY <2>1, EntryFacts
<1>5. ASSUME NEW c \in Caches, Load(c, b) PROVE IInv' /\ HitOK(cfg.clean, l2, counted')
  <2> DEFINE s == Seen(c, b)
             u == LoadAccess(s, c, b, StateOf(l1[c], b))
  <2>1. SeenOK(s, c, b)
    BY SeenFacts
  <2>2. Become(u)
    BY <1>5 DEF Load
  <2> HIDE DEF s
  <2>3. Lands(u)
    BY <1>3, <2>1, LoadLands
  <2> HIDE DEF u
  <2> QED BY <2>2, <2>3, BecomeGood
<1>6. ASSUME NEW c \in Caches, Fetch(c, b) PROVE IInv' /\ HitOK(cfg.clean, l2, counted')
  <2> DEFINE s == Seen(c, b)
             u == FetchAccess(s, c, b, StateOf(l1[c], b))
  <2>1. SeenOK(s, c, b)
    BY SeenFacts
  <2>2. Become(u)
    BY <1>6 DEF Fetch
  <2> HIDE DEF s
  <2>3. Lands(u)
    BY <1>3, <2>1, FetchLands
  <2> HIDE DEF u
  <2> QED BY <2>2, <2>3, BecomeGood
<1>7. ASSUME NEW c \in Caches, Store(c, b) PROVE IInv' /\ HitOK(cfg.clean, l2, counted')
  <2> DEFINE s == Seen(c, b)
             u == StoreAccess(s, c, b, StateOf(l1[c], b))
             w == [u EXCEPT !.owed = @ \cup {b}]
  <2>1. SeenOK(s, c, b)
    BY SeenFacts
  <2>2. Become(w)
    BY <1>7 DEF Store
  <2> HIDE DEF s
  <2>3. Lands(u) /\ View(u.l1, b)[c] = "M"
    BY <1>3, <1>4, <2>1, StoreLands
  <2> HIDE DEF u
  <2>4. Lands(w)
    BY <1>3, <2>3, StoredLands
  <2> HIDE DEF w
  <2> QED BY <2>2, <2>4, BecomeGood
<1>8. ASSUME NEW c \in Caches, NonAllocatingStore(c, b) PROVE IInv' /\ HitOK(cfg.clean, l2, counted')
  <2> DEFINE s == Seen(c, b)
             st == StateOf(l1[c], b)
             u == NAWAccess(s, c, b, st)
             w == [u EXCEPT !.owed = IF st = "I" THEN @ ELSE @ \cup {b}]
  <2>1. SeenOK(s, c, b) /\ st \in States /\ st = StateOf(l1[c], b)
    BY <1>4, SeenFacts
  <2>2. Become(w)
    BY <1>8 DEF NonAllocatingStore
  <2> HIDE DEF s, st
  <2>3. CASE st = "I"
    <3>1. u = processRequest(s, c, "NonAllocatingStoreReq", b)
      BY <2>3 DEF NAWAccess
    <3> HIDE DEF u
    <3>2. Lands(u)
      BY <1>3, <2>1, <2>3, <3>1, StoreAroundLands
    <3>3. w = u
      <4>1. u \in [l1 : [Caches -> L1Sets], l2 : L2Sets, dir : [Blocks -> SUBSET Caches],
                   owed : SUBSET Blocks, failed : BOOLEAN, counted : CountedType, reply : Replies]
        BY <3>2 DEF Lands, GoodChip, ChipType
      <4> QED BY <2>3, <4>1
    <3> QED BY <2>2, <3>2, <3>3, BecomeGood
  <2>4. CASE st # "I"
    <3>1. \/ st \in {"M", "E"} /\ u = Touch(s, c, b, "M")
          \/ st = "S" /\ u = Touch(processRequest(s, c, "UpgradeReq", b), c, b, "M")
      BY <2>1, <2>4 DEF NAWAccess, States
    <3> HIDE DEF u
    <3>2. Lands(u) /\ View(u.l1, b)[c] = "M"
      BY <1>3, <2>1, <3>1, WriteHitLands
    <3>3. w = [u EXCEPT !.owed = @ \cup {b}]
      BY <2>4
    <3> HIDE DEF w
    <3>4. Lands(w)
      BY <1>3, <3>2, <3>3, StoredLands
    <3> QED BY <2>2, <3>4, BecomeGood
  <2> QED BY <2>3, <2>4
<1>9. ASSUME NEW type \in {"Downgrade", "Invalidate"}, SnoopIn(type, b)
      PROVE  IInv' /\ HitOK(cfg.clean, l2, counted')
  <2> DEFINE u == Dma(type, b)
  <2>1. Become(u)
    BY <1>9 DEF SnoopIn, Dma, DmaL2, DmaL1, DmaAsked, Chip
  <2>2. Lands(u)
    BY DmaLands
  <2> HIDE DEF u
  <2> QED BY <2>1, <2>2, BecomeGood
<1> QED BY <1>1, <1>2, <1>5, <1>6, <1>7, <1>8, <1>9 DEF DMARead, DMAWrite

-----------------------------------------------------------------------------
(* The theorems.                                                           *)

(* The invariant holds when every cache is empty. *)
LEMMA InitGood ==
  ASSUME Init
  PROVE  IInv
<1>1. <<>> \in L1Sets /\ <<>> \in L2Sets
  <2>1. <<>> \in Seq(Entry) /\ Len(<<>>) = 0 /\ DOMAIN <<>> = {}
    BY EmptySeq
  <2>2. WF(<<>>, L1Assoc) /\ WF(<<>>, L2Assoc)
    BY <2>1, Ways DEF WF
  <2> QED BY <2>2, Ways
<1>2. \A x : StateOf(<<>>, x) = "I"
  <2>1. DOMAIN <<>> = {}
    BY EmptySeq
  <2> QED BY <2>1 DEF StateOf, Present, Way
<1>3. ASSUME NEW b \in Blocks
      PROVE  GoodBlock(cfg.clean, View(l1, b), StateOf(l2, b), dir[b], b \in owed)
  <2>1. \A d \in Caches : View(l1, b)[d] = "I"
    BY <1>2 DEF Init, View
  <2>2. dir[b] = {} /\ b \notin owed
    BY DEF Init
  <2> QED BY <2>1, <2>2 DEF GoodBlock
<1> QED BY <1>1, <1>3 DEF Init, IInv, CountedType

(* Every reference of the feeder and every DMA access leaves the invariant *)
(* IInv: in each block the directory covers the copies (and is exact with  *)
(* clean evictions), a writable copy is alone and over a clean or absent   *)
(* L2 copy, and a block memory is behind on is Modified somewhere.         *)
THEOREM FunctionalInvariant == Spec => []IInv
<1>1. Init => IInv
  BY InitGood
<1>2. IInv /\ [Next]_vars => IInv'
  <2> SUFFICES ASSUME IInv, [Next]_vars PROVE IInv'
    OBVIOUS
  <2>1. CASE Next
    BY <2>1, NextGood
  <2>2. CASE UNCHANGED vars
    BY <2>2 DEF vars, IInv
  <2> QED BY <2>1, <2>2
<1> QED BY <1>1, <1>2, PTL DEF Spec

(* The sets of all the caches hold every block once and never more blocks  *)
(* than they have ways, whatever is looked up, replaced and snooped.       *)
THEOREM FunctionalTyped == Spec => []TypeOK
<1>1. IInv => TypeOK
  <2> SUFFICES ASSUME IInv PROVE TypeOK
    OBVIOUS
  <2>1. \A c \in Caches : WF(l1[c], L1Assoc)
    BY Ways DEF IInv
  <2>2. WF(l2, L2Assoc)
    BY Ways DEF IInv
  <2>3. \A set \in {l1[c] : c \in Caches} \cup {l2} :
          \A i, j \in DOMAIN set : set[i].tag = set[j].tag => i = j
    BY <2>1, <2>2 DEF WF
  <2>4. counted = NotCounted \/ counted \in [block : Blocks, class : {"OffChip", "OnChip", "Hit"}]
    BY DEF IInv, CountedType
  <2> QED BY <2>1, <2>2, <2>3, <2>4 DEF IInv, TypeOK, WF
<1> QED BY <1>1, FunctionalInvariant, PTL

(* No DBG_Assert of the functional caches fails: SingleCMP never reaches a *)
(* poisoned entry, makeExclusive finds the requester alone, no reply is    *)
(* NO_RESP and no block changes state without a way.                       *)
THEOREM FunctionalNoAssert == Spec => []NoAssert
<1>1. IInv => NoAssert
  BY DEF IInv, NoAssert
<1> QED BY <1>1, FunctionalInvariant, PTL

(* A writable L1 copy is alone and the L2 has no dirty one; the directory  *)
(* covers the L1s with a copy and, with clean evictions, names no other.   *)
THEOREM FunctionalCoherent == Spec => []Coherent
<1>1. IInv => Coherent
  <2> SUFFICES ASSUME IInv PROVE Coherent
    OBVIOUS
  <2>1. ASSUME NEW b \in Blocks
        PROVE  /\ \A d \in Caches : StateOf(l1[d], b) # "I" => d \in dir[b]
               /\ cfg.clean => \A d \in dir[b] : d \in Caches /\ StateOf(l1[d], b) # "I"
               /\ \A d \in Caches : StateOf(l1[d], b) \in {"M", "E"}
                                      => dir[b] = {d} /\ StateOf(l2, b) \in {"E", "I"}
    <3>1. GoodBlock(cfg.clean, View(l1, b), StateOf(l2, b), dir[b], b \in owed)
      BY DEF IInv
    <3>2. \A d \in Caches : View(l1, b)[d] = StateOf(l1[d], b)
      BY DEF View
    <3>3. dir[b] \subseteq Caches
      BY DEF IInv
    <3> QED BY <3>1, <3>2, <3>3 DEF GoodBlock
  <2>2. DirectoryExact
    BY <2>1 DEF DirectoryExact, Holders
  <2>3. SingleWriter
    <3> SUFFICES ASSUME NEW b \in Blocks, NEW c \in Caches, StateOf(l1[c], b) \in {"M", "E"}
                 PROVE  Holders(b) = {c} /\ StateOf(l2, b) # "M"
      BY DEF SingleWriter
    <3>1. dir[b] = {c} /\ StateOf(l2, b) \in {"E", "I"} /\ StateOf(l1[c], b) # "I"
      BY <2>1
    <3>2. \A d \in Caches : StateOf(l1[d], b) # "I" <=> d = c
      BY <2>1, <3>1
    <3> QED BY <3>1, <3>2 DEF Holders
  <2> QED BY <2>2, <2>3 DEF Coherent
<1> QED BY <1>1, FunctionalInvariant, PTL

(* With clean evictions no store is lost: a block memory does not have up  *)
(* to date stays Modified in some cache.                                   *)
THEOREM FunctionalDirtyKept == Spec => []DirtyKept
<1>1. IInv => DirtyKept
  <2> SUFFICES ASSUME IInv, cfg.clean, NEW b \in owed
               PROVE  \E set \in {l1[c] : c \in Caches} \cup {l2} : StateOf(set, b) = "M"
    BY DEF DirtyKept
  <2>0. b \in Blocks
    BY DEF IInv
  <2>1. GoodBlock(cfg.clean, View(l1, b), StateOf(l2, b), dir[b], b \in owed)
    BY <2>0 DEF IInv
  <2>2. StateOf(l2, b) = "M" \/ \E d \in Caches : View(l1, b)[d] = "M"
    BY <2>1 DEF GoodBlock
  <2>3. \A d \in Caches : View(l1, b)[d] = StateOf(l1[d], b)
    BY DEF View
  <2> QED BY <2>2, <2>3
<1> QED BY <1>1, FunctionalInvariant, PTL

(* With clean evictions a request that the L2 counts as a hit, because     *)
(* neither memory nor another L1 answered it, found the block in the L2.   *)
THEOREM FunctionalHits == Spec => HitsAreInL2
<1>1. IInv /\ [Next]_vars
        => [cfg.clean /\ counted'.class = "Hit" => StateOf(l2, counted'.block) # "I"]_vars
  <2> SUFFICES ASSUME IInv, Next
               PROVE  cfg.clean /\ counted'.class = "Hit" => StateOf(l2, counted'.block) # "I"
    OBVIOUS
  <2>1. HitOK(cfg.clean, l2, counted')
    BY NextGood
  <2> QED BY <2>1 DEF HitOK
<1> QED BY <1>1, FunctionalInvariant, PTL DEF Spec, HitsAreInL2
=============================================================================
