---------------------------- MODULE UFetchProofs ----------------------------
(***************************************************************************)
(* The fetch unit, proved for any number of lines and ways, any limits of  *)
(* its queues and any order of the program's lines.                        *)
(***************************************************************************)
EXTENDS UFetch, SequenceTheorems, FiniteSetTheorems, TLAPS

-----------------------------------------------------------------------------
(* Queues: how often an element occurs.                                    *)

Cnt(s, e) == Cardinality({i \in DOMAIN s : s[i] = e})

(* The occurrences can be counted, and there are some if it is in the queue. *)
LEMMA CntFacts ==
  ASSUME NEW X, NEW s \in Seq(X), NEW e
  PROVE  /\ IsFiniteSet({i \in DOMAIN s : s[i] = e})
         /\ Cnt(s, e) \in Nat
         /\ e \in ToSet(s) <=> Cnt(s, e) > 0
<1> DEFINE S == {i \in DOMAIN s : s[i] = e}
<1>1. Len(s) \in Nat /\ DOMAIN s = 1 .. Len(s)
  OBVIOUS
<1>2. 1 \in Int /\ Len(s) \in Int
  BY <1>1
<1>3. IsFiniteSet(1 .. Len(s))
  BY <1>2, FS_Interval, Zenon
<1>4. S \in SUBSET (1 .. Len(s))
  BY <1>1
<1>5. IsFiniteSet(S)
  BY <1>3, <1>4, FS_Subset
<1>6. Cardinality(S) \in Nat
  BY <1>5, FS_CardinalityType
<1>7. Cardinality(S) = 0 <=> S = {}
  BY <1>5, FS_EmptySet
<1>8. e \in ToSet(s) <=> S # {}
  BY DEF ToSet
<1> QED BY <1>5, <1>6, <1>7, <1>8 DEF Cnt

(* An element is added. *)
LEMMA AppendFacts ==
  ASSUME NEW X, NEW s \in Seq(X), NEW x \in X
  PROVE  /\ Append(s, x) \in Seq(X)
         /\ Len(Append(s, x)) = Len(s) + 1
         /\ DOMAIN Append(s, x) = 1 .. Len(s) + 1
         /\ DOMAIN s = 1 .. Len(s) /\ Len(s) \in Nat
         /\ Append(s, x)[Len(s) + 1] = x
         /\ \A i \in 1 .. Len(s) : Append(s, x)[i] = s[i]
         /\ ToSet(Append(s, x)) = ToSet(s) \cup {x}
         /\ \A e : Cnt(Append(s, x), e) = Cnt(s, e) + (IF x = e THEN 1 ELSE 0)
<1> DEFINE t == Append(s, x)
           n == Len(s) + 1
<1>1. /\ t \in Seq(X) /\ Len(t) = n
      /\ t[n] = x /\ \A i \in 1 .. Len(s) : t[i] = s[i]
      /\ Len(s) \in Nat
      /\ DOMAIN t = 1 .. n /\ DOMAIN s = 1 .. Len(s)
  OBVIOUS
<1> HIDE DEF t
<1>2. \A i : i \in 1 .. n <=> i \in 1 .. Len(s) \/ i = n
  BY <1>1
<1>3. ToSet(t) = ToSet(s) \cup {x}
  BY <1>1, <1>2 DEF ToSet
<1>4. ASSUME NEW e PROVE Cnt(t, e) = Cnt(s, e) + (IF x = e THEN 1 ELSE 0)
  <2> DEFINE S == {i \in DOMAIN s : s[i] = e}
             T == {i \in DOMAIN t : t[i] = e}
  <2>1. IsFiniteSet(S) /\ Cardinality(S) \in Nat
    BY CntFacts DEF Cnt
  <2>2. n \notin S
    BY <1>1
  <2>3. T = IF x = e THEN S \cup {n} ELSE S
    BY <1>1, <1>2
  <2> HIDE DEF S, T
  <2>4. Cardinality(S \cup {n}) = Cardinality(S) + 1
    BY <2>1, <2>2, FS_AddElement, Zenon
  <2>5. Cardinality(T) = Cardinality(S) + (IF x = e THEN 1 ELSE 0)
    BY <2>1, <2>3, <2>4
  <2> QED BY <2>5 DEF S, T, Cnt
<1> QED BY <1>1, <1>3, <1>4 DEF t

(* The first element is taken away. *)
LEMMA TailFacts ==
  ASSUME NEW X, NEW s \in Seq(X), s # <<>>
  PROVE  /\ Head(s) \in X /\ Head(s) = s[1] /\ 1 \in DOMAIN s
         /\ Tail(s) \in Seq(X)
         /\ Len(Tail(s)) = Len(s) - 1 /\ Len(s) \in Nat \ {0}
         /\ DOMAIN Tail(s) = 1 .. Len(s) - 1 /\ DOMAIN s = 1 .. Len(s)
         /\ \A i \in 1 .. Len(s) - 1 : Tail(s)[i] = s[i + 1]
         /\ Head(s) \in ToSet(s)
         /\ ToSet(s) = {Head(s)} \cup ToSet(Tail(s))
         /\ \A e : Cnt(Tail(s), e) = Cnt(s, e) - (IF Head(s) = e THEN 1 ELSE 0)
<1> DEFINE t == Tail(s)
<1>1. /\ Head(s) \in X /\ Head(s) = s[1]
      /\ t \in Seq(X) /\ Len(t) = Len(s) - 1 /\ Len(s) \in Nat \ {0}
      /\ DOMAIN t = 1 .. Len(s) - 1 /\ DOMAIN s = 1 .. Len(s)
      /\ \A i \in 1 .. Len(s) - 1 : t[i] = s[i + 1]
  OBVIOUS
<1> HIDE DEF t
<1>2. \A i : i \in 1 .. Len(s) <=> i = 1 \/ (i - 1 \in 1 .. Len(s) - 1 /\ i \in Int)
  BY <1>1
<1>3. ToSet(s) = {Head(s)} \cup ToSet(t)
  <2>1. \A i \in DOMAIN s : s[i] \in {Head(s)} \cup ToSet(t)
    <3> TAKE i \in DOMAIN s
    <3>1. CASE i = 1
      BY <1>1, <3>1
    <3>2. CASE i # 1
      <4>1. i - 1 \in DOMAIN t /\ t[i - 1] = s[i]
        BY <1>1, <3>2
      <4> QED BY <4>1 DEF ToSet
    <3> QED BY <3>1, <3>2
  <2>2. \A i \in DOMAIN t : t[i] \in ToSet(s)
    BY <1>1 DEF ToSet
  <2>3. Head(s) \in ToSet(s)
    BY <1>1 DEF ToSet
  <2> QED BY <2>1, <2>2, <2>3 DEF ToSet
<1>4. ASSUME NEW e PROVE Cnt(t, e) = Cnt(s, e) - (IF Head(s) = e THEN 1 ELSE 0)
  <2> DEFINE S == {i \in DOMAIN s : s[i] = e}
             T == {i \in DOMAIN t : t[i] = e}
             f == [i \in T |-> i + 1]
  <2>1. IsFiniteSet(S) /\ Cardinality(S) \in Nat /\ IsFiniteSet(T)
    BY <1>1, CntFacts DEF Cnt
  <2>2. \A i \in T : i \in Int /\ i + 1 \in S \ {1}
    BY <1>1
  <2>3. \A k \in S \ {1} : k - 1 \in T /\ k = (k - 1) + 1
    BY <1>1
  <2>4. 1 \in S <=> Head(s) = e
    BY <1>1
  <2> HIDE DEF S, T
  <2>5. f \in Bijection(T, S \ {1})
    <3>1. f \in [T -> S \ {1}]
      BY <2>2
    <3>2. \A i, j \in T : f[i] = f[j] => i = j
      BY <2>2
    <3>3. \A k \in S \ {1} : \E i \in T : f[i] = k
      BY <2>3
    <3> QED BY <3>1, <3>2, <3>3 DEF Bijection, Injection, IsInjective, Surjection
  <2>6. Cardinality(S \ {1}) = Cardinality(T)
    BY <2>1, <2>5, FS_Bijection DEF ExistsBijection
  <2>7. Cardinality(S \ {1}) = IF 1 \in S THEN Cardinality(S) - 1 ELSE Cardinality(S)
    BY <2>1, FS_RemoveElement, Zenon
  <2>8. Cardinality(T) = Cardinality(S) - (IF Head(s) = e THEN 1 ELSE 0)
    BY <2>1, <2>4, <2>6, <2>7
  <2> QED BY <2>8 DEF S, T, Cnt
<1>5. 1 \in DOMAIN s /\ Head(s) \in ToSet(s)
  BY <1>1, <1>3
<1> QED BY <1>1, <1>3, <1>4, <1>5 DEF t

-----------------------------------------------------------------------------
(* The set of the instruction cache.                                       *)

(* A line is in a set once. *)
CacheSet == {s \in Seq(Lines) : IsInjective(s)}

(* One element is taken out of a sequence. *)
LEMMA RemoveAtFacts ==
  ASSUME NEW s \in Seq(Lines), NEW i \in 1 .. Len(s)
  PROVE  LET r == RemoveAt(s, i) IN
         /\ r \in Seq(Lines) /\ Len(r) = Len(s) - 1
         /\ \A k \in 1 .. Len(s) - 1 : r[k] = IF k < i THEN s[k] ELSE s[k + 1]
<1> DEFINE n == Len(s)
           a == SubSeq(s, 1, i - 1)
           b == SubSeq(s, i + 1, n)
<1>1. n \in Nat /\ i \in 1 .. n /\ i \in Int /\ n \in Int
      /\ \A k \in 1 .. n : s[k] \in Lines
  OBVIOUS
<1>2. /\ a \in Seq(Lines) /\ Len(a) = i - 1
      /\ \A k \in 1 .. i - 1 : a[k] = s[k]
  <2>1. \A k \in 1 .. i - 1 : s[k] \in Lines
    BY <1>1
  <2>2. 1 \in Int /\ i - 1 \in Int
    BY <1>1
  <2>3. /\ a \in Seq(Lines)
        /\ Len(a) = IF 1 <= i - 1 THEN (i - 1) - 1 + 1 ELSE 0
        /\ \A k \in 1 .. (i - 1) - 1 + 1 : a[k] = s[1 + k - 1]
    BY <2>1, <2>2, SubSeqProperties
  <2> HIDE DEF a
  <2> QED BY <1>1, <2>3
<1>3. /\ b \in Seq(Lines) /\ Len(b) = n - i
      /\ \A k \in 1 .. n - i : b[k] = s[i + k]
  <2>1. \A k \in i + 1 .. n : s[k] \in Lines
    BY <1>1
  <2>2. i + 1 \in Int /\ n \in Int
    BY <1>1
  <2>3. /\ b \in Seq(Lines)
        /\ Len(b) = IF i + 1 <= n THEN n - (i + 1) + 1 ELSE 0
        /\ \A k \in 1 .. n - (i + 1) + 1 : b[k] = s[(i + 1) + k - 1]
    BY <2>1, <2>2, SubSeqProperties
  <2> HIDE DEF b, n
  <2> QED BY <1>1, <2>3
<1>4. RemoveAt(s, i) = a \o b
  BY DEF RemoveAt
<1> HIDE DEF a, b
<1>5. /\ a \o b \in Seq(Lines)
      /\ Len(a \o b) = Len(a) + Len(b)
      /\ \A k \in 1 .. Len(a) + Len(b) :
           (a \o b)[k] = IF k <= Len(a) THEN a[k] ELSE b[k - Len(a)]
  BY <1>2, <1>3, ConcatProperties
<1> DEFINE r == a \o b
<1> HIDE DEF r, n
<1>6. Len(r) = n - 1 /\ \A k \in 1 .. n - 1 : r[k] = IF k <= i - 1 THEN a[k] ELSE b[k - (i - 1)]
  <2>1. Len(a) + Len(b) = n - 1
    BY <1>1, <1>2, <1>3
  <2> QED BY <1>2, <1>5, <2>1 DEF r
<1>7. \A k \in 1 .. n - 1 : r[k] = IF k < i THEN s[k] ELSE s[k + 1]
  <2> TAKE k \in 1 .. n - 1
  <2>1. CASE k < i
    <3>1. k \in 1 .. i - 1 /\ k <= i - 1
      BY <1>1, <2>1
    <3> QED BY <1>2, <1>6, <2>1, <3>1
  <2>2. CASE ~(k < i)
    <3>1. ~(k <= i - 1) /\ k - (i - 1) \in 1 .. n - i /\ i + (k - (i - 1)) = k + 1
      BY <1>1, <2>2
    <3>2. b[k - (i - 1)] = s[i + (k - (i - 1))]
      BY <1>3, <3>1
    <3> QED BY <1>6, <2>2, <3>1, <3>2
  <2> QED BY <2>1, <2>2
<1> QED BY <1>4, <1>5, <1>6, <1>7 DEF r, n

(* inval takes a line out and leaves the others. *)
LEMMA EraseFacts ==
  ASSUME NEW s \in CacheSet, NEW l
  PROVE  /\ Erase(s, l) \in CacheSet
         /\ ToSet(Erase(s, l)) = ToSet(s) \ {l}
         /\ Len(Erase(s, l)) \in Nat /\ Len(s) \in Nat
         /\ Len(Erase(s, l)) = Len(s) - (IF l \in ToSet(s) THEN 1 ELSE 0)
<1>1. s \in Seq(Lines) /\ Len(s) \in Nat /\ DOMAIN s = 1 .. Len(s)
      /\ \A i, j \in DOMAIN s : s[i] = s[j] => i = j
  BY DEF CacheSet, IsInjective
<1>2. CASE l \notin ToSet(s)
  BY <1>1, <1>2 DEF Erase
<1>3. CASE l \in ToSet(s)
  <2> DEFINE i == CHOOSE j \in DOMAIN s : s[j] = l
             r == RemoveAt(s, i)
             n == Len(s)
  <2>1. i \in 1 .. n /\ s[i] = l
    BY <1>1, <1>3 DEF ToSet
  <2>2. Erase(s, l) = r
    BY <1>3 DEF Erase
  <2>3. /\ r \in Seq(Lines) /\ Len(r) = n - 1
        /\ \A k \in 1 .. n - 1 : r[k] = IF k < i THEN s[k] ELSE s[k + 1]
    BY <1>1, <2>1, RemoveAtFacts
  <2> HIDE DEF i, r
  <2>4. DOMAIN r = 1 .. n - 1
    BY <2>3
  <2>5. IsInjective(r)
    <3> SUFFICES ASSUME NEW a \in 1 .. n - 1, NEW b \in 1 .. n - 1, r[a] = r[b]
                 PROVE  a = b
      BY <2>4 DEF IsInjective
    <3>1. PICK x \in 1 .. n : r[a] = s[x] /\ x = IF a < i THEN a ELSE a + 1
      BY <1>1, <2>3
    <3>2. PICK y \in 1 .. n : r[b] = s[y] /\ y = IF b < i THEN b ELSE b + 1
      BY <1>1, <2>3
    <3>3. x = y
      BY <1>1, <3>1, <3>2
    <3> QED BY <1>1, <2>1, <3>1, <3>2, <3>3
  <2>6. \A k \in 1 .. n - 1 : r[k] \in ToSet(s) \ {l}
    <3> TAKE k \in 1 .. n - 1
    <3>1. PICK x \in 1 .. n : r[k] = s[x] /\ x = IF k < i THEN k ELSE k + 1
      BY <1>1, <2>3
    <3>2. x # i
      BY <1>1, <2>1, <3>1
    <3> QED BY <1>1, <2>1, <3>1, <3>2 DEF ToSet
  <2>7. \A x \in 1 .. n : s[x] # l => s[x] \in ToSet(r)
    <3> SUFFICES ASSUME NEW x \in 1 .. n, s[x] # l PROVE s[x] \in ToSet(r)
      OBVIOUS
    <3>1. x # i
      BY <2>1
    <3>2. \E k \in 1 .. n - 1 : r[k] = s[x]
      <4>1. CASE x < i
        <5>1. x \in 1 .. n - 1 /\ r[x] = s[x]
          BY <1>1, <2>1, <2>3, <4>1
        <5> QED BY <5>1
      <4>2. CASE ~(x < i)
        <5>1. x - 1 \in 1 .. n - 1 /\ ~(x - 1 < i) /\ (x - 1) + 1 = x
          BY <1>1, <2>1, <3>1, <4>2
        <5>2. r[x - 1] = s[x]
          BY <2>3, <5>1
        <5> QED BY <5>1, <5>2
      <4> QED BY <4>1, <4>2
    <3> QED BY <2>4, <3>2 DEF ToSet
  <2>8. ToSet(r) = ToSet(s) \ {l}
    BY <1>1, <2>4, <2>6, <2>7 DEF ToSet
  <2>9. n \in Nat /\ n - 1 \in Nat
    BY <1>1, <2>1
  <2> QED BY <1>3, <2>2, <2>3, <2>5, <2>8, <2>9 DEF CacheSet
<1> QED BY <1>2, <1>3

(* A line that is not there is added. *)
LEMMA AddFacts ==
  ASSUME NEW s \in CacheSet, NEW l \in Lines, l \notin ToSet(s)
  PROVE  /\ Append(s, l) \in CacheSet
         /\ ToSet(Append(s, l)) = ToSet(s) \cup {l}
         /\ Len(Append(s, l)) = Len(s) + 1 /\ Len(s) \in Nat
<1>1. s \in Seq(Lines) /\ \A i, j \in DOMAIN s : s[i] = s[j] => i = j
  BY DEF CacheSet, IsInjective
<1>2. /\ Append(s, l) \in Seq(Lines)
      /\ Len(Append(s, l)) = Len(s) + 1
      /\ DOMAIN Append(s, l) = 1 .. Len(s) + 1
      /\ DOMAIN s = 1 .. Len(s) /\ Len(s) \in Nat
      /\ Append(s, l)[Len(s) + 1] = l
      /\ \A i \in 1 .. Len(s) : Append(s, l)[i] = s[i]
      /\ ToSet(Append(s, l)) = ToSet(s) \cup {l}
  BY <1>1, AppendFacts
<1>3. \A i \in 1 .. Len(s) : s[i] # l
  BY <1>2 DEF ToSet
<1>4. IsInjective(Append(s, l))
  <2> SUFFICES ASSUME NEW i \in 1 .. Len(s) + 1, NEW j \in 1 .. Len(s) + 1,
                      Append(s, l)[i] = Append(s, l)[j]
               PROVE  i = j
    BY <1>2 DEF IsInjective
  <2> QED BY <1>1, <1>2, <1>3
<1> QED BY <1>2, <1>4 DEF CacheSet

(* The least recently used line leaves. *)
LEMMA PopFacts ==
  ASSUME NEW s \in CacheSet, s # <<>>
  PROVE  /\ Tail(s) \in CacheSet
         /\ Head(s) \in Lines
         /\ ToSet(Tail(s)) = ToSet(s) \ {Head(s)}
         /\ Len(Tail(s)) = Len(s) - 1 /\ Len(s) \in Nat \ {0}
<1>1. s \in Seq(Lines) /\ \A i, j \in DOMAIN s : s[i] = s[j] => i = j
  BY DEF CacheSet, IsInjective
<1>2. /\ Head(s) \in Lines /\ Head(s) = s[1] /\ 1 \in DOMAIN s
      /\ Tail(s) \in Seq(Lines)
      /\ Len(Tail(s)) = Len(s) - 1 /\ Len(s) \in Nat \ {0}
      /\ DOMAIN Tail(s) = 1 .. Len(s) - 1 /\ DOMAIN s = 1 .. Len(s)
      /\ \A i \in 1 .. Len(s) - 1 : Tail(s)[i] = s[i + 1]
      /\ ToSet(s) = {Head(s)} \cup ToSet(Tail(s))
  BY <1>1, TailFacts
<1>3. IsInjective(Tail(s))
  <2> SUFFICES ASSUME NEW i \in 1 .. Len(s) - 1, NEW j \in 1 .. Len(s) - 1,
                      Tail(s)[i] = Tail(s)[j]
               PROVE  i = j
    BY <1>2 DEF IsInjective
  <2>1. i + 1 \in DOMAIN s /\ j + 1 \in DOMAIN s /\ s[i + 1] = s[j + 1]
    BY <1>2
  <2> QED BY <1>1, <1>2, <2>1
<1>4. \A i \in 1 .. Len(s) - 1 : Tail(s)[i] # Head(s)
  <2> TAKE i \in 1 .. Len(s) - 1
  <2>1. i + 1 \in DOMAIN s /\ i + 1 # 1 /\ Tail(s)[i] = s[i + 1]
    BY <1>2
  <2> QED BY <1>1, <1>2, <2>1
<1>5. Head(s) \notin ToSet(Tail(s))
  BY <1>2, <1>4 DEF ToSet
<1> QED BY <1>2, <1>3, <1>5 DEF CacheSet

(* lookup changes the order only. *)
LEMMA TouchFacts ==
  ASSUME NEW s \in CacheSet, NEW l
  PROVE  Touch(s, l) \in CacheSet /\ ToSet(Touch(s, l)) = ToSet(s) /\ Len(Touch(s, l)) = Len(s)
<1>1. CASE l \notin ToSet(s)
  BY <1>1 DEF Touch
<1>2. CASE l \in ToSet(s)
  <2>1. /\ Erase(s, l) \in CacheSet
        /\ ToSet(Erase(s, l)) = ToSet(s) \ {l}
        /\ Len(s) \in Nat /\ Len(Erase(s, l)) = Len(s) - 1
    BY <1>2, EraseFacts
  <2>2. l \in Lines
    BY <1>2 DEF CacheSet, ToSet
  <2>3. Touch(s, l) = Append(Erase(s, l), l)
    BY <1>2 DEF Touch
  <2>4. /\ Append(Erase(s, l), l) \in CacheSet
        /\ ToSet(Append(Erase(s, l), l)) = ToSet(Erase(s, l)) \cup {l}
        /\ Len(Append(Erase(s, l), l)) = Len(Erase(s, l)) + 1
    BY <2>1, <2>2, AddFacts
  <2> QED BY <1>2, <2>1, <2>3, <2>4
<1> QED BY <1>1, <1>2

(* A fill: the line is in, and the one that Replaced names is out. *)
LEMMA InsertedFacts ==
  ASSUME theI \in CacheSet, Len(theI) <= Assoc, NEW l \in Lines
  PROVE  /\ Inserted(l) \in CacheSet /\ Len(Inserted(l)) <= Assoc
         /\ l \in ToSet(Inserted(l))
         /\ Replaced(l) \in MaybeLine
         /\ \A x : Hit(x) => x \in ToSet(Inserted(l)) \/ x = Replaced(l)
<1>1. Assoc \in Nat \ {0} /\ Len(theI) \in Nat
  BY SizesAssumption DEF CacheSet
<1>2. CASE Hit(l)
  <2>1. Inserted(l) = Touch(theI, l) /\ Replaced(l) = NoLine
    BY <1>2 DEF Inserted, Touched, Replaced
  <2> QED BY <1>2, <2>1, TouchFacts DEF Hit, MaybeLine
<1>3. CASE ~Hit(l) /\ ~Full
  <2>1. Inserted(l) = Append(theI, l) /\ Replaced(l) = NoLine
    BY <1>3 DEF Inserted, Replaced
  <2>2. /\ Append(theI, l) \in CacheSet
        /\ ToSet(Append(theI, l)) = ToSet(theI) \cup {l}
        /\ Len(Append(theI, l)) = Len(theI) + 1
    BY <1>3, AddFacts DEF Hit
  <2> QED BY <1>1, <1>3, <2>1, <2>2 DEF Hit, MaybeLine, Full
<1>4. CASE ~Hit(l) /\ Full
  <2>1. Inserted(l) = Append(Tail(theI), l) /\ Replaced(l) = Head(theI)
    BY <1>4 DEF Inserted, Replaced
  <2>2. theI # <<>>
    BY <1>1, <1>4 DEF Full
  <2>3. /\ Tail(theI) \in CacheSet
        /\ Head(theI) \in Lines
        /\ ToSet(Tail(theI)) = ToSet(theI) \ {Head(theI)}
        /\ Len(Tail(theI)) = Len(theI) - 1
    BY <2>2, PopFacts
  <2>4. /\ Append(Tail(theI), l) \in CacheSet
        /\ ToSet(Append(Tail(theI), l)) = ToSet(Tail(theI)) \cup {l}
        /\ Len(Append(Tail(theI), l)) = Len(Tail(theI)) + 1
    BY <1>4, <2>3, AddFacts DEF Hit
  <2> QED BY <1>1, <2>1, <2>3, <2>4 DEF Hit, MaybeLine
<1> QED BY <1>2, <1>3, <1>4

-----------------------------------------------------------------------------
(* The inductive invariant.                                                *)

(* Messages with which the directory takes part in a transaction. *)
Writes == {"Invalidate", "WriteFwd"}
Directed == {"FetchFwd"} \cup Writes

(* Here, or leaving: what a forward needs. *)
Findable(l) == Hit(l) \/ l \in evictSet

(* A fetch waits in theMissQueue until the eviction before it has ended,   *)
(* so nothing follows an EvictClean to the directory.                      *)
EvictLast(l) ==
  \A i \in DOMAIN request[l] : request[l][i] = "EvictClean" => i = Len(request[l])

(* Once the directory has acknowledged the eviction it knows nothing of    *)
(* the line until the EvictAck has arrived.                                *)
AckAlone(l) ==
  InSnoop("EvictAck", l) => request[l] = <<>> /\ transaction[l] = "none" /\ l \notin sharer

(* A transaction sends one message, and ends only when it is consumed. *)
OneDirected(l) ==
  /\ \A i, j \in DOMAIN snoop[l] :
       snoop[l][i] \in Directed /\ snoop[l][j] \in Directed => i = j
  /\ InSnoop("FetchFwd", l) => transaction[l] = "forwarded" /\ l \in sharer
  /\ (\E type \in Writes : InSnoop(type, l)) => transaction[l] = "write" /\ l \in sharer

(* A line the directory will forward to is here or leaving, except between *)
(* its invalidation and the WriteAck; and so is one whose FetchAck is      *)
(* under way.                                                              *)
SharersFindable(l) ==
  /\ l \in sharer /\ (transaction[l] # "write" \/ \E type \in Writes : InSnoop(type, l))
       => Findable(l)
  /\ transaction[l] = "ack" => Findable(l)

LineInv(l) == EvictLast(l) /\ AckAlone(l) /\ OneDirected(l) /\ SharersFindable(l)

(* A line that is asked for again before the directory has the FetchAck of *)
(* the last fill has been evicted meanwhile: its fetch waits for the       *)
(* EvictAck, and is not the one the directory ignores.                     *)
RefetchWaits ==
  \A l \in {miss, prefetch} \ {NoLine} : transaction[l] = "ack" => l \in evictSet

IInv ==
  TypeOK /\ OneEvictEach /\ (\A l \in Lines : LineInv(l)) /\ MissOnItsWay /\ RefetchWaits

-----------------------------------------------------------------------------
(* Types.                                                                  *)

Message == [type : RequestTypes, line : Lines]

(* The parts of the type invariant the proofs use. *)
LEMMA Typed ==
  ASSUME TypeOK
  PROVE  /\ theI \in CacheSet /\ Len(theI) <= Assoc
         /\ missQueue \in Seq(Message)
         /\ {pc, miss, prefetch, lastPrefetch} \subseteq MaybeLine
         /\ \A l \in Lines : /\ request[l] \in Seq(RequestTypes)
                             /\ snoop[l] \in Seq(SnoopTypes)
                             /\ transaction[l] \in Transactions
BY DEF TypeOK, CacheSet, Message

(* A message to the directory. *)
LEMMA QueuedType ==
  ASSUME NEW type \in RequestTypes, NEW l \in Lines
  PROVE  Queued(type, l) \in Message /\ Queued(type, l).type = type /\ Queued(type, l).line = l
BY DEF Queued, Message

(* prefetchNext: the cache keeps its lines, and a line the prefetcher      *)
(* takes for asked for has a new fetch or is the one it waited for.        *)
LEMMA PrefetchFacts ==
  ASSUME TypeOK, NEW l \in Lines, NEW set \in CacheSet, ToSet(set) = ToSet(theI),
         Len(set) <= Assoc, NEW queue \in Seq(Message), NEW pf \in MaybeLine,
         PrefetchNext(l, set, queue, pf)
  PROVE  /\ theI' \in CacheSet /\ ToSet(theI') = ToSet(theI) /\ Len(theI') <= Assoc
         /\ missQueue' \in Seq(Message)
         /\ \A x : Cnt(missQueue', Queued("EvictClean", x)) = Cnt(queue, Queued("EvictClean", x))
         /\ ToSet(queue) \subseteq ToSet(missQueue')
         /\ {prefetch', lastPrefetch'} \subseteq MaybeLine
         /\ prefetch' = pf \/ (~Hit(prefetch') /\ Queued("FetchReq", prefetch') \in ToSet(missQueue'))
<1> DEFINE next == NextLine[l]
           tried == Len(queue) < MissQueueSize
           wanted == tried /\ next # NoLine /\ ~Hit(next)
<1>1. next \in MaybeLine /\ l \in MaybeLine /\ NoLine \in MaybeLine
  BY LinesAssumption DEF MaybeLine
<1>2. theI' = IF tried THEN Touch(set, next) ELSE set
  BY DEF PrefetchNext
<1>3. theI' \in CacheSet /\ ToSet(theI') = ToSet(theI) /\ Len(theI') <= Assoc
  BY <1>2, TouchFacts
<1>4. /\ missQueue' = IF wanted THEN Append(queue, Queued("FetchReq", next)) ELSE queue
      /\ prefetch' = IF wanted THEN next ELSE pf
      /\ lastPrefetch' = IF ~tried THEN l ELSE IF wanted THEN next ELSE NoLine
  BY DEF PrefetchNext
<1> HIDE DEF next, tried
<1>5. CASE wanted
  <2>1. next \in Lines /\ "FetchReq" \in RequestTypes
    BY <1>1, <1>5 DEF MaybeLine, RequestTypes
  <2>2. Queued("FetchReq", next) \in Message
    BY <2>1, QueuedType
  <2>3. \A x : Queued("EvictClean", x) # Queued("FetchReq", next)
    BY DEF Queued
  <2>4. missQueue' = Append(queue, Queued("FetchReq", next)) /\ prefetch' = next
        /\ lastPrefetch' \in MaybeLine
    BY <1>1, <1>4, <1>5
  <2>5. /\ missQueue' \in Seq(Message)
        /\ ToSet(missQueue') = ToSet(queue) \cup {Queued("FetchReq", next)}
        /\ \A e : Cnt(missQueue', e) = Cnt(queue, e) + (IF Queued("FetchReq", next) = e THEN 1 ELSE 0)
    BY <2>2, <2>4, AppendFacts
  <2>6. \A x : Cnt(queue, Queued("EvictClean", x)) \in Nat
    BY CntFacts
  <2>7. \A x : Cnt(missQueue', Queued("EvictClean", x)) = Cnt(queue, Queued("EvictClean", x))
    BY <2>3, <2>5, <2>6
  <2> QED BY <1>1, <1>3, <1>5, <2>4, <2>5, <2>7
<1>6. CASE ~wanted
  <2>1. missQueue' = queue /\ prefetch' = pf /\ lastPrefetch' \in MaybeLine
    BY <1>1, <1>4, <1>6
  <2> QED BY <1>3, <2>1
<1> QED BY <1>5, <1>6

(* What a step of the fetch pipeline does. *)
FrontStep ==
  /\ theI' \in CacheSet /\ ToSet(theI') = ToSet(theI) /\ Len(theI') <= Assoc
  /\ missQueue' \in Seq(Message)
  /\ \A x : Cnt(missQueue', Queued("EvictClean", x)) = Cnt(missQueue, Queued("EvictClean", x))
  /\ ToSet(missQueue) \subseteq ToSet(missQueue')
  /\ {pc', miss', prefetch', lastPrefetch'} \subseteq MaybeLine
  /\ \A l \in {miss', prefetch'} \ {NoLine} :
       \/ l \in {miss, prefetch}
       \/ ~Hit(l) /\ Queued("FetchReq", l) \in ToSet(missQueue')
  /\ UNCHANGED <<evictSet, dirVars, failed>>

(* A hit, a miss, an address without translation and a squash. *)
LEMMA FrontSteps ==
  ASSUME TypeOK, FetchUntranslated \/ FetchHit \/ FetchMiss \/ Squash
  PROVE  FrontStep
<1>1. /\ theI \in CacheSet /\ Len(theI) <= Assoc
      /\ missQueue \in Seq(Message)
      /\ {pc, miss, prefetch, lastPrefetch} \subseteq MaybeLine
  BY Typed
<1>2. NoLine \in MaybeLine /\ (\A l \in MaybeLine : l # NoLine => l \in Lines)
  BY DEF MaybeLine
<1>3. CASE FetchUntranslated
  BY <1>1, <1>3 DEF FetchUntranslated, FrontStep
<1>4. CASE Squash
  BY <1>1, <1>2, <1>4 DEF Squash, FrontStep
<1>5. CASE FetchHit
  <2>1. pc' \in MaybeLine /\ miss' = miss /\ UNCHANGED <<evictSet, dirVars, failed>>
    BY <1>5 DEF FetchHit
  <2>2. pc \in Lines
    BY <1>1, <1>5 DEF FetchHit, Hit, CacheSet, ToSet
  <2>3. Touched(pc) \in CacheSet /\ ToSet(Touched(pc)) = ToSet(theI) /\ Len(Touched(pc)) <= Assoc
    BY <1>1, TouchFacts DEF Touched
  <2>4. CASE lastPrefetch = pc
    <3>1. PrefetchNext(pc, Touched(pc), missQueue, prefetch)
      BY <1>5, <2>4 DEF FetchHit
    <3>2. prefetch \in MaybeLine
      BY <1>1
    <3>3. /\ theI' \in CacheSet /\ ToSet(theI') = ToSet(theI) /\ Len(theI') <= Assoc
          /\ missQueue' \in Seq(Message)
          /\ \A x : Cnt(missQueue', Queued("EvictClean", x)) = Cnt(missQueue, Queued("EvictClean", x))
          /\ ToSet(missQueue) \subseteq ToSet(missQueue')
          /\ {prefetch', lastPrefetch'} \subseteq MaybeLine
          /\ prefetch' = prefetch
               \/ (~Hit(prefetch') /\ Queued("FetchReq", prefetch') \in ToSet(missQueue'))
      BY <1>1, <2>2, <2>3, <3>1, <3>2, PrefetchFacts
    <3> QED BY <1>1, <2>1, <3>3 DEF FrontStep
  <2>5. CASE lastPrefetch # pc
    <3>1. theI' = Touched(pc) /\ missQueue' = missQueue /\ prefetch' = prefetch
          /\ lastPrefetch' = lastPrefetch
      BY <1>5, <2>5 DEF FetchHit
    <3> QED BY <1>1, <2>1, <2>3, <3>1 DEF FrontStep
  <2> QED BY <2>4, <2>5
<1>6. CASE FetchMiss
  <2>1. /\ pc \in Lines /\ ~Hit(pc) /\ pc' = pc /\ miss' = pc
        /\ UNCHANGED <<evictSet, dirVars, failed>>
    BY <1>1, <1>2, <1>6 DEF FetchMiss
  <2>2. CASE prefetch = pc /\ lastPrefetch = NoLine
    <3>1. prefetch' = NoLine /\ theI' = theI /\ missQueue' = missQueue
          /\ lastPrefetch' = lastPrefetch
      BY <1>6, <2>2 DEF FetchMiss
    <3> QED BY <1>1, <1>2, <2>1, <2>2, <3>1 DEF FrontStep
  <2>3. CASE prefetch = pc /\ lastPrefetch # NoLine
    <3>1. PrefetchNext(lastPrefetch, theI, missQueue, NoLine)
      BY <1>6, <2>3 DEF FetchMiss
    <3>2. lastPrefetch \in Lines
      BY <1>1, <1>2, <2>3
    <3>3. /\ theI' \in CacheSet /\ ToSet(theI') = ToSet(theI) /\ Len(theI') <= Assoc
          /\ missQueue' \in Seq(Message)
          /\ \A x : Cnt(missQueue', Queued("EvictClean", x)) = Cnt(missQueue, Queued("EvictClean", x))
          /\ ToSet(missQueue) \subseteq ToSet(missQueue')
          /\ {prefetch', lastPrefetch'} \subseteq MaybeLine
          /\ prefetch' = NoLine
               \/ (~Hit(prefetch') /\ Queued("FetchReq", prefetch') \in ToSet(missQueue'))
      BY <1>1, <1>2, <3>1, <3>2, PrefetchFacts
    <3> QED BY <1>1, <2>1, <2>3, <3>3 DEF FrontStep
  <2>4. CASE prefetch # pc
    <3> DEFINE queue == Append(missQueue, Queued("FetchReq", pc))
    <3>1. PrefetchNext(pc, theI, queue, NoLine)
      BY <1>6, <2>4 DEF FetchMiss
    <3>2. Queued("FetchReq", pc) \in Message /\ \A x : Queued("EvictClean", x) # Queued("FetchReq", pc)
      <4>1. "FetchReq" \in RequestTypes
        BY DEF RequestTypes
      <4>2. \A x : Queued("EvictClean", x) # Queued("FetchReq", pc)
        BY DEF Queued
      <4> QED BY <2>1, <4>1, <4>2, QueuedType
    <3>3. /\ queue \in Seq(Message)
          /\ ToSet(queue) = ToSet(missQueue) \cup {Queued("FetchReq", pc)}
          /\ \A e : Cnt(queue, e) = Cnt(missQueue, e) + (IF Queued("FetchReq", pc) = e THEN 1 ELSE 0)
      BY <1>1, <3>2, AppendFacts
    <3>4. \A x : Cnt(missQueue, Queued("EvictClean", x)) \in Nat
      BY <1>1, CntFacts
    <3>5. \A x : Cnt(queue, Queued("EvictClean", x)) = Cnt(missQueue, Queued("EvictClean", x))
      BY <3>2, <3>3, <3>4
    <3> HIDE DEF queue
    <3>6. /\ theI' \in CacheSet /\ ToSet(theI') = ToSet(theI) /\ Len(theI') <= Assoc
          /\ missQueue' \in Seq(Message)
          /\ \A x : Cnt(missQueue', Queued("EvictClean", x)) = Cnt(queue, Queued("EvictClean", x))
          /\ ToSet(queue) \subseteq ToSet(missQueue')
          /\ {prefetch', lastPrefetch'} \subseteq MaybeLine
          /\ prefetch' = NoLine
               \/ (~Hit(prefetch') /\ Queued("FetchReq", prefetch') \in ToSet(missQueue'))
      BY <1>1, <1>2, <2>1, <3>1, <3>3, PrefetchFacts
    <3>7. \A x : Cnt(missQueue', Queued("EvictClean", x)) = Cnt(missQueue, Queued("EvictClean", x))
      BY <3>5, <3>6
    <3>8. /\ ToSet(missQueue) \subseteq ToSet(missQueue')
          /\ Queued("FetchReq", pc) \in ToSet(missQueue')
      BY <3>3, <3>6
    <3> QED BY <1>1, <1>2, <2>1, <3>6, <3>7, <3>8 DEF FrontStep
  <2> QED BY <2>2, <2>3, <2>4
<1> QED BY <1>3, <1>4, <1>5, <1>6

(* issueEvict *)
LEMMA IssueEvictFacts ==
  ASSUME TypeOK, NEW l \in MaybeLine, IssueEvict(l)
  PROVE  /\ missQueue' \in Seq(Message) /\ evictSet' \subseteq Lines /\ failed' \in BOOLEAN
         /\ evictSet \subseteq evictSet'
         /\ ToSet(missQueue) \subseteq ToSet(missQueue')
         /\ CleanEvict /\ l # NoLine => l \in evictSet'
         /\ \A x \in Lines : x \notin evictSet =>
              Cnt(missQueue', Queued("EvictClean", x)) =
                Cnt(missQueue, Queued("EvictClean", x)) + (IF x \in evictSet' THEN 1 ELSE 0)
         /\ \A x \in Lines : x \in evictSet =>
              Cnt(missQueue', Queued("EvictClean", x)) = Cnt(missQueue, Queued("EvictClean", x))
<1>1. missQueue \in Seq(Message) /\ evictSet \subseteq Lines /\ failed \in BOOLEAN
  BY Typed DEF TypeOK
<1>2. \A e : Cnt(missQueue, e) \in Nat
  BY <1>1, CntFacts
<1>3. CASE ~CleanEvict \/ l = NoLine \/ l \in evictSet
  <2>1. missQueue' = missQueue /\ evictSet' = evictSet /\ failed' \in BOOLEAN
    BY <1>1, <1>3 DEF IssueEvict
  <2> QED BY <1>1, <1>2, <1>3, <2>1
<1>4. CASE CleanEvict /\ l # NoLine /\ l \notin evictSet
  <2>1. evictSet' = evictSet \cup {l} /\ failed' = failed
        /\ missQueue' = Append(missQueue, Queued("EvictClean", l))
    BY <1>4 DEF IssueEvict
  <2>2. l \in Lines /\ "EvictClean" \in RequestTypes
    BY <1>4 DEF MaybeLine, RequestTypes
  <2>3. Queued("EvictClean", l) \in Message
    BY <2>2, QueuedType
  <2>4. /\ missQueue' \in Seq(Message)
        /\ ToSet(missQueue') = ToSet(missQueue) \cup {Queued("EvictClean", l)}
        /\ \A e : Cnt(missQueue', e) = Cnt(missQueue, e) + (IF Queued("EvictClean", l) = e THEN 1 ELSE 0)
    BY <1>1, <2>1, <2>3, AppendFacts
  <2>5. \A x : Queued("EvictClean", l) = Queued("EvictClean", x) <=> x = l
    BY DEF Queued
  <2>6. \A x : Cnt(missQueue', Queued("EvictClean", x)) =
                 Cnt(missQueue, Queued("EvictClean", x)) + (IF x = l THEN 1 ELSE 0)
    BY <2>4, <2>5
  <2> QED BY <1>1, <1>2, <1>4, <2>1, <2>2, <2>4, <2>6
<1> QED BY <1>3, <1>4

(* The types are preserved by every step. *)
LEMMA TypeStep == TypeOK /\ [Next]_vars => TypeOK'
<1> SUFFICES ASSUME TypeOK, [Next]_vars PROVE TypeOK'
  OBVIOUS
<1>1. /\ theI \in CacheSet /\ Len(theI) <= Assoc
      /\ missQueue \in Seq(Message)
      /\ {pc, miss, prefetch, lastPrefetch} \subseteq MaybeLine
      /\ \A l \in Lines : /\ request[l] \in Seq(RequestTypes)
                          /\ snoop[l] \in Seq(SnoopTypes)
                          /\ transaction[l] \in Transactions
  BY Typed
<1>2. /\ request \in [Lines -> Seq(RequestTypes)]
      /\ snoop \in [Lines -> Seq(SnoopTypes)]
      /\ transaction \in [Lines -> Transactions]
      /\ evictSet \subseteq Lines /\ sharer \subseteq Lines /\ failed \in BOOLEAN
      /\ {pc, miss, prefetch, lastPrefetch} \subseteq MaybeLine
      /\ theI \in Seq(Lines) /\ IsInjective(theI) /\ Len(theI) <= Assoc
      /\ missQueue \in Seq([type : RequestTypes, line : Lines])
  BY DEF TypeOK
<1>3. {"reply", "ack", "none", "forwarded", "write"} \subseteq Transactions
  BY DEF Transactions
<1>4. \A l \in Lines, type \in SnoopTypes :
        /\ Append(snoop[l], type) \in Seq(SnoopTypes)
        /\ snoop[l] # <<>> => /\ Tail(snoop[l]) \in Seq(SnoopTypes)
                              /\ Append(Tail(snoop[l]), type) \in Seq(SnoopTypes)
  BY <1>1
<1>5. \A l \in Lines : request[l] # <<>> => Tail(request[l]) \in Seq(RequestTypes)
  BY <1>1
<1>6. SnoopTypes = {"FetchFwd", "ReadFwd", "WriteFwd", "Invalidate", "EvictAck"}
  BY DEF SnoopTypes
<1>7. CASE UNCHANGED vars
  BY <1>2, <1>7 DEF vars, fetchVars, dirVars, TypeOK
<1>8. CASE FetchUntranslated \/ FetchHit \/ FetchMiss \/ Squash
  <2>1. FrontStep
    BY <1>8, FrontSteps
  <2> QED BY <1>2, <2>1 DEF FrontStep, CacheSet, dirVars, Message, TypeOK
<1>9. CASE SendMiss
  <2> DEFINE m == Head(missQueue)
  <2>1. /\ missQueue # <<>> /\ missQueue' = Tail(missQueue)
        /\ request' = [request EXCEPT ![m.line] = Append(@, m.type)]
        /\ UNCHANGED <<pc, theI, miss, prefetch, lastPrefetch, evictSet,
                       snoop, transaction, sharer, failed>>
    BY <1>9 DEF SendMiss
  <2>2. m \in Message /\ Tail(missQueue) \in Seq(Message)
    BY <1>1, <2>1, TailFacts
  <2> HIDE DEF m
  <2>3. m.line \in Lines /\ m.type \in RequestTypes
    BY <2>2 DEF Message
  <2>4. Append(request[m.line], m.type) \in Seq(RequestTypes)
    BY <1>1, <2>3
  <2>5. request' \in [Lines -> Seq(RequestTypes)]
    BY <1>2, <2>1, <2>4
  <2> QED BY <1>2, <2>1, <2>2, <2>5 DEF Message, TypeOK
<1>10. ASSUME NEW l \in Lines, Fill(l) PROVE TypeOK'
  <2>1. /\ theI' = Inserted(l) /\ IssueEvict(Replaced(l))
        /\ miss' \in {miss, NoLine} /\ prefetch' \in {prefetch, NoLine}
        /\ transaction' = [transaction EXCEPT ![l] = "ack"]
        /\ UNCHANGED <<pc, lastPrefetch, request, snoop, sharer>>
    BY <1>10 DEF Fill
  <2>2. Inserted(l) \in CacheSet /\ Len(Inserted(l)) <= Assoc /\ Replaced(l) \in MaybeLine
    BY <1>1, InsertedFacts
  <2>3. missQueue' \in Seq(Message) /\ evictSet' \subseteq Lines /\ failed' \in BOOLEAN
    BY <2>1, <2>2, IssueEvictFacts
  <2>4. {pc', miss', prefetch', lastPrefetch'} \subseteq MaybeLine
    BY <1>2, <2>1 DEF MaybeLine
  <2> QED BY <1>2, <1>3, <2>1, <2>2, <2>3, <2>4 DEF CacheSet, Message, TypeOK
<1>11. ASSUME NEW l \in Lines, Invalidate(l) PROVE TypeOK'
  <2>1. /\ snoop[l] # <<>> /\ snoop' = [snoop EXCEPT ![l] = Tail(@)]
        /\ theI' = Erase(theI, l)
        /\ UNCHANGED <<pc, miss, prefetch, lastPrefetch, missQueue, request, sharer>>
        /\ UNCHANGED <<evictSet, transaction, failed>>
    BY <1>11 DEF Invalidate, SnoopArrives, Consume
  <2>2. Erase(theI, l) \in CacheSet /\ Len(Erase(theI, l)) <= Assoc
    BY <1>1, EraseFacts, SizesAssumption
  <2> QED BY <1>2, <1>4, <1>6, <2>1, <2>2 DEF CacheSet, TypeOK
<1>12. ASSUME NEW l \in Lines, ReadFwd(l) PROVE TypeOK'
  <2>1. /\ snoop[l] # <<>> /\ snoop' = [snoop EXCEPT ![l] = Tail(@)]
        /\ theI' = Touched(l)
        /\ UNCHANGED <<pc, miss, prefetch, lastPrefetch, missQueue, request, sharer>>
        /\ UNCHANGED <<evictSet, transaction, failed>>
    BY <1>12 DEF ReadFwd, SnoopArrives, Consume
  <2>2. Touched(l) \in CacheSet /\ Len(Touched(l)) <= Assoc
    BY <1>1, TouchFacts DEF Touched
  <2> QED BY <1>2, <1>4, <1>6, <2>1, <2>2 DEF CacheSet, TypeOK
<1>13. ASSUME NEW l \in Lines, FetchFwd(l) PROVE TypeOK'
  <2>1. /\ snoop[l] # <<>> /\ theI' = Touched(l)
        /\ UNCHANGED <<pc, miss, prefetch, lastPrefetch, missQueue, request, sharer>>
        /\ UNCHANGED <<evictSet, failed>>
        /\ \/ /\ snoop' = [snoop EXCEPT ![l] = Tail(@)]
              /\ transaction' = [transaction EXCEPT ![l] = "reply"]
           \/ /\ snoop' = [snoop EXCEPT ![l] = Append(Tail(@), "FetchFwd")]
              /\ transaction' = transaction
    BY <1>13 DEF FetchFwd, SnoopArrives, Consume
  <2>2. Touched(l) \in CacheSet /\ Len(Touched(l)) <= Assoc
    BY <1>1, TouchFacts DEF Touched
  <2>3. snoop' \in [Lines -> Seq(SnoopTypes)] /\ transaction' \in [Lines -> Transactions]
    BY <1>2, <1>3, <1>4, <1>6, <2>1
  <2> QED BY <1>2, <2>1, <2>2, <2>3 DEF CacheSet, TypeOK
<1>14. ASSUME NEW l \in Lines, EvictAck(l) PROVE TypeOK'
  <2>1. /\ snoop[l] # <<>> /\ snoop' = [snoop EXCEPT ![l] = Tail(@)]
        /\ evictSet' = evictSet \ {l} /\ failed' = (l \notin evictSet)
        /\ UNCHANGED <<pc, miss, prefetch, lastPrefetch, missQueue, request, sharer>>
        /\ UNCHANGED <<theI, transaction>>
    BY <1>14 DEF EvictAck, SnoopArrives, Consume
  <2> QED BY <1>2, <1>4, <1>6, <2>1 DEF TypeOK
<1>15. ASSUME NEW l \in Lines, DirIgnoresFetch(l) \/ DirFetch(l) \/ DirEvict(l) PROVE TypeOK'
  <2>1. /\ request[l] # <<>> /\ request' = [request EXCEPT ![l] = Tail(@)]
        /\ UNCHANGED fetchVars /\ failed' = failed
    BY <1>15 DEF DirIgnoresFetch, DirFetch, DirEvict, DirTakes
  <2>2. request' \in [Lines -> Seq(RequestTypes)]
    BY <1>2, <1>5, <2>1
  <2>3. transaction' \in [Lines -> Transactions] /\ sharer' \subseteq Lines
    BY <1>2, <1>3, <1>15 DEF DirIgnoresFetch, DirFetch, DirEvict
  <2>4. snoop' \in [Lines -> Seq(SnoopTypes)]
    <3>1. \/ snoop' = snoop
          \/ \E type \in SnoopTypes : snoop' = [snoop EXCEPT ![l] = Append(@, type)]
      BY <1>6, <1>15 DEF DirIgnoresFetch, DirFetch, DirEvict
    <3> QED BY <1>2, <1>4, <3>1
  <2> QED BY <1>2, <2>1, <2>2, <2>3, <2>4 DEF fetchVars, TypeOK
<1>16. ASSUME NEW l \in Lines, DirAck(l) \/ DirRead(l) \/ DirWrite(l) \/ DirWriteAck(l) PROVE TypeOK'
  <2>1. UNCHANGED fetchVars /\ failed' = failed /\ request' = request
    BY <1>16 DEF DirAck, DirRead, DirWrite, DirWriteAck
  <2>2. transaction' \in [Lines -> Transactions] /\ sharer' \subseteq Lines
    BY <1>2, <1>3, <1>16 DEF DirAck, DirRead, DirWrite, DirWriteAck
  <2>3. snoop' \in [Lines -> Seq(SnoopTypes)]
    <3>1. \/ snoop' = snoop
          \/ \E type \in SnoopTypes : snoop' = [snoop EXCEPT ![l] = Append(@, type)]
      BY <1>6, <1>16 DEF DirAck, DirRead, DirWrite, DirWriteAck
    <3> QED BY <1>2, <1>4, <3>1
  <2> QED BY <1>2, <2>1, <2>2, <2>3 DEF fetchVars, TypeOK
<1> QED BY <1>7, <1>8, <1>9, <1>10, <1>11, <1>12, <1>13, <1>14, <1>15, <1>16 DEF Next

(* The initial state is of its type. *)
LEMMA InitTyped == Init => TypeOK
<1> SUFFICES ASSUME Init PROVE TypeOK
  OBVIOUS
<1>1. pc \in MaybeLine /\ NoLine \in MaybeLine /\ "none" \in Transactions
  BY DEF Init, MaybeLine, Transactions
<1>2. theI = <<>> /\ IsInjective(theI) /\ theI \in Seq(Lines) /\ Len(theI) <= Assoc
  BY SizesAssumption DEF Init, IsInjective
<1>3. /\ request \in [Lines -> Seq(RequestTypes)]
      /\ snoop \in [Lines -> Seq(SnoopTypes)]
      /\ transaction \in [Lines -> Transactions]
  BY <1>1 DEF Init
<1>4. missQueue \in Seq([type : RequestTypes, line : Lines])
  BY DEF Init
<1>5. /\ {pc, miss, prefetch, lastPrefetch} \subseteq MaybeLine
      /\ evictSet \subseteq Lines /\ sharer \subseteq Lines /\ failed \in BOOLEAN
  BY <1>1 DEF Init
<1> QED BY <1>2, <1>3, <1>4, <1>5 DEF TypeOK

(* The state of the fetch unit and of the directory stays of its type: in  *)
(* particular a fill never leaves more lines than ways in a set, or a line *)
(* in it twice, whatever lookups, snoops and fills come before it.         *)
THEOREM FetchTyped == Spec => []TypeOK
BY InitTyped, TypeStep, PTL DEF Spec

-----------------------------------------------------------------------------
(* Lemmas about the invariant.                                             *)

Evicts(l) ==
  Cnt(missQueue, Queued("EvictClean", l)) + Cnt(request[l], "EvictClean")
    + Cnt(snoop[l], "EvictAck")

(* OneEvictEach says how many messages of an eviction there are. *)
LEMMA EvictSum ==
  OneEvictEach <=> \A l \in Lines : Evicts(l) = IF l \in evictSet THEN 1 ELSE 0
BY DEF OneEvictEach, Evicts, Cnt

(* The places of an eviction exclude each other. *)
LEMMA OneOnly ==
  ASSUME TypeOK, OneEvictEach, NEW l \in Lines
  PROVE  /\ InQueue("EvictClean", l) =>
              l \in evictSet /\ ~InRequest("EvictClean", l) /\ ~InSnoop("EvictAck", l)
         /\ InRequest("EvictClean", l) => l \in evictSet /\ ~InSnoop("EvictAck", l)
         /\ InSnoop("EvictAck", l) => l \in evictSet
<1> DEFINE q == Cnt(missQueue, Queued("EvictClean", l))
           r == Cnt(request[l], "EvictClean")
           s == Cnt(snoop[l], "EvictAck")
<1>1. q + r + s = IF l \in evictSet THEN 1 ELSE 0
  BY EvictSum DEF Evicts
<1>2. /\ q \in Nat /\ (InQueue("EvictClean", l) <=> q > 0)
  BY Typed, CntFacts DEF InQueue
<1>3. r \in Nat /\ (InRequest("EvictClean", l) <=> r > 0)
  BY Typed, CntFacts DEF InRequest
<1>4. s \in Nat /\ (InSnoop("EvictAck", l) <=> s > 0)
  BY Typed, CntFacts DEF InSnoop
<1> HIDE DEF q, r, s
<1> QED BY <1>1, <1>2, <1>3, <1>4

(* A line none of whose state changes, except that it may be more findable. *)
LineSame(x) ==
  /\ request'[x] = request[x] /\ snoop'[x] = snoop[x] /\ transaction'[x] = transaction[x]
  /\ x \in sharer' <=> x \in sharer
  /\ Findable(x) => Findable(x)'

(* Its invariant is kept. *)
LEMMA LineFrame ==
  ASSUME NEW x \in Lines, LineInv(x), LineSame(x)
  PROVE  LineInv(x)'
<1>1. EvictLast(x)'
  BY DEF LineInv, LineSame, EvictLast
<1>2. AckAlone(x)'
  BY DEF LineInv, LineSame, AckAlone, InSnoop
<1>3. OneDirected(x)'
  BY DEF LineInv, LineSame, OneDirected, InSnoop
<1>4. SharersFindable(x)'
  BY DEF LineInv, LineSame, SharersFindable, InSnoop
<1> QED BY <1>1, <1>2, <1>3, <1>4 DEF LineInv

Awaited(x) == FillComing(x) /\ (transaction[x] = "ack" => x \in evictSet)

(* A line that was waited for before, and of which nothing is lost. *)
LEMMA AwaitFrame ==
  ASSUME NEW x, Awaited(x), transaction'[x] = transaction[x],
         InQueue("FetchReq", x) => InQueue("FetchReq", x)',
         InRequest("FetchReq", x) => InRequest("FetchReq", x)',
         transaction[x] = "ack" /\ x \in evictSet => x \in evictSet'
  PROVE  Awaited(x)'
BY DEF Awaited, FillComing

(* MissOnItsWay and RefetchWaits, line by line. *)
LEMMA AwaitedAll ==
  (MissOnItsWay /\ RefetchWaits) <=> \A x \in {miss, prefetch} \ {NoLine} : Awaited(x)
BY DEF MissOnItsWay, RefetchWaits, Awaited

(* At most one message of a transaction. *)
Single(s) == \A i, j \in DOMAIN s : s[i] \in Directed /\ s[j] \in Directed => i = j

(* Consuming a snoop keeps it so, and when it was the one none is left. *)
LEMMA SingleTail ==
  ASSUME NEW s \in Seq(SnoopTypes), s # <<>>, Single(s)
  PROVE  /\ Single(Tail(s))
         /\ Head(s) \in Directed => \A e \in Directed : e \notin ToSet(Tail(s))
<1>1. /\ Head(s) = s[1] /\ 1 \in DOMAIN s /\ Len(s) \in Nat \ {0}
      /\ DOMAIN Tail(s) = 1 .. Len(s) - 1 /\ DOMAIN s = 1 .. Len(s)
      /\ \A i \in 1 .. Len(s) - 1 : Tail(s)[i] = s[i + 1]
  BY TailFacts
<1>2. \A i \in DOMAIN Tail(s) : i \in Int /\ i + 1 \in DOMAIN s /\ i + 1 # 1 /\ Tail(s)[i] = s[i + 1]
  BY <1>1
<1>3. Single(Tail(s))
  <2> SUFFICES ASSUME NEW i \in DOMAIN Tail(s), NEW j \in DOMAIN Tail(s),
                      Tail(s)[i] \in Directed, Tail(s)[j] \in Directed
               PROVE  i = j
    BY DEF Single
  <2>1. i + 1 = j + 1
    BY <1>2 DEF Single
  <2> QED BY <1>2, <2>1
<1>4. Head(s) \in Directed => \A i \in DOMAIN Tail(s) : Tail(s)[i] \notin Directed
  BY <1>1, <1>2 DEF Single
<1> QED BY <1>3, <1>4 DEF ToSet

(* Sending one keeps it so when there was none. *)
LEMMA SingleAppend ==
  ASSUME NEW s \in Seq(SnoopTypes), Single(s), NEW x \in SnoopTypes,
         x \in Directed => \A e \in Directed : e \notin ToSet(s)
  PROVE  Single(Append(s, x))
<1>1. /\ DOMAIN Append(s, x) = 1 .. Len(s) + 1
      /\ DOMAIN s = 1 .. Len(s) /\ Len(s) \in Nat
      /\ Append(s, x)[Len(s) + 1] = x
      /\ \A i \in 1 .. Len(s) : Append(s, x)[i] = s[i]
  BY AppendFacts
<1>2. x \in Directed => \A i \in 1 .. Len(s) : s[i] \notin Directed
  BY <1>1 DEF ToSet
<1> SUFFICES ASSUME NEW i \in 1 .. Len(s) + 1, NEW j \in 1 .. Len(s) + 1,
                    Append(s, x)[i] \in Directed, Append(s, x)[j] \in Directed
             PROVE  i = j
  BY <1>1 DEF Single
<1>3. CASE x \in Directed
  BY <1>1, <1>2, <1>3
<1>4. CASE x \notin Directed
  BY <1>1, <1>4 DEF Single
<1> QED BY <1>3, <1>4

(* The oldest request leaves: nothing comes to follow an EvictClean. *)
LEMMA EvictLastTail ==
  ASSUME NEW s \in Seq(RequestTypes), s # <<>>,
         \A i \in DOMAIN s : s[i] = "EvictClean" => i = Len(s)
  PROVE  /\ \A i \in DOMAIN Tail(s) : Tail(s)[i] = "EvictClean" => i = Len(Tail(s))
         /\ Head(s) = "EvictClean" => Tail(s) = <<>>
<1>1. /\ Head(s) = s[1] /\ 1 \in DOMAIN s /\ Tail(s) \in Seq(RequestTypes)
      /\ Len(Tail(s)) = Len(s) - 1 /\ Len(s) \in Nat \ {0}
      /\ DOMAIN Tail(s) = 1 .. Len(s) - 1 /\ DOMAIN s = 1 .. Len(s)
      /\ \A i \in 1 .. Len(s) - 1 : Tail(s)[i] = s[i + 1]
  BY TailFacts
<1>2. \A i \in DOMAIN Tail(s) : i \in Int /\ i + 1 \in DOMAIN s /\ Tail(s)[i] = s[i + 1]
  BY <1>1
<1>3. \A i \in DOMAIN Tail(s) : Tail(s)[i] = "EvictClean" => i = Len(Tail(s))
  BY <1>1, <1>2
<1>4. Head(s) = "EvictClean" => Len(Tail(s)) = 0
  BY <1>1
<1> QED BY <1>1, <1>3, <1>4

(* What has to be shown of a step. *)
LEMMA IInvIntro ==
  ASSUME TypeOK',
         \A x \in Lines : (Evicts(x))' = IF x \in evictSet' THEN 1 ELSE 0,
         \A x \in Lines : LineInv(x)',
         \A x \in {miss', prefetch'} \ {NoLine} : Awaited(x)'
  PROVE  IInv'
<1>1. OneEvictEach'
  BY DEF OneEvictEach, Evicts, Cnt
<1>2. MissOnItsWay' /\ RefetchWaits'
  BY DEF MissOnItsWay, RefetchWaits, Awaited
<1> QED BY <1>1, <1>2 DEF IInv

(* What is known before a step. *)
LEMMA IInvElim ==
  ASSUME IInv
  PROVE  /\ TypeOK /\ OneEvictEach
         /\ \A x \in Lines : Evicts(x) = IF x \in evictSet THEN 1 ELSE 0
         /\ \A x \in Lines : LineInv(x)
         /\ \A x \in {miss, prefetch} \ {NoLine} : Awaited(x)
         /\ {miss, prefetch} \ {NoLine} \subseteq Lines
         /\ \A x \in Lines : /\ Cnt(missQueue, Queued("EvictClean", x)) \in Nat
                             /\ Cnt(request[x], "EvictClean") \in Nat
                             /\ Cnt(snoop[x], "EvictAck") \in Nat
<1>1. {miss, prefetch} \ {NoLine} \subseteq Lines
  BY DEF IInv, TypeOK, MaybeLine
<1>2. \A x \in Lines : /\ Cnt(missQueue, Queued("EvictClean", x)) \in Nat
                       /\ Cnt(request[x], "EvictClean") \in Nat
                       /\ Cnt(snoop[x], "EvictAck") \in Nat
  BY Typed, CntFacts DEF IInv
<1> QED BY <1>1, <1>2, EvictSum, AwaitedAll DEF IInv

(* The fetch pipeline. *)
LEMMA StepFront ==
  ASSUME IInv, TypeOK', FrontStep
  PROVE  IInv'
<1>1. /\ \A x \in Lines : Evicts(x) = IF x \in evictSet THEN 1 ELSE 0
      /\ \A x \in Lines : LineInv(x)
      /\ \A x \in {miss, prefetch} \ {NoLine} : Awaited(x)
  BY IInvElim
<1>2. request' = request /\ snoop' = snoop /\ transaction' = transaction /\ sharer' = sharer
      /\ evictSet' = evictSet
  BY DEF FrontStep, dirVars
<1>3. \A x \in Lines : (Evicts(x))' = IF x \in evictSet' THEN 1 ELSE 0
  <2>1. \A x \in Lines : (Evicts(x))' = Evicts(x)
    BY <1>2 DEF FrontStep, Evicts
  <2> QED BY <1>1, <1>2, <2>1
<1>4. \A x \in Lines : LineInv(x)'
  <2>1. \A x \in Lines : LineSame(x)
    BY <1>2 DEF LineSame, Findable, Hit, FrontStep
  <2> QED BY <1>1, <2>1, LineFrame
<1>5. ASSUME NEW x \in {miss', prefetch'} \ {NoLine} PROVE Awaited(x)'
  <2>1. InQueue("FetchReq", x) => InQueue("FetchReq", x)'
    BY DEF FrontStep, InQueue
  <2>2. InRequest("FetchReq", x) => InRequest("FetchReq", x)'
    BY <1>2 DEF InRequest
  <2>3. CASE x \in {miss, prefetch}
    BY <1>1, <1>2, <2>1, <2>2, <2>3, AwaitFrame
  <2>4. CASE ~Hit(x) /\ Queued("FetchReq", x) \in ToSet(missQueue')
    <3>1. InQueue("FetchReq", x)'
      BY <2>4 DEF InQueue
    <3>2. x \in Lines
      BY DEF FrontStep, MaybeLine
    <3>3. transaction[x] = "ack" => x \in evictSet
      BY <1>1, <2>4, <3>2 DEF LineInv, SharersFindable, Findable
    <3> QED BY <1>2, <3>1, <3>3 DEF Awaited, FillComing
  <2> QED BY <2>3, <2>4 DEF FrontStep
<1> QED BY <1>3, <1>4, <1>5, IInvIntro

(* sendMisses *)
LEMMA StepSendMiss ==
  ASSUME IInv, TypeOK', SendMiss
  PROVE  IInv'
<1> DEFINE m == Head(missQueue)
<1>1. /\ TypeOK /\ OneEvictEach
      /\ \A x \in Lines : Evicts(x) = IF x \in evictSet THEN 1 ELSE 0
      /\ \A x \in Lines : LineInv(x)
      /\ \A x \in {miss, prefetch} \ {NoLine} : Awaited(x)
      /\ {miss, prefetch} \ {NoLine} \subseteq Lines
      /\ \A x \in Lines : /\ Cnt(missQueue, Queued("EvictClean", x)) \in Nat
                          /\ Cnt(request[x], "EvictClean") \in Nat
                          /\ Cnt(snoop[x], "EvictAck") \in Nat
  BY IInvElim
<1>2. /\ missQueue # <<>> /\ missQueue' = Tail(missQueue)
      /\ ~(m.type = "FetchReq" /\ m.line \in evictSet)
      /\ request' = [request EXCEPT ![m.line] = Append(@, m.type)]
      /\ theI' = theI /\ miss' = miss /\ prefetch' = prefetch /\ evictSet' = evictSet
      /\ snoop' = snoop /\ transaction' = transaction /\ sharer' = sharer
  BY DEF SendMiss
<1>3. missQueue \in Seq(Message)
  BY <1>1, Typed
<1>4. /\ m \in Message
      /\ m \in ToSet(missQueue)
      /\ ToSet(missQueue) = {m} \cup ToSet(missQueue')
      /\ \A e : Cnt(missQueue', e) = Cnt(missQueue, e) - (IF m = e THEN 1 ELSE 0)
  BY <1>2, <1>3, TailFacts
<1> HIDE DEF m
<1>0. m.line \in Lines /\ m.type \in RequestTypes /\ m = Queued(m.type, m.line)
  BY <1>4 DEF Message, Queued
<1> PICK l \in Lines : l = m.line
  BY <1>0
<1>5. l \in Lines /\ m.type \in RequestTypes /\ m = Queued(m.type, l)
  BY <1>0
<1>6. request \in [Lines -> Seq(RequestTypes)]
  BY <1>1 DEF TypeOK
<1>7. /\ request'[l] = Append(request[l], m.type)
      /\ \A x \in Lines \ {l} : request'[x] = request[x]
      /\ request[l] \in Seq(RequestTypes)
  BY <1>2, <1>5, <1>6
<1>8. /\ DOMAIN request'[l] = 1 .. Len(request[l]) + 1 /\ Len(request'[l]) = Len(request[l]) + 1
      /\ DOMAIN request[l] = 1 .. Len(request[l])
      /\ \A i \in 1 .. Len(request[l]) : request'[l][i] = request[l][i]
      /\ Len(request[l]) \in Nat
      /\ ToSet(request'[l]) = ToSet(request[l]) \cup {m.type}
      /\ \A e : Cnt(request'[l], e) = Cnt(request[l], e) + (IF m.type = e THEN 1 ELSE 0)
  BY <1>5, <1>7, AppendFacts
<1>9. ~InRequest("EvictClean", l) /\ ~InSnoop("EvictAck", l)
  <2>1. CASE m.type = "EvictClean"
    <3>1. InQueue("EvictClean", l)
      BY <1>4, <1>5, <2>1 DEF InQueue
    <3> QED BY <1>1, <1>5, <3>1, OneOnly
  <2>2. CASE m.type = "FetchReq"
    <3>1. l \notin evictSet
      BY <1>2, <2>2
    <3> QED BY <1>1, <1>5, <3>1, OneOnly
  <2> QED BY <1>5, <2>1, <2>2 DEF RequestTypes
<1>10. ASSUME NEW x \in Lines PROVE (Evicts(x))' = IF x \in evictSet' THEN 1 ELSE 0
  <2>1. CASE x = l
    <3>1. m = Queued("EvictClean", l) <=> m.type = "EvictClean"
      BY <1>5 DEF Queued
    <3>2. Cnt(missQueue', Queued("EvictClean", l)) + Cnt(request'[l], "EvictClean")
            = Cnt(missQueue, Queued("EvictClean", l)) + Cnt(request[l], "EvictClean")
      BY <1>1, <1>4, <1>5, <1>8, <3>1
    <3>3. (Evicts(l))' = Evicts(l)
      BY <1>2, <3>2 DEF Evicts
    <3> QED BY <1>1, <1>2, <2>1, <3>3
  <2>2. CASE x # l
    <3>1. m # Queued("EvictClean", x)
      BY <1>5, <2>2 DEF Queued
    <3>2. Cnt(missQueue', Queued("EvictClean", x)) = Cnt(missQueue, Queued("EvictClean", x))
      BY <1>1, <1>4, <3>1
    <3>3. (Evicts(x))' = Evicts(x)
      BY <1>2, <1>7, <2>2, <3>2 DEF Evicts
    <3> QED BY <1>1, <1>2, <3>3
  <2> QED BY <2>1, <2>2
<1>11. ASSUME NEW x \in Lines PROVE LineInv(x)'
  <2>1. CASE x = l
    <3>1. LineInv(l)
      BY <1>1, <1>5
    <3>2. EvictLast(l)'
      <4> SUFFICES ASSUME NEW i \in 1 .. Len(request[l]) + 1, request'[l][i] = "EvictClean"
                   PROVE  i = Len(request[l]) + 1
        BY <1>8 DEF EvictLast
      <4>1. i \in 1 .. Len(request[l]) => request[l][i] = "EvictClean"
        BY <1>8
      <4>2. i \notin 1 .. Len(request[l])
        BY <1>8, <1>9, <4>1 DEF InRequest, ToSet
      <4> QED BY <1>8, <4>2
    <3>3. AckAlone(l)'
      BY <1>2, <1>9 DEF AckAlone, InSnoop
    <3>4. OneDirected(l)' /\ SharersFindable(l)'
      BY <1>2, <3>1 DEF LineInv, OneDirected, SharersFindable, InSnoop, Findable, Hit
    <3> QED BY <2>1, <3>2, <3>3, <3>4 DEF LineInv
  <2>2. CASE x # l
    <3>1. LineSame(x)
      BY <1>2, <1>7, <2>2 DEF LineSame, Findable, Hit
    <3> QED BY <1>1, <3>1, LineFrame
  <2> QED BY <2>1, <2>2
<1>12. ASSUME NEW x \in {miss', prefetch'} \ {NoLine} PROVE Awaited(x)'
  <2>1. x \in Lines /\ Awaited(x)
    BY <1>1, <1>2
  <2>2. CASE x = l /\ m.type = "FetchReq"
    <3>1. transaction'[x] # "ack"
      BY <1>2, <2>1, <2>2 DEF Awaited
    <3>2. InRequest("FetchReq", x)'
      BY <1>8, <2>2 DEF InRequest
    <3> QED BY <3>1, <3>2 DEF Awaited, FillComing
  <2>3. CASE ~(x = l /\ m.type = "FetchReq")
    <3>1. m # Queued("FetchReq", x)
      BY <1>5, <2>3 DEF Queued
    <3>2. InQueue("FetchReq", x) => InQueue("FetchReq", x)'
      BY <1>4, <3>1 DEF InQueue
    <3>3. InRequest("FetchReq", x) => InRequest("FetchReq", x)'
      BY <1>7, <1>8, <2>1 DEF InRequest
    <3> QED BY <1>2, <2>1, <3>2, <3>3, AwaitFrame
  <2> QED BY <2>2, <2>3
<1> QED BY <1>10, <1>11, <1>12, IInvIntro

(* A fill, with the eviction it causes. *)
LEMMA StepFill ==
  ASSUME IInv, TypeOK', CleanEvict, NEW l \in Lines, Fill(l)
  PROVE  IInv'
<1>1. /\ TypeOK
      /\ \A x \in Lines : Evicts(x) = IF x \in evictSet THEN 1 ELSE 0
      /\ \A x \in Lines : LineInv(x)
      /\ \A x \in {miss, prefetch} \ {NoLine} : Awaited(x)
      /\ {miss, prefetch} \ {NoLine} \subseteq Lines
      /\ \A x \in Lines : /\ Cnt(missQueue, Queued("EvictClean", x)) \in Nat
                          /\ Cnt(request[x], "EvictClean") \in Nat
                          /\ Cnt(snoop[x], "EvictAck") \in Nat
  BY IInvElim
<1>2. /\ transaction[l] = "reply" /\ theI' = Inserted(l) /\ IssueEvict(Replaced(l))
      /\ miss' = IF miss = l THEN NoLine ELSE miss
      /\ prefetch' = IF prefetch = l THEN NoLine ELSE prefetch
      /\ transaction' = [transaction EXCEPT ![l] = "ack"]
      /\ request' = request /\ snoop' = snoop /\ sharer' = sharer
  BY DEF Fill
<1>3. /\ l \in ToSet(Inserted(l)) /\ Replaced(l) \in MaybeLine
      /\ \A x : Hit(x) => x \in ToSet(Inserted(l)) \/ x = Replaced(l)
  BY <1>1, Typed, InsertedFacts
<1>4. /\ evictSet \subseteq evictSet' /\ ToSet(missQueue) \subseteq ToSet(missQueue')
      /\ Replaced(l) # NoLine => Replaced(l) \in evictSet'
      /\ \A x \in Lines : x \notin evictSet =>
           Cnt(missQueue', Queued("EvictClean", x)) =
             Cnt(missQueue, Queued("EvictClean", x)) + (IF x \in evictSet' THEN 1 ELSE 0)
      /\ \A x \in Lines : x \in evictSet =>
           Cnt(missQueue', Queued("EvictClean", x)) = Cnt(missQueue, Queued("EvictClean", x))
  BY <1>1, <1>2, <1>3, IssueEvictFacts
<1>5. /\ transaction'[l] = "ack"
      /\ \A x \in Lines \ {l} : transaction'[x] = transaction[x]
  BY <1>1, <1>2 DEF TypeOK
<1>6. ASSUME NEW x \in Lines PROVE (Evicts(x))' = IF x \in evictSet' THEN 1 ELSE 0
  <2> DEFINE q == Cnt(missQueue, Queued("EvictClean", x))
             n == Cnt(missQueue', Queued("EvictClean", x))
             r == Cnt(request[x], "EvictClean")
             s == Cnt(snoop[x], "EvictAck")
  <2>1. q + r + s = IF x \in evictSet THEN 1 ELSE 0
    BY <1>1 DEF Evicts
  <2>2. (Evicts(x))' = n + r + s
    BY <1>2 DEF Evicts
  <2>3. q \in Nat /\ r \in Nat /\ s \in Nat
    BY <1>1
  <2>4. x \notin evictSet => n = q + (IF x \in evictSet' THEN 1 ELSE 0)
    BY <1>4
  <2>5. x \in evictSet => n = q /\ x \in evictSet'
    BY <1>4
  <2> HIDE DEF q, n, r, s
  <2>6. n + r + s = IF x \in evictSet' THEN 1 ELSE 0
    BY <2>1, <2>3, <2>4, <2>5
  <2> QED BY <2>2, <2>6
<1>7. ASSUME NEW x \in Lines PROVE LineInv(x)'
  <2>1. LineInv(x)
    BY <1>1
  <2>2. CASE x = l
    <3>1. EvictLast(x)'
      BY <1>2, <2>1 DEF LineInv, EvictLast
    <3>2. AckAlone(x)' /\ OneDirected(x)'
      BY <1>2, <2>1, <2>2 DEF LineInv, AckAlone, OneDirected, InSnoop
    <3>3. Findable(x)'
      BY <1>2, <1>3, <2>2 DEF Findable, Hit
    <3> QED BY <3>1, <3>2, <3>3 DEF LineInv, SharersFindable
  <2>3. CASE x # l
    <3>1. x # NoLine
      BY LinesAssumption
    <3>2. Findable(x) => Findable(x)'
      BY <1>2, <1>3, <1>4, <3>1 DEF Findable, Hit
    <3>3. LineSame(x)
      BY <1>2, <1>5, <2>3, <3>2 DEF LineSame
    <3> QED BY <2>1, <3>3, LineFrame
  <2> QED BY <2>2, <2>3
<1>8. ASSUME NEW x \in {miss', prefetch'} \ {NoLine} PROVE Awaited(x)'
  <2>1. x # l /\ x \in {miss, prefetch} \ {NoLine}
    BY <1>2
  <2>2. Awaited(x) /\ transaction'[x] = transaction[x]
    BY <1>1, <1>5, <2>1
  <2>3. InQueue("FetchReq", x) => InQueue("FetchReq", x)'
    BY <1>4 DEF InQueue
  <2>4. InRequest("FetchReq", x) => InRequest("FetchReq", x)'
    BY <1>2 DEF InRequest
  <2> QED BY <1>4, <2>2, <2>3, <2>4, AwaitFrame
<1> QED BY <1>6, <1>7, <1>8, IInvIntro

-----------------------------------------------------------------------------
(* The other steps concern a single line and leave theMissQueue alone.     *)

OnlyLine(l) ==
  /\ missQueue' = missQueue /\ miss' = miss /\ prefetch' = prefetch
  /\ \A x \in Lines \ {l} :
       /\ request'[x] = request[x] /\ snoop'[x] = snoop[x]
       /\ transaction'[x] = transaction[x]
       /\ x \in sharer' <=> x \in sharer
       /\ x \in evictSet' <=> x \in evictSet
       /\ Hit(x) => Hit(x)'

(* For such a step the invariant has to be shown of that line only. *)
LEMMA StepLine ==
  ASSUME IInv, TypeOK', NEW l \in Lines, OnlyLine(l),
         (Evicts(l))' = IF l \in evictSet' THEN 1 ELSE 0,
         LineInv(l)',
         Awaited(l) => Awaited(l)'
  PROVE  IInv'
<1>1. /\ \A x \in Lines : Evicts(x) = IF x \in evictSet THEN 1 ELSE 0
      /\ \A x \in Lines : LineInv(x)
      /\ \A x \in {miss, prefetch} \ {NoLine} : Awaited(x)
      /\ {miss, prefetch} \ {NoLine} \subseteq Lines
  BY IInvElim
<1>2. ASSUME NEW x \in Lines PROVE (Evicts(x))' = IF x \in evictSet' THEN 1 ELSE 0
  <2>1. CASE x # l
    <3>1. (Evicts(x))' = Evicts(x)
      BY <2>1 DEF OnlyLine, Evicts
    <3> QED BY <1>1, <2>1, <3>1 DEF OnlyLine
  <2> QED BY <2>1
<1>3. ASSUME NEW x \in Lines PROVE LineInv(x)'
  <2>1. CASE x # l
    <3>1. LineSame(x)
      BY <2>1 DEF OnlyLine, LineSame, Findable
    <3> QED BY <1>1, <3>1, LineFrame
  <2> QED BY <2>1
<1>4. ASSUME NEW x \in {miss', prefetch'} \ {NoLine} PROVE Awaited(x)'
  <2>1. x \in Lines /\ Awaited(x)
    BY <1>1 DEF OnlyLine
  <2>2. CASE x # l
    <3>1. /\ InQueue("FetchReq", x) => InQueue("FetchReq", x)'
          /\ InRequest("FetchReq", x) => InRequest("FetchReq", x)'
      BY <2>1, <2>2 DEF OnlyLine, InQueue, InRequest
    <3> QED BY <2>1, <2>2, <3>1, AwaitFrame DEF OnlyLine
  <2> QED BY <2>1, <2>2
<1> QED BY <1>2, <1>3, <1>4, IInvIntro

(* What is known of the line before the step. *)
LEMMA LineKnown ==
  ASSUME IInv, NEW l \in Lines
  PROVE  /\ TypeOK /\ OneEvictEach
         /\ EvictLast(l) /\ AckAlone(l) /\ OneDirected(l) /\ SharersFindable(l)
         /\ Single(snoop[l])
         /\ Evicts(l) = IF l \in evictSet THEN 1 ELSE 0
         /\ Cnt(missQueue, Queued("EvictClean", l)) \in Nat
         /\ Cnt(request[l], "EvictClean") \in Nat
         /\ Cnt(snoop[l], "EvictAck") \in Nat
         /\ request \in [Lines -> Seq(RequestTypes)]
         /\ snoop \in [Lines -> Seq(SnoopTypes)]
         /\ transaction \in [Lines -> Transactions]
         /\ theI \in CacheSet
<1>1. LineInv(l) /\ TypeOK /\ OneEvictEach /\ Evicts(l) = IF l \in evictSet THEN 1 ELSE 0
  BY IInvElim
<1>2. /\ Cnt(missQueue, Queued("EvictClean", l)) \in Nat
      /\ Cnt(request[l], "EvictClean") \in Nat
      /\ Cnt(snoop[l], "EvictAck") \in Nat
  BY IInvElim
<1>3. EvictLast(l) /\ AckAlone(l) /\ OneDirected(l) /\ SharersFindable(l) /\ Single(snoop[l])
  BY <1>1 DEF LineInv, OneDirected, Single
<1>4. /\ request \in [Lines -> Seq(RequestTypes)]
      /\ snoop \in [Lines -> Seq(SnoopTypes)]
      /\ transaction \in [Lines -> Transactions]
      /\ theI \in CacheSet
  BY <1>1 DEF TypeOK, CacheSet
<1> QED BY <1>1, <1>2, <1>3, <1>4

(* The cache consumes the oldest snoop. *)
LEMMA PopSnoop ==
  ASSUME IInv, NEW l \in Lines, snoop[l] # <<>>, Consume(l)
  PROVE  /\ \A x \in Lines \ {l} : snoop'[x] = snoop[x]
         /\ snoop'[l] = Tail(snoop[l])
         /\ ToSet(snoop[l]) = {Head(snoop[l])} \cup ToSet(snoop'[l])
         /\ Single(snoop'[l])
         /\ Head(snoop[l]) \in Directed => \A e \in Directed : e \notin ToSet(snoop'[l])
         /\ Cnt(snoop'[l], "EvictAck") =
              Cnt(snoop[l], "EvictAck") - (IF Head(snoop[l]) = "EvictAck" THEN 1 ELSE 0)
<1>1. Single(snoop[l]) /\ snoop \in [Lines -> Seq(SnoopTypes)] /\ snoop[l] \in Seq(SnoopTypes)
  BY LineKnown
<1>2. snoop'[l] = Tail(snoop[l]) /\ \A x \in Lines \ {l} : snoop'[x] = snoop[x]
  BY <1>1 DEF Consume
<1>3. /\ Single(Tail(snoop[l]))
      /\ Head(snoop[l]) \in Directed => \A e \in Directed : e \notin ToSet(Tail(snoop[l]))
  BY <1>1, SingleTail
<1>4. /\ ToSet(snoop[l]) = {Head(snoop[l])} \cup ToSet(Tail(snoop[l]))
      /\ \A e : Cnt(Tail(snoop[l]), e) =
                  Cnt(snoop[l], e) - (IF Head(snoop[l]) = e THEN 1 ELSE 0)
  BY <1>1, TailFacts
<1> QED BY <1>2, <1>3, <1>4

(* The directory sends a snoop. *)
LEMMA PushSnoop ==
  ASSUME IInv, NEW l \in Lines, NEW type \in SnoopTypes,
         type \in Directed => \A e \in Directed : ~InSnoop(e, l),
         snoop' = [snoop EXCEPT ![l] = Append(@, type)]
  PROVE  /\ \A x \in Lines \ {l} : snoop'[x] = snoop[x]
         /\ ToSet(snoop'[l]) = ToSet(snoop[l]) \cup {type}
         /\ Single(snoop'[l])
         /\ Cnt(snoop'[l], "EvictAck") =
              Cnt(snoop[l], "EvictAck") + (IF type = "EvictAck" THEN 1 ELSE 0)
<1>1. Single(snoop[l]) /\ snoop \in [Lines -> Seq(SnoopTypes)] /\ snoop[l] \in Seq(SnoopTypes)
  BY LineKnown
<1>2. snoop'[l] = Append(snoop[l], type) /\ \A x \in Lines \ {l} : snoop'[x] = snoop[x]
  BY <1>1
<1>3. type \in Directed => \A e \in Directed : e \notin ToSet(snoop[l])
  BY DEF InSnoop
<1>4. Single(Append(snoop[l], type))
  BY <1>1, <1>3, SingleAppend
<1>5. /\ ToSet(Append(snoop[l], type)) = ToSet(snoop[l]) \cup {type}
      /\ \A e : Cnt(Append(snoop[l], type), e) = Cnt(snoop[l], e) + (IF type = e THEN 1 ELSE 0)
  BY <1>1, AppendFacts
<1> QED BY <1>2, <1>4, <1>5

(* The directory takes the oldest request. *)
LEMMA PopRequest ==
  ASSUME IInv, NEW l \in Lines, NEW type, DirTakes(l, type)
  PROVE  /\ missQueue' = missQueue /\ miss' = miss /\ prefetch' = prefetch
         /\ theI' = theI /\ evictSet' = evictSet
         /\ \A x \in Lines \ {l} : request'[x] = request[x]
         /\ InRequest(type, l)
         /\ ToSet(request[l]) = {type} \cup ToSet(request'[l])
         /\ EvictLast(l)'
         /\ type = "EvictClean" => request'[l] = <<>>
         /\ Cnt(request'[l], "EvictClean") =
              Cnt(request[l], "EvictClean") - (IF type = "EvictClean" THEN 1 ELSE 0)
<1>1. EvictLast(l) /\ request \in [Lines -> Seq(RequestTypes)] /\ request[l] \in Seq(RequestTypes)
  BY LineKnown
<1>2. /\ request[l] # <<>> /\ Head(request[l]) = type
      /\ request' = [request EXCEPT ![l] = Tail(@)]
      /\ missQueue' = missQueue /\ miss' = miss /\ prefetch' = prefetch
      /\ theI' = theI /\ evictSet' = evictSet
  BY DEF DirTakes, fetchVars
<1>3. request'[l] = Tail(request[l]) /\ \A x \in Lines \ {l} : request'[x] = request[x]
  BY <1>1, <1>2
<1>4. /\ type \in ToSet(request[l])
      /\ ToSet(request[l]) = {type} \cup ToSet(Tail(request[l]))
      /\ \A e : Cnt(Tail(request[l]), e) = Cnt(request[l], e) - (IF type = e THEN 1 ELSE 0)
  BY <1>1, <1>2, TailFacts
<1>5. \A i \in DOMAIN request[l] : request[l][i] = "EvictClean" => i = Len(request[l])
  BY <1>1 DEF EvictLast
<1>6. /\ \A i \in DOMAIN Tail(request[l]) :
           Tail(request[l])[i] = "EvictClean" => i = Len(Tail(request[l]))
      /\ type = "EvictClean" => Tail(request[l]) = <<>>
  BY <1>1, <1>2, <1>5, EvictLastTail
<1>7. EvictLast(l)'
  BY <1>3, <1>6 DEF EvictLast
<1> QED BY <1>2, <1>3, <1>4, <1>6, <1>7 DEF InRequest

(* Invalidate and WriteFwd: the copy is gone, and no other snoop of a      *)
(* transaction is behind.                                                  *)
LEMMA StepInvalidate ==
  ASSUME IInv, TypeOK', NEW l \in Lines, Invalidate(l)
  PROVE  IInv'
<1>1. /\ TypeOK /\ OneEvictEach
      /\ EvictLast(l) /\ AckAlone(l) /\ OneDirected(l) /\ SharersFindable(l)
      /\ Single(snoop[l])
      /\ Evicts(l) = IF l \in evictSet THEN 1 ELSE 0
      /\ Cnt(missQueue, Queued("EvictClean", l)) \in Nat
      /\ Cnt(request[l], "EvictClean") \in Nat
      /\ Cnt(snoop[l], "EvictAck") \in Nat
      /\ transaction \in [Lines -> Transactions]
      /\ theI \in CacheSet
  BY LineKnown
<1>2. /\ snoop[l] # <<>> /\ Head(snoop[l]) \in Writes /\ Consume(l)
      /\ theI' = Erase(theI, l)
      /\ miss' = miss /\ prefetch' = prefetch /\ missQueue' = missQueue
      /\ request' = request /\ sharer' = sharer
      /\ evictSet' = evictSet /\ transaction' = transaction
  BY DEF Invalidate, SnoopArrives, Writes
<1>3. /\ \A x \in Lines \ {l} : snoop'[x] = snoop[x]
      /\ ToSet(snoop[l]) = {Head(snoop[l])} \cup ToSet(snoop'[l])
      /\ Single(snoop'[l])
      /\ Head(snoop[l]) \in Directed => \A e \in Directed : e \notin ToSet(snoop'[l])
      /\ Cnt(snoop'[l], "EvictAck") =
           Cnt(snoop[l], "EvictAck") - (IF Head(snoop[l]) = "EvictAck" THEN 1 ELSE 0)
  BY <1>2, PopSnoop
<1>4. Head(snoop[l]) \in Directed /\ Head(snoop[l]) # "EvictAck"
  BY <1>2 DEF Directed, Writes
<1>5. ToSet(theI') = ToSet(theI) \ {l}
  BY <1>1, <1>2, EraseFacts
<1>6. transaction[l] = "write"
  BY <1>1, <1>2, <1>3 DEF OneDirected, InSnoop
<1>7. \A e \in Directed : ~InSnoop(e, l)'
  BY <1>3, <1>4 DEF InSnoop
<1>8. OnlyLine(l)
  BY <1>2, <1>3, <1>5 DEF OnlyLine, Hit
<1>9. (Evicts(l))' = IF l \in evictSet' THEN 1 ELSE 0
  BY <1>1, <1>2, <1>3, <1>4 DEF Evicts
<1>10. LineInv(l)'
  <2>1. EvictLast(l)'
    BY <1>1, <1>2 DEF EvictLast
  <2>2. AckAlone(l)'
    BY <1>1, <1>2, <1>3 DEF AckAlone, InSnoop
  <2>3. OneDirected(l)'
    BY <1>3, <1>7 DEF OneDirected, Single, Directed
  <2>4. SharersFindable(l)'
    BY <1>2, <1>6, <1>7 DEF SharersFindable, Directed
  <2> QED BY <2>1, <2>2, <2>3, <2>4 DEF LineInv
<1>11. Awaited(l) => Awaited(l)'
  BY <1>2 DEF Awaited, FillComing, InQueue, InRequest
<1> QED BY <1>8, <1>9, <1>10, <1>11, StepLine

(* ReadFwd *)
LEMMA StepReadFwd ==
  ASSUME IInv, TypeOK', NEW l \in Lines, ReadFwd(l)
  PROVE  IInv'
<1>1. /\ TypeOK /\ OneEvictEach
      /\ EvictLast(l) /\ AckAlone(l) /\ OneDirected(l) /\ SharersFindable(l)
      /\ Single(snoop[l])
      /\ Evicts(l) = IF l \in evictSet THEN 1 ELSE 0
      /\ Cnt(missQueue, Queued("EvictClean", l)) \in Nat
      /\ Cnt(request[l], "EvictClean") \in Nat
      /\ Cnt(snoop[l], "EvictAck") \in Nat
      /\ transaction \in [Lines -> Transactions]
      /\ theI \in CacheSet
  BY LineKnown
<1>2. /\ snoop[l] # <<>> /\ Head(snoop[l]) = "ReadFwd" /\ Consume(l)
      /\ theI' = Touch(theI, l)
      /\ miss' = miss /\ prefetch' = prefetch /\ missQueue' = missQueue
      /\ request' = request /\ sharer' = sharer
      /\ evictSet' = evictSet /\ transaction' = transaction
  BY DEF ReadFwd, SnoopArrives, Touched
<1>3. /\ \A x \in Lines \ {l} : snoop'[x] = snoop[x]
      /\ ToSet(snoop[l]) = {Head(snoop[l])} \cup ToSet(snoop'[l])
      /\ Single(snoop'[l])
      /\ Head(snoop[l]) \in Directed => \A e \in Directed : e \notin ToSet(snoop'[l])
      /\ Cnt(snoop'[l], "EvictAck") =
           Cnt(snoop[l], "EvictAck") - (IF Head(snoop[l]) = "EvictAck" THEN 1 ELSE 0)
  BY <1>2, PopSnoop
<1>4. ToSet(theI') = ToSet(theI)
  BY <1>1, <1>2, TouchFacts
<1>5. \A e : InSnoop(e, l)' => InSnoop(e, l)
  BY <1>3 DEF InSnoop
<1>6. \A e \in Writes : InSnoop(e, l) => InSnoop(e, l)'
  BY <1>2, <1>3 DEF InSnoop, Writes
<1>8. OnlyLine(l)
  BY <1>2, <1>3, <1>4 DEF OnlyLine, Hit
<1>9. (Evicts(l))' = IF l \in evictSet' THEN 1 ELSE 0
  BY <1>1, <1>2, <1>3 DEF Evicts
<1>10. LineInv(l)'
  <2>1. EvictLast(l)'
    BY <1>1, <1>2 DEF EvictLast
  <2>2. AckAlone(l)'
    BY <1>1, <1>2, <1>5 DEF AckAlone
  <2>3. OneDirected(l)'
    BY <1>1, <1>2, <1>3, <1>5 DEF OneDirected, Single
  <2>4. SharersFindable(l)'
    BY <1>1, <1>2, <1>4, <1>5, <1>6 DEF SharersFindable, Findable, Hit
  <2> QED BY <2>1, <2>2, <2>3, <2>4 DEF LineInv
<1>11. Awaited(l) => Awaited(l)'
  BY <1>2 DEF Awaited, FillComing, InQueue, InRequest
<1> QED BY <1>8, <1>9, <1>10, <1>11, StepLine

(* FetchFwd: the line is here or leaving, so it is answered. *)
LEMMA StepFetchFwd ==
  ASSUME IInv, TypeOK', NEW l \in Lines, FetchFwd(l)
  PROVE  IInv'
<1>1. /\ TypeOK /\ OneEvictEach
      /\ EvictLast(l) /\ AckAlone(l) /\ OneDirected(l) /\ SharersFindable(l)
      /\ Single(snoop[l])
      /\ Evicts(l) = IF l \in evictSet THEN 1 ELSE 0
      /\ Cnt(missQueue, Queued("EvictClean", l)) \in Nat
      /\ Cnt(request[l], "EvictClean") \in Nat
      /\ Cnt(snoop[l], "EvictAck") \in Nat
      /\ transaction \in [Lines -> Transactions]
      /\ theI \in CacheSet
  BY LineKnown
<1>a. snoop[l] # <<>> /\ Head(snoop[l]) = "FetchFwd"
  BY DEF FetchFwd, SnoopArrives
<1>b. InSnoop("FetchFwd", l)
  <2>1. snoop[l] \in Seq(SnoopTypes)
    BY LineKnown
  <2> QED BY <1>a, <2>1, TailFacts DEF InSnoop
<1>c. transaction[l] = "forwarded" /\ l \in sharer /\ Findable(l)
  BY <1>1, <1>b DEF OneDirected, SharersFindable
<1>2. /\ snoop[l] # <<>> /\ Head(snoop[l]) = "FetchFwd" /\ Consume(l)
      /\ theI' = Touch(theI, l)
      /\ transaction' = [transaction EXCEPT ![l] = "reply"]
      /\ miss' = miss /\ prefetch' = prefetch /\ missQueue' = missQueue
      /\ request' = request /\ sharer' = sharer /\ evictSet' = evictSet
  BY <1>c DEF FetchFwd, SnoopArrives, Touched, Findable
<1>3. /\ \A x \in Lines \ {l} : snoop'[x] = snoop[x]
      /\ ToSet(snoop[l]) = {Head(snoop[l])} \cup ToSet(snoop'[l])
      /\ Single(snoop'[l])
      /\ Head(snoop[l]) \in Directed => \A e \in Directed : e \notin ToSet(snoop'[l])
      /\ Cnt(snoop'[l], "EvictAck") =
           Cnt(snoop[l], "EvictAck") - (IF Head(snoop[l]) = "EvictAck" THEN 1 ELSE 0)
  BY <1>2, PopSnoop
<1>4. ToSet(theI') = ToSet(theI)
  BY <1>1, <1>2, TouchFacts
<1>5. \A e : InSnoop(e, l)' => InSnoop(e, l)
  BY <1>3 DEF InSnoop
<1>6. \A e \in Directed : ~InSnoop(e, l)'
  BY <1>2, <1>3 DEF InSnoop, Directed
<1>7. transaction'[l] = "reply" /\ \A x \in Lines \ {l} : transaction'[x] = transaction[x]
  BY <1>1, <1>2
<1>8. OnlyLine(l)
  BY <1>2, <1>3, <1>4, <1>7 DEF OnlyLine, Hit
<1>9. (Evicts(l))' = IF l \in evictSet' THEN 1 ELSE 0
  BY <1>1, <1>2, <1>3 DEF Evicts
<1>10. LineInv(l)'
  <2>1. EvictLast(l)'
    BY <1>1, <1>2 DEF EvictLast
  <2>2. AckAlone(l)'
    BY <1>1, <1>5, <1>c DEF AckAlone
  <2>3. OneDirected(l)'
    BY <1>3, <1>6 DEF OneDirected, Single, Directed
  <2>4. SharersFindable(l)'
    BY <1>2, <1>4, <1>7, <1>c DEF SharersFindable, Findable, Hit
  <2> QED BY <2>1, <2>2, <2>3, <2>4 DEF LineInv
<1>11. Awaited(l) => Awaited(l)'
  BY <1>7 DEF Awaited, FillComing
<1> QED BY <1>8, <1>9, <1>10, <1>11, StepLine

(* EvictAck: the eviction it ends is the one in theEvictSet. *)
LEMMA StepEvictAck ==
  ASSUME IInv, TypeOK', NEW l \in Lines, EvictAck(l)
  PROVE  IInv'
<1>1. /\ TypeOK /\ OneEvictEach
      /\ EvictLast(l) /\ AckAlone(l) /\ OneDirected(l) /\ SharersFindable(l)
      /\ Single(snoop[l])
      /\ Evicts(l) = IF l \in evictSet THEN 1 ELSE 0
      /\ Cnt(missQueue, Queued("EvictClean", l)) \in Nat
      /\ Cnt(request[l], "EvictClean") \in Nat
      /\ Cnt(snoop[l], "EvictAck") \in Nat
      /\ transaction \in [Lines -> Transactions]
      /\ theI \in CacheSet
  BY LineKnown
<1>2. /\ snoop[l] # <<>> /\ Head(snoop[l]) = "EvictAck" /\ Consume(l)
      /\ theI' = theI /\ transaction' = transaction
      /\ miss' = miss /\ prefetch' = prefetch /\ missQueue' = missQueue
      /\ request' = request /\ sharer' = sharer /\ evictSet' = evictSet \ {l}
  BY DEF EvictAck, SnoopArrives
<1>3. /\ \A x \in Lines \ {l} : snoop'[x] = snoop[x]
      /\ ToSet(snoop[l]) = {Head(snoop[l])} \cup ToSet(snoop'[l])
      /\ Single(snoop'[l])
      /\ Head(snoop[l]) \in Directed => \A e \in Directed : e \notin ToSet(snoop'[l])
      /\ Cnt(snoop'[l], "EvictAck") =
           Cnt(snoop[l], "EvictAck") - (IF Head(snoop[l]) = "EvictAck" THEN 1 ELSE 0)
  BY <1>2, PopSnoop
<1>4. InSnoop("EvictAck", l)
  BY <1>2, <1>3 DEF InSnoop
<1>5. l \in evictSet /\ l \notin sharer /\ transaction[l] = "none" /\ request[l] = <<>>
  BY <1>1, <1>4, OneOnly DEF AckAlone
<1>6. \A e : InSnoop(e, l)' => InSnoop(e, l)
  BY <1>3 DEF InSnoop
<1>8. OnlyLine(l)
  BY <1>2, <1>3 DEF OnlyLine, Hit
<1>9. (Evicts(l))' = IF l \in evictSet' THEN 1 ELSE 0
  BY <1>1, <1>2, <1>3, <1>5 DEF Evicts
<1>10. LineInv(l)'
  <2>1. EvictLast(l)'
    BY <1>1, <1>2 DEF EvictLast
  <2>2. AckAlone(l)'
    BY <1>1, <1>2, <1>6 DEF AckAlone
  <2>3. OneDirected(l)'
    BY <1>1, <1>2, <1>3, <1>6 DEF OneDirected, Single
  <2>4. SharersFindable(l)'
    BY <1>2, <1>5 DEF SharersFindable
  <2> QED BY <2>1, <2>2, <2>3, <2>4 DEF LineInv
<1>11. Awaited(l) => Awaited(l)'
  BY <1>2, <1>5 DEF Awaited, FillComing, InQueue, InRequest
<1> QED BY <1>8, <1>9, <1>10, <1>11, StepLine

(* doRequest, a redundant fetch: the one whose answer is still to be       *)
(* consumed, or whose line has left the cache again, is not lost.          *)
LEMMA StepDirIgnoresFetch ==
  ASSUME IInv, TypeOK', NEW l \in Lines, DirIgnoresFetch(l)
  PROVE  IInv'
<1>1. /\ TypeOK /\ OneEvictEach
      /\ EvictLast(l) /\ AckAlone(l) /\ OneDirected(l) /\ SharersFindable(l)
      /\ Single(snoop[l])
      /\ Evicts(l) = IF l \in evictSet THEN 1 ELSE 0
      /\ Cnt(missQueue, Queued("EvictClean", l)) \in Nat
      /\ Cnt(request[l], "EvictClean") \in Nat
      /\ Cnt(snoop[l], "EvictAck") \in Nat
      /\ transaction \in [Lines -> Transactions]
  BY LineKnown
<1>2. /\ DirTakes(l, "FetchReq") /\ transaction[l] \in {"forwarded", "reply", "ack"}
      /\ snoop' = snoop /\ transaction' = transaction /\ sharer' = sharer
  BY DEF DirIgnoresFetch
<1>3. /\ missQueue' = missQueue /\ miss' = miss /\ prefetch' = prefetch
      /\ theI' = theI /\ evictSet' = evictSet
      /\ \A x \in Lines \ {l} : request'[x] = request[x]
      /\ InRequest("FetchReq", l)
      /\ ToSet(request[l]) = {"FetchReq"} \cup ToSet(request'[l])
      /\ EvictLast(l)'
      /\ Cnt(request'[l], "EvictClean") = Cnt(request[l], "EvictClean")
  BY <1>1, <1>2, PopRequest
<1>4. OnlyLine(l)
  BY <1>2, <1>3 DEF OnlyLine, Hit
<1>5. (Evicts(l))' = IF l \in evictSet' THEN 1 ELSE 0
  BY <1>1, <1>2, <1>3 DEF Evicts
<1>6. LineInv(l)'
  <2>1. AckAlone(l)'
    BY <1>1, <1>2 DEF AckAlone, InSnoop
  <2>2. OneDirected(l)' /\ SharersFindable(l)'
    BY <1>1, <1>2, <1>3 DEF OneDirected, SharersFindable, Findable, Hit, InSnoop
  <2> QED BY <1>3, <2>1, <2>2 DEF LineInv
<1>7. Awaited(l) => Awaited(l)'
  BY <1>2, <1>3 DEF Awaited, FillComing, InQueue
<1> QED BY <1>4, <1>5, <1>6, <1>7, StepLine

(* doRequest, a fetch that is served. *)
LEMMA StepDirFetch ==
  ASSUME IInv, TypeOK', NEW l \in Lines, DirFetch(l)
  PROVE  IInv'
<1>1. /\ TypeOK /\ OneEvictEach
      /\ EvictLast(l) /\ AckAlone(l) /\ OneDirected(l) /\ SharersFindable(l)
      /\ Single(snoop[l])
      /\ Evicts(l) = IF l \in evictSet THEN 1 ELSE 0
      /\ Cnt(missQueue, Queued("EvictClean", l)) \in Nat
      /\ Cnt(request[l], "EvictClean") \in Nat
      /\ Cnt(snoop[l], "EvictAck") \in Nat
      /\ transaction \in [Lines -> Transactions]
  BY LineKnown
<1>2. /\ DirTakes(l, "FetchReq") /\ transaction[l] = "none" /\ sharer' = sharer
      /\ \/ /\ transaction' = [transaction EXCEPT ![l] = "reply"]
            /\ snoop' = snoop
         \/ /\ l \in sharer
            /\ transaction' = [transaction EXCEPT ![l] = "forwarded"]
            /\ snoop' = [snoop EXCEPT ![l] = Append(@, "FetchFwd")]
  BY DEF DirFetch
<1>3. /\ missQueue' = missQueue /\ miss' = miss /\ prefetch' = prefetch
      /\ theI' = theI /\ evictSet' = evictSet
      /\ \A x \in Lines \ {l} : request'[x] = request[x]
      /\ InRequest("FetchReq", l)
      /\ ToSet(request[l]) = {"FetchReq"} \cup ToSet(request'[l])
      /\ EvictLast(l)'
      /\ Cnt(request'[l], "EvictClean") = Cnt(request[l], "EvictClean")
  BY <1>1, <1>2, PopRequest
<1>4. \A e \in Directed : ~InSnoop(e, l)
  BY <1>1, <1>2 DEF OneDirected, Directed
<1>5. ~InSnoop("EvictAck", l)
  <2>1. request[l] # <<>>
    BY <1>2 DEF DirTakes
  <2> QED BY <1>1, <2>1 DEF AckAlone
<1>6. \A x \in Lines \ {l} : transaction'[x] = transaction[x]
  BY <1>1, <1>2
<1>7. CASE transaction'[l] = "reply" /\ snoop' = snoop
  <2>1. OnlyLine(l)
    BY <1>2, <1>3, <1>6, <1>7 DEF OnlyLine, Hit
  <2>2. (Evicts(l))' = IF l \in evictSet' THEN 1 ELSE 0
    BY <1>1, <1>3, <1>7 DEF Evicts
  <2>3. \A e : InSnoop(e, l)' <=> InSnoop(e, l)
    BY <1>7 DEF InSnoop
  <2>4. LineInv(l)'
    <3>1. AckAlone(l)'
      BY <1>5, <2>3 DEF AckAlone
    <3>2. OneDirected(l)'
      BY <1>1, <1>4, <1>7, <2>3 DEF OneDirected, Directed
    <3>3. SharersFindable(l)'
      BY <1>1, <1>2, <1>3, <1>7 DEF SharersFindable, Findable, Hit
    <3> QED BY <1>3, <3>1, <3>2, <3>3 DEF LineInv
  <2>5. Awaited(l)'
    BY <1>7 DEF Awaited, FillComing
  <2> QED BY <2>1, <2>2, <2>4, <2>5, StepLine
<1>8. CASE /\ l \in sharer /\ transaction'[l] = "forwarded"
           /\ snoop' = [snoop EXCEPT ![l] = Append(@, "FetchFwd")]
  <2>1. "FetchFwd" \in SnoopTypes
    BY DEF SnoopTypes
  <2>2. /\ \A x \in Lines \ {l} : snoop'[x] = snoop[x]
        /\ ToSet(snoop'[l]) = ToSet(snoop[l]) \cup {"FetchFwd"}
        /\ Single(snoop'[l])
        /\ Cnt(snoop'[l], "EvictAck") =
             Cnt(snoop[l], "EvictAck") + (IF "FetchFwd" = "EvictAck" THEN 1 ELSE 0)
    BY <1>4, <1>8, <2>1, PushSnoop
  <2>3. OnlyLine(l)
    BY <1>2, <1>3, <1>6, <2>2 DEF OnlyLine, Hit
  <2>4. (Evicts(l))' = IF l \in evictSet' THEN 1 ELSE 0
    BY <1>1, <1>3, <2>2 DEF Evicts
  <2>5. \A e : InSnoop(e, l)' <=> InSnoop(e, l) \/ e = "FetchFwd"
    BY <2>2 DEF InSnoop
  <2>6. LineInv(l)'
    <3>1. AckAlone(l)'
      BY <1>5, <2>5 DEF AckAlone
    <3>2. OneDirected(l)'
      BY <1>2, <1>4, <1>8, <2>2, <2>5 DEF OneDirected, Directed, Writes, Single
    <3>3. SharersFindable(l)'
      BY <1>1, <1>2, <1>3, <1>8 DEF SharersFindable, Findable, Hit
    <3> QED BY <1>3, <3>1, <3>2, <3>3 DEF LineInv
  <2>7. Awaited(l)'
    BY <1>8 DEF Awaited, FillComing
  <2> QED BY <2>3, <2>4, <2>6, <2>7, StepLine
<1>9. \/ transaction'[l] = "reply" /\ snoop' = snoop
      \/ /\ l \in sharer /\ transaction'[l] = "forwarded"
         /\ snoop' = [snoop EXCEPT ![l] = Append(@, "FetchFwd")]
  BY <1>1, <1>2
<1> QED BY <1>7, <1>8, <1>9

(* doEvict: the eviction was the last request of the line. *)
LEMMA StepDirEvict ==
  ASSUME IInv, TypeOK', NEW l \in Lines, DirEvict(l)
  PROVE  IInv'
<1>1. /\ TypeOK /\ OneEvictEach
      /\ EvictLast(l) /\ AckAlone(l) /\ OneDirected(l) /\ SharersFindable(l)
      /\ Single(snoop[l])
      /\ Evicts(l) = IF l \in evictSet THEN 1 ELSE 0
      /\ Cnt(missQueue, Queued("EvictClean", l)) \in Nat
      /\ Cnt(request[l], "EvictClean") \in Nat
      /\ Cnt(snoop[l], "EvictAck") \in Nat
      /\ transaction \in [Lines -> Transactions]
  BY LineKnown
<1>2. /\ DirTakes(l, "EvictClean") /\ transaction[l] = "none" /\ transaction' = transaction
      /\ sharer' = sharer \ {l}
      /\ snoop' = [snoop EXCEPT ![l] = Append(@, "EvictAck")]
  BY DEF DirEvict
<1>3. /\ missQueue' = missQueue /\ miss' = miss /\ prefetch' = prefetch
      /\ theI' = theI /\ evictSet' = evictSet
      /\ \A x \in Lines \ {l} : request'[x] = request[x]
      /\ InRequest("EvictClean", l)
      /\ ToSet(request[l]) = {"EvictClean"} \cup ToSet(request'[l])
      /\ EvictLast(l)'
      /\ request'[l] = <<>>
      /\ Cnt(request'[l], "EvictClean") = Cnt(request[l], "EvictClean") - 1
  BY <1>1, <1>2, PopRequest
<1>4. "EvictAck" \in SnoopTypes /\ "EvictAck" \notin Directed
  BY DEF SnoopTypes, Directed, Writes
<1>5. /\ \A x \in Lines \ {l} : snoop'[x] = snoop[x]
      /\ ToSet(snoop'[l]) = ToSet(snoop[l]) \cup {"EvictAck"}
      /\ Single(snoop'[l])
      /\ Cnt(snoop'[l], "EvictAck") = Cnt(snoop[l], "EvictAck") + 1
  BY <1>2, <1>4, PushSnoop
<1>6. \A e : InSnoop(e, l)' <=> InSnoop(e, l) \/ e = "EvictAck"
  BY <1>5 DEF InSnoop
<1>7. \A e \in Directed : ~InSnoop(e, l)'
  BY <1>1, <1>2, <1>4, <1>6 DEF OneDirected, Directed
<1>8. ~InRequest("FetchReq", l)
  <2>1. ToSet(request'[l]) = {}
    <3>1. request'[l] = <<>>
      BY <1>3
    <3> QED BY ONLY <3>1 DEF ToSet
  <2>2. ToSet(request[l]) = {"EvictClean"} \cup ToSet(request'[l])
    BY <1>3
  <2>3. ToSet(request[l]) = {"EvictClean"}
    BY ONLY <2>1, <2>2
  <2> QED BY ONLY <2>3 DEF InRequest
<1>9. OnlyLine(l)
  BY <1>2, <1>3, <1>5 DEF OnlyLine, Hit
<1>10. (Evicts(l))' = IF l \in evictSet' THEN 1 ELSE 0
  BY <1>1, <1>3, <1>5 DEF Evicts
<1>11. LineInv(l)'
  <2>1. AckAlone(l)'
    BY <1>2, <1>3 DEF AckAlone
  <2>2. OneDirected(l)'
    BY <1>5, <1>7 DEF OneDirected, Directed, Single
  <2>3. SharersFindable(l)'
    BY <1>2 DEF SharersFindable
  <2> QED BY <1>3, <2>1, <2>2, <2>3 DEF LineInv
<1>12. Awaited(l) => Awaited(l)'
  BY <1>2, <1>3, <1>8 DEF Awaited, FillComing, InQueue
<1> QED BY <1>9, <1>10, <1>11, <1>12, StepLine

(* handleReply: a FetchAck makes the cache a sharer of a line it has or is *)
(* evicting; the WriteAck of another core ends its right to the line.      *)
LEMMA StepDirAcks ==
  ASSUME IInv, TypeOK', NEW l \in Lines, DirAck(l) \/ DirWriteAck(l)
  PROVE  IInv'
<1>1. /\ TypeOK /\ OneEvictEach
      /\ EvictLast(l) /\ AckAlone(l) /\ OneDirected(l) /\ SharersFindable(l)
      /\ Single(snoop[l])
      /\ Evicts(l) = IF l \in evictSet THEN 1 ELSE 0
      /\ Cnt(missQueue, Queued("EvictClean", l)) \in Nat
      /\ Cnt(request[l], "EvictClean") \in Nat
      /\ Cnt(snoop[l], "EvictAck") \in Nat
      /\ transaction \in [Lines -> Transactions]
  BY LineKnown
<1>2. /\ missQueue' = missQueue /\ miss' = miss /\ prefetch' = prefetch
      /\ theI' = theI /\ evictSet' = evictSet /\ request' = request /\ snoop' = snoop
      /\ transaction' = [transaction EXCEPT ![l] = "none"]
      /\ \A x \in Lines \ {l} : x \in sharer' <=> x \in sharer
  BY DEF DirAck, DirWriteAck, fetchVars
<1>3. transaction'[l] = "none" /\ \A x \in Lines \ {l} : transaction'[x] = transaction[x]
  BY <1>1, <1>2
<1>4. /\ transaction[l] = "ack" \/ (transaction[l] = "write" /\ l \notin sharer')
      /\ \A e \in Writes : transaction[l] = "write" => ~InSnoop(e, l)
  BY DEF DirAck, DirWriteAck, Writes
<1>5. \A e \in Directed : ~InSnoop(e, l)
  BY <1>1, <1>4 DEF OneDirected, Directed
<1>6. \A e : InSnoop(e, l)' <=> InSnoop(e, l)
  BY <1>2 DEF InSnoop
<1>7. OnlyLine(l)
  BY <1>2, <1>3 DEF OnlyLine, Hit
<1>8. (Evicts(l))' = IF l \in evictSet' THEN 1 ELSE 0
  BY <1>1, <1>2 DEF Evicts
<1>9. LineInv(l)'
  <2>1. EvictLast(l)'
    BY <1>1, <1>2 DEF EvictLast
  <2>2. AckAlone(l)'
    BY <1>1, <1>4, <1>6 DEF AckAlone
  <2>3. OneDirected(l)'
    BY <1>1, <1>2, <1>5, <1>6 DEF OneDirected, Directed
  <2>4. SharersFindable(l)'
    BY <1>1, <1>2, <1>3, <1>4 DEF SharersFindable, Findable, Hit
  <2> QED BY <2>1, <2>2, <2>3, <2>4 DEF LineInv
<1>10. Awaited(l) => Awaited(l)'
  BY <1>2, <1>3, <1>4 DEF Awaited, FillComing, InQueue, InRequest
<1> QED BY <1>7, <1>8, <1>9, <1>10, StepLine

(* A read or a write of another core. *)
LEMMA StepDirForwards ==
  ASSUME IInv, TypeOK', NEW l \in Lines, DirRead(l) \/ DirWrite(l)
  PROVE  IInv'
<1>1. /\ TypeOK /\ OneEvictEach
      /\ EvictLast(l) /\ AckAlone(l) /\ OneDirected(l) /\ SharersFindable(l)
      /\ Single(snoop[l])
      /\ Evicts(l) = IF l \in evictSet THEN 1 ELSE 0
      /\ Cnt(missQueue, Queued("EvictClean", l)) \in Nat
      /\ Cnt(request[l], "EvictClean") \in Nat
      /\ Cnt(snoop[l], "EvictAck") \in Nat
      /\ transaction \in [Lines -> Transactions]
  BY LineKnown
<1>2. /\ missQueue' = missQueue /\ miss' = miss /\ prefetch' = prefetch
      /\ theI' = theI /\ evictSet' = evictSet /\ request' = request /\ sharer' = sharer
      /\ l \in sharer
  BY DEF DirRead, DirWrite, fetchVars
<1>3. PICK type \in {"ReadFwd"} \cup Writes :
        /\ snoop' = [snoop EXCEPT ![l] = Append(@, type)]
        /\ type = "ReadFwd" => transaction' = transaction /\ transaction[l] # "write"
        /\ type # "ReadFwd" => /\ transaction[l] = "none"
                               /\ transaction' = [transaction EXCEPT ![l] = "write"]
  BY DEF DirRead, DirWrite, Writes
<1>4. /\ type \in SnoopTypes /\ type # "EvictAck" /\ type # "FetchFwd"
      /\ type \in Directed <=> type # "ReadFwd"
      /\ type \in Writes <=> type # "ReadFwd"
  BY <1>3 DEF SnoopTypes, Directed, Writes
<1>5. transaction[l] = "none" => \A e \in Directed : ~InSnoop(e, l)
  BY <1>1 DEF OneDirected, Directed
<1>6. /\ \A x \in Lines \ {l} : snoop'[x] = snoop[x]
      /\ ToSet(snoop'[l]) = ToSet(snoop[l]) \cup {type}
      /\ Single(snoop'[l])
      /\ Cnt(snoop'[l], "EvictAck") =
           Cnt(snoop[l], "EvictAck") + (IF type = "EvictAck" THEN 1 ELSE 0)
  BY <1>3, <1>4, <1>5, PushSnoop
<1>7. /\ transaction'[l] = IF type = "ReadFwd" THEN transaction[l] ELSE "write"
      /\ \A x \in Lines \ {l} : transaction'[x] = transaction[x]
  BY <1>1, <1>3
<1>8. \A e : InSnoop(e, l)' <=> InSnoop(e, l) \/ e = type
  BY <1>6 DEF InSnoop
<1>9. OnlyLine(l)
  BY <1>2, <1>6, <1>7 DEF OnlyLine, Hit
<1>10. (Evicts(l))' = IF l \in evictSet' THEN 1 ELSE 0
  BY <1>1, <1>2, <1>4, <1>6 DEF Evicts
<1>11. LineInv(l)'
  <2>1. EvictLast(l)'
    BY <1>1, <1>2 DEF EvictLast
  <2>2. AckAlone(l)'
    BY <1>1, <1>2, <1>4, <1>8 DEF AckAlone
  <2>3. OneDirected(l)'
    <3>1. CASE type = "ReadFwd"
      BY <1>1, <1>2, <1>4, <1>6, <1>7, <1>8, <3>1 DEF OneDirected, Single
    <3>2. CASE type # "ReadFwd"
      BY <1>2, <1>3, <1>4, <1>5, <1>6, <1>7, <1>8, <3>2 DEF OneDirected, Single, Directed
    <3> QED BY <3>1, <3>2
  <2>4. SharersFindable(l)'
    <3>1. transaction[l] # "write"
      BY <1>3
    <3>2. Findable(l)'
      BY <1>1, <1>2, <3>1 DEF SharersFindable, Findable, Hit
    <3> QED BY <3>2 DEF SharersFindable
  <2> QED BY <2>1, <2>2, <2>3, <2>4 DEF LineInv
<1>12. Awaited(l) => Awaited(l)'
  BY <1>2, <1>3, <1>7 DEF Awaited, FillComing, InQueue, InRequest
<1> QED BY <1>9, <1>10, <1>11, <1>12, StepLine

-----------------------------------------------------------------------------
(* The invariant and what follows from it.                                 *)

(* Every step preserves the invariant. *)
LEMMA InvStep == CleanEvict /\ IInv /\ [Next]_vars => IInv'
<1> SUFFICES ASSUME CleanEvict, IInv, [Next]_vars PROVE IInv'
  OBVIOUS
<1>1. TypeOK /\ TypeOK'
  BY TypeStep DEF IInv
<1>2. CASE UNCHANGED vars
  <2>1. FrontStep
    BY <1>1, <1>2, Typed DEF FrontStep, vars, fetchVars, dirVars
  <2> QED BY <1>1, <2>1, StepFront
<1>3. CASE FetchUntranslated \/ FetchHit \/ FetchMiss \/ Squash
  BY <1>1, <1>3, FrontSteps, StepFront
<1>4. CASE SendMiss
  BY <1>1, <1>4, StepSendMiss
<1>5. ASSUME NEW l \in Lines, Fill(l) PROVE IInv'
  BY <1>1, <1>5, StepFill
<1>6. ASSUME NEW l \in Lines, Invalidate(l) \/ ReadFwd(l) \/ FetchFwd(l) \/ EvictAck(l)
      PROVE  IInv'
  BY <1>1, <1>6, StepInvalidate, StepReadFwd, StepFetchFwd, StepEvictAck
<1>7. ASSUME NEW l \in Lines, DirIgnoresFetch(l) \/ DirFetch(l) \/ DirEvict(l) PROVE IInv'
  BY <1>1, <1>7, StepDirIgnoresFetch, StepDirFetch, StepDirEvict
<1>8. ASSUME NEW l \in Lines, DirAck(l) \/ DirWriteAck(l) PROVE IInv'
  BY <1>1, <1>8, StepDirAcks
<1>9. ASSUME NEW l \in Lines, DirRead(l) \/ DirWrite(l) PROVE IInv'
  BY <1>1, <1>9, StepDirForwards
<1> QED BY <1>2, <1>3, <1>4, <1>5, <1>6, <1>7, <1>8, <1>9 DEF Next

(* Initially nothing is under way. *)
LEMMA InvInit == Init /\ TypeOK => IInv
<1> SUFFICES ASSUME Init, TypeOK PROVE IInv
  OBVIOUS
<1>1. /\ miss = NoLine /\ prefetch = NoLine /\ evictSet = {} /\ sharer = {}
      /\ missQueue = <<>>
      /\ \A l \in Lines : request[l] = <<>> /\ snoop[l] = <<>> /\ transaction[l] = "none"
  BY DEF Init
<1>2. ToSet(<<>>) = {} /\ DOMAIN <<>> = {}
  BY DEF ToSet
<1>3. \A e : Cnt(<<>>, e) = 0
  BY <1>2, FS_EmptySet DEF Cnt
<1>4. \A l \in Lines : Evicts(l) = IF l \in evictSet THEN 1 ELSE 0
  BY <1>1, <1>3 DEF Evicts
<1>5. ASSUME NEW l \in Lines PROVE LineInv(l)
  <2>1. EvictLast(l)
    BY <1>1, <1>2 DEF EvictLast
  <2>2. AckAlone(l) /\ OneDirected(l) /\ SharersFindable(l)
    BY <1>1, <1>2 DEF AckAlone, OneDirected, SharersFindable, InSnoop
  <2> QED BY <2>1, <2>2 DEF LineInv
<1>6. MissOnItsWay /\ RefetchWaits
  BY <1>1 DEF MissOnItsWay, RefetchWaits
<1> QED BY <1>4, <1>5, <1>6, EvictSum DEF IInv

(* With clean evictions, what the fetch unit, its messages and the         *)
(* directory hold of each line stays consistent.                           *)
THEOREM FetchInvariant ==
  ASSUME CleanEvict
  PROVE  Spec => []IInv
<1>1. Init => TypeOK
  BY InitTyped
<1>2. Init => IInv
  BY <1>1, InvInit
<1>3. IInv /\ [Next]_vars => IInv'
  BY InvStep
<1> QED BY <1>2, <1>3, PTL DEF Spec

(* A fetch of the line the pipeline waits for, and of one the prefetcher   *)
(* takes for asked for, is in theMissQueue, sent or being answered: no     *)
(* squash, redundant fetch that the directory ignores, or eviction         *)
(* overtaking it leaves the pipeline waiting for a fetch that was dropped. *)
(* Whether theMissQueue moves on is not part of it.                        *)
THEOREM FetchNotLost ==
  ASSUME CleanEvict
  PROVE  Spec => []MissOnItsWay
<1>1. IInv => MissOnItsWay
  BY DEF IInv
<1> QED BY <1>1, FetchInvariant, PTL

(* theEvictSet has a line exactly while one eviction of it is under way,   *)
(* and a WriteFwd or a FetchFwd finds the line in the cache or in          *)
(* theEvictSet, so fetchReply always has an answer for it.                 *)
THEOREM FetchEvictsTracked ==
  ASSUME CleanEvict
  PROVE  Spec => []EvictsTracked
<1>1. IInv => EvictsTracked
  <2> SUFFICES ASSUME IInv PROVE EvictsTracked
    OBVIOUS
  <2>1. ASSUME NEW l \in Lines, snoop[l] # <<>>, Head(snoop[l]) \in {"WriteFwd", "FetchFwd"}
        PROVE  Hit(l) \/ l \in evictSet
    <3>1. snoop[l] \in Seq(SnoopTypes) /\ OneDirected(l) /\ SharersFindable(l)
      BY LineKnown
    <3>2. InSnoop(Head(snoop[l]), l)
      BY <2>1, <3>1, TailFacts DEF InSnoop
    <3> QED BY <2>1, <3>1, <3>2 DEF OneDirected, SharersFindable, Findable, Writes
  <2>2. ForwardFindsLine
    BY <2>1 DEF ForwardFindsLine
  <2> QED BY <2>2 DEF IInv, EvictsTracked
<1> QED BY <1>1, FetchInvariant, PTL
=============================================================================
