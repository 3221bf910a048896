------------------------------ MODULE TabsProof ------------------------------
(***************************************************************************)
(* Proofs about Tabs, for any pages and addresses, any bounds and any      *)
(* sizes of the cache of at least two web views: the lists of tabs, pages  *)
(* and web views stay in step, and the browser is what Browser says.       *)
(***************************************************************************)
EXTENDS Tabs, SequenceTheorems, TLAPS

-----------------------------------------------------------------------------
(* Lists of different things. *)

LEMMA Removal ==
  ASSUME NEW S, NEW s \in Seq(S), NEW r \in 1..Len(s)
  PROVE  /\ RemoveAt(s, r) \in Seq(S)
         /\ Len(RemoveAt(s, r)) = Len(s) - 1
         /\ \A i \in 1..(Len(s) - 1) :
              RemoveAt(s, r)[i] = IF i < r THEN s[i] ELSE s[i + 1]
<1> DEFINE a == SubSeq(s, 1, r - 1)
           b == SubSeq(s, r + 1, Len(s))
<1>1. Len(s) \in Nat /\ r \in Nat /\ r >= 1 /\ r <= Len(s)
  OBVIOUS
<1>2. a \in Seq(S) /\ Len(a) = r - 1 /\ \A i \in 1..(r - 1) : a[i] = s[i]
  BY <1>1
<1>3. b \in Seq(S) /\ Len(b) = Len(s) - r /\ \A i \in 1..(Len(s) - r) : b[i] = s[r + i]
  BY <1>1
<1>4. RemoveAt(s, r) = a \o b
  BY DEF RemoveAt
<1> HIDE DEF a, b
<1>5. a \o b \in Seq(S) /\ Len(a \o b) = Len(s) - 1
  <2>1. a \in Seq(S) /\ b \in Seq(S)
    BY <1>2, <1>3
  <2>2. a \o b \in Seq(S) /\ Len(a \o b) = Len(a) + Len(b)
    BY <2>1, ConcatProperties
  <2>3. (r - 1) + (Len(s) - r) = Len(s) - 1
    BY <1>1
  <2> QED BY <1>2, <1>3, <2>2, <2>3
<1>6. ASSUME NEW i \in 1..(Len(s) - 1)
      PROVE  (a \o b)[i] = IF i < r THEN s[i] ELSE s[i + 1]
  <2>1. CASE i < r
    BY <1>1, <1>2, <1>3, <2>1
  <2>2. CASE ~(i < r)
    <3>1. i - (r - 1) \in 1..(Len(s) - r) /\ r + (i - (r - 1)) = i + 1
      BY <1>1, <2>2
    <3>2. (a \o b)[i] = b[i - (r - 1)]
      BY <1>1, <1>2, <1>3, <2>2
    <3> QED BY <1>3, <2>2, <3>1, <3>2
  <2> QED BY <2>1, <2>2
<1> QED BY <1>4, <1>5, <1>6

LEMMA Placed ==
  ASSUME NEW S, NEW s \in Seq(S), NEW e \in ToSet(s)
  PROVE  PlaceOf(s, e) \in 1..Len(s) /\ s[PlaceOf(s, e)] = e
<1>1. \E i \in DOMAIN s : s[i] = e
  BY DEF ToSet
<1> QED BY <1>1 DEF PlaceOf

LEMMA Taken ==
  ASSUME NEW S, NEW s \in Seq(S), IsInjective(s), NEW r \in 1..Len(s)
  PROVE  /\ RemoveAt(s, r) \in Seq(S) /\ IsInjective(RemoveAt(s, r))
         /\ Len(RemoveAt(s, r)) = Len(s) - 1
         /\ ToSet(RemoveAt(s, r)) = ToSet(s) \ {s[r]}
<1> DEFINE t == RemoveAt(s, r)
<1>1. /\ t \in Seq(S) /\ Len(t) = Len(s) - 1 /\ Len(s) \in Nat
      /\ \A i \in 1..(Len(s) - 1) : t[i] = IF i < r THEN s[i] ELSE s[i + 1]
  BY Removal
<1> HIDE DEF t
<1>2. DOMAIN s = 1..Len(s) /\ DOMAIN t = 1..(Len(s) - 1)
  BY <1>1
<1> DEFINE from(i) == IF i < r THEN i ELSE i + 1
<1>a. ASSUME NEW i \in DOMAIN t
      PROVE  from(i) \in DOMAIN s /\ from(i) # r /\ t[i] = s[from(i)]
  BY <1>1, <1>2
<1>b. ASSUME NEW i \in DOMAIN t, NEW j \in DOMAIN t, from(i) = from(j) PROVE i = j
  BY <1>1, <1>2, <1>b
<1>c. \A k, l \in DOMAIN s : s[k] = s[l] => k = l
  BY DEF IsInjective
<1> HIDE DEF from
<1>3. IsInjective(t)
  BY <1>a, <1>b, <1>c DEF IsInjective
<1>4. ASSUME NEW i \in DOMAIN t PROVE t[i] \in ToSet(s) \ {s[r]}
  <2>1. s[from(i)] # s[r]
    BY <1>2, <1>a, <1>c
  <2> QED BY <1>a, <2>1 DEF ToSet
<1>5. ASSUME NEW i \in DOMAIN s, i # r PROVE s[i] \in ToSet(t)
  <2>1. CASE i < r
    <3>1. i \in DOMAIN t /\ t[i] = s[i]
      BY <1>1, <1>2, <2>1
    <3> QED BY <3>1 DEF ToSet
  <2>2. CASE i > r
    <3>1. i - 1 \in DOMAIN t /\ t[i - 1] = s[i]
      BY <1>1, <1>2, <2>2
    <3> QED BY <3>1 DEF ToSet
  <2> QED BY <1>2, <1>5, <2>1, <2>2
<1>6. ToSet(t) = ToSet(s) \ {s[r]}
  BY <1>4, <1>5 DEF ToSet
<1> QED BY <1>1, <1>3, <1>6 DEF t

LEMMA WithoutOne ==
  ASSUME NEW S, NEW s \in Seq(S), IsInjective(s), NEW e \in ToSet(s)
  PROVE  /\ Without(s, e) \in Seq(S) /\ IsInjective(Without(s, e))
         /\ Len(Without(s, e)) = Len(s) - 1
         /\ ToSet(Without(s, e)) = ToSet(s) \ {e}
<1>1. PlaceOf(s, e) \in 1..Len(s) /\ s[PlaceOf(s, e)] = e
  BY Placed
<1> QED BY <1>1, Taken DEF Without

LEMMA Added ==
  ASSUME NEW S, NEW s \in Seq(S), IsInjective(s), NEW e \in S, e \notin ToSet(s)
  PROVE  /\ Append(s, e) \in Seq(S) /\ IsInjective(Append(s, e))
         /\ Len(Append(s, e)) = Len(s) + 1
         /\ Append(s, e)[Len(s) + 1] = e
         /\ ToSet(Append(s, e)) = ToSet(s) \cup {e}
<1> DEFINE t == Append(s, e)
<1>1. /\ t \in Seq(S) /\ Len(s) \in Nat /\ Len(t) = Len(s) + 1 /\ t[Len(s) + 1] = e
      /\ \A i \in 1..Len(s) : t[i] = s[i]
  OBVIOUS
<1> HIDE DEF t
<1>2. DOMAIN s = 1..Len(s) /\ DOMAIN t = 1..(Len(s) + 1)
  BY <1>1
<1>3. IsInjective(t)
  BY <1>1, <1>2 DEF IsInjective, ToSet
<1>4. ToSet(t) = ToSet(s) \cup {e}
  <2>1. \A i \in DOMAIN t : t[i] \in ToSet(s) \cup {e}
    BY <1>1, <1>2 DEF ToSet
  <2>2. \A i \in DOMAIN s : i \in DOMAIN t /\ t[i] = s[i]
    BY <1>1, <1>2
  <2>3. Len(s) + 1 \in DOMAIN t
    BY <1>1, <1>2
  <2> QED BY <1>1, <2>1, <2>2, <2>3 DEF ToSet
<1> QED BY <1>1, <1>3, <1>4 DEF t

LEMMA Inserted ==
  ASSUME NEW S, NEW s \in Seq(S), IsInjective(s), NEW e \in S, e \notin ToSet(s),
         NEW k \in 1..(Len(s) + 1)
  PROVE  /\ InsertAt(s, k, e) \in Seq(S) /\ IsInjective(InsertAt(s, k, e))
         /\ Len(InsertAt(s, k, e)) = Len(s) + 1
         /\ ToSet(InsertAt(s, k, e)) = ToSet(s) \cup {e}
<1> DEFINE a == SubSeq(s, 1, k - 1)
           b == SubSeq(s, k, Len(s))
           d == Append(a, e)
           t == d \o b
<1>1. Len(s) \in Nat /\ k \in Nat /\ k >= 1 /\ k <= Len(s) + 1 /\ DOMAIN s = 1..Len(s)
  OBVIOUS
<1>2. a \in Seq(S) /\ Len(a) = k - 1 /\ \A i \in 1..(k - 1) : a[i] = s[i]
  BY <1>1
<1>3. b \in Seq(S) /\ Len(b) = Len(s) - k + 1
      /\ \A i \in 1..(Len(s) - k + 1) : b[i] = s[k + i - 1]
  BY <1>1
<1> HIDE DEF a, b
<1>4. d \in Seq(S) /\ Len(d) = k /\ d[k] = e /\ \A i \in 1..(k - 1) : d[i] = s[i]
  BY <1>1, <1>2
<1>5. InsertAt(s, k, e) = t
  <2>1. a \o <<e>> = d
    BY <1>2, AppendIsConcat
  <2> QED BY <2>1 DEF InsertAt, a, b
<1> HIDE DEF d
<1>6. /\ t \in Seq(S) /\ Len(t) = Len(d) + Len(b)
      /\ \A i \in 1..(Len(d) + Len(b)) : t[i] = IF i <= Len(d) THEN d[i] ELSE b[i - Len(d)]
  <2>1. d \in Seq(S) /\ b \in Seq(S)
    BY <1>3, <1>4
  <2> QED BY <2>1, ConcatProperties
<1> HIDE DEF t
<1>7. /\ t \in Seq(S) /\ Len(t) = Len(s) + 1
      /\ \A i \in 1..(Len(s) + 1) : t[i] = IF i <= k THEN d[i] ELSE b[i - k]
  <2>1. k + (Len(s) - k + 1) = Len(s) + 1
    BY <1>1
  <2> QED BY <1>3, <1>4, <1>6, <2>1
<1>8. ASSUME NEW i \in 1..(Len(s) + 1)
      PROVE  t[i] = IF i < k THEN s[i] ELSE IF i = k THEN e ELSE s[i - 1]
  <2>1. CASE i <= k
    BY <1>1, <1>4, <1>7, <2>1
  <2>2. CASE i > k
    <3>1. i - k \in 1..(Len(s) - k + 1) /\ k + (i - k) - 1 = i - 1
      BY <1>1, <2>2
    <3>2. t[i] = b[i - k]
      BY <1>1, <1>7, <2>2
    <3> QED BY <1>1, <1>3, <2>2, <3>1, <3>2
  <2> QED BY <1>1, <2>1, <2>2
<1>9. DOMAIN t = 1..(Len(s) + 1)
  BY <1>1, <1>7
<1>10. \A i \in DOMAIN t : \/ i = k /\ t[i] = e
                           \/ i < k /\ i \in DOMAIN s /\ t[i] = s[i]
                           \/ i > k /\ i - 1 \in DOMAIN s /\ t[i] = s[i - 1]
  BY <1>1, <1>8, <1>9
<1>11. \A i \in DOMAIN s : s[i] \in ToSet(s) /\ s[i] # e
  BY DEF ToSet
<1>12. IsInjective(t)
  <2> SUFFICES ASSUME NEW x \in DOMAIN t, NEW y \in DOMAIN t, t[x] = t[y] PROVE x = y
    BY DEF IsInjective
  <2>1. x \in Nat /\ y \in Nat
    BY <1>1, <1>9
  <2>2. \A m, n \in DOMAIN s : s[m] = s[n] => m = n
    BY DEF IsInjective
  <2> QED BY <1>1, <1>10, <1>11, <2>1, <2>2
<1>13. ToSet(t) = ToSet(s) \cup {e}
  <2>1. \A i \in DOMAIN t : t[i] \in ToSet(s) \cup {e}
    BY <1>10, <1>11
  <2>2. ASSUME NEW i \in DOMAIN s PROVE s[i] \in ToSet(t)
    <3>1. CASE i < k
      <4>1. i \in DOMAIN t /\ t[i] = s[i]
        BY <1>1, <1>8, <1>9, <3>1
      <4> QED BY <4>1 DEF ToSet
    <3>2. CASE ~(i < k)
      <4>1. i + 1 \in DOMAIN t /\ t[i + 1] = s[i]
        BY <1>1, <1>8, <1>9, <3>2
      <4> QED BY <4>1 DEF ToSet
    <3> QED BY <3>1, <3>2
  <2>3. k \in DOMAIN t /\ t[k] = e
    BY <1>1, <1>8, <1>9
  <2> QED BY <2>1, <2>2, <2>3 DEF ToSet
<1> QED BY <1>5, <1>7, <1>12, <1>13

-----------------------------------------------------------------------------
(* The cache: its web views are those of the last tags of an order. *)

Recent(c, o) ==
  /\ Len(c) <= Len(o)
  /\ \A i \in 1..Len(c) : c[i].tag = o[Len(o) - Len(c) + i]

LEMMA TagsOf ==
  ASSUME NEW c \in Seq(WebView)
  PROVE  /\ Tags(c) \in Seq(Nat) /\ Len(Tags(c)) = Len(c)
         /\ \A i \in 1..Len(c) : Tags(c)[i] = c[i].tag
         /\ \A tag : Holds(c, tag) <=> \E i \in 1..Len(c) : c[i].tag = tag
<1>1. DOMAIN c = 1..Len(c) /\ Len(c) \in Nat /\ \A i \in 1..Len(c) : c[i] \in WebView
  OBVIOUS
<1>2. \A i \in 1..Len(c) : c[i].tag \in Nat
  BY <1>1 DEF WebView
<1>3. Tags(c) = [i \in 1..Len(c) |-> c[i].tag]
  BY <1>1 DEF Tags
<1> DEFINE t == Tags(c)
<1> HIDE DEF t
<1>4. t \in Seq(Nat) /\ Len(t) = Len(c) /\ DOMAIN t = 1..Len(c)
      /\ \A i \in 1..Len(c) : t[i] = c[i].tag
  BY <1>1, <1>2, <1>3 DEF t
<1>5. \A tag : Holds(c, tag) <=> \E i \in 1..Len(c) : c[i].tag = tag
  BY <1>4 DEF Holds, ToSet, t
<1> QED BY <1>4, <1>5 DEF t

LEMMA InOrder ==
  ASSUME NEW c \in Seq(WebView), NEW o \in Seq(Nat), IsInjective(o), Recent(c, o)
  PROVE  /\ IsInjective(Tags(c))
         /\ \A tag : Holds(c, tag) => tag \in ToSet(o)
<1>1. /\ Len(c) \in Nat /\ Len(o) \in Nat /\ DOMAIN o = 1..Len(o) /\ Len(c) <= Len(o)
      /\ \A i \in 1..Len(c) : /\ Len(o) - Len(c) + i \in DOMAIN o
                              /\ c[i].tag = o[Len(o) - Len(c) + i]
  BY DEF Recent
<1>2. DOMAIN Tags(c) = 1..Len(c)
  BY DEF Tags
<1>3. IsInjective(Tags(c))
  <2> SUFFICES ASSUME NEW i \in 1..Len(c), NEW j \in 1..Len(c), Tags(c)[i] = Tags(c)[j]
               PROVE  i = j
    BY <1>2 DEF IsInjective
  <2>1. o[Len(o) - Len(c) + i] = o[Len(o) - Len(c) + j]
    BY <1>1, TagsOf
  <2>2. Len(o) - Len(c) + i = Len(o) - Len(c) + j
    BY <1>1, <2>1 DEF IsInjective
  <2> QED BY <1>1, <2>2
<1>4. ASSUME NEW tag, Holds(c, tag) PROVE tag \in ToSet(o)
  <2> PICK i \in 1..Len(c) : c[i].tag = tag
    BY <1>4, TagsOf
  <2>1. Len(o) - Len(c) + i \in DOMAIN o /\ o[Len(o) - Len(c) + i] = tag
    BY <1>1
  <2> QED BY <2>1 DEF ToSet
<1> QED BY <1>3, <1>4

LEMMA NewestOnes ==
  ASSUME NEW c \in Seq(WebView), NEW n \in Nat
  PROVE  /\ Newest(c, n) \in Seq(WebView) /\ ToSet(Newest(c, n)) \subseteq ToSet(c)
         /\ Len(Newest(c, n)) = IF Len(c) <= n THEN Len(c) ELSE n
         /\ \A o \in Seq(Nat) : Recent(c, o) => Recent(Newest(c, n), o)
<1>1. CASE Len(c) <= n
  BY <1>1 DEF Newest
<1>2. CASE Len(c) > n
  <2> DEFINE d == SubSeq(c, Len(c) - n + 1, Len(c))
  <2>1. Len(c) \in Nat /\ DOMAIN c = 1..Len(c)
    OBVIOUS
  <2>2. d \in Seq(WebView) /\ Len(d) = n /\ \A i \in 1..n : d[i] = c[Len(c) - n + i]
    BY <1>2, <2>1
  <2>3. Newest(c, n) = d
    BY <1>2, <2>1 DEF Newest
  <2> HIDE DEF d
  <2>4. DOMAIN d = 1..n /\ \A i \in 1..n : Len(c) - n + i \in DOMAIN c
    BY <1>2, <2>1, <2>2
  <2>5. ToSet(d) \subseteq ToSet(c)
    BY <2>2, <2>4 DEF ToSet
  <2>6. ASSUME NEW o \in Seq(Nat), Recent(c, o) PROVE Recent(d, o)
    <3>1. Len(o) \in Nat /\ Len(c) <= Len(o)
      BY <2>6 DEF Recent
    <3>2. ASSUME NEW i \in 1..n PROVE d[i].tag = o[Len(o) - n + i]
      <4>1. Len(c) - n + i \in 1..Len(c)
            /\ Len(o) - Len(c) + (Len(c) - n + i) = Len(o) - n + i
        BY <1>2, <2>1, <3>1
      <4>2. c[Len(c) - n + i].tag = o[Len(o) - Len(c) + (Len(c) - n + i)]
        BY <2>6, <4>1 DEF Recent
      <4> QED BY <2>2, <4>1, <4>2
    <3> QED BY <1>2, <2>1, <2>2, <3>1, <3>2 DEF Recent
  <2>7. Len(d) = n /\ ~(Len(c) <= n)
    BY <1>2, <2>1, <2>2
  <2>8. d \in Seq(WebView)
    BY <2>2
  <2> QED BY <2>3, <2>5, <2>6, <2>7, <2>8
<1> QED BY <1>1, <1>2

LEMMA RoomMade ==
  ASSUME NEW c \in Seq(WebView), Len(c) <= MaxCached
  PROVE  /\ Room(c) \in Seq(WebView) /\ ToSet(Room(c)) \subseteq ToSet(c)
         /\ Len(Room(c)) < MaxCached
         /\ Len(c) >= 1 => Len(Room(c)) >= 1
         /\ \A o \in Seq(Nat) : Recent(c, o) => Recent(Room(c), o)
<1>1. MaxCached \in Nat /\ MaxCached >= 2 /\ Len(c) \in Nat
  BY TabsAssumption DEF TabsAssumption
<1>2. CASE Len(c) < MaxCached
  BY <1>1, <1>2 DEF Room
<1>3. CASE Len(c) = MaxCached
  <2> DEFINE n == Len(c) - 1
             d == Tail(c)
  <2>1. Room(c) = d /\ n \in Nat
    BY <1>1, <1>3 DEF Room
  <2>2. d = Newest(c, n)
    <3>1. Newest(c, n) = SubSeq(c, 2, Len(c))
      BY <1>1, <1>3 DEF Newest
    <3>2. Tail(c) = SubSeq(c, 2, Len(c))
      BY <1>1, <1>3
    <3> QED BY <3>1, <3>2
  <2>3. Len(Newest(c, n)) = n
    BY <1>1, <2>1, NewestOnes
  <2> HIDE DEF d, n
  <2>4. /\ d \in Seq(WebView) /\ ToSet(d) \subseteq ToSet(c) /\ Len(d) = n
        /\ \A o \in Seq(Nat) : Recent(c, o) => Recent(d, o)
    BY <2>1, <2>2, <2>3, NewestOnes
  <2>5. n < MaxCached /\ n >= 1
    BY <1>1, <1>3 DEF n
  <2> QED BY <2>1, <2>4, <2>5
<1> QED BY <1>1, <1>2, <1>3

LEMMA RecentAppend ==
  ASSUME NEW c \in Seq(WebView), NEW o \in Seq(Nat), Recent(c, o), NEW v \in WebView
  PROVE  /\ Recent(Append(c, v), Append(o, v.tag))
         /\ Append(c, v) \in Seq(WebView) /\ Len(Append(c, v)) = Len(c) + 1
         /\ ToSet(Append(c, v)) = ToSet(c) \cup {v}
<1> DEFINE d == Append(c, v)
           p == Append(o, v.tag)
<1>0. v.tag \in Nat
  BY DEF WebView
<1>1. /\ d \in Seq(WebView) /\ Len(c) \in Nat /\ Len(d) = Len(c) + 1 /\ d[Len(c) + 1] = v
      /\ DOMAIN c = 1..Len(c) /\ DOMAIN d = 1..(Len(c) + 1) /\ \A i \in 1..Len(c) : d[i] = c[i]
  OBVIOUS
<1>2. /\ p \in Seq(Nat) /\ Len(o) \in Nat /\ Len(p) = Len(o) + 1 /\ p[Len(o) + 1] = v.tag
      /\ \A i \in 1..Len(o) : p[i] = o[i]
  BY <1>0
<1> HIDE DEF d, p
<1>3. Len(c) <= Len(o) /\ \A i \in 1..Len(c) : c[i].tag = o[Len(o) - Len(c) + i]
  BY DEF Recent
<1>4. ASSUME NEW i \in 1..(Len(c) + 1)
      PROVE  d[i].tag = p[(Len(o) + 1) - (Len(c) + 1) + i]
  <2>1. CASE i <= Len(c)
    <3>1. Len(o) - Len(c) + i \in 1..Len(o) /\ (Len(o) + 1) - (Len(c) + 1) + i = Len(o) - Len(c) + i
      BY <1>1, <1>2, <1>3, <2>1
    <3>2. d[i] = c[i] /\ c[i].tag = o[Len(o) - Len(c) + i]
      BY <1>1, <1>3, <2>1
    <3>3. p[Len(o) - Len(c) + i] = o[Len(o) - Len(c) + i]
      BY <1>2, <3>1
    <3> QED BY <3>1, <3>2, <3>3
  <2>2. CASE i = Len(c) + 1
    <3>1. (Len(o) + 1) - (Len(c) + 1) + i = Len(o) + 1
      BY <1>1, <1>2, <2>2
    <3> QED BY <1>1, <1>2, <2>2, <3>1
  <2> QED BY <1>1, <2>1, <2>2
<1>5. Recent(d, p)
  BY <1>1, <1>2, <1>3, <1>4 DEF Recent
<1>6. ToSet(d) = ToSet(c) \cup {v}
  <2>1. ASSUME NEW i \in DOMAIN d PROVE d[i] \in ToSet(c) \cup {v}
    <3>1. i \in DOMAIN c \/ i = Len(c) + 1
      BY <1>1
    <3> QED BY <1>1, <3>1 DEF ToSet
  <2>2. \A i \in DOMAIN c : i \in DOMAIN d /\ d[i] = c[i]
    BY <1>1
  <2>3. Len(c) + 1 \in DOMAIN d
    BY <1>1
  <2> QED BY <1>1, <2>1, <2>2, <2>3 DEF ToSet
<1> QED BY <1>1, <1>5, <1>6 DEF d, p

LEMMA LastHeld ==
  ASSUME NEW c \in Seq(WebView), NEW o \in Seq(Nat), Recent(c, o), Len(c) >= 1
  PROVE  Len(o) >= 1 /\ c[Len(c)].tag = o[Len(o)] /\ Holds(c, o[Len(o)])
<1>1. Len(c) \in 1..Len(c) /\ Len(o) \in Nat /\ Len(o) >= 1 /\ Len(o) - Len(c) + Len(c) = Len(o)
  BY DEF Recent
<1>2. c[Len(c)].tag = o[Len(o)]
  BY <1>1 DEF Recent
<1> QED BY <1>1, <1>2, TagsOf

LEMMA DropRecent ==
  ASSUME NEW c \in Seq(WebView), NEW o \in Seq(Nat), IsInjective(o), Recent(c, o),
         NEW tag, Holds(c, tag)
  PROVE  /\ Drop(c, tag) \in Seq(WebView) /\ Len(Drop(c, tag)) = Len(c) - 1
         /\ ToSet(Drop(c, tag)) \subseteq ToSet(c)
         /\ Recent(Drop(c, tag), Without(o, tag))
         /\ PlaceOf(Tags(c), tag) \in 1..Len(c) /\ c[PlaceOf(Tags(c), tag)].tag = tag
<1> DEFINE p == PlaceOf(Tags(c), tag)
           q == PlaceOf(o, tag)
           d == RemoveAt(c, p)
           w == RemoveAt(o, q)
<1>1. p \in 1..Len(c) /\ c[p].tag = tag
  <2>1. tag \in ToSet(Tags(c)) /\ Tags(c) \in Seq(Nat) /\ Len(Tags(c)) = Len(c)
    BY TagsOf DEF Holds
  <2>2. p \in 1..Len(c) /\ Tags(c)[p] = tag
    BY <2>1, Placed
  <2> QED BY <2>2, TagsOf
<1>2. q \in 1..Len(o) /\ o[q] = tag
  BY InOrder, Placed
<1>3. Len(c) \in Nat /\ Len(o) \in Nat /\ Len(c) <= Len(o)
      /\ DOMAIN o = 1..Len(o) /\ DOMAIN c = 1..Len(c)
      /\ \A i \in 1..Len(c) : c[i].tag = o[Len(o) - Len(c) + i]
  BY DEF Recent
<1> HIDE DEF p, q
<1>4. /\ d \in Seq(WebView) /\ Len(d) = Len(c) - 1
      /\ \A i \in 1..(Len(c) - 1) : d[i] = IF i < p THEN c[i] ELSE c[i + 1]
  BY <1>1, Removal
<1>5. /\ w \in Seq(Nat) /\ Len(w) = Len(o) - 1
      /\ \A i \in 1..(Len(o) - 1) : w[i] = IF i < q THEN o[i] ELSE o[i + 1]
  BY <1>2, Removal
<1> HIDE DEF d, w
<1>6. q = Len(o) - Len(c) + p
  <2>1. Len(o) - Len(c) + p \in 1..Len(o)
    <3>1. /\ p \in Int /\ 1 <= p /\ p <= Len(c)
          /\ Len(o) \in Int /\ Len(c) \in Int /\ Len(c) <= Len(o)
      BY <1>1, <1>3
    <3> QED BY ONLY <3>1
  <2>2. o[Len(o) - Len(c) + p] = o[q]
    BY <1>1, <1>2, <1>3
  <2> QED BY <1>2, <1>3, <2>1, <2>2 DEF IsInjective
<1>7. ASSUME NEW i \in 1..(Len(c) - 1)
      PROVE  d[i].tag = w[(Len(o) - 1) - (Len(c) - 1) + i]
  <2>1. (Len(o) - 1) - (Len(c) - 1) + i = Len(o) - Len(c) + i
        /\ Len(o) - Len(c) + i \in 1..(Len(o) - 1)
    BY <1>3
  <2>2. CASE i < p
    <3>0. p \in Int /\ i \in Int /\ Len(o) \in Int /\ Len(c) \in Int
      BY <1>1, <1>3
    <3>a. Len(o) - Len(c) + i < q
      BY ONLY <1>6, <2>2, <3>0
    <3>1. d[i] = c[i] /\ Len(o) - Len(c) + i < q
      BY <1>4, <2>2, <3>a
    <3>2. w[Len(o) - Len(c) + i] = o[Len(o) - Len(c) + i]
      BY <1>5, <2>1, <3>1
    <3>3. i \in 1..Len(c)
      BY <1>3
    <3>4. c[i].tag = o[Len(o) - Len(c) + i]
      BY <1>3, <3>3
    <3> QED BY <2>1, <3>1, <3>2, <3>4
  <2>3. CASE ~(i < p)
    <3>1. d[i] = c[i + 1] /\ ~(Len(o) - Len(c) + i < q)
      <4>1. i \in Nat /\ p \in Nat /\ i >= p
        BY <1>1, <1>3, <2>3
      <4>2. d[i] = c[i + 1]
        BY <1>4, <2>3
      <4> QED BY <1>3, <1>6, <4>1, <4>2
    <3>2. w[Len(o) - Len(c) + i] = o[(Len(o) - Len(c) + i) + 1]
      BY <1>5, <2>1, <3>1
    <3>3. i + 1 \in 1..Len(c) /\ (Len(o) - Len(c) + i) + 1 = Len(o) - Len(c) + (i + 1)
      BY <1>3
    <3>4. c[i + 1].tag = o[Len(o) - Len(c) + (i + 1)]
      BY <1>3, <3>3
    <3> QED BY <2>1, <3>1, <3>2, <3>3, <3>4
  <2> QED BY <2>2, <2>3
<1>8. Recent(d, w)
  BY <1>3, <1>4, <1>5, <1>7 DEF Recent
<1>9. ToSet(d) \subseteq ToSet(c)
  <2>1. \A i \in 1..(Len(c) - 1) : d[i] = c[i] \/ d[i] = c[i + 1]
    BY <1>4
  <2>2. DOMAIN d = 1..(Len(c) - 1) /\ DOMAIN c = 1..Len(c)
    BY <1>4
  <2>3. \A i \in 1..(Len(c) - 1) : i \in 1..Len(c) /\ i + 1 \in 1..Len(c)
    BY <1>3
  <2> QED BY <2>1, <2>2, <2>3 DEF ToSet
<1> QED BY <1>1, <1>4, <1>8, <1>9 DEF Drop, Without, d, w, p, q

LEMMA KeptRecent ==
  ASSUME NEW c \in Seq(WebView), NEW o \in Seq(Nat), IsInjective(o), Recent(c, o),
         NEW tag \in ToSet(o), ~Holds(c, tag)
  PROVE  Recent(c, Without(o, tag))
<1> DEFINE q == PlaceOf(o, tag)
           w == RemoveAt(o, q)
<1>1. q \in 1..Len(o) /\ o[q] = tag
  BY Placed
<1>2. Len(c) \in Nat /\ Len(o) \in Nat /\ Len(c) <= Len(o)
      /\ \A i \in 1..Len(c) : c[i].tag = o[Len(o) - Len(c) + i]
  BY DEF Recent
<1> HIDE DEF q
<1>3. /\ w \in Seq(Nat) /\ Len(w) = Len(o) - 1
      /\ \A i \in 1..(Len(o) - 1) : w[i] = IF i < q THEN o[i] ELSE o[i + 1]
  BY <1>1, Removal
<1> HIDE DEF w
<1>4. q <= Len(o) - Len(c)
  <2> SUFFICES ASSUME q > Len(o) - Len(c) PROVE FALSE
    BY <1>1, <1>2
  <2>1. q - (Len(o) - Len(c)) \in 1..Len(c)
        /\ Len(o) - Len(c) + (q - (Len(o) - Len(c))) = q
    BY <1>1, <1>2
  <2>2. c[q - (Len(o) - Len(c))].tag = tag
    BY <1>1, <1>2, <2>1
  <2> QED BY <2>1, <2>2, TagsOf
<1>5. ASSUME NEW i \in 1..Len(c) PROVE c[i].tag = w[(Len(o) - 1) - Len(c) + i]
  <2>1. /\ (Len(o) - 1) - Len(c) + i \in 1..(Len(o) - 1)
        /\ ~((Len(o) - 1) - Len(c) + i < q)
        /\ ((Len(o) - 1) - Len(c) + i) + 1 = Len(o) - Len(c) + i
    <3>1. /\ i \in Int /\ 1 <= i /\ i <= Len(c) /\ q \in Int /\ 1 <= q
          /\ Len(o) \in Int /\ Len(c) \in Int /\ Len(c) <= Len(o)
      BY <1>1, <1>2
    <3> QED BY ONLY <1>4, <3>1
  <2>2. w[(Len(o) - 1) - Len(c) + i] = o[((Len(o) - 1) - Len(c) + i) + 1]
    BY <1>3, <2>1
  <2> QED BY <1>2, <2>1, <2>2
<1>6. Len(c) <= Len(o) - 1
  BY <1>1, <1>2, <1>4
<1> QED BY <1>3, <1>5, <1>6 DEF Recent, Without, w, q

LEMMA ShownAgain ==
  ASSUME NEW o \in Seq(Nat), IsInjective(o), Len(o) >= 1
  PROVE  Shown(o, o[Len(o)]) = o
<1> DEFINE t == o[Len(o)]
           q == PlaceOf(o, t)
           w == RemoveAt(o, q)
<1>1. Len(o) \in Nat /\ DOMAIN o = 1..Len(o) /\ Len(o) \in DOMAIN o
  OBVIOUS
<1>2. t \in ToSet(o) /\ t \in Nat
  BY <1>1 DEF ToSet
<1>3. q \in 1..Len(o) /\ o[q] = t
  BY <1>2, Placed
<1>4. q = Len(o)
  BY <1>1, <1>3 DEF IsInjective
<1> HIDE DEF q
<1>5. /\ w \in Seq(Nat) /\ Len(w) = Len(o) - 1
      /\ \A i \in 1..(Len(o) - 1) : w[i] = IF i < q THEN o[i] ELSE o[i + 1]
  BY <1>3, Removal
<1> HIDE DEF w
<1>6. \A i \in 1..(Len(o) - 1) : w[i] = o[i]
  BY <1>1, <1>4, <1>5
<1> HIDE DEF t
<1> DEFINE a == Append(w, t)
<1>7. a \in Seq(Nat) /\ Len(a) = Len(w) + 1 /\ a[Len(w) + 1] = t
      /\ \A i \in 1..Len(w) : a[i] = w[i]
  BY <1>2, <1>5
<1> HIDE DEF a
<1>8. t = o[Len(o)] /\ Len(a) = Len(o) /\ a[Len(o)] = t
  BY <1>1, <1>5, <1>7 DEF t
<1>9. ASSUME NEW i \in 1..Len(o) PROVE a[i] = o[i]
  <2>1. CASE i = Len(o)
    BY <1>8, <2>1
  <2>2. CASE i # Len(o)
    <3>1. i \in 1..Len(w) /\ i \in 1..(Len(o) - 1)
      <4>1. i \in 1..(Len(o) - 1)
        <5>1. Len(o) \in Nat
          OBVIOUS
        <5> QED BY <2>2, <5>1
      <4> QED BY <1>5, <4>1
    <3>2. a[i] = w[i]
      BY <1>7, <3>1
    <3>3. w[i] = o[i]
      BY <1>6, <3>1
    <3> QED BY <3>2, <3>3
  <2> QED BY <2>1, <2>2
<1>10. DOMAIN a = 1..Len(o)
  BY <1>7, <1>8
<1>11. a = o
  <2>1. Len(a) = Len(o) /\ a \in Seq(Nat) /\ \A i \in 1..Len(a) : a[i] = o[i]
    BY <1>7, <1>8, <1>9
  <2> QED BY <2>1, SeqEqual
<1> QED BY <1>11 DEF Shown, Without, a, w, q, t

LEMMA ShownIs ==
  ASSUME NEW o \in Seq(Nat), IsInjective(o), NEW tag \in ToSet(o)
  PROVE  /\ Shown(o, tag) \in Seq(Nat) /\ IsInjective(Shown(o, tag))
         /\ ToSet(Shown(o, tag)) = ToSet(o) /\ Len(Shown(o, tag)) = Len(o)
         /\ Len(Shown(o, tag)) >= 1 /\ Shown(o, tag)[Len(Shown(o, tag))] = tag
<1> DEFINE w == Without(o, tag)
<1>1. w \in Seq(Nat) /\ IsInjective(w) /\ Len(w) = Len(o) - 1 /\ ToSet(w) = ToSet(o) \ {tag}
  BY WithoutOne
<1>2. tag \in Nat /\ Len(o) \in Nat
  BY DEF ToSet
<1> HIDE DEF w
<1> DEFINE a == Append(w, tag)
<1>3. /\ a \in Seq(Nat) /\ IsInjective(a) /\ Len(a) = Len(w) + 1 /\ a[Len(w) + 1] = tag
      /\ ToSet(a) = ToSet(w) \cup {tag}
  BY <1>1, <1>2, Added
<1> HIDE DEF a
<1>4. ToSet(a) = ToSet(o)
  BY <1>1, <1>3
<1>5. Len(w) + 1 = Len(o) /\ Len(w) \in Nat
  BY <1>1, <1>2
<1>6. Len(a) = Len(o) /\ Len(a) >= 1 /\ a[Len(a)] = tag
  BY <1>2, <1>3, <1>5
<1>7. Shown(o, tag) = a
  BY DEF Shown, a, w
<1> QED BY <1>3, <1>4, <1>6, <1>7

LEMMA MoveRecent ==
  ASSUME NEW c \in Seq(WebView), NEW o \in Seq(Nat), IsInjective(o), Recent(c, o),
         NEW tag, Holds(c, tag)
  PROVE  /\ MoveToEnd(c, tag) \in Seq(WebView) /\ Len(MoveToEnd(c, tag)) = Len(c)
         /\ ToSet(MoveToEnd(c, tag)) \subseteq ToSet(c)
         /\ Recent(MoveToEnd(c, tag), Shown(o, tag))
<1> DEFINE p == PlaceOf(Tags(c), tag)
           d == Drop(c, tag)
           w == Without(o, tag)
           v == c[p]
<1>1. /\ d \in Seq(WebView) /\ Len(d) = Len(c) - 1 /\ ToSet(d) \subseteq ToSet(c)
      /\ Recent(d, w) /\ p \in 1..Len(c) /\ v.tag = tag
  BY DropRecent
<1>2. tag \in ToSet(o)
  BY InOrder
<1>3. w \in Seq(Nat)
  BY <1>2, WithoutOne
<1>4. v \in WebView /\ v \in ToSet(c) /\ Len(c) \in Nat
  BY <1>1 DEF ToSet
<1> HIDE DEF d, w, v
<1>5. /\ Append(d, v) \in Seq(WebView) /\ Len(Append(d, v)) = Len(d) + 1
      /\ ToSet(Append(d, v)) = ToSet(d) \cup {v} /\ Recent(Append(d, v), Append(w, v.tag))
  BY <1>1, <1>3, <1>4, RecentAppend
<1>6. MoveToEnd(c, tag) = Append(d, v) /\ Shown(o, tag) = Append(w, v.tag)
  BY <1>1 DEF MoveToEnd, Shown, d, w, v
<1>7. Len(d) + 1 = Len(c)
  BY <1>1, <1>4
<1> QED BY <1>1, <1>4, <1>5, <1>6, <1>7

LEMMA CreatedRecent ==
  ASSUME NEW c \in Seq(WebView), NEW o \in Seq(Nat), Recent(c, o), Len(c) <= MaxCached,
         NEW tag \in Nat, NEW page \in Page, NEW u \in Urls \cup {NoUrl}
  PROVE  LET d == Created(c, tag, page, u) IN
           /\ d \in Seq(WebView) /\ Len(d) >= 1 /\ Len(d) <= MaxCached
           /\ Recent(d, Append(o, tag))
           /\ \A v \in ToSet(d) :
                v \in ToSet(c) \/ (v.tag = tag /\ v.page = page /\ v.loading = u)
           /\ \E v \in ToSet(d) : v.tag = tag /\ v.page = page /\ v.loading = u
<1> DEFINE r == Room(c)
           v == [tag |-> tag, page |-> page, loading |-> u]
           d == Append(r, v)
<1>1. /\ r \in Seq(WebView) /\ ToSet(r) \subseteq ToSet(c) /\ Len(r) < MaxCached
      /\ Recent(r, o)
  BY RoomMade
<1>2. v \in WebView /\ v.tag = tag /\ v.page = page /\ v.loading = u
  BY DEF WebView
<1> HIDE DEF r, v
<1>3. /\ d \in Seq(WebView) /\ Len(d) = Len(r) + 1 /\ ToSet(d) = ToSet(r) \cup {v}
      /\ Recent(d, Append(o, v.tag))
  BY <1>1, <1>2, RecentAppend
<1>4. Created(c, tag, page, u) = d
  BY DEF Created, r, v
<1> HIDE DEF d
<1>5. Len(d) >= 1 /\ Len(d) <= MaxCached
  <2>1. Len(r) \in Nat /\ MaxCached \in Nat
    BY <1>1, TabsAssumption DEF TabsAssumption
  <2> QED BY <1>1, <1>3, <2>1
<1>6. \A x \in ToSet(d) : x \in ToSet(c) \/ x = v
  BY <1>1, <1>3
<1>7. v \in ToSet(d)
  BY <1>3
<1>8. Recent(d, Append(o, tag))
  BY <1>2, <1>3
<1> QED BY <1>2, <1>3, <1>4, <1>5, <1>6, <1>7, <1>8

(* The web view of a tab, moved to the end once it is there.               *)
LEMMA ShowRecent ==
  ASSUME NEW c \in Seq(WebView), NEW o \in Seq(Nat), IsInjective(o), Recent(c, o),
         Len(c) <= MaxCached, NEW tag \in ToSet(o), NEW page \in Page, NEW u \in Urls
  PROVE  LET b == IF Holds(c, tag) THEN c ELSE Created(c, tag, page, u)
             d == MoveToEnd(b, tag)
         IN  /\ d \in Seq(WebView) /\ Len(d) >= 1 /\ Len(d) <= MaxCached
             /\ Recent(d, Shown(o, tag))
             /\ \A v \in ToSet(d) : v \in ToSet(c) \/ (v.tag = tag /\ v.page = page)
<1> DEFINE d == MoveToEnd(c, tag)
           b == Created(c, tag, page, u)
           e == MoveToEnd(b, tag)
<1>1. CASE Holds(c, tag)
  <2>1. d \in Seq(WebView) /\ Len(d) = Len(c) /\ ToSet(d) \subseteq ToSet(c)
        /\ Recent(d, Shown(o, tag))
    BY <1>1, MoveRecent
  <2>2. Len(c) >= 1
    <3>1. \E i \in 1..Len(c) : c[i].tag = tag
      BY <1>1, TagsOf
    <3>2. Len(c) \in Nat
      OBVIOUS
    <3> QED BY <3>1, <3>2
  <2> HIDE DEF d, b
  <2>3. Len(d) >= 1 /\ Len(d) <= MaxCached
    BY <2>1, <2>2
  <2>4. (IF Holds(c, tag) THEN c ELSE b) = c
    BY <1>1
  <2> QED BY <2>1, <2>3, <2>4 DEF d, b
<1>2. CASE ~Holds(c, tag)
  <2> DEFINE w == Without(o, tag)
             s == Shown(o, tag)
  <2>1. Recent(c, w) /\ w \in Seq(Nat) /\ tag \in Nat
    BY <1>2, KeptRecent, WithoutOne DEF ToSet
  <2>2. s = Append(w, tag)
    BY DEF Shown
  <2>3. s \in Seq(Nat) /\ IsInjective(s) /\ Len(s) >= 1 /\ s[Len(s)] = tag
    BY ShownIs
  <2> HIDE DEF w, s
  <2>4. /\ b \in Seq(WebView) /\ Len(b) >= 1 /\ Len(b) <= MaxCached /\ Recent(b, s)
        /\ \A v \in ToSet(b) : v \in ToSet(c) \/ (v.tag = tag /\ v.page = page /\ v.loading = u)
    BY <2>1, <2>2, CreatedRecent
  <2> HIDE DEF b
  <2>5. Holds(b, tag)
    BY <2>3, <2>4, LastHeld
  <2>6. e \in Seq(WebView) /\ Len(e) = Len(b) /\ ToSet(e) \subseteq ToSet(b)
        /\ Recent(e, Shown(s, tag))
    BY <2>3, <2>4, <2>5, MoveRecent
  <2>7. Shown(s, tag) = s
    BY <2>3, ShownAgain
  <2>8. (IF Holds(c, tag) THEN c ELSE b) = b
    BY <1>2
  <2> HIDE DEF e
  <2>9. Recent(e, s) /\ Len(e) >= 1 /\ Len(e) <= MaxCached
    BY <2>4, <2>6, <2>7
  <2>10. \A v \in ToSet(e) : v \in ToSet(c) \/ (v.tag = tag /\ v.page = page)
    BY <2>4, <2>6
  <2> QED BY <2>6, <2>8, <2>9, <2>10 DEF e, b, s
<1> QED BY <1>1, <1>2

-----------------------------------------------------------------------------
(* The lists of tabs and pages, and the mapping between them. *)

IsFunction(f) == f = [x \in DOMAIN f |-> f[x]]

Lists(bar, list, map, urls, next) ==
  /\ bar \in Seq(Nat) /\ IsInjective(bar) /\ \A t \in ToSet(bar) : t < next
  /\ list \in Seq(Page) /\ IsInjective(list) /\ Len(bar) = Len(list)
  /\ DOMAIN map = ToSet(bar)
  /\ \A t \in ToSet(bar) : map[t] \in ToSet(list)
  /\ \A s, t \in ToSet(bar) : map[s] = map[t] => s = t
  /\ \A p \in ToSet(list) : \E t \in ToSet(bar) : map[t] = p
  /\ DOMAIN urls = ToSet(list) /\ \A p \in ToSet(list) : urls[p] \in Urls
  /\ IsFunction(urls)

(* A mapping with one entry more, and with one less. *)
Reduced(m, map, k) ==
  IsFunction(m) /\ DOMAIN m = DOMAIN map \ {k} /\ \A t \in DOMAIN m : m[t] = map[t]
Extended(m, map, k, e) ==
  /\ IsFunction(m) /\ DOMAIN m = DOMAIN map \cup {k} /\ m[k] = e
  /\ \A t \in DOMAIN map \ {k} : m[t] = map[t]

LEMMA ListsOpen ==
  ASSUME NEW bar, NEW list, NEW map, NEW urls, NEW n \in Nat, Lists(bar, list, map, urls, n),
         NEW p \in Page, p \notin ToSet(list), NEW u \in Urls,
         NEW m, Extended(m, map, n, p), NEW v, Extended(v, urls, p, u)
  PROVE  Lists(Append(bar, n), Append(list, p), m, v, n + 1)
<1> DEFINE a == Append(bar, n)
           l == Append(list, p)
<1>1. n \notin ToSet(bar) /\ \A t \in ToSet(bar) : t \in Nat /\ t < n
  <2>1. \A t \in ToSet(bar) : t \in Nat
    BY DEF Lists, ToSet
  <2>2. \A t \in ToSet(bar) : t < n
    BY DEF Lists
  <2> QED BY <2>1, <2>2
<1>2. /\ a \in Seq(Nat) /\ IsInjective(a) /\ Len(a) = Len(bar) + 1
      /\ ToSet(a) = ToSet(bar) \cup {n}
  BY <1>1, Added DEF Lists
<1>3. /\ l \in Seq(Page) /\ IsInjective(l) /\ Len(l) = Len(list) + 1
      /\ ToSet(l) = ToSet(list) \cup {p}
  BY Added DEF Lists
<1>4. /\ DOMAIN m = ToSet(a) /\ m[n] = p /\ \A t \in ToSet(bar) : m[t] = map[t]
  BY <1>1, <1>2 DEF Lists, Extended
<1>5. IsFunction(v) /\ DOMAIN v = ToSet(l) /\ v[p] = u /\ \A q \in ToSet(list) : v[q] = urls[q]
  BY <1>3 DEF Lists, Extended
<1> HIDE DEF a, l
<1>6. \A t \in ToSet(a) : t < n + 1
  BY <1>1, <1>2
<1>7. \A t \in ToSet(a) : m[t] \in ToSet(l)
  BY <1>2, <1>3, <1>4 DEF Lists
<1>8. \A s, t \in ToSet(a) : m[s] = m[t] => s = t
  BY <1>2, <1>4 DEF Lists
<1>9. \A q \in ToSet(l) : \E t \in ToSet(a) : m[t] = q
  BY <1>2, <1>3, <1>4 DEF Lists
<1>10. \A q \in ToSet(l) : v[q] \in Urls
  BY <1>3, <1>5 DEF Lists
<1>11. Len(a) = Len(l)
  BY <1>2, <1>3 DEF Lists
<1>12. Lists(a, l, m, v, n + 1)
  BY <1>2, <1>3, <1>4, <1>5, <1>6, <1>7, <1>8, <1>9, <1>10, <1>11 DEF Lists
<1> QED BY <1>12 DEF a, l

LEMMA ListsClose ==
  ASSUME NEW bar, NEW list, NEW map, NEW urls, NEW n, Lists(bar, list, map, urls, n),
         NEW tag \in ToSet(bar),
         NEW m, Reduced(m, map, tag), NEW v, Reduced(v, urls, map[tag])
  PROVE  Lists(Without(bar, tag), Without(list, map[tag]), m, v, n)
<1> DEFINE p == map[tag]
           a == Without(bar, tag)
           l == Without(list, p)
<1>1. p \in ToSet(list)
  BY DEF Lists
<1>2. /\ a \in Seq(Nat) /\ IsInjective(a) /\ Len(a) = Len(bar) - 1
      /\ ToSet(a) = ToSet(bar) \ {tag}
  BY WithoutOne DEF Lists
<1>3. /\ l \in Seq(Page) /\ IsInjective(l) /\ Len(l) = Len(list) - 1
      /\ ToSet(l) = ToSet(list) \ {p}
  BY <1>1, WithoutOne DEF Lists
<1>4. DOMAIN m = ToSet(a) /\ \A t \in ToSet(a) : m[t] = map[t]
  BY <1>2 DEF Lists, Reduced
<1>5. IsFunction(v) /\ DOMAIN v = ToSet(l) /\ \A q \in ToSet(l) : v[q] = urls[q]
  BY <1>3 DEF Lists, Reduced
<1> HIDE DEF a, l
<1>6. \A t \in ToSet(a) : t < n /\ m[t] \in ToSet(l)
  BY <1>2, <1>3, <1>4 DEF Lists
<1>7. \A s, t \in ToSet(a) : m[s] = m[t] => s = t
  BY <1>2, <1>4 DEF Lists
<1>8. \A q \in ToSet(l) : \E t \in ToSet(a) : m[t] = q
  BY <1>2, <1>3, <1>4 DEF Lists
<1>9. \A q \in ToSet(l) : v[q] \in Urls
  BY <1>3, <1>5 DEF Lists
<1>10. Len(a) = Len(l)
  BY <1>2, <1>3 DEF Lists
<1>11. Lists(a, l, m, v, n)
  BY <1>2, <1>3, <1>4, <1>5, <1>6, <1>7, <1>8, <1>9, <1>10 DEF Lists
<1> QED BY <1>11 DEF a, l

LEMMA ListsNone ==
  ASSUME NEW n, NEW u
  PROVE  Lists(<<>>, <<>>, [t \in {} |-> 0], [q \in {} |-> u], n)
<1>1. ToSet(<<>>) = {} /\ <<>> \in Seq(Nat) /\ <<>> \in Seq(Page) /\ IsInjective(<<>>)
  BY DEF ToSet, IsInjective
<1>2. IsFunction([q \in {} |-> u])
  BY DEF IsFunction
<1> QED BY <1>1, <1>2 DEF Lists

-----------------------------------------------------------------------------
(* The invariant. *)

Cache(c, o, bar, map) ==
  /\ c \in Seq(WebView) /\ Len(c) <= MaxCached
  /\ o \in Seq(Nat) /\ IsInjective(o) /\ ToSet(o) = ToSet(bar)
  /\ Recent(c, o)
  /\ \A v \in ToSet(c) : v.page = map[v.tag]

Screen(tab, view, sel, c, o, map) ==
  /\ Len(c) >= 1 /\ Len(o) >= 1
  /\ tab = o[Len(o)] /\ view = tab /\ sel = {map[tab]}

FileInv(f) ==
  /\ f \in Seq(Saved)
  /\ \A i, j \in DOMAIN f : f[i].page = f[j].page => i = j
  /\ f # <<>> => \E k \in DOMAIN f : \A i \in DOMAIN f : f[i].selected <=> i = k

TabsInv ==
  /\ currentMaxTag \in Nat
  /\ Lists(tabs, pages, tagToPage, url, currentMaxTag)
  /\ Cache(cached, shownLast, tabs, tagToPage)
  /\ Screen(currentTab, currentWebView, selected, cached, shownLast, tagToPage)
  /\ FileInv(file)

(* What is cached is of open tabs. *)
LEMMA CachedOpen ==
  ASSUME NEW c, NEW o, NEW bar, NEW map, Cache(c, o, bar, map), NEW v \in ToSet(c)
  PROVE  v \in WebView /\ v.tag \in ToSet(bar) /\ v.tag \in Nat
<1>1. PICK i \in 1..Len(c) : c[i] = v
  BY DEF Cache, ToSet
<1>2. v \in WebView
  BY <1>1 DEF Cache
<1>3. Holds(c, v.tag)
  BY <1>1, TagsOf DEF Cache
<1> QED BY <1>2, <1>3, InOrder DEF Cache, WebView

LEMMA OpenCache ==
  ASSUME NEW c, NEW o, NEW bar, NEW map, Cache(c, o, bar, map), bar \in Seq(Nat), IsInjective(bar),
         NEW n \in Nat, n \notin ToSet(bar), NEW p \in Page, NEW u \in Urls,
         NEW m, m[n] = p, \A t \in ToSet(bar) : m[t] = map[t]
  PROVE  LET d == Created(c, n, p, u)
         IN  /\ Cache(d, Append(o, n), Append(bar, n), m)
             /\ Screen(n, n, {p}, d, Append(o, n), m)
<1> DEFINE d == Created(c, n, p, u)
           s == Append(o, n)
<1>1. /\ c \in Seq(WebView) /\ Len(c) <= MaxCached /\ Recent(c, o)
      /\ o \in Seq(Nat) /\ IsInjective(o) /\ ToSet(o) = ToSet(bar)
  BY DEF Cache
<1>2. /\ s \in Seq(Nat) /\ IsInjective(s) /\ Len(s) = Len(o) + 1 /\ s[Len(o) + 1] = n
      /\ ToSet(s) = ToSet(o) \cup {n}
  BY <1>1, Added
<1>3. ToSet(Append(bar, n)) = ToSet(bar) \cup {n}
  BY Added
<1>4. /\ d \in Seq(WebView) /\ Len(d) >= 1 /\ Len(d) <= MaxCached /\ Recent(d, s)
      /\ \A v \in ToSet(d) : v \in ToSet(c) \/ (v.tag = n /\ v.page = p)
  <2>1. u \in Urls \cup {NoUrl}
    OBVIOUS
  <2>2. /\ d \in Seq(WebView) /\ Len(d) >= 1 /\ Len(d) <= MaxCached /\ Recent(d, s)
        /\ \A v \in ToSet(d) : v \in ToSet(c) \/ (v.tag = n /\ v.page = p /\ v.loading = u)
    BY ONLY <1>1, <2>1, n \in Nat, p \in Page, CreatedRecent
  <2> QED BY ONLY <2>2
<1>5. m[n] = p /\ \A t \in ToSet(bar) : m[t] = map[t]
  OBVIOUS
<1> HIDE DEF d, s
<1>6. \A v \in ToSet(d) : v.page = m[v.tag]
  <2> SUFFICES ASSUME NEW v \in ToSet(d), v \in ToSet(c) PROVE v.page = m[v.tag]
    BY <1>4, <1>5
  <2>1. v.tag \in ToSet(bar) /\ v.page = map[v.tag]
    BY CachedOpen DEF Cache
  <2> QED BY <1>5, <2>1
<1>7. Cache(d, s, Append(bar, n), m)
  BY <1>1, <1>2, <1>3, <1>4, <1>6 DEF Cache
<1>8. Screen(n, n, {p}, d, s, m)
  <2>1. Len(o) \in Nat
    BY <1>1
  <2>2. Len(s) >= 1 /\ s[Len(s)] = n
    BY <1>2, <2>1
  <2> QED BY <1>4, <1>5, <2>2 DEF Screen
<1> QED BY <1>7, <1>8 DEF d, s

(* switchToWebView for an open tab.                                        *)
LEMMA SwitchCache ==
  ASSUME TabsInv, NEW tag \in ToSet(tabs)
  PROVE  LET d == SwitchTo(cached, currentWebView, tag)
             s == Shown(shownLast, tag)
         IN  /\ Cache(d, s, tabs, tagToPage)
             /\ Screen(tag, tag, {tagToPage[tag]}, d, s, tagToPage)
<1> DEFINE d == SwitchTo(cached, currentWebView, tag)
           s == Shown(shownLast, tag)
           b == IF Holds(cached, tag) THEN cached
                ELSE Created(cached, tag, tagToPage[tag], url[tagToPage[tag]])
           e == MoveToEnd(b, tag)
<1>1. /\ cached \in Seq(WebView) /\ Len(cached) <= MaxCached /\ Recent(cached, shownLast)
      /\ shownLast \in Seq(Nat) /\ IsInjective(shownLast) /\ ToSet(shownLast) = ToSet(tabs)
      /\ \A v \in ToSet(cached) : v.page = tagToPage[v.tag]
      /\ Len(cached) >= 1 /\ Len(shownLast) >= 1 /\ currentWebView = shownLast[Len(shownLast)]
  BY DEF TabsInv, Cache, Screen
<1>2. tagToPage[tag] \in Page /\ url[tagToPage[tag]] \in Urls
  BY DEF TabsInv, Lists, ToSet
<1>3. /\ s \in Seq(Nat) /\ IsInjective(s) /\ ToSet(s) = ToSet(tabs)
      /\ Len(s) >= 1 /\ s[Len(s)] = tag
  BY <1>1, ShownIs
<1> HIDE DEF s
<1>4. /\ d \in Seq(WebView) /\ Len(d) >= 1 /\ Len(d) <= MaxCached /\ Recent(d, s)
      /\ \A v \in ToSet(d) : v \in ToSet(cached) \/ (v.tag = tag /\ v.page = tagToPage[tag])
  <2>1. CASE tag = currentWebView /\ Holds(cached, tag)
    <3>1. d = cached
      BY <2>1 DEF SwitchTo
    <3>2. s = shownLast
      BY <1>1, <2>1, ShownAgain DEF s
    <3> QED BY <1>1, <3>1, <3>2
  <2>2. CASE ~(tag = currentWebView /\ Holds(cached, tag))
    <3>1. d = e
      BY <2>2 DEF SwitchTo, ByTag
    <3>2. /\ e \in Seq(WebView) /\ Len(e) >= 1 /\ Len(e) <= MaxCached
          /\ Recent(e, Shown(shownLast, tag))
          /\ \A v \in ToSet(e) : v \in ToSet(cached) \/ (v.tag = tag /\ v.page = tagToPage[tag])
      BY <1>1, <1>2, ShowRecent
    <3> HIDE DEF d, e
    <3> QED BY <3>1, <3>2 DEF s
  <2> QED BY <2>1, <2>2
<1> HIDE DEF d
<1>5. \A v \in ToSet(d) : v.page = tagToPage[v.tag]
  BY <1>1, <1>4
<1>6. Cache(d, s, tabs, tagToPage)
  BY <1>3, <1>4, <1>5 DEF Cache
<1>7. Screen(tag, tag, {tagToPage[tag]}, d, s, tagToPage)
  BY <1>3, <1>4 DEF Screen
<1> QED BY <1>6, <1>7 DEF d, s

(* closeWebView for a tab that is not on the screen.                       *)
LEMMA CloseCache ==
  ASSUME NEW c, NEW o, NEW bar \in Seq(Nat), IsInjective(bar), NEW map, Cache(c, o, bar, map),
         Len(c) >= 1, Len(o) >= 1, NEW tag \in ToSet(bar), tag # o[Len(o)],
         NEW m, \A t \in ToSet(bar) \ {tag} : m[t] = map[t]
  PROVE  LET d == CloseView(c, tag)
             w == Without(o, tag)
         IN  /\ Cache(d, w, Without(bar, tag), m)
             /\ Len(d) >= 1 /\ Len(w) >= 1 /\ w[Len(w)] = o[Len(o)]
             /\ SwitchTo(d, o[Len(o)], o[Len(o)]) = d
<1> DEFINE d == CloseView(c, tag)
           w == Without(o, tag)
           q == PlaceOf(o, tag)
<1>1. /\ c \in Seq(WebView) /\ Len(c) <= MaxCached /\ Recent(c, o)
      /\ o \in Seq(Nat) /\ IsInjective(o) /\ ToSet(o) = ToSet(bar)
      /\ \A v \in ToSet(c) : v.page = map[v.tag]
  BY DEF Cache
<1>2. /\ w \in Seq(Nat) /\ IsInjective(w) /\ Len(w) = Len(o) - 1
      /\ ToSet(w) = ToSet(o) \ {tag}
  <2>1. tag \in ToSet(o)
    BY <1>1
  <2> QED BY <1>1, <2>1, WithoutOne
<1>3. ToSet(Without(bar, tag)) = ToSet(bar) \ {tag}
  BY WithoutOne
<1>4. Len(w) >= 1 /\ w[Len(w)] = o[Len(o)]
  <2>1. q \in 1..Len(o) /\ o[q] = tag
    BY <1>1, Placed
  <2>2. Len(o) \in Nat
    BY <1>1
  <2>3. q # Len(o)
    BY <2>1
  <2>4. Len(o) - 1 \in 1..(Len(o) - 1) /\ ~(Len(o) - 1 < q) /\ (Len(o) - 1) + 1 = Len(o)
    BY <2>1, <2>2, <2>3
  <2> HIDE DEF q
  <2>5. RemoveAt(o, q)[Len(o) - 1] = o[(Len(o) - 1) + 1]
    BY <1>1, <2>1, <2>4, Removal
  <2> QED BY <1>2, <2>4, <2>5 DEF Without, q
<1>5. /\ d \in Seq(WebView) /\ Len(d) >= 1 /\ Len(d) <= MaxCached
      /\ ToSet(d) \subseteq ToSet(c) /\ Recent(d, w)
  <2>1. CASE Holds(c, tag)
    <3> DEFINE p == PlaceOf(Tags(c), tag)
               e == Drop(c, tag)
    <3>1. /\ e \in Seq(WebView) /\ Len(e) = Len(c) - 1 /\ ToSet(e) \subseteq ToSet(c)
          /\ Recent(e, w) /\ p \in 1..Len(c) /\ c[p].tag = tag
      BY <1>1, <2>1, DropRecent
    <3>2. c[Len(c)].tag = o[Len(o)]
      BY <1>1, LastHeld
    <3> HIDE DEF e, p, w
    <3>3. Len(c) \in Nat /\ p # Len(c)
      BY <1>1, <3>1, <3>2
    <3>4. Len(e) >= 1 /\ Len(e) <= MaxCached
      <4>1. MaxCached \in Nat
        BY TabsAssumption DEF TabsAssumption
      <4> QED BY <1>1, <3>1, <3>3, <4>1
    <3>5. d = e
      BY <2>1 DEF CloseView, e
    <3> QED BY <3>1, <3>4, <3>5
  <2>2. CASE ~Holds(c, tag)
    <3>1. d = Room(c)
      BY <2>2 DEF CloseView
    <3>2. Recent(c, w)
      BY <1>1, <2>2, KeptRecent
    <3> HIDE DEF d, w
    <3>3. /\ d \in Seq(WebView) /\ ToSet(d) \subseteq ToSet(c) /\ Len(d) < MaxCached
          /\ Len(d) >= 1 /\ Recent(d, w)
      BY <1>1, <1>2, <3>1, <3>2, RoomMade
    <3>4. Len(d) \in Nat /\ MaxCached \in Nat
      BY <3>3, TabsAssumption DEF TabsAssumption
    <3> QED BY <3>3, <3>4
  <2> QED BY <2>1, <2>2
<1>6. \A t \in ToSet(bar) \ {tag} : m[t] = map[t]
  OBVIOUS
<1> HIDE DEF d, w
<1>7. Cache(d, w, Without(bar, tag), m)
  <2> SUFFICES ASSUME NEW v \in ToSet(d) PROVE v.page = m[v.tag]
    BY <1>1, <1>2, <1>3, <1>5 DEF Cache
  <2>1. v.page = map[v.tag]
    BY <1>1, <1>5
  <2>2. v.tag \in ToSet(w)
    <3>1. PICK i \in 1..Len(d) : d[i] = v
      BY <1>5 DEF ToSet
    <3>2. Holds(d, v.tag)
      BY <1>5, <3>1, TagsOf
    <3> QED BY <1>2, <1>5, <3>2, InOrder
  <2> QED BY <1>1, <1>2, <1>6, <2>1, <2>2
<1>8. SwitchTo(d, o[Len(o)], o[Len(o)]) = d
  <2>1. Holds(d, o[Len(o)])
    BY <1>2, <1>4, <1>5, LastHeld
  <2> QED BY <2>1 DEF SwitchTo
<1> QED BY <1>4, <1>5, <1>7, <1>8 DEF d, w

(* Nothing is left in the cache once the last tab is closed.               *)
LEMMA EmptyCache ==
  ASSUME NEW c, NEW o, NEW bar \in Seq(Nat), NEW map, Cache(c, o, bar, map),
         Len(c) >= 1, Len(bar) = 1, NEW tag \in ToSet(bar)
  PROVE  Cache(CloseView(c, tag), <<>>, <<>>, [t \in {} |-> 0])
<1> DEFINE d == CloseView(c, tag)
           w == Without(o, tag)
<1>1. /\ c \in Seq(WebView) /\ Len(c) <= MaxCached /\ Recent(c, o)
      /\ o \in Seq(Nat) /\ IsInjective(o) /\ ToSet(o) = ToSet(bar) /\ Len(c) <= Len(o)
  BY DEF Cache, Recent
<1>2. Len(c) \in Nat /\ Len(o) \in Nat /\ DOMAIN o = 1..Len(o)
  BY <1>1
<1>3. ToSet(bar) = {tag}
  BY DEF ToSet
<1>4. Len(o) = 1
  <2> SUFFICES ASSUME Len(o) >= 2 PROVE FALSE
    BY <1>1, <1>2
  <2>1. 1 \in DOMAIN o /\ 2 \in DOMAIN o
    BY <1>2
  <2>2. o[1] = tag /\ o[2] = tag
    BY <1>1, <1>3, <2>1 DEF ToSet
  <2> QED BY <1>1, <2>1, <2>2 DEF IsInjective
<1>5. Holds(c, tag)
  <2>1. o[1] = tag
    BY <1>1, <1>2, <1>3, <1>4 DEF ToSet
  <2> QED BY <1>1, <1>4, <2>1, LastHeld
<1>6. d \in Seq(WebView) /\ Len(d) = Len(c) - 1
  <2>1. d = Drop(c, tag)
    BY <1>5 DEF CloseView
  <2> QED BY <1>1, <1>5, <2>1, DropRecent
<1>7. Len(d) = 0
  BY <1>1, <1>2, <1>4, <1>6
<1> HIDE DEF d
<1>8. d = <<>> /\ ToSet(<<>>) = {} /\ <<>> \in Seq(Nat) /\ IsInjective(<<>>)
  BY <1>6, <1>7 DEF ToSet, IsInjective
<1>9. MaxCached \in Nat /\ Len(<<>>) = 0
  BY TabsAssumption DEF TabsAssumption
<1>10. Recent(<<>>, <<>>)
  BY DEF Recent
<1>11. Cache(d, <<>>, <<>>, [t \in {} |-> 0])
  BY <1>6, <1>8, <1>9, <1>10 DEF Cache
<1> QED BY <1>11 DEF d

-----------------------------------------------------------------------------
(* The invariant holds at the start, and after every event. *)

LEMMA FirstStep ==
  ASSUME NEW p \in Page
  PROVE  /\ Lists(<<0>>, <<p>>, [t \in {0} |-> p], [q \in {p} |-> FirstUrl], 1)
         /\ Cache(<<FirstView(p)>>, <<0>>, <<0>>, [t \in {0} |-> p])
         /\ Screen(0, 0, {p}, <<FirstView(p)>>, <<0>>, [t \in {0} |-> p])
         /\ FileInv(<<>>)
<1>1. FirstUrl \in Urls /\ MaxCached \in Nat /\ MaxCached >= 2
  BY TabsAssumption DEF TabsAssumption
<1>2. \A e : ToSet(<<e>>) = {e} /\ IsInjective(<<e>>)
  BY DEF ToSet, IsInjective
<1>3. <<0>> \in Seq(Nat) /\ <<p>> \in Seq(Page)
  OBVIOUS
<1>4. Lists(<<0>>, <<p>>, [t \in {0} |-> p], [q \in {p} |-> FirstUrl], 1)
  BY <1>1, <1>2, <1>3 DEF Lists, IsFunction
<1> DEFINE v == FirstView(p)
           c == <<v>>
<1>5. v \in WebView /\ v.tag = 0 /\ v.page = p
  BY <1>1 DEF FirstView, WebView
<1> HIDE DEF v
<1>6. c \in Seq(WebView) /\ Len(c) = 1 /\ c[1] = v
  BY <1>5
<1>7. Recent(c, <<0>>)
  BY <1>5, <1>6 DEF Recent
<1>8. Cache(c, <<0>>, <<0>>, [t \in {0} |-> p])
  BY <1>1, <1>2, <1>3, <1>5, <1>6, <1>7 DEF Cache
<1>9. Screen(0, 0, {p}, c, <<0>>, [t \in {0} |-> p])
  BY <1>6 DEF Screen
<1>10. FileInv(<<>>)
  BY DEF FileInv
<1> QED BY <1>4, <1>8, <1>9, <1>10 DEF v

LEMMA InitInv == Init => TabsInv
<1> SUFFICES ASSUME Init PROVE TabsInv
  OBVIOUS
<1>1. PICK p \in Page :
        /\ tabs = <<0>> /\ currentTab = 0 /\ currentMaxTag = 1
        /\ pages = <<p>> /\ tagToPage = [t \in {0} |-> p]
        /\ url = [q \in {p} |-> FirstUrl] /\ selected = {p}
        /\ cached = <<FirstView(p)>> /\ currentWebView = 0
  BY DEF Init
<1>2. file = <<>> /\ shownLast = <<0>>
  BY DEF Init
<1> QED BY <1>1, <1>2, FirstStep DEF TabsInv

LEMMA StartAnewStep == ASSUME StartAnew PROVE TabsInv'
<1>1. PICK p \in Page :
        /\ tabs' = <<0>> /\ currentTab' = 0 /\ currentMaxTag' = 1
        /\ pages' = <<p>> /\ tagToPage' = [t \in {0} |-> p]
        /\ url' = [q \in {p} |-> FirstUrl] /\ selected' = {p}
        /\ cached' = <<FirstView(p)>> /\ currentWebView' = 0
  BY DEF StartAnew
<1>2. file' = <<>> /\ shownLast' = <<0>>
  BY DEF StartAnew
<1> QED BY <1>1, <1>2, FirstStep DEF TabsInv

(* What opening needs of what it opens in. *)
LEMMA OpenInStep ==
  ASSUME NEW bar, NEW list, NEW map, NEW urls, NEW c, NEW o, NEW u \in Urls,
         currentMaxTag \in Nat, Lists(bar, list, map, urls, currentMaxTag),
         Cache(c, o, bar, map), FileInv(file), ToSet(list) \subseteq ToSet(pages),
         CanOpen, OpenIn(bar, list, map, urls, c, o, u), file' = file
  PROVE  TabsInv' /\ FreshPage \in Page \ Used
<1> DEFINE n == currentMaxTag
           p == FreshPage
           m == [t \in DOMAIN map \cup {n} |-> IF t = n THEN p ELSE map[t]]
           v == [q \in DOMAIN urls \cup {p} |-> IF q = p THEN u ELSE urls[q]]
           d == Created(c, n, p, u)
<1>1. p \in Page \ Used
  BY DEF CanOpen, FreshPage
<1>2. p \notin ToSet(list)
  BY <1>1 DEF Used
<1>3. /\ tabs' = Append(bar, n) /\ currentMaxTag' = n + 1 /\ pages' = Append(list, p)
      /\ tagToPage' = m /\ url' = v /\ cached' = d /\ selected' = {p}
      /\ currentTab' = n /\ currentWebView' = n /\ shownLast' = Append(o, n)
  BY DEF OpenIn
<1>4. bar \in Seq(Nat) /\ IsInjective(bar) /\ DOMAIN map = ToSet(bar) /\ n \notin ToSet(bar)
  <2>1. \A t \in ToSet(bar) : t \in Nat /\ t < n
    BY DEF Lists, ToSet
  <2> QED BY <2>1 DEF Lists
<1> HIDE DEF p
<1>5. Extended(m, map, n, p) /\ Extended(v, urls, p, u)
  BY DEF Extended, IsFunction
<1> HIDE DEF m, v
<1>6. Lists(Append(bar, n), Append(list, p), m, v, n + 1)
  <2>1. p \in Page /\ p \notin ToSet(list) /\ n \in Nat /\ u \in Urls
        /\ Lists(bar, list, map, urls, n)
    BY <1>1, <1>2
  <2> HIDE DEF n
  <2> QED BY ONLY <1>5, <2>1, ListsOpen
<1>7. Cache(d, Append(o, n), Append(bar, n), m) /\ Screen(n, n, {p}, d, Append(o, n), m)
  <2>1. p \in Page /\ u \in Urls /\ n \in Nat
    BY <1>1
  <2>2. m[n] = p /\ \A t \in ToSet(bar) : m[t] = map[t]
    BY <1>4, <1>5 DEF Extended
  <2> HIDE DEF n
  <2> QED BY ONLY <1>4, <2>1, <2>2, Cache(c, o, bar, map), OpenCache
<1> HIDE DEF d
<1>8. n + 1 \in Nat
  OBVIOUS
<1>9. TabsInv'
  BY <1>3, <1>6, <1>7, <1>8 DEF TabsInv
<1> QED BY <1>1, <1>9 DEF p

LEMMA OpenLinkStep == ASSUME TabsInv, OpenLinkInNewTab PROVE TabsInv'
<1>1. NewTabUrl \in Urls
  BY TabsAssumption DEF TabsAssumption
<1> QED BY <1>1, OpenInStep DEF TabsInv, OpenLinkInNewTab

LEMMA CloseLastStep == ASSUME TabsInv, CloseLastTab PROVE TabsInv'
<1>1. LastUrl \in Urls
  BY TabsAssumption DEF TabsAssumption
<1>2. /\ Len(cached) >= 1 /\ Len(tabs) = 1 /\ tabs \in Seq(Nat)
      /\ currentTab \in ToSet(shownLast) /\ ToSet(shownLast) = ToSet(tabs)
  <2>1. Len(shownLast) >= 1 /\ shownLast \in Seq(Nat) /\ currentTab = shownLast[Len(shownLast)]
    BY DEF TabsInv, Screen, Cache
  <2>2. currentTab \in ToSet(shownLast)
    BY <2>1 DEF ToSet
  <2> QED BY <2>2 DEF TabsInv, Screen, Cache, Lists, CloseLastTab
<1>3. Cache(CloseView(cached, currentTab), <<>>, <<>>, [t \in {} |-> 0])
  BY <1>2, EmptyCache DEF TabsInv
<1>4. Lists(<<>>, <<>>, [t \in {} |-> 0], [q \in {} |-> LastUrl], currentMaxTag)
  BY ListsNone
<1>5. ToSet(<<>>) \subseteq ToSet(pages)
  BY DEF ToSet
<1> QED BY <1>1, <1>3, <1>4, <1>5, OpenInStep DEF TabsInv, CloseLastTab

LEMMA SelectStep ==
  ASSUME TabsInv, NEW tag \in ToSet(tabs), SelectTab(tag) PROVE TabsInv'
BY SwitchCache DEF SelectTab, TabsInv

LEMMA MoveStep ==
  ASSUME TabsInv, NEW tag \in ToSet(tabs), NEW index \in 1..Len(tabs), MoveTab(tag, index)
  PROVE  TabsInv'
<1> DEFINE w == Without(tabs, tag)
           b == InsertAt(w, index, tag)
<1>1. tabs \in Seq(Nat) /\ IsInjective(tabs) /\ tag \in Nat
  BY DEF TabsInv, Lists, ToSet
<1>2. w \in Seq(Nat) /\ IsInjective(w) /\ Len(w) = Len(tabs) - 1 /\ ToSet(w) = ToSet(tabs) \ {tag}
  BY <1>1, WithoutOne
<1> HIDE DEF w
<1>3. index \in 1..(Len(w) + 1) /\ tag \notin ToSet(w) /\ Len(w) + 1 = Len(tabs)
  BY <1>1, <1>2
<1>4. /\ b \in Seq(Nat) /\ IsInjective(b) /\ Len(b) = Len(w) + 1
      /\ ToSet(b) = ToSet(w) \cup {tag}
  <2>1. w \in Seq(Nat) /\ IsInjective(w) /\ tag \in Nat /\ tag \notin ToSet(w)
        /\ index \in 1..(Len(w) + 1)
    BY <1>1, <1>2, <1>3
  <2> HIDE DEF b
  <2>2. /\ InsertAt(w, index, tag) \in Seq(Nat) /\ IsInjective(InsertAt(w, index, tag))
        /\ Len(InsertAt(w, index, tag)) = Len(w) + 1
        /\ ToSet(InsertAt(w, index, tag)) = ToSet(w) \cup {tag}
    BY ONLY <2>1, Inserted
  <2> QED BY <2>2 DEF b
<1> HIDE DEF b
<1>5. ToSet(b) = ToSet(tabs) /\ Len(b) = Len(tabs)
  BY <1>2, <1>3, <1>4
<1>6. Lists(b, pages, tagToPage, url, currentMaxTag)
  BY <1>4, <1>5 DEF TabsInv, Lists
<1>7. Cache(cached, shownLast, b, tagToPage)
  BY <1>5 DEF TabsInv, Cache
<1>8. tabs' = b /\ UNCHANGED <<currentTab, currentMaxTag, pages, tagToPage, selected,
                               url, cached, currentWebView, file, shownLast>>
  BY DEF MoveTab, pageList, container, b, w
<1> QED BY <1>6, <1>7, <1>8 DEF TabsInv

LEMMA SuccessorIs ==
  ASSUME TabsInv, Len(tabs) > 1, NEW tag \in ToSet(tabs)
  PROVE  /\ Successor(tag) \in ToSet(tabs) \ {tag}
         /\ tag # currentTab => Successor(tag) = currentTab
<1> DEFINE i == PlaceOf(tabs, tag)
<1>1. tabs \in Seq(Nat) /\ IsInjective(tabs) /\ DOMAIN tabs = 1..Len(tabs) /\ Len(tabs) \in Nat
  BY DEF TabsInv, Lists
<1>2. i \in 1..Len(tabs) /\ tabs[i] = tag
  BY <1>1, Placed
<1> HIDE DEF i
<1>3. CASE tag # currentTab
  <2>1. Successor(tag) = currentTab
    BY <1>3 DEF Successor
  <2>2. currentTab \in ToSet(tabs)
    <3>1. Len(shownLast) \in DOMAIN shownLast /\ currentTab = shownLast[Len(shownLast)]
      BY DEF TabsInv, Cache, Screen
    <3> QED BY <3>1 DEF TabsInv, Cache, ToSet
  <2> QED BY <1>3, <2>1, <2>2
<1>4. CASE tag = currentTab /\ i = Len(tabs)
  <2>1. Successor(tag) = tabs[i - 1]
    BY <1>4 DEF Successor, i
  <2>2. i - 1 \in DOMAIN tabs /\ i \in DOMAIN tabs /\ i - 1 # i
    <3>1. Len(tabs) \in Nat
      BY <1>1
    <3>2. i - 1 \in 1..Len(tabs) /\ i - 1 # i
      BY <1>2, <1>4, <3>1
    <3> QED BY <1>1, <1>2, <3>2
  <2>3. tabs[i - 1] # tag /\ tabs[i - 1] \in ToSet(tabs)
    BY <1>1, <1>2, <2>2 DEF IsInjective, ToSet
  <2> QED BY <1>4, <2>1, <2>3
<1>5. CASE tag = currentTab /\ i # Len(tabs)
  <2>1. Successor(tag) = tabs[i + 1]
    BY <1>5 DEF Successor, i
  <2>2. i + 1 \in DOMAIN tabs /\ i \in DOMAIN tabs /\ i + 1 # i
    <3>1. Len(tabs) \in Nat
      BY <1>1
    <3>2. i + 1 \in 1..Len(tabs) /\ i + 1 # i
      BY <1>2, <1>5, <3>1
    <3> QED BY <1>1, <1>2, <3>2
  <2>3. tabs[i + 1] # tag /\ tabs[i + 1] \in ToSet(tabs)
    BY <1>1, <1>2, <2>2 DEF IsInjective, ToSet
  <2> QED BY <1>5, <2>1, <2>3
<1> QED BY <1>3, <1>4, <1>5

LEMMA CloseStep ==
  ASSUME TabsInv, NEW tag \in ToSet(tabs), CloseTab(tag)
  PROVE  TabsInv'
<1> DEFINE next == Successor(tag)
           page == tagToPage[tag]
           c1 == SwitchTo(cached, currentWebView, next)
           o1 == Shown(shownLast, next)
           c2 == CloseView(c1, tag)
           o2 == Without(o1, tag)
           bar == Without(tabs, tag)
           list == Without(pages, page)
           m == [t \in DOMAIN tagToPage \ {tag} |-> tagToPage[t]]
           v == [q \in DOMAIN url \ {page} |-> url[q]]
<1>1. Len(tabs) > 1
  BY DEF CloseTab
<1>2. /\ currentTab' = next /\ currentWebView' = next
      /\ cached' = SwitchTo(c2, next, next)
      /\ selected' = IF next = currentWebView THEN selected \ {page} ELSE {tagToPage[next]}
      /\ shownLast' = o2 /\ tabs' = bar /\ pages' = list /\ tagToPage' = m /\ url' = v
      /\ currentMaxTag' = currentMaxTag /\ file' = file
  BY DEF CloseTab
<1>3. next \in ToSet(tabs) \ {tag}
  BY <1>1, SuccessorIs
<1>4. Reduced(m, tagToPage, tag) /\ Reduced(v, url, page)
  BY DEF Reduced, IsFunction
<1>5. /\ tabs \in Seq(Nat) /\ IsInjective(tabs) /\ DOMAIN tagToPage = ToSet(tabs)
      /\ \A s, t \in ToSet(tabs) : tagToPage[s] = tagToPage[t] => s = t
      /\ Lists(tabs, pages, tagToPage, url, currentMaxTag) /\ currentMaxTag \in Nat
      /\ FileInv(file)
      /\ currentWebView = currentTab /\ selected = {tagToPage[currentTab]}
  BY DEF TabsInv, Lists, Screen
<1> HIDE DEF next, m, v
<1>6. Lists(bar, list, m, v, currentMaxTag)
  BY <1>4, <1>5, ListsClose
<1>7. Cache(c1, o1, tabs, tagToPage) /\ Screen(next, next, {tagToPage[next]}, c1, o1, tagToPage)
  BY <1>3, SwitchCache
<1>8. /\ \A t \in ToSet(tabs) \ {tag} : m[t] = tagToPage[t]
      /\ Len(c1) >= 1 /\ Len(o1) >= 1 /\ o1[Len(o1)] = next /\ tag # o1[Len(o1)]
  BY <1>3, <1>4, <1>5, <1>7 DEF Reduced, Screen
<1> HIDE DEF c1, o1
<1>9. /\ Cache(c2, o2, bar, m) /\ Len(c2) >= 1 /\ Len(o2) >= 1 /\ o2[Len(o2)] = o1[Len(o1)]
      /\ SwitchTo(c2, o1[Len(o1)], o1[Len(o1)]) = c2
  BY <1>5, <1>7, <1>8, CloseCache
<1> HIDE DEF c2, o2, bar, list
<1>10. cached' = c2
  BY <1>2, <1>8, <1>9
<1>11. selected' = {m[next]}
  <2>1. m[next] = tagToPage[next]
    BY <1>3, <1>8
  <2>2. CASE next = currentWebView
    BY <1>2, <1>3, <1>5, <2>1, <2>2
  <2>3. CASE next # currentWebView
    BY <1>2, <2>1, <2>3
  <2> QED BY <2>2, <2>3
<1>12. Screen(next, next, {m[next]}, c2, o2, m)
  BY <1>8, <1>9 DEF Screen
<1> QED BY <1>2, <1>5, <1>6, <1>9, <1>10, <1>11, <1>12 DEF TabsInv

(* What a web view loads is no matter to the lists. *)
LEMMA Loaded ==
  ASSUME NEW o, NEW bar, NEW map, Cache(cached, o, bar, map), NEW tag, NEW u \in Urls \cup {NoUrl}
  PROVE  /\ Cache(SetLoading(tag, u), o, bar, map)
         /\ Len(SetLoading(tag, u)) = Len(cached)
         /\ \A i \in 1..Len(cached) : cached[i].tag = tag => SetLoading(tag, u)[i].loading = u
         /\ \A i \in 1..Len(cached) : /\ SetLoading(tag, u)[i].page = cached[i].page
                                      /\ SetLoading(tag, u)[i].tag = cached[i].tag
<1> DEFINE d == SetLoading(tag, u)
<1>1. cached \in Seq(WebView) /\ DOMAIN cached = 1..Len(cached) /\ Len(cached) \in Nat
  BY DEF Cache
<1>2. DOMAIN d = 1..Len(cached)
      /\ \A i \in 1..Len(cached) :
           d[i] = IF cached[i].tag = tag THEN [cached[i] EXCEPT !.loading = u] ELSE cached[i]
  BY <1>1 DEF SetLoading
<1> HIDE DEF d
<1>3. ASSUME NEW i \in 1..Len(cached)
      PROVE  /\ d[i] \in WebView /\ d[i].tag = cached[i].tag /\ d[i].page = cached[i].page
             /\ cached[i].tag = tag => d[i].loading = u
  <2>1. cached[i] \in WebView
    BY <1>1
  <2>2. CASE cached[i].tag = tag
    <3>1. d[i] = [cached[i] EXCEPT !.loading = u]
      BY <1>2, <2>2
    <3>2. cached[i] = [tag |-> cached[i].tag, page |-> cached[i].page, loading |-> cached[i].loading]
          /\ cached[i].tag \in Nat /\ cached[i].page \in Page
      BY <2>1 DEF WebView
    <3>3. d[i] = [tag |-> cached[i].tag, page |-> cached[i].page, loading |-> u]
      BY <3>1, <3>2
    <3> QED BY <3>2, <3>3 DEF WebView
  <2>3. CASE cached[i].tag # tag
    <3>1. d[i] = cached[i]
      BY <1>2, <2>3
    <3> QED BY <2>1, <2>3, <3>1
  <2> QED BY <2>2, <2>3
<1>4. d \in Seq(WebView) /\ Len(d) = Len(cached)
  <2>1. d = [i \in 1..Len(cached) |-> d[i]]
    BY <1>1 DEF d, SetLoading
  <2>2. [i \in 1..Len(cached) |-> d[i]] \in Seq(WebView)
    BY <1>1, <1>3
  <2>3. d \in Seq(WebView)
    BY <2>1, <2>2
  <2> QED BY <1>1, <1>2, <2>3
<1>5. Recent(d, o)
  BY <1>3, <1>4 DEF Cache, Recent
<1>6. \A x \in ToSet(d) : x.page = map[x.tag]
  <2> SUFFICES ASSUME NEW i \in 1..Len(cached) PROVE d[i].page = map[d[i].tag]
    BY <1>2 DEF ToSet
  <2>1. cached[i].page = map[cached[i].tag]
    BY <1>1 DEF Cache, ToSet
  <2> QED BY <1>3, <2>1
<1>7. Cache(d, o, bar, map)
  BY <1>4, <1>5, <1>6 DEF Cache
<1> QED BY <1>3, <1>4, <1>7 DEF d

(* An event that changes no more than what is being loaded, and perhaps    *)
(* the address of a page.                                                  *)
LEMMA LoadStep ==
  ASSUME TabsInv, NEW tag, NEW u \in Urls \cup {NoUrl}, cached' = SetLoading(tag, u),
         UNCHANGED <<tabBar, pageList, currentWebView, file, shownLast>>,
         DOMAIN url' = DOMAIN url, \A p \in DOMAIN url : url'[p] \in Urls, IsFunction(url')
  PROVE  TabsInv'
<1>1. UNCHANGED <<tabs, currentTab, currentMaxTag, pages, tagToPage, selected,
                  currentWebView, file, shownLast>>
  BY DEF tabBar, pageList
<1> DEFINE d == SetLoading(tag, u)
<1>2. Cache(d, shownLast, tabs, tagToPage) /\ Len(d) = Len(cached)
  BY Loaded DEF TabsInv
<1> HIDE DEF d
<1>3. Screen(currentTab, currentWebView, selected, d, shownLast, tagToPage)
  BY <1>2 DEF TabsInv, Screen
<1>4. Lists(tabs, pages, tagToPage, url', currentMaxTag)
  BY DEF TabsInv, Lists
<1>5. cached' = d
  BY DEF d
<1> QED BY <1>1, <1>2, <1>3, <1>4, <1>5 DEF TabsInv

LEMMA UrlsKept == ASSUME TabsInv PROVE IsFunction(url) /\ \A p \in DOMAIN url : url[p] \in Urls
BY DEF TabsInv, Lists

(* What is being loaded is for the page of an open tab. *)
LEMMA LoadingIs ==
  ASSUME TabsInv, NEW i \in DOMAIN cached
  PROVE  /\ cached[i] \in WebView /\ cached[i].tag \in ToSet(tabs)
         /\ cached[i].page = tagToPage[cached[i].tag]
         /\ tagToPage[cached[i].tag] \in DOMAIN url
         /\ cached[i].loading # NoUrl => cached[i].loading \in Urls
<1>1. cached[i] \in ToSet(cached)
  BY DEF ToSet
<1>2. cached[i] \in WebView /\ cached[i].tag \in ToSet(tabs)
  BY <1>1, CachedOpen DEF TabsInv
<1>3. cached[i].page = tagToPage[cached[i].tag]
  BY <1>1 DEF TabsInv, Cache
<1> QED BY <1>2, <1>3 DEF TabsInv, Lists, WebView

(* The web view on the screen is cached, and its tab open. *)
LEMMA OnScreen ==
  ASSUME TabsInv
  PROVE  /\ currentWebView = currentTab /\ currentTab \in ToSet(tabs)
         /\ Holds(cached, currentTab)
         /\ tagToPage[currentTab] \in ToSet(pages) /\ tagToPage[currentTab] \in DOMAIN url
<1>1. /\ currentWebView = currentTab /\ currentTab = shownLast[Len(shownLast)]
      /\ cached \in Seq(WebView) /\ shownLast \in Seq(Nat) /\ Recent(cached, shownLast)
      /\ Len(cached) >= 1 /\ ToSet(shownLast) = ToSet(tabs) /\ Len(shownLast) >= 1
  BY DEF TabsInv, Cache, Screen
<1>2. Holds(cached, currentTab)
  BY <1>1, LastHeld
<1>3. currentTab \in ToSet(tabs)
  <2>1. Len(shownLast) \in DOMAIN shownLast
    BY <1>1
  <2> QED BY <1>1, <2>1 DEF ToSet
<1> QED BY <1>1, <1>2, <1>3 DEF TabsInv, Lists

LEMMA OpenURLStep == ASSUME TabsInv, NEW u \in Urls, OpenURL(u) PROVE TabsInv'
<1>1. url' = url /\ cached' = SetLoading(currentWebView, u)
      /\ UNCHANGED <<tabBar, pageList, currentWebView, file, shownLast>>
  BY DEF OpenURL
<1> QED BY <1>1, UrlsKept, LoadStep

LEMMA FollowLinkStep == ASSUME TabsInv, NEW u \in Urls, FollowLink(u) PROVE TabsInv'
<1>1. url' = [url EXCEPT ![PageByTag(currentWebView)] = u]
      /\ cached' = SetLoading(currentWebView, u)
      /\ UNCHANGED <<tabBar, pageList, currentWebView, file, shownLast>>
  BY DEF FollowLink
<1>2. DOMAIN url' = DOMAIN url /\ \A p \in DOMAIN url : url'[p] \in Urls
  BY <1>1, UrlsKept
<1>3. IsFunction(url')
  BY <1>1 DEF IsFunction
<1> QED BY <1>1, <1>2, <1>3, LoadStep

LEMMA FinishStep == ASSUME TabsInv, NEW i \in DOMAIN cached, DidFinishLoad(i) PROVE TabsInv'
<1>1. /\ url' = [url EXCEPT ![PageByTag(cached[i].tag)] = cached[i].loading]
      /\ cached' = SetLoading(cached[i].tag, NoUrl) /\ cached[i].loading # NoUrl
      /\ UNCHANGED <<tabBar, pageList, currentWebView, file, shownLast>>
  BY DEF DidFinishLoad
<1>2. cached[i].loading \in Urls
  BY <1>1, LoadingIs
<1>3. DOMAIN url' = DOMAIN url /\ \A p \in DOMAIN url : url'[p] \in Urls
  BY <1>1, <1>2, UrlsKept
<1>4. IsFunction(url')
  BY <1>1 DEF IsFunction
<1> QED BY <1>1, <1>3, <1>4, LoadStep

LEMMA FailStep == ASSUME TabsInv, NEW i \in DOMAIN cached, DidFailLoad(i) PROVE TabsInv'
<1>1. /\ url' = url /\ cached' = SetLoading(cached[i].tag, NoUrl)
      /\ UNCHANGED <<tabBar, pageList, currentWebView, file, shownLast>>
  BY DEF DidFailLoad
<1> QED BY <1>1, UrlsKept, LoadStep

LEMMA ReleaseStep == ASSUME TabsInv, ReleaseBackgroundWebViews PROVE TabsInv'
<1> DEFINE d == Newest(cached, MinCached)
<1>1. MinCached \in Nat /\ MaxCached \in Nat /\ MinCached >= 1 /\ MinCached <= MaxCached
  BY TabsAssumption DEF TabsAssumption
<1>2. cached \in Seq(WebView) /\ shownLast \in Seq(Nat) /\ Recent(cached, shownLast)
      /\ Len(cached) >= 1 /\ Len(cached) <= MaxCached
  BY DEF TabsInv, Cache, Screen
<1>3. /\ d \in Seq(WebView) /\ ToSet(d) \subseteq ToSet(cached)
      /\ Len(d) = IF Len(cached) <= MinCached THEN Len(cached) ELSE MinCached
      /\ Recent(d, shownLast)
  BY <1>1, <1>2, NewestOnes
<1>4. /\ cached' = d /\ UNCHANGED <<tabs, currentTab, currentMaxTag, pages, tagToPage, selected,
                                      url, currentWebView, file, shownLast>>
  BY DEF ReleaseBackgroundWebViews, tabBar, pageList
<1> HIDE DEF d
<1>5. Len(d) >= 1 /\ Len(d) <= MaxCached
  BY <1>1, <1>2, <1>3
<1>6. Cache(d, shownLast, tabs, tagToPage)
  BY <1>3, <1>5 DEF TabsInv, Cache
<1>7. Screen(currentTab, currentWebView, selected, d, shownLast, tagToPage)
  BY <1>5 DEF TabsInv, Screen
<1> QED BY <1>4, <1>6, <1>7 DEF TabsInv

LEMMA SaveStep == ASSUME TabsInv, Save PROVE TabsInv'
<1> DEFINE r(i) == [page |-> pages[i], url |-> url[pages[i]],
                    selected |-> pages[i] \in selected]
           f == [i \in DOMAIN pages |-> r(i)]
<1>1. /\ file' = f /\ UNCHANGED <<tabs, currentTab, currentMaxTag, pages, tagToPage, selected,
                                    url, cached, currentWebView, shownLast>>
  BY Zenon DEF Save, tabBar, pageList, container
<1>2. /\ pages \in Seq(Page) /\ IsInjective(pages) /\ DOMAIN pages = 1..Len(pages)
      /\ Len(pages) \in Nat
      /\ \A i \in DOMAIN pages : pages[i] \in Page /\ url[pages[i]] \in Urls
  BY DEF TabsInv, Lists, ToSet
<1>3. selected = {tagToPage[currentTab]} /\ tagToPage[currentTab] \in ToSet(pages)
  BY OnScreen DEF TabsInv, Screen
<1>4. PICK k \in DOMAIN pages : pages[k] = tagToPage[currentTab]
  BY <1>3 DEF ToSet
<1>5. ASSUME NEW i \in 1..Len(pages)
      PROVE  /\ r(i) \in Saved /\ r(i).page = pages[i]
             /\ r(i).selected = (pages[i] \in selected)
  <2> DEFINE b == pages[i] \in selected
             x == r(i)
  <2>1. b \in BOOLEAN
    OBVIOUS
  <2>2. x = [page |-> pages[i], url |-> url[pages[i]], selected |-> b]
    OBVIOUS
  <2>3. pages[i] \in Page /\ url[pages[i]] \in Urls
    BY <1>2
  <2> HIDE DEF b, x
  <2>4. x \in Saved
    BY <2>1, <2>2, <2>3 DEF Saved
  <2>5. x.page = pages[i]
    BY <2>2
  <2>6. x.selected = b
    BY <2>2, Zenon
  <2> QED BY <2>4, <2>5, <2>6 DEF b, x
<1> HIDE DEF r
<1>6. f \in Seq(Saved) /\ DOMAIN f = 1..Len(pages) /\ \A i \in 1..Len(pages) : f[i] = r(i)
  BY <1>2, <1>5
<1> HIDE DEF f
<1>7. \A i, j \in DOMAIN f : f[i].page = f[j].page => i = j
  BY <1>2, <1>5, <1>6 DEF IsInjective
<1>8. ASSUME NEW i \in DOMAIN f PROVE f[i].selected <=> i = k
  <2>1. i \in DOMAIN pages /\ f[i] = r(i)
    BY <1>2, <1>6
  <2>2. r(i).selected = (pages[i] \in selected)
    BY <1>5, <1>6
  <2>3. pages[i] \in selected <=> pages[i] = pages[k]
    BY <1>3, <1>4
  <2>4. pages[i] = pages[k] <=> i = k
    BY <1>2, <1>4, <2>1 DEF IsInjective
  <2>5. f[i].selected = (pages[i] \in selected)
    BY <2>1, <2>2, Zenon
  <2> QED BY <2>3, <2>4, <2>5, Zenon
<1>9. FileInv(f)
  BY <1>2, <1>4, <1>5, <1>6, <1>7, <1>8 DEF FileInv
<1> QED BY <1>1, <1>9 DEF TabsInv

-----------------------------------------------------------------------------
(* Launching from a file. *)

LEMMA SelectedTagIs ==
  ASSUME FileInv(file), file # <<>>
  PROVE  /\ SelectedTag(file) \in 0..(Len(file) - 1) /\ SelectedTag(file) + 1 \in DOMAIN file
         /\ \A i \in DOMAIN file : file[i].selected <=> i = SelectedTag(file) + 1
<1>1. /\ DOMAIN file = 1..Len(file) /\ Len(file) \in Nat
      /\ \E k \in DOMAIN file : \A i \in DOMAIN file : file[i].selected <=> i = k
  BY DEF FileInv
<1>2. PICK k \in DOMAIN file : \A i \in DOMAIN file : file[i].selected <=> i = k
  BY <1>1
<1> DEFINE S == {i \in DOMAIN file : file[i].selected}
<1>3. S = {k}
  BY <1>2
<1> HIDE DEF S
<1>4. k \in 1..Len(file)
  BY <1>1
<1>5. (CHOOSE i \in S : \A j \in S : j <= i) = k
  BY <1>3, <1>4
<1>6. SelectedTag(file) = k - 1
  BY <1>3, <1>5 DEF SelectedTag, S
<1>7. SelectedTag(file) + 1 = k /\ SelectedTag(file) \in 0..(Len(file) - 1)
  BY <1>1, <1>4, <1>6
<1> QED BY <1>2, <1>7

LEMMA FileIs ==
  ASSUME FileInv(file)
  PROVE  /\ file \in Seq(Saved) /\ Len(file) \in Nat /\ DOMAIN file = 1..Len(file)
         /\ \A i \in 1..Len(file) : file[i].page \in Page /\ file[i].url \in Urls
<1>1. file \in Seq(Saved)
  BY DEF FileInv
<1>2. \A s \in Saved : s.page \in Page /\ s.url \in Urls
  BY DEF Saved
<1>3. \A i \in 1..Len(file) : file[i] \in Saved
  BY <1>1
<1> QED BY <1>1, <1>2, <1>3

LEMMA FirstTagsAre ==
  ASSUME NEW f \in Seq(Saved)
  PROVE  /\ FirstTags(f) \in Seq(Nat) /\ IsInjective(FirstTags(f))
         /\ Len(FirstTags(f)) = Len(f) /\ ToSet(FirstTags(f)) = 0..(Len(f) - 1)
         /\ \A i \in 1..Len(f) : FirstTags(f)[i] = i - 1
<1> DEFINE b == FirstTags(f)
<1>1. DOMAIN f = 1..Len(f) /\ Len(f) \in Nat
  OBVIOUS
<1>2. b = [i \in 1..Len(f) |-> i - 1]
  BY <1>1 DEF FirstTags
<1> HIDE DEF b
<1>3. b \in Seq(Nat) /\ Len(b) = Len(f) /\ DOMAIN b = 1..Len(f)
      /\ \A i \in 1..Len(f) : b[i] = i - 1
  BY <1>1, <1>2
<1>4. IsInjective(b)
  <2> SUFFICES ASSUME NEW i \in 1..Len(f), NEW j \in 1..Len(f), b[i] = b[j] PROVE i = j
    BY <1>3 DEF IsInjective
  <2>1. i - 1 = j - 1
    BY <1>3
  <2> QED BY <1>1, <2>1
<1>5. ToSet(b) = 0..(Len(f) - 1)
  <2>1. \A i \in 1..Len(f) : b[i] \in 0..(Len(f) - 1)
    BY <1>1, <1>3
  <2>2. ASSUME NEW t \in 0..(Len(f) - 1) PROVE t \in ToSet(b)
    <3>1. t + 1 \in 1..Len(f) /\ (t + 1) - 1 = t
      BY <1>1
    <3>2. t + 1 \in DOMAIN b /\ b[t + 1] = t
      BY <1>3, <3>1
    <3> QED BY <3>2 DEF ToSet
  <2> QED BY <1>3, <2>1, <2>2 DEF ToSet
<1> QED BY <1>3, <1>4, <1>5 DEF b

LEMMA RelaunchLists ==
  ASSUME FileInv(file), file # <<>>, Relaunch
  PROVE  Lists(tabs', pages', tagToPage', url', currentMaxTag') /\ currentMaxTag' \in Nat
<1> DEFINE n == Len(file)
           bar == FirstTags(file)
<1>1. /\ file \in Seq(Saved) /\ n \in Nat /\ DOMAIN file = 1..n
      /\ \A i, j \in DOMAIN file : file[i].page = file[j].page => i = j
      /\ \A i \in 1..n : file[i].page \in Page /\ file[i].url \in Urls
  BY FileIs DEF FileInv
<1>2. /\ tabs' = bar /\ currentMaxTag' = n
      /\ pages' = [i \in DOMAIN file |-> file[i].page]
      /\ tagToPage' = [t \in ToSet(bar) |-> file[t + 1].page]
      /\ url' = [p \in {file[i].page : i \in DOMAIN file} |->
                   (CHOOSE s \in ToSet(file) : s.page = p).url]
  BY DEF Relaunch, TagsGiven
<1>3. /\ bar \in Seq(Nat) /\ IsInjective(bar) /\ Len(bar) = n /\ ToSet(bar) = 0..(n - 1)
  BY <1>1, FirstTagsAre
<1> HIDE DEF bar, n
<1>4. /\ pages' \in Seq(Page) /\ Len(pages') = n /\ DOMAIN pages' = 1..n
      /\ \A i \in 1..n : pages'[i] = file[i].page
  <2> DEFINE l == [i \in DOMAIN file |-> file[i].page]
  <2>1. l \in [1..n -> Page] /\ \A i \in 1..n : l[i] = file[i].page
    BY <1>1
  <2>2. l \in Seq(Page)
    BY <1>1, <2>1
  <2> HIDE DEF l
  <2>3. Len(l) = n
    BY <1>1, <2>1, <2>2
  <2>4. pages' = l
    BY <1>2 DEF l
  <2> QED BY <2>1, <2>2, <2>3, <2>4
<1>5. IsInjective(pages')
  BY <1>1, <1>4 DEF IsInjective
<1>6. ToSet(pages') = {file[i].page : i \in 1..n}
  BY <1>4 DEF ToSet
<1>7. /\ DOMAIN url' = ToSet(pages') /\ \A p \in ToSet(pages') : url'[p] \in Urls
      /\ IsFunction(url')
  <2>1. DOMAIN url' = ToSet(pages')
    BY <1>1, <1>2, <1>6
  <2>2. ASSUME NEW p \in ToSet(pages') PROVE url'[p] \in Urls
    <3>0. PICK j \in 1..n : p = file[j].page
      BY <1>6
    <3>1. \E s \in ToSet(file) : s.page = p
      BY <1>1, <3>0 DEF ToSet
    <3>2. (CHOOSE s \in ToSet(file) : s.page = p) \in ToSet(file)
      BY <3>1
    <3>3. \A s \in ToSet(file) : s.url \in Urls
      BY <1>1 DEF ToSet
    <3>4. p \in {file[i].page : i \in DOMAIN file}
      BY <1>1, <1>6
    <3>5. url'[p] = (CHOOSE s \in ToSet(file) : s.page = p).url
      BY <1>2, <3>4
    <3> QED BY <3>2, <3>3, <3>5
  <2>3. IsFunction(url')
    BY <1>2 DEF IsFunction
  <2> QED BY <2>1, <2>2, <2>3
<1>8. \A t \in ToSet(bar) : t \in Nat /\ t < n /\ t + 1 \in 1..n /\ tagToPage'[t] = file[t + 1].page
  BY <1>1, <1>2, <1>3
<1>9. \A t \in ToSet(bar) : tagToPage'[t] \in ToSet(pages')
  BY <1>6, <1>8
<1>10. \A s, t \in ToSet(bar) : tagToPage'[s] = tagToPage'[t] => s = t
  <2> SUFFICES ASSUME NEW s \in ToSet(bar), NEW t \in ToSet(bar), tagToPage'[s] = tagToPage'[t]
               PROVE  s = t
    OBVIOUS
  <2>1. s + 1 = t + 1
    BY <1>1, <1>8
  <2>2. s \in Nat /\ t \in Nat
    BY <1>8
  <2> QED BY <2>1, <2>2
<1>11. \A p \in ToSet(pages') : \E t \in ToSet(bar) : tagToPage'[t] = p
  <2> SUFFICES ASSUME NEW i \in 1..n PROVE \E t \in ToSet(bar) : tagToPage'[t] = file[i].page
    BY <1>6
  <2>1. i - 1 \in 0..(n - 1) /\ (i - 1) + 1 = i
    BY <1>1
  <2>2. i - 1 \in ToSet(bar)
    BY <1>3, <2>1
  <2> QED BY <1>8, <2>1, <2>2
<1>12. DOMAIN tagToPage' = ToSet(bar)
  BY <1>2
<1>13. Lists(bar, pages', tagToPage', url', n)
  BY <1>3, <1>4, <1>5, <1>7, <1>8, <1>9, <1>10, <1>11, <1>12 DEF Lists
<1> QED BY <1>1, <1>2, <1>13

LEMMA RelaunchStep == ASSUME TabsInv, Relaunch PROVE TabsInv'
<1> DEFINE n == Len(file)
           tag == SelectedTag(file)
           bar == FirstTags(file)
           map == tagToPage'
           a == [i \in DOMAIN file |->
                   [tag |-> i - 1, page |-> file[i].page, loading |-> file[i].url]]
           c == Restored(file)
           p == file[tag + 1].page
           u == file[tag + 1].url
           d == RestoredAndShown(file, tag)
<1>1. FileInv(file) /\ file # <<>>
  BY DEF TabsInv, Relaunch
<1>2. file \in Seq(Saved) /\ n \in Nat /\ DOMAIN file = 1..n
      /\ \A i \in 1..n : file[i].page \in Page /\ file[i].url \in Urls
  BY <1>1, FileIs
<1>3. /\ tabs' = bar /\ map = [t \in ToSet(bar) |-> file[t + 1].page]
      /\ cached' = d /\ selected' = {p} /\ currentTab' = tag /\ currentWebView' = tag
      /\ shownLast' = Shown(bar, tag) /\ file' = file
  BY DEF Relaunch
<1>4. Lists(tabs', pages', tagToPage', url', currentMaxTag') /\ currentMaxTag' \in Nat
  BY <1>1, RelaunchLists
<1>5. /\ bar \in Seq(Nat) /\ IsInjective(bar) /\ Len(bar) = n /\ ToSet(bar) = 0..(n - 1)
      /\ \A i \in 1..n : bar[i] = i - 1
  BY <1>2, FirstTagsAre
<1>6. tag \in ToSet(bar) /\ tag + 1 \in 1..n /\ tag \in Nat
  BY <1>1, <1>2, <1>5, SelectedTagIs
<1>7. p \in Page /\ u \in Urls
  BY <1>2, <1>6
<1>8. map[tag] = p
  BY <1>3, <1>6
<1> HIDE DEF tag, bar, map
<1>9. ASSUME NEW i \in 1..n
      PROVE  a[i] \in WebView /\ a[i].tag = i - 1 /\ a[i].page = map[i - 1]
  <2> DEFINE r == a[i]
  <2>1. r = [tag |-> i - 1, page |-> file[i].page, loading |-> file[i].url]
    BY <1>2
  <2>2. i - 1 \in Nat /\ i - 1 \in 0..(n - 1) /\ (i - 1) + 1 = i
    BY <1>2
  <2>3. map[i - 1] = file[i].page
    BY <1>3, <1>5, <2>2
  <2> HIDE DEF r
  <2>4. r \in WebView /\ r.tag = i - 1 /\ r.page = file[i].page
    BY <1>2, <2>1, <2>2 DEF WebView
  <2> QED BY <2>3, <2>4 DEF r
<1>10. a \in Seq(WebView) /\ Len(a) = n /\ DOMAIN a = 1..n
  <2>1. DOMAIN a = 1..n /\ a = [i \in 1..n |-> a[i]]
    BY <1>2
  <2> HIDE DEF a
  <2>2. a \in [1..n -> WebView]
    BY <1>9, <2>1
  <2> QED BY <1>2, <2>1, <2>2
<1>11. c = Newest(a, MaxCached)
  BY DEF Restored
<1> HIDE DEF a
<1>12. Recent(a, bar)
  BY <1>2, <1>5, <1>9, <1>10 DEF Recent
<1>13. \A x \in ToSet(a) : x.page = map[x.tag]
  BY <1>9, <1>10 DEF ToSet
<1>14. MaxCached \in Nat
  BY TabsAssumption DEF TabsAssumption
<1> HIDE DEF c
<1>15. c \in Seq(WebView) /\ ToSet(c) \subseteq ToSet(a) /\ Len(c) <= MaxCached /\ Recent(c, bar)
  BY <1>5, <1>10, <1>11, <1>12, <1>14, NewestOnes
<1>16. d = MoveToEnd(IF Holds(c, tag) THEN c ELSE Created(c, tag, p, u), tag)
  BY DEF RestoredAndShown, c
<1> HIDE DEF d, p, u
<1>17. /\ d \in Seq(WebView) /\ Len(d) >= 1 /\ Len(d) <= MaxCached
       /\ Recent(d, Shown(bar, tag))
       /\ \A v \in ToSet(d) : v \in ToSet(c) \/ (v.tag = tag /\ v.page = p)
  BY <1>5, <1>6, <1>7, <1>15, <1>16, ShowRecent
<1> DEFINE o == Shown(bar, tag)
<1>18. o \in Seq(Nat) /\ IsInjective(o) /\ ToSet(o) = ToSet(bar) /\ Len(o) >= 1 /\ o[Len(o)] = tag
  BY <1>5, <1>6, ShownIs
<1> HIDE DEF o
<1>19. \A v \in ToSet(d) : v.page = map[v.tag]
  BY <1>8, <1>13, <1>15, <1>17
<1>20. Cache(d, o, bar, map)
  BY <1>17, <1>18, <1>19 DEF Cache, o
<1>21. Screen(tag, tag, {p}, d, o, map)
  BY <1>8, <1>17, <1>18 DEF Screen
<1> QED BY <1>1, <1>3, <1>4, <1>20, <1>21 DEF TabsInv, o, map

LEMMA NextInv == ASSUME TabsInv, [Next]_vars PROVE TabsInv'
<1>1. CASE UNCHANGED vars
  <2>1. UNCHANGED <<tabs, currentTab, currentMaxTag, pages, tagToPage, selected, url, cached,
                    currentWebView, file, shownLast>>
    BY <1>1 DEF vars, tabBar, pageList, container
  <2> QED BY <2>1 DEF TabsInv
<1>2. CASE OpenLinkInNewTab
  BY <1>2, OpenLinkStep
<1>3. ASSUME NEW tag \in ToSet(tabs),
             SelectTab(tag) \/ CloseTab(tag) \/ \E index \in 1..Len(tabs) : MoveTab(tag, index)
      PROVE  TabsInv'
  BY <1>3, SelectStep, CloseStep, MoveStep
<1>4. CASE CloseLastTab
  BY <1>4, CloseLastStep
<1>5. ASSUME NEW u \in Urls, OpenURL(u) \/ FollowLink(u) PROVE TabsInv'
  BY <1>5, OpenURLStep, FollowLinkStep
<1>6. ASSUME NEW i \in DOMAIN cached, DidFinishLoad(i) \/ DidFailLoad(i) PROVE TabsInv'
  BY <1>6, FinishStep, FailStep
<1>7. CASE ReleaseBackgroundWebViews
  BY <1>7, ReleaseStep
<1>8. CASE Save
  BY <1>8, SaveStep
<1>9. CASE Relaunch
  BY <1>9, RelaunchStep
<1>10. CASE StartAnew
  BY <1>10, StartAnewStep
<1> QED BY <1>1, <1>2, <1>3, <1>4, <1>5, <1>6, <1>7, <1>8, <1>9, <1>10 DEF Next

LEMMA Reversal ==
  ASSUME NEW S, NEW s \in Seq(S)
  PROVE  /\ Reverse(s) \in Seq(S) /\ Len(Reverse(s)) = Len(s)
         /\ \A i \in 1..Len(s) : Reverse(s)[i] = s[(Len(s) - i) + 1]
<1> DEFINE n == Len(s)
           r == [i \in 1..n |-> s[(n - i) + 1]]
<1>1. n \in Nat
  OBVIOUS
<1>2. \A i \in 1..n : (n - i) + 1 \in 1..n
  BY <1>1
<1>3. \A i \in 1..n : s[(n - i) + 1] \in S
  BY <1>2
<1>4. r \in [1..n -> S] /\ \A i \in 1..n : r[i] = s[(n - i) + 1]
  BY <1>3
<1>5. Reverse(s) = r
  BY DEF Reverse
<1> HIDE DEF r, n
<1>6. r \in Seq(S) /\ Len(r) = n
  BY <1>1, <1>4
<1> QED BY <1>4, <1>5, <1>6 DEF n

LEMMA SuffixIs ==
  ASSUME NEW s \in Seq(Nat), NEW t \in Seq(Nat), Len(s) <= Len(t),
         \A i \in 1..Len(s) : s[i] = t[Len(t) - Len(s) + i]
  PROVE  IsSuffix(s, t)
<1> DEFINE k == Len(s)
           n == Len(t)
           r == Reverse(s)
           q == Reverse(t)
<1>1. k \in Nat /\ n \in Nat /\ k <= n
  OBVIOUS
<1>2. /\ r \in Seq(Nat) /\ Len(r) = k /\ \A i \in 1..k : r[i] = s[(k - i) + 1]
      /\ q \in Seq(Nat) /\ Len(q) = n /\ \A i \in 1..n : q[i] = t[(n - i) + 1]
  BY Reversal
<1>3. \A i \in 1..k : s[i] = t[n - k + i]
  OBVIOUS
<1>4. IsSuffix(s, t) <=> (Len(r) <= Len(q) /\ SubSeq(r, 1, Len(r)) = SubSeq(q, 1, Len(r)))
  BY DEF IsSuffix, IsPrefix
<1> HIDE DEF r, q, k, n
<1>5. ASSUME NEW i \in 1..k PROVE i \in 1..n /\ r[i] = q[i]
  <2>0. i \in Nat /\ 1 <= i /\ i <= k /\ k \in Nat /\ n \in Nat /\ k <= n
    BY <1>1
  <2>1. /\ (k - i) + 1 \in 1..k /\ n - k + ((k - i) + 1) = (n - i) + 1 /\ i \in 1..n
    BY ONLY <2>0
  <2>2. s[(k - i) + 1] = t[n - k + ((k - i) + 1)]
    BY <1>3, <2>1
  <2>3. r[i] = s[(k - i) + 1] /\ q[i] = t[(n - i) + 1]
    BY <1>2, <2>1
  <2> QED BY <2>1, <2>2, <2>3
<1> DEFINE a == SubSeq(r, 1, k)
           b == SubSeq(q, 1, k)
<1>6. a \in Seq(Nat) /\ Len(a) = k /\ \A i \in 1..k : a[i] = r[i]
  <2>1. \A i \in 1..k : r[i] \in Nat
    BY <1>2
  <2> QED BY <1>1, <1>2, <2>1
<1>7. b \in Seq(Nat) /\ Len(b) = k /\ \A i \in 1..k : b[i] = q[i]
  <2>1. \A i \in 1..k : q[i] \in Nat
    BY <1>1, <1>2
  <2> QED BY <1>1, <1>2, <2>1
<1> HIDE DEF a, b
<1>8. a = b
  <2>1. \A i \in 1..k : a[i] = b[i]
    BY <1>5, <1>6, <1>7
  <2>2. a \in Seq(Nat) /\ b \in Seq(Nat) /\ Len(a) = Len(b) /\ \A i \in 1..Len(a) : a[i] = b[i]
    BY <1>6, <1>7, <2>1
  <2> QED BY ONLY <2>2, SeqEqual
<1> QED BY <1>1, <1>2, <1>4, <1>8 DEF a, b

LEMMA Invariance == Spec => []TabsInv
BY InitInv, NextInv, PTL DEF Spec

-----------------------------------------------------------------------------
(* The types, with the bounds: there is always a tab and there are never   *)
(* more than MaxTabs, on the screen, in the list or in the file.           *)

BoundsInv ==
  /\ Len(pages) \in 1..MaxTabs /\ currentMaxTag <= MaxTag
  /\ IsFunction(tagToPage) /\ Len(file) <= MaxTabs

(* OpenIn adds one page and gives out one tag. *)
LEMMA OpenBounds ==
  ASSUME CanOpen, currentMaxTag \in Nat, Page \ Used # {},
         NEW bar, NEW list \in Seq(Page), NEW map, NEW urls, NEW c, NEW order, NEW u,
         OpenIn(bar, list, map, urls, c, order, u)
  PROVE  /\ Len(pages') = Len(list) + 1 /\ currentMaxTag' <= MaxTag
         /\ IsFunction(tagToPage')
<1>1. currentMaxTag' = currentMaxTag + 1 /\ currentMaxTag < MaxTag
  BY DEF OpenIn, CanOpen
<1>2. pages' = Append(list, FreshPage)
  BY DEF OpenIn
<1>3. FreshPage \in Page
  BY DEF FreshPage
<1>4. IsFunction(tagToPage')
  <2> DEFINE tag == currentMaxTag
             p   == FreshPage
  <2>1. tagToPage' = [t \in DOMAIN map \cup {tag} |-> IF t = tag THEN p ELSE map[t]]
    BY DEF OpenIn
  <2> HIDE DEF tag, p
  <2>2. QED
    BY <2>1 DEF IsFunction
<1>5. Len(pages') = Len(list) + 1
  BY <1>2, <1>3
<1>6. currentMaxTag' <= MaxTag
  BY <1>1, TabsAssumption
<1>7. QED
  BY <1>4, <1>5, <1>6

LEMMA CloseBounds ==
  ASSUME TabsInv, BoundsInv, NEW tag \in ToSet(tabs), CloseTab(tag)
  PROVE  BoundsInv'
<1> DEFINE page == tagToPage[tag]
<1>1. /\ pages' = Without(pages, page) /\ UNCHANGED <<currentMaxTag, file>>
      /\ tagToPage' = [t \in DOMAIN tagToPage \ {tag} |-> tagToPage[t]]
      /\ Len(tabs) > 1
  BY DEF CloseTab
<1>2. page \in ToSet(pages) /\ pages \in Seq(Page) /\ IsInjective(pages)
      /\ Len(tabs) = Len(pages)
  BY DEF TabsInv, Lists
<1> HIDE DEF page
<1>3. Len(pages') = Len(pages) - 1
  BY <1>1, <1>2, WithoutOne
<1>4. IsFunction(tagToPage')
  BY <1>1 DEF IsFunction
<1>5. Len(pages') \in 1..MaxTabs
  BY <1>1, <1>2, <1>3, TabsAssumption DEF BoundsInv
<1>6. QED
  BY <1>1, <1>4, <1>5 DEF BoundsInv

LEMMA RelaunchBounds ==
  ASSUME TabsInv, BoundsInv, Relaunch
  PROVE  BoundsInv'
<1>1. file \in Seq(Saved) /\ file # <<>> /\ Len(file) <= MaxTag /\ file' = file
  BY DEF Relaunch, TabsInv, FileInv
<1>2. /\ currentMaxTag' = Len(file) /\ pages' = [i \in DOMAIN file |-> file[i].page]
      /\ tagToPage' = [t \in ToSet(FirstTags(file)) |-> file[t + 1].page]
  BY DEF Relaunch, TagsGiven
<1>3. Len(pages') = Len(file) /\ Len(file) \in Nat \ {0}
  BY <1>1, <1>2
<1>4. IsFunction(tagToPage')
  BY <1>2 DEF IsFunction
<1>5. QED
  BY <1>1, <1>2, <1>3, <1>4, TabsAssumption DEF BoundsInv

LEMMA SaveBounds ==
  ASSUME TabsInv, BoundsInv, Save
  PROVE  BoundsInv'
<1>1. /\ UNCHANGED <<pages, currentMaxTag, tagToPage>> /\ pages \in Seq(Page)
      /\ file' = [i \in DOMAIN pages |->
                    [page |-> pages[i], url |-> url[pages[i]],
                     selected |-> pages[i] \in selected]]
  BY DEF Save, tabBar, pageList, TabsInv, Lists
<1>2. DOMAIN pages = 1..Len(pages) /\ Len(pages) \in Nat
  BY <1>1
<1>3. Len(file') = Len(pages)
  BY <1>1, <1>2
<1>4. QED
  BY <1>1, <1>3, TabsAssumption DEF BoundsInv

LEMMA StartBounds ==
  ASSUME NEW p \in Page
  PROVE  Len(<<p>>) = 1 /\ IsFunction([t \in {0} |-> p]) /\ Len(<<>>) = 0
BY DEF IsFunction

LEMMA NextBounds == ASSUME TabsInv, BoundsInv, [Next]_vars PROVE BoundsInv'
<1>1. CASE \/ UNCHANGED vars \/ ReleaseBackgroundWebViews
           \/ \E tag \in ToSet(tabs) : \/ SelectTab(tag)
                                       \/ \E index \in 1..Len(tabs) : MoveTab(tag, index)
           \/ \E u \in Urls : OpenURL(u) \/ FollowLink(u)
           \/ \E i \in DOMAIN cached : DidFinishLoad(i) \/ DidFailLoad(i)
  <2>1. UNCHANGED <<pages, currentMaxTag, tagToPage, file>>
    BY <1>1 DEF vars, tabBar, pageList, ReleaseBackgroundWebViews, SelectTab, MoveTab,
                OpenURL, FollowLink, DidFinishLoad, DidFailLoad
  <2>2. QED
    BY <2>1 DEF BoundsInv
<1>2. CASE OpenLinkInNewTab
  <2>1. CanOpen /\ Len(tabs) < MaxTabs /\ file' = file
        /\ OpenIn(tabs, pages, tagToPage, url, cached, shownLast, NewTabUrl)
    BY <1>2 DEF OpenLinkInNewTab
  <2>2. pages \in Seq(Page) /\ Len(pages) = Len(tabs) /\ currentMaxTag \in Nat
    BY DEF TabsInv, Lists
  <2>3. Len(pages') = Len(pages) + 1 /\ currentMaxTag' <= MaxTag /\ IsFunction(tagToPage')
    BY <2>1, <2>2, OpenBounds DEF CanOpen
  <2>4. QED
    BY <2>1, <2>2, <2>3, TabsAssumption DEF BoundsInv
<1>3. CASE CloseLastTab
  <2>1. CanOpen /\ file' = file
        /\ OpenIn(<<>>, <<>>, [t \in {} |-> 0], [q \in {} |-> LastUrl],
                  CloseView(cached, currentTab), <<>>, LastUrl)
    BY <1>3 DEF CloseLastTab
  <2>2. <<>> \in Seq(Page) /\ Len(<<>>) = 0 /\ currentMaxTag \in Nat
    BY DEF TabsInv
  <2>3. Len(pages') = Len(<<>>) + 1 /\ currentMaxTag' <= MaxTag /\ IsFunction(tagToPage')
    BY <2>1, <2>2, OpenBounds DEF CanOpen
  <2>4. QED
    BY <2>1, <2>2, <2>3, TabsAssumption DEF BoundsInv
<1>4. CASE StartAnew
  <2>1. PICK p \in Page : currentMaxTag' = 1 /\ pages' = <<p>>
                          /\ tagToPage' = [t \in {0} |-> p] /\ file' = <<>>
    BY <1>4 DEF StartAnew
  <2>2. Len(pages') = 1 /\ IsFunction(tagToPage') /\ Len(file') = 0
    BY <2>1, StartBounds
  <2>3. 1 <= MaxTag /\ 1 \in 1..MaxTabs /\ 0 <= MaxTabs
    BY TabsAssumption
  <2>4. QED
    BY <2>1, <2>2, <2>3 DEF BoundsInv
<1>5. QED
  BY <1>1, <1>2, <1>3, <1>4, CloseBounds, RelaunchBounds, SaveBounds DEF Next

LEMMA InitBounds == ASSUME Init PROVE BoundsInv
<1>1. PICK p \in Page : currentMaxTag = 1 /\ pages = <<p>>
                        /\ tagToPage = [t \in {0} |-> p] /\ file = <<>>
  BY DEF Init
<1>2. QED
  BY <1>1, StartBounds, TabsAssumption DEF BoundsInv

(* Tabs, pages, cache and file keep their types and their bounds: there is *)
(* always a tab, and the cache is never larger than kMaxCachedWebViews nor *)
(* empty, whatever is opened, closed, evicted or restored.                 *)
THEOREM TabsTypes == Spec => []TypeOK
<1>1. TabsInv /\ BoundsInv => TypeOK
  <2> SUFFICES ASSUME TabsInv, BoundsInv PROVE TypeOK
    OBVIOUS
  <2>1. /\ tabs \in Seq(Nat) /\ pages \in Seq(Page) /\ Len(tabs) = Len(pages)
        /\ DOMAIN tagToPage = ToSet(tabs) /\ DOMAIN url = ToSet(pages)
        /\ \A t \in ToSet(tabs) : tagToPage[t] \in ToSet(pages)
        /\ \A p \in ToSet(pages) : url[p] \in Urls
        /\ url = [p \in DOMAIN url |-> url[p]]
    BY DEF TabsInv, Lists, IsFunction
  <2>2. tagToPage = [t \in DOMAIN tagToPage |-> tagToPage[t]]
    BY DEF BoundsInv, IsFunction
  <2>3. \A p \in ToSet(pages) : p \in Page
    BY <2>1 DEF ToSet
  <2>4. /\ tagToPage \in [ToSet(tabs) -> Page] /\ url \in [ToSet(pages) -> Urls]
    BY <2>1, <2>2, <2>3
  <2>5. /\ currentTab \in ToSet(tabs) /\ currentWebView = currentTab
        /\ selected = {tagToPage[currentTab]}
    <3>1. /\ currentTab = shownLast[Len(shownLast)] /\ Len(shownLast) >= 1
          /\ shownLast \in Seq(Nat) /\ ToSet(shownLast) = ToSet(tabs)
          /\ currentWebView = currentTab /\ selected = {tagToPage[currentTab]}
      BY DEF TabsInv, Screen, Cache
    <3>2. Len(shownLast) \in DOMAIN shownLast
      BY <3>1
    <3>3. QED
      BY <3>1, <3>2 DEF ToSet
  <2>6. currentTab \in Nat /\ selected \subseteq ToSet(pages)
    BY <2>1, <2>5 DEF ToSet
  <2>7. /\ cached \in Seq(WebView) /\ Len(cached) \in 1..MaxCached
        /\ shownLast \in Seq(Nat) /\ file \in Seq(Saved)
    <3>1. /\ cached \in Seq(WebView) /\ Len(cached) <= MaxCached /\ Len(cached) >= 1
          /\ shownLast \in Seq(Nat) /\ file \in Seq(Saved)
      BY DEF TabsInv, Cache, Screen, FileInv
    <3>2. QED
      BY <3>1, TabsAssumption
  <2>8. currentMaxTag \in 0..MaxTag /\ Len(tabs) \in 1..MaxTabs
    BY <2>1, TabsAssumption DEF TabsInv, BoundsInv
  <2>9. QED
    BY <2>1, <2>4, <2>5, <2>6, <2>7, <2>8 DEF TypeOK
<1>2. QED
  BY <1>1, InitBounds, NextBounds, Invariance, PTL DEF Spec

-----------------------------------------------------------------------------
(* The theorems. *)

(* Every tab has a page of its own and every page a tab, and the counter    *)
(* of tags is ahead of every tag, after any opening, closing, moving and    *)
(* relaunching (SWBTabBarView, SWBPageManager).                             *)
THEOREM TabsAndPagesMatch == Spec => []OnePagePerTab
<1>1. TabsInv => OnePagePerTab
  <2> SUFFICES ASSUME TabsInv PROVE OnePagePerTab
    OBVIOUS
  <2>1. {tagToPage[t] : t \in ToSet(tabs)} = ToSet(pages)
    BY DEF TabsInv, Lists
  <2> QED BY <2>1 DEF TabsInv, Lists, OnePagePerTab
<1> QED BY <1>1, Invariance, PTL

(* The tab bar, the container and the page list agree on what is on the     *)
(* screen, and its web view is never evicted (SWBViewController).           *)
THEOREM ScreenIsOne == Spec => []ScreenAgrees
<1>1. TabsInv => ScreenAgrees
  BY OnScreen DEF TabsInv, Screen, ScreenAgrees
<1> QED BY <1>1, Invariance, PTL

(* The cached web views are those of the tabs shown last, in that order     *)
(* (SWBWebViewContainer).                                                   *)
THEOREM CacheKeepsMostRecent == Spec => []CacheIsMostRecent
<1>1. TabsInv => CacheIsMostRecent
  <2> SUFFICES ASSUME TabsInv PROVE IsSuffix(Tags(cached), shownLast)
    BY DEF CacheIsMostRecent
  <2> DEFINE t == Tags(cached)
  <2>1. /\ cached \in Seq(WebView) /\ shownLast \in Seq(Nat) /\ Len(cached) <= Len(shownLast)
        /\ \A i \in 1..Len(cached) : cached[i].tag = shownLast[Len(shownLast) - Len(cached) + i]
    BY DEF TabsInv, Cache, Recent
  <2>2. t \in Seq(Nat) /\ Len(t) = Len(cached) /\ \A i \in 1..Len(cached) : t[i] = cached[i].tag
    BY <2>1, TagsOf
  <2> HIDE DEF t
  <2>3. \A i \in 1..Len(t) : t[i] = shownLast[Len(shownLast) - Len(t) + i]
    BY <2>1, <2>2
  <2> QED BY <2>1, <2>2, <2>3, SuffixIs DEF t
<1> QED BY <1>1, Invariance, PTL

(* A web view is for the page of its tab (webViewByTag, closeWebView).      *)
THEOREM ViewsKeepTheirPage == Spec => []OwnPage
<1>1. TabsInv => OwnPage
  BY LoadingIs DEF OwnPage
<1> QED BY <1>1, Invariance, PTL

-----------------------------------------------------------------------------
(* What each event does to the addresses. *)

AddressStep ==
  \A p \in DOMAIN url \cap DOMAIN url' :
    url'[p] # url[p] =>
      \/ \E v \in ToSet(cached) \cup ToSet(cached') :
           v.page = p /\ v.loading = url'[p]
      \/ \E s \in ToSet(file) : s.page = p /\ s.url = url'[p]

LEMMA FollowedIs ==
  ASSUME TabsInv, NEW u \in Urls, FollowLink(u)
  PROVE  /\ url' = [url EXCEPT ![tagToPage[currentWebView]] = u]
         /\ tagToPage[currentWebView] \in DOMAIN url
         /\ \E v \in ToSet(cached') : v.page = tagToPage[currentWebView] /\ v.loading = u
<1>1. url' = [url EXCEPT ![tagToPage[currentWebView]] = u]
      /\ cached' = SetLoading(currentWebView, u)
  BY DEF FollowLink, PageByTag
<1>2. cached \in Seq(WebView) /\ Holds(cached, currentWebView)
      /\ tagToPage[currentWebView] \in DOMAIN url
  BY OnScreen DEF TabsInv, Cache
<1>3. PICK i \in 1..Len(cached) : cached[i].tag = currentWebView
  BY <1>2, TagsOf
<1>4. cached[i].page = tagToPage[currentWebView] /\ DOMAIN cached = 1..Len(cached)
  BY <1>2, <1>3, LoadingIs
<1>5. /\ cached'[i].loading = u /\ cached'[i].page = tagToPage[currentWebView]
      /\ Len(cached') = Len(cached) /\ cached' \in Seq(WebView)
  BY <1>1, <1>3, <1>4, Loaded DEF TabsInv, Cache
<1>6. cached'[i] \in ToSet(cached')
  <2>1. i \in DOMAIN cached'
    BY <1>5
  <2> QED BY <2>1 DEF ToSet
<1> QED BY <1>1, <1>2, <1>5, <1>6

LEMMA FinishedIs ==
  ASSUME TabsInv, NEW i \in DOMAIN cached, DidFinishLoad(i)
  PROVE  /\ url' = [url EXCEPT ![cached[i].page] = cached[i].loading]
         /\ cached[i].page \in DOMAIN url /\ cached[i].loading \in Urls
         /\ cached[i] \in ToSet(cached)
<1>1. url' = [url EXCEPT ![tagToPage[cached[i].tag]] = cached[i].loading]
      /\ cached[i].loading # NoUrl
  BY DEF DidFinishLoad, PageByTag
<1>2. cached[i] \in ToSet(cached)
  BY DEF ToSet
<1> QED BY <1>1, <1>2, LoadingIs

(* A page that was just opened had no address before. *)
LEMMA OpenedIs ==
  ASSUME TabsInv, CanOpen, NEW bar, NEW list, NEW map, NEW urls, NEW c, NEW o, NEW u,
         OpenIn(bar, list, map, urls, c, o, u)
  PROVE  /\ FreshPage \in Page /\ FreshPage \notin DOMAIN url
         /\ FreshPage \notin {file[i].page : i \in DOMAIN file}
         /\ tagToPage'[currentWebView'] = FreshPage
<1>1. FreshPage \in Page \ Used
  BY DEF CanOpen, FreshPage
<1>2. tagToPage'[currentWebView'] = FreshPage
  BY DEF OpenIn
<1>3. FreshPage \notin DOMAIN url /\ FreshPage \notin {file[i].page : i \in DOMAIN file}
  BY <1>1 DEF Used, TabsInv, Lists
<1> QED BY <1>1, <1>2, <1>3

(* A late load changes no page but its own: whatever a page's address       *)
(* becomes was loaded by a web view made for it, or saved with it           *)
(* (webViewDidFinishLoad, shouldStartLoadWithRequest).                      *)
THEOREM AddressesStayHome == Spec => AddressIsOwn
<1>1. TabsInv /\ [Next]_vars => AddressStep
  <2> SUFFICES ASSUME TabsInv, [Next]_vars PROVE AddressStep
    OBVIOUS
  <2>1. CASE url' = url
    BY <2>1 DEF AddressStep
  <2>2. CASE UNCHANGED vars
    BY <2>1, <2>2 DEF vars
  <2>3. CASE OpenLinkInNewTab
    <3>1. FreshPage \notin DOMAIN url
      BY <2>3, OpenedIs DEF OpenLinkInNewTab
    <3>2. url' = [q \in DOMAIN url \cup {FreshPage} |->
                    IF q = FreshPage THEN NewTabUrl ELSE url[q]]
      BY <2>3 DEF OpenLinkInNewTab, OpenIn
    <3>3. \A p \in DOMAIN url : url'[p] = url[p]
      BY <3>1, <3>2
    <3> QED BY <3>3 DEF AddressStep
  <2>4. ASSUME NEW tag \in ToSet(tabs),
               SelectTab(tag) \/ CloseTab(tag) \/ \E index \in 1..Len(tabs) : MoveTab(tag, index)
        PROVE  AddressStep
    <3>1. CASE CloseTab(tag)
      <4>1. \A p \in DOMAIN url' : url'[p] = url[p]
        BY <3>1 DEF CloseTab
      <4> QED BY <4>1 DEF AddressStep
    <3> QED BY <2>1, <2>4, <3>1 DEF SelectTab, MoveTab
  <2>5. CASE CloseLastTab
    <3>1. FreshPage \notin DOMAIN url /\ DOMAIN url' = {FreshPage}
      <4> DEFINE none == [q \in {} |-> LastUrl]
      <4>1. OpenIn(<<>>, <<>>, [t \in {} |-> 0], none, CloseView(cached, currentTab), <<>>, LastUrl)
            /\ CanOpen
        BY <2>5 DEF CloseLastTab
      <4>2. FreshPage \notin DOMAIN url
        BY <4>1, OpenedIs
      <4>3. url' = [q \in DOMAIN none \cup {FreshPage} |->
                      IF q = FreshPage THEN LastUrl ELSE none[q]]
        BY <4>1 DEF OpenIn
      <4> QED BY <4>2, <4>3
    <3> QED BY <3>1 DEF AddressStep
  <2>6. ASSUME NEW u \in Urls, OpenURL(u) \/ FollowLink(u) PROVE AddressStep
    <3>1. CASE OpenURL(u)
      BY <2>1, <3>1 DEF OpenURL
    <3>2. CASE FollowLink(u)
      BY <3>2, FollowedIs DEF AddressStep
    <3> QED BY <2>6, <3>1, <3>2
  <2>7. ASSUME NEW i \in DOMAIN cached, DidFinishLoad(i) \/ DidFailLoad(i) PROVE AddressStep
    <3>1. CASE DidFailLoad(i)
      BY <2>1, <3>1 DEF DidFailLoad
    <3>2. CASE DidFinishLoad(i)
      BY <3>2, FinishedIs DEF AddressStep
    <3> QED BY <2>7, <3>1, <3>2
  <2>8. CASE ReleaseBackgroundWebViews \/ Save
    BY <2>1, <2>8 DEF ReleaseBackgroundWebViews, Save
  <2>9. CASE Relaunch
    <3>1. url' = [p \in {file[i].page : i \in DOMAIN file} |->
                   (CHOOSE s \in ToSet(file) : s.page = p).url]
      BY <2>9 DEF Relaunch
    <3>2. ASSUME NEW p \in DOMAIN url' PROVE \E s \in ToSet(file) : s.page = p /\ s.url = url'[p]
      <4>1. p \in {file[i].page : i \in DOMAIN file}
        BY <3>1
      <4>2. \E s \in ToSet(file) : s.page = p
        BY <4>1 DEF ToSet
      <4>3. url'[p] = (CHOOSE s \in ToSet(file) : s.page = p).url
        BY <3>1, <4>1
      <4> QED BY <4>2, <4>3
    <3> QED BY <3>2 DEF AddressStep
  <2>10. CASE StartAnew
    <3>1. PICK p \in Page : url' = [q \in {p} |-> FirstUrl] /\ cached' = <<FirstView(p)>>
      BY <2>10 DEF StartAnew
    <3>2. FirstView(p) \in ToSet(cached')
      BY <3>1 DEF ToSet
    <3>3. FirstView(p).page = p /\ FirstView(p).loading = FirstUrl
      BY DEF FirstView
    <3> QED BY <3>1, <3>2, <3>3 DEF AddressStep
  <2> QED BY <2>2, <2>3, <2>4, <2>5, <2>6, <2>7, <2>8, <2>9, <2>10 DEF Next
<1> QED BY <1>1, Invariance, PTL DEF Spec, AddressIsOwn, AddressStep

-----------------------------------------------------------------------------
(* The browser of the tabs is the browser without them. *)

OnTop == tagToPage[currentWebView]

LEMMA DiskKept == ASSUME file' = file PROVE AbstractDisk' = AbstractDisk
BY DEF AbstractDisk, AsPages

LEMMA OpenSim == ASSUME TabsInv, OpenLinkInNewTab PROVE B!Open
<1>1. CanOpen /\ OpenIn(tabs, pages, tagToPage, url, cached, shownLast, NewTabUrl) /\ file' = file
  BY DEF OpenLinkInNewTab
<1>2. /\ FreshPage \in Page /\ FreshPage \notin DOMAIN url
      /\ FreshPage \notin {file[i].page : i \in DOMAIN file}
      /\ tagToPage'[currentWebView'] = FreshPage
  BY <1>1, OpenedIs
<1>3. url' = [q \in DOMAIN url \cup {FreshPage} |-> IF q = FreshPage THEN NewTabUrl ELSE url[q]]
  BY <1>1 DEF OpenIn
<1>4. DOMAIN AbstractDisk.pages = {file[i].page : i \in DOMAIN file}
  BY DEF AbstractDisk, AsPages
<1>5. FreshPage \in B!Fresh
  BY <1>2, <1>4 DEF B!Fresh
<1>6. NewTabUrl \in Urls
  BY TabsAssumption DEF TabsAssumption
<1> QED BY <1>1, <1>2, <1>3, <1>5, <1>6, DiskKept DEF B!Open, B!Opened

LEMMA CloseLastSim == ASSUME TabsInv, CloseLastTab PROVE B!CloseLast
<1> DEFINE none == [q \in {} |-> LastUrl]
<1>1. /\ CanOpen /\ Len(tabs) = 1 /\ file' = file
      /\ OpenIn(<<>>, <<>>, [t \in {} |-> 0], none, CloseView(cached, currentTab), <<>>, LastUrl)
  BY DEF CloseLastTab
<1>2. /\ FreshPage \in Page /\ FreshPage \notin DOMAIN url
      /\ FreshPage \notin {file[i].page : i \in DOMAIN file}
      /\ tagToPage'[currentWebView'] = FreshPage
  BY <1>1, OpenedIs
<1>3. url' = [q \in DOMAIN none \cup {FreshPage} |-> IF q = FreshPage THEN LastUrl ELSE none[q]]
  BY <1>1 DEF OpenIn
<1>4. url' = [q \in {FreshPage} |-> LastUrl]
  BY <1>3
<1>5. DOMAIN AbstractDisk.pages = {file[i].page : i \in DOMAIN file}
  BY DEF AbstractDisk, AsPages
<1>6. FreshPage \in B!Fresh
  BY <1>2, <1>5 DEF B!Fresh
<1>7. DOMAIN url = {tagToPage[currentWebView]}
  <2>1. /\ currentWebView \in ToSet(tabs) /\ tabs \in Seq(Nat)
        /\ DOMAIN url = ToSet(pages)
        /\ \A p \in ToSet(pages) : \E t \in ToSet(tabs) : tagToPage[t] = p
        /\ tagToPage[currentWebView] \in DOMAIN url
    BY OnScreen DEF TabsInv, Lists
  <2>2. ToSet(tabs) = {currentWebView}
    BY <1>1, <2>1 DEF ToSet
  <2> QED BY <2>1, <2>2
<1> QED BY <1>1, <1>2, <1>4, <1>6, <1>7, DiskKept DEF B!CloseLast, B!Only

LEMMA SelectSim == ASSUME TabsInv, NEW tag \in ToSet(tabs), SelectTab(tag) PROVE B!Show
<1>1. /\ url' = url /\ file' = file /\ tagToPage' = tagToPage /\ currentWebView' = tag
  BY DEF SelectTab
<1>2. tagToPage[tag] \in DOMAIN url
  BY DEF TabsInv, Lists
<1> QED BY <1>1, <1>2, DiskKept DEF B!Show

LEMMA CloseSim == ASSUME TabsInv, NEW tag \in ToSet(tabs), CloseTab(tag) PROVE B!Close
<1> DEFINE next == Successor(tag)
           page == tagToPage[tag]
<1>1. /\ Len(tabs) > 1 /\ currentWebView' = next /\ file' = file
      /\ tagToPage' = [t \in DOMAIN tagToPage \ {tag} |-> tagToPage[t]]
      /\ url' = [q \in DOMAIN url \ {page} |-> url[q]]
  BY DEF CloseTab
<1>2. next \in ToSet(tabs) \ {tag} /\ (tag # currentTab => next = currentTab)
  BY <1>1, SuccessorIs
<1> HIDE DEF next
<1>3. /\ DOMAIN tagToPage = ToSet(tabs) /\ currentWebView = currentTab
      /\ \A s, t \in ToSet(tabs) : tagToPage[s] = tagToPage[t] => s = t
      /\ \A t \in ToSet(tabs) : tagToPage[t] \in DOMAIN url
  BY OnScreen DEF TabsInv, Lists
<1>4. tagToPage'[currentWebView'] = tagToPage[next]
  BY <1>1, <1>2, <1>3
<1>5. tagToPage[next] \in DOMAIN url \ {page} /\ page \in DOMAIN url
  BY <1>2, <1>3
<1>6. page # tagToPage[currentWebView] => tagToPage[next] = tagToPage[currentWebView]
  BY <1>2, <1>3
<1> QED BY <1>1, <1>4, <1>5, <1>6, DiskKept DEF B!Close, B!Without

LEMMA VisitSim ==
  ASSUME NEW p \in DOMAIN url, NEW u \in Urls, url' = [url EXCEPT ![p] = u],
         file' = file, tagToPage' = tagToPage, currentWebView' = currentWebView
  PROVE  B!Visit
BY DiskKept DEF B!Visit

LEMMA QuietSim ==
  ASSUME url' = url, file' = file, tagToPage' = tagToPage, currentWebView' = currentWebView
  PROVE  UNCHANGED B!browserVars
BY DiskKept DEF B!browserVars

LEMMA SaveSim == ASSUME TabsInv, Save PROVE B!Save
<1> DEFINE r(i) == [page |-> pages[i], url |-> url[pages[i]],
                    selected |-> pages[i] \in selected]
           f == [i \in DOMAIN pages |-> r(i)]
<1>1. /\ file' = f /\ url' = url /\ tagToPage' = tagToPage /\ currentWebView' = currentWebView
  BY Zenon DEF Save, pageList, container
<1>2. /\ IsInjective(pages) /\ DOMAIN url = ToSet(pages) /\ selected = {OnTop}
      /\ OnTop \in ToSet(pages) /\ IsFunction(url)
  BY OnScreen DEF TabsInv, Lists, Screen, OnTop
<1>3. ASSUME NEW i \in DOMAIN pages
      PROVE  /\ f[i].page = pages[i] /\ f[i].url = url[pages[i]]
             /\ f[i].selected = (pages[i] \in selected)
  BY Zenon
<1> HIDE DEF f
<1>4. DOMAIN f = DOMAIN pages
  BY DEF f
<1>5. {f[i].page : i \in DOMAIN f} = ToSet(pages)
  BY <1>3, <1>4 DEF ToSet
<1>6. ASSUME NEW p \in ToSet(pages) PROVE (CHOOSE s \in ToSet(f) : s.page = p).url = url[p]
  <2>1. PICK i \in DOMAIN pages : pages[i] = p
    BY DEF ToSet
  <2>2. \E s \in ToSet(f) : s.page = p
    BY <1>3, <1>4, <2>1 DEF ToSet
  <2>3. \A s \in ToSet(f) : s.page = p => s.url = url[p]
    BY <1>3, <1>4 DEF ToSet
  <2> QED BY <2>2, <2>3
<1>7. AsPages(f) = url
  <2>1. AsPages(f) = [p \in ToSet(pages) |-> (CHOOSE s \in ToSet(f) : s.page = p).url]
    BY <1>5 DEF AsPages
  <2>2. AsPages(f) = [p \in ToSet(pages) |-> url[p]]
    BY <1>6, <2>1
  <2> QED BY <1>2, <2>2 DEF IsFunction
<1>8. {f[i].page : i \in {j \in DOMAIN f : f[j].selected}} = {OnTop}
  <2>1. \A i \in DOMAIN f : f[i].selected <=> pages[i] = OnTop
    BY <1>2, <1>3, <1>4
  <2>2. \E i \in DOMAIN f : pages[i] = OnTop
    BY <1>2, <1>4 DEF ToSet
  <2> QED BY <1>3, <1>4, <2>1, <2>2
<1>9. AbstractDisk' = [pages |-> url, shown |-> {OnTop}]
  <2>1. AbstractDisk' = [pages |-> AsPages(f),
                         shown |-> {f[i].page : i \in {j \in DOMAIN f : f[j].selected}}]
    BY <1>1 DEF AbstractDisk, AsPages
  <2> QED BY <1>7, <1>8, <2>1
<1> QED BY <1>1, <1>9 DEF B!Save, OnTop

LEMMA RelaunchSim == ASSUME TabsInv, Relaunch PROVE B!Restore
<1> DEFINE tag == SelectedTag(file)
<1>1. /\ FileInv(file) /\ file # <<>> /\ file' = file /\ url' = AsPages(file)
      /\ tagToPage' = [t \in ToSet(FirstTags(file)) |-> file[t + 1].page]
      /\ currentWebView' = tag
  BY DEF Relaunch, TabsInv, AsPages
<1>2. /\ tag \in 0..(Len(file) - 1) /\ tag + 1 \in DOMAIN file
      /\ \A i \in DOMAIN file : file[i].selected <=> i = tag + 1
  BY <1>1, SelectedTagIs
<1>3. tag \in ToSet(FirstTags(file))
  BY <1>1, <1>2, FileIs, FirstTagsAre
<1> HIDE DEF tag
<1>4. tagToPage'[currentWebView'] = file[tag + 1].page
  BY <1>1, <1>3
<1>5. {file[i].page : i \in {j \in DOMAIN file : file[j].selected}} = {file[tag + 1].page}
  BY <1>2
<1>6. AbstractDisk.pages = AsPages(file) /\ AbstractDisk.shown = {file[tag + 1].page}
  BY <1>5 DEF AbstractDisk
<1> QED BY <1>1, <1>4, <1>6, DiskKept DEF B!Restore

LEMMA NoDisk == file = <<>> => AbstractDisk = B!Nothing
<1> SUFFICES ASSUME file = <<>> PROVE AbstractDisk = B!Nothing
  OBVIOUS
<1>1. DOMAIN file = {}
  OBVIOUS
<1>2. AsPages(file) = [q \in {} |-> FirstUrl]
  BY <1>1 DEF AsPages
<1>3. {file[i].page : i \in {j \in DOMAIN file : file[j].selected}} = {}
  BY <1>1
<1> QED BY <1>2, <1>3 DEF AbstractDisk, B!Nothing

LEMMA StartAnewSim == ASSUME StartAnew PROVE B!StartAnew
<1>1. PICK p \in Page : /\ tagToPage' = [t \in {0} |-> p] /\ currentWebView' = 0
                        /\ url' = [q \in {p} |-> FirstUrl]
  BY DEF StartAnew
<1>2. AbstractDisk' = B!Nothing
  <2>1. file' = <<>> /\ DOMAIN file' = {}
    BY DEF StartAnew
  <2>2. AsPages(file') = [q \in {} |-> FirstUrl]
    BY <2>1 DEF AsPages
  <2>3. {file'[i].page : i \in {j \in DOMAIN file' : file'[j].selected}} = {}
    BY <2>1
  <2> QED BY <2>2, <2>3 DEF AbstractDisk, B!Nothing
<1>3. tagToPage'[currentWebView'] = p
  BY <1>1
<1> QED BY <1>1, <1>2, <1>3 DEF B!StartAnew, B!Only

LEMMA BrowserStep == ASSUME TabsInv, [Next]_vars PROVE [B!Next]_(B!browserVars)
<1>1. CASE UNCHANGED vars
  BY <1>1, QuietSim DEF vars, pageList, container
<1>2. CASE OpenLinkInNewTab
  BY <1>2, OpenSim DEF B!Next
<1>3. ASSUME NEW tag \in ToSet(tabs),
             SelectTab(tag) \/ CloseTab(tag) \/ \E index \in 1..Len(tabs) : MoveTab(tag, index)
      PROVE  [B!Next]_(B!browserVars)
  <2>1. CASE \E index \in 1..Len(tabs) : MoveTab(tag, index)
    BY <2>1, QuietSim DEF MoveTab, pageList, container
  <2> QED BY <1>3, <2>1, SelectSim, CloseSim DEF B!Next
<1>4. CASE CloseLastTab
  BY <1>4, CloseLastSim DEF B!Next
<1>5. ASSUME NEW u \in Urls, OpenURL(u) \/ FollowLink(u) PROVE [B!Next]_(B!browserVars)
  <2>1. CASE OpenURL(u)
    BY <2>1, QuietSim DEF OpenURL, pageList
  <2>2. CASE FollowLink(u)
    BY <2>2, FollowedIs, VisitSim DEF FollowLink, pageList, B!Next
  <2> QED BY <1>5, <2>1, <2>2
<1>6. ASSUME NEW i \in DOMAIN cached, DidFinishLoad(i) \/ DidFailLoad(i)
      PROVE  [B!Next]_(B!browserVars)
  <2>1. CASE DidFailLoad(i)
    BY <2>1, QuietSim DEF DidFailLoad, pageList
  <2>2. CASE DidFinishLoad(i)
    BY <2>2, FinishedIs, VisitSim DEF DidFinishLoad, pageList, B!Next
  <2> QED BY <1>6, <2>1, <2>2
<1>7. CASE ReleaseBackgroundWebViews
  BY <1>7, QuietSim DEF ReleaseBackgroundWebViews, pageList
<1>8. CASE Save
  BY <1>8, SaveSim DEF B!Next
<1>9. CASE Relaunch
  BY <1>9, RelaunchSim DEF B!Next
<1>10. CASE StartAnew
  BY <1>10, StartAnewSim DEF B!Next
<1> QED BY <1>1, <1>2, <1>3, <1>4, <1>5, <1>6, <1>7, <1>8, <1>9, <1>10 DEF Next

(* With its tabs, its cache of web views and its restarts, the browser does *)
(* nothing that Browser does not allow: in particular what was saved comes  *)
(* back, and the page that was on the screen with it (SWBPageManager        *)
(* loadPages, savePages).                                                   *)
THEOREM ImplementsBrowser == Spec => IsBrowser
<1>1. Init => B!Init
  <2> SUFFICES ASSUME Init PROVE B!Init
    OBVIOUS
  <2>1. PICK p \in Page : /\ tagToPage = [t \in {0} |-> p] /\ currentWebView = 0
                          /\ url = [q \in {p} |-> FirstUrl]
    BY DEF Init
  <2>2. AbstractDisk = B!Nothing
    BY NoDisk DEF Init
  <2>3. tagToPage[currentWebView] = p
    BY <2>1
  <2> QED BY <2>1, <2>2, <2>3 DEF B!Init, B!Only
<1> QED BY <1>1, BrowserStep, Invariance, PTL DEF Spec, IsBrowser, B!Spec
=============================================================================
