----------------------------- MODULE ListProofs -----------------------------
(***************************************************************************)
(* What the operators of Lists return, for every list.                    *)
(***************************************************************************)
EXTENDS Lists, FiniteSetTheorems, WellFoundedInduction, TLAPS

-----------------------------------------------------------------------------
(* Choosing by order                                                       *)

LEMMA Least ==
  ASSUME NEW P \in SUBSET Nat, P # {}
  PROVE  \E m \in P : \A k \in P : m <= k
<1>1. PICK m \in P : \A k \in P : ~ (<<k, m>> \in OpToRel(<, Nat))
  BY WFMin, NatLessThanWellFounded
<1>2. \A k \in P : ~ (k < m)
  BY <1>1 DEF OpToRel
<1> QED BY <1>2

LEMMA Greatest ==
  ASSUME NEW n \in Nat, NEW P \in SUBSET (1..n), P # {}
  PROVE  \E m \in P : \A k \in P : k <= m
<1>1. {n - k : k \in P} \in SUBSET Nat
  OBVIOUS
<1>0. {n - k : k \in P} # {}
  <2>1. PICK k \in P : TRUE
    OBVIOUS
  <2> QED BY <2>1
<1>2. PICK q \in {n - k : k \in P} : \A r \in {n - k : k \in P} : q <= r
  BY <1>0, <1>1, Least
<1>3. PICK m \in P : q = n - m
  OBVIOUS
<1>4. ASSUME NEW k \in P PROVE k <= m
  <2>1. n - m <= n - k
    BY <1>2, <1>3
  <2>2. m \in 1..n /\ k \in 1..n
    OBVIOUS
  <2> QED BY <2>1, <2>2
<1> QED BY <1>4

LEMMA FirstNumbers ==
  ASSUME NEW n \in Nat
  PROVE  IsFiniteSet(1..n) /\ Cardinality(1..n) = n
<1>1. IsFiniteSet(1..n) /\ Cardinality(1..n) = IF 1 > n THEN 0 ELSE n - 1 + 1
  BY FS_Interval
<1> QED BY <1>1

\* Induction up to n: what holds at 0, and at k + 1 wherever it does at k, has no least
\* exception.
LEMMA UpTo ==
  ASSUME NEW n \in Nat, NEW P \in SUBSET (0..n), 0 \in P,
         \A k \in 0..n : k \in P /\ k < n => k + 1 \in P
  PROVE  n \in P
<1> DEFINE bad == (0..n) \ P
<1>1. SUFFICES ASSUME bad # {} PROVE FALSE
  OBVIOUS
<1>2. PICK m \in bad : \A k \in bad : m <= k
  <2>1. bad \in SUBSET Nat
    OBVIOUS
  <2> HIDE DEF bad
  <2> QED BY <1>1, <2>1, Least
<1>3. m # 0 /\ m \in 1..n
  BY <1>2
<1>4. m - 1 \in 0..n /\ m - 1 \notin bad /\ m - 1 < n
  BY <1>2, <1>3
<1>5. (m - 1) + 1 \in P
  BY <1>4
<1> QED BY <1>2, <1>3, <1>5

-----------------------------------------------------------------------------
(* Sorting                                                                 *)

StrictOrder(S, before) ==
  /\ \A x \in S : <<x, x>> \notin before
  /\ \A x, y, z \in S : <<x, y>> \in before /\ <<y, z>> \in before => <<x, z>> \in before
  /\ \A x, y \in S : x = y \/ <<x, y>> \in before \/ <<y, x>> \in before

\* A finite set in a strict total order: every element of it once.
LEMMA RankedIsASort ==
  ASSUME NEW S, IsFiniteSet(S), NEW before, StrictOrder(S, before)
  PROVE  /\ Cardinality(S) \in Nat
         /\ DOMAIN Ranked(S, before) = 1..Cardinality(S)
         /\ \A k \in 1..Cardinality(S) : Ranked(S, before)[k] \in S
         /\ \A x \in S : \E k \in 1..Cardinality(S) : Ranked(S, before)[k] = x
         /\ \A j, k \in 1..Cardinality(S) :
               Ranked(S, before)[j] = Ranked(S, before)[k] => j = k
<1> DEFINE n == Cardinality(S)
           below(x) == {y \in S : <<y, x>> \in before}
           rank == [x \in S |-> Cardinality(below(x))]
<1>1. n \in Nat /\ IsFiniteSet(0..(n - 1)) /\ Cardinality(0..(n - 1)) = n
  <2>1. n \in Nat
    BY FS_CardinalityType
  <2> DEFINE last == n - 1
  <2>2. last \in Int /\ 0 \in Int
    BY <2>1
  <2> HIDE DEF last
  <2>3. IsFiniteSet(0..last) /\ Cardinality(0..last) = IF 0 > last THEN 0 ELSE last - 0 + 1
    BY <2>2, FS_Interval
  <2> QED BY <2>1, <2>3 DEF last
<1>2. ASSUME NEW x \in S
      PROVE  /\ IsFiniteSet(below(x)) /\ Cardinality(below(x)) \in Nat
             /\ Cardinality(below(x)) < n
  <2>1. below(x) \in SUBSET S /\ x \notin below(x) /\ below(x) # S
    BY DEF StrictOrder
  <2> HIDE DEF below
  <2> QED BY <2>1, FS_Subset, FS_CardinalityType
<1>3. ASSUME NEW x \in S, NEW y \in S, <<x, y>> \in before
      PROVE  Cardinality(below(x)) < Cardinality(below(y))
  <2>1. below(x) \in SUBSET below(y) /\ x \in below(y) /\ x \notin below(x)
    BY <1>3 DEF StrictOrder
  <2>2. IsFiniteSet(below(y)) /\ below(x) # below(y)
    BY <1>2, <2>1
  <2> HIDE DEF below
  <2> QED BY <1>2, <2>1, <2>2, FS_Subset, FS_CardinalityType
<1>4. rank \in Injection(S, 0..(n - 1))
  <2>1. rank \in [S -> 0..(n - 1)]
    <3> HIDE DEF below, n
    <3> QED BY <1>1, <1>2
  <2>2. ASSUME NEW x \in S, NEW y \in S, rank[x] = rank[y] PROVE x = y
    <3>1. Cardinality(below(x)) = Cardinality(below(y))
      BY <2>2
    <3>2. Cardinality(below(x)) \in Nat /\ Cardinality(below(y)) \in Nat
      BY <1>2
    <3>3. <<x, y>> \notin before
      <4> SUFFICES ASSUME <<x, y>> \in before PROVE FALSE
        OBVIOUS
      <4>1. Cardinality(below(x)) < Cardinality(below(y))
        BY <1>3
      <4> HIDE DEF below
      <4> QED BY <3>1, <3>2, <4>1
    <3>4. <<y, x>> \notin before
      <4> SUFFICES ASSUME <<y, x>> \in before PROVE FALSE
        OBVIOUS
      <4>1. Cardinality(below(y)) < Cardinality(below(x))
        BY <1>3
      <4> HIDE DEF below
      <4> QED BY <3>1, <3>2, <4>1
    <3> QED BY <3>3, <3>4 DEF StrictOrder
  <2> HIDE DEF rank
  <2> QED BY <2>1, <2>2 DEF Injection, IsInjective
<1>5. rank \in Surjection(S, 0..(n - 1))
  <2> HIDE DEF rank
  <2> QED BY <1>1, <1>4, FS_Injection
<1>6. ASSUME NEW k \in 1..n
      PROVE  Ranked(S, before)[k] \in S /\ rank[Ranked(S, before)[k]] = k - 1
  <2>1. k - 1 \in 0..(n - 1)
    BY <1>1
  <2>2. \E x \in S : rank[x] = k - 1
    <3> HIDE DEF rank, n
    <3> QED BY <1>5, <2>1 DEF Surjection
  <2>3. \E x \in S : Cardinality({y \in S : <<y, x>> \in before}) = k - 1
    BY <2>2
  <2>4. Ranked(S, before)[k]
          = CHOOSE x \in S : Cardinality({y \in S : <<y, x>> \in before}) = k - 1
    BY DEF Ranked
  <2>5. /\ Ranked(S, before)[k] \in S
        /\ Cardinality({y \in S : <<y, Ranked(S, before)[k]>> \in before}) = k - 1
    BY <2>3, <2>4
  <2> QED BY <2>5
<1>7. DOMAIN Ranked(S, before) = 1..n
  BY DEF Ranked
<1>8. ASSUME NEW x \in S PROVE \E k \in 1..n : Ranked(S, before)[k] = x
  <2>1. rank[x] \in 0..(n - 1)
    <3> HIDE DEF rank, n
    <3> QED BY <1>4 DEF Injection
  <2>2. rank[x] + 1 \in 1..n /\ (rank[x] + 1) - 1 = rank[x]
    BY <1>1, <2>1
  <2>3. /\ Ranked(S, before)[rank[x] + 1] \in S
        /\ rank[Ranked(S, before)[rank[x] + 1]] = rank[x]
    BY <1>6, <2>2
  <2>4. Ranked(S, before)[rank[x] + 1] = x
    <3> HIDE DEF rank, n
    <3> QED BY <1>4, <2>3 DEF Injection, IsInjective
  <2> QED BY <2>2, <2>4
<1>9. ASSUME NEW j \in 1..n, NEW k \in 1..n, Ranked(S, before)[j] = Ranked(S, before)[k]
      PROVE  j = k
  <2>1. j - 1 = k - 1
    BY <1>6, <1>9
  <2> QED BY <1>1, <2>1
<1> QED BY <1>1, <1>6, <1>7, <1>8, <1>9
-----------------------------------------------------------------------------
(* Lists                                                                   *)

LEMMA Listed ==
  ASSUME NEW X, NEW s \in Seq(X)
  PROVE  IsList(s) /\ ToSet(s) \subseteq X
<1>1. Len(s) \in Nat /\ s \in [1..Len(s) -> X]
  OBVIOUS
<1>2. ToSet(s) \subseteq X
  BY <1>1 DEF ToSet
<1>3. s \in [1..Len(s) -> ToSet(s)]
  BY <1>1 DEF ToSet
<1> QED BY <1>1, <1>2, <1>3 DEF IsList

LEMMA ListShape ==
  ASSUME NEW s, IsList(s)
  PROVE  /\ Len(s) \in Nat /\ DOMAIN s = 1..Len(s)
         /\ s = [i \in 1..Len(s) |-> s[i]]
         /\ \A i \in DOMAIN s : s[i] \in ToSet(s)
BY DEF IsList, ToSet

LEMMA MadeIsList ==
  ASSUME NEW n \in Nat, NEW s, DOMAIN s = 1..n, s = [i \in 1..n |-> s[i]]
  PROVE  IsList(s) /\ Len(s) = n
<1>1. \A i \in 1..n : s[i] \in ToSet(s)
  BY DEF ToSet
<1>2. s \in Seq(ToSet(s))
  BY <1>1
<1> QED BY <1>2 DEF IsList

LEMMA EmptyIsList == IsList(<<>>) /\ ToSet(<<>>) = {} /\ Len(<<>>) = 0
BY DEF IsList, ToSet

LEMMA NotEmpty ==
  ASSUME NEW s, IsList(s)
  PROVE  s # <<>> <=> 1 \in DOMAIN s
BY ListShape DEF IsList

LEMMA Joined ==
  ASSUME NEW s, NEW t, IsList(s), IsList(t)
  PROVE  /\ IsList(s \o t) /\ Len(s \o t) = Len(s) + Len(t)
         /\ \A i \in 1..Len(s) : i \in DOMAIN (s \o t) /\ (s \o t)[i] = s[i]
         /\ \A i \in 1..Len(t) : Len(s) + i \in DOMAIN (s \o t)
                                 /\ (s \o t)[Len(s) + i] = t[i]
         /\ ToSet(s \o t) = ToSet(s) \cup ToSet(t)
<1> DEFINE X == ToSet(s) \cup ToSet(t)
<1>1. s \in Seq(X) /\ t \in Seq(X)
  BY DEF IsList
<1> HIDE DEF X
<1>2. s \o t \in Seq(X) /\ Len(s \o t) = Len(s) + Len(t)
  BY <1>1
<1>3. \A i \in 1..Len(s) : i \in DOMAIN (s \o t) /\ (s \o t)[i] = s[i]
  BY <1>1
<1>4. \A i \in 1..Len(t) : Len(s) + i \in DOMAIN (s \o t) /\ (s \o t)[Len(s) + i] = t[i]
  BY <1>1
<1>5. IsList(s \o t) /\ ToSet(s \o t) \subseteq X
  BY <1>2, Listed
<1>6. ToSet(s) \subseteq ToSet(s \o t)
  BY <1>1, <1>3 DEF ToSet
<1>7. ToSet(t) \subseteq ToSet(s \o t)
  <2>1. DOMAIN t = 1..Len(t)
    BY <1>1
  <2> QED BY <1>4, <2>1 DEF ToSet
<1> QED BY <1>2, <1>3, <1>4, <1>5, <1>6, <1>7 DEF X

LEMMA AppendedIsList ==
  ASSUME NEW s, IsList(s), NEW x
  PROVE  /\ IsList(Append(s, x)) /\ Len(Append(s, x)) = Len(s) + 1
         /\ \A i \in 1..Len(s) : Append(s, x)[i] = s[i]
         /\ Append(s, x)[Len(s) + 1] = x
         /\ ToSet(Append(s, x)) = ToSet(s) \cup {x}
<1> DEFINE X == ToSet(s) \cup {x}
<1>1. s \in Seq(X) /\ x \in X /\ Len(s) \in Nat
  BY DEF IsList
<1> HIDE DEF X
<1>2. /\ Append(s, x) \in Seq(X) /\ Len(Append(s, x)) = Len(s) + 1
      /\ \A i \in 1..Len(s) : Append(s, x)[i] = s[i]
      /\ Append(s, x)[Len(s) + 1] = x
  BY <1>1
<1>3. IsList(Append(s, x)) /\ ToSet(Append(s, x)) \subseteq X
  BY <1>2, Listed
<1>4. X \subseteq ToSet(Append(s, x))
  <2>1. DOMAIN Append(s, x) = 1..(Len(s) + 1) /\ DOMAIN s = 1..Len(s)
    BY <1>1, <1>2
  <2> QED BY <1>1, <1>2, <2>1 DEF ToSet, X
<1> QED BY <1>2, <1>3, <1>4 DEF X

LEMMA TailIsList ==
  ASSUME NEW s, IsList(s), s # <<>>
  PROVE  /\ IsList(Tail(s)) /\ Len(Tail(s)) = Len(s) - 1
         /\ \A i \in 1..(Len(s) - 1) : Tail(s)[i] = s[i + 1]
         /\ 1 \in DOMAIN s /\ Head(s) = s[1]
         /\ ToSet(Tail(s)) \subseteq ToSet(s)
<1>1. s \in Seq(ToSet(s))
  BY DEF IsList
<1>2. /\ Tail(s) \in Seq(ToSet(s)) /\ Len(Tail(s)) = Len(s) - 1
      /\ \A i \in 1..(Len(s) - 1) : Tail(s)[i] = s[i + 1]
      /\ Head(s) = s[1]
  BY <1>1
<1>3. 1 \in DOMAIN s
  BY NotEmpty
<1> QED BY <1>2, <1>3, Listed

LEMMA ShortenedIsList ==
  ASSUME NEW s, IsList(s), NEW n \in Nat
  PROVE  /\ IsList(Shortened(s, n))
         /\ Len(Shortened(s, n)) \in Nat
         /\ Len(Shortened(s, n)) <= n /\ Len(Shortened(s, n)) <= Len(s)
         /\ \A i \in DOMAIN Shortened(s, n) : i \in DOMAIN s /\ Shortened(s, n)[i] = s[i]
         /\ ToSet(Shortened(s, n)) \subseteq ToSet(s)
<1> DEFINE m == IF Len(s) > n THEN n ELSE Len(s)
           t == SubSeq(s, 1, m)
<1>1. s \in Seq(ToSet(s)) /\ Len(s) \in Nat /\ DOMAIN s = 1..Len(s)
  BY ListShape DEF IsList
<1>2. m \in Nat /\ m <= Len(s) /\ m <= n
  BY <1>1
<1> HIDE DEF m
<1>3. t = [i \in 1..m |-> s[i]]
  BY <1>1, <1>2
<1> HIDE DEF t
<1>4. DOMAIN t = 1..m /\ \A i \in 1..m : t[i] = s[i]
  BY <1>3
<1>5. IsList(t) /\ Len(t) = m
  BY <1>2, <1>3, <1>4, MadeIsList
<1>6. \A i \in DOMAIN t : i \in DOMAIN s /\ t[i] = s[i]
  BY <1>1, <1>2, <1>4
<1>7. ToSet(t) \subseteq ToSet(s)
  BY <1>6 DEF ToSet
<1>8. Shortened(s, n) = t
  BY DEF Shortened, t, m
<1> QED BY <1>2, <1>5, <1>6, <1>7, <1>8

-----------------------------------------------------------------------------
(* Filtering                                                               *)

LEMMA IntervalOrder ==
  ASSUME NEW n \in Nat, NEW places \in SUBSET (1..n)
  PROVE  /\ IsFiniteSet(places)
         /\ StrictOrder(places, {p \in places \X places : p[1] < p[2]})
<1>1. IsFiniteSet(places)
  <2>1. IsFiniteSet(1..n)
    BY FS_Interval
  <2> QED BY <2>1, FS_Subset
<1> DEFINE before == {p \in places \X places : p[1] < p[2]}
<1>2. \A x, y \in places : <<x, y>> \in before <=> x < y
  OBVIOUS
<1>3. \A x \in places : x \in Nat
  OBVIOUS
<1> HIDE DEF before
<1>4. StrictOrder(places, before)
  BY <1>2, <1>3 DEF StrictOrder
<1> QED BY <1>1, <1>4 DEF before

LEMMA AscendingIsRanked ==
  ASSUME NEW n \in Nat, NEW places \in SUBSET (1..n)
  PROVE  Ascending(places) = Ranked(places, {p \in places \X places : p[1] < p[2]})
<1> DEFINE before == {p \in places \X places : p[1] < p[2]}
<1>1. \A x \in places : {y \in places : <<y, x>> \in before} = {j \in places : j < x}
  OBVIOUS
<1> HIDE DEF before
<1>2. ASSUME NEW k
      PROVE  (CHOOSE x \in places : Cardinality({y \in places : <<y, x>> \in before}) = k - 1)
               = CHOOSE i \in places : Cardinality({j \in places : j < i}) = k - 1
  BY <1>1
<1> DEFINE nth(k) == CHOOSE i \in places : Cardinality({j \in places : j < i}) = k - 1
           ranked(k) == CHOOSE x \in places :
                          Cardinality({y \in places : <<y, x>> \in before}) = k - 1
<1>3. Ascending(places) = [k \in 1..Cardinality(places) |-> nth(k)]
  BY DEF Ascending
<1>4. Ranked(places, before) = [k \in 1..Cardinality(places) |-> ranked(k)]
  BY DEF Ranked
<1>5. \A k \in 1..Cardinality(places) : nth(k) = ranked(k)
  BY <1>2
<1>6. Ascending(places) = Ranked(places, before)
  <2> HIDE DEF nth, ranked
  <2> QED BY <1>3, <1>4, <1>5
<1> QED BY <1>6 DEF before

\* What is taken of a list, and where it stood.
LEMMA AtIsList ==
  ASSUME NEW list, NEW n \in Nat, NEW places \in SUBSET (1..n)
  PROVE  LET t == At(list, places)
             order == Ascending(places)
         IN /\ IsList(t) /\ Len(t) = Cardinality(places) /\ Len(t) <= n
            /\ Len(t) \in Nat /\ DOMAIN t = 1..Len(t)
            /\ \A k \in DOMAIN t : order[k] \in places /\ t[k] = list[order[k]]
            /\ \A j, k \in DOMAIN t : order[j] = order[k] => j = k
            /\ ToSet(t) = {list[i] : i \in places}
<1> DEFINE before == {p \in places \X places : p[1] < p[2]}
           order == Ascending(places)
           c == Cardinality(places)
           t == At(list, places)
<1>0. order = Ranked(places, before)
  BY AscendingIsRanked
<1>1. IsFiniteSet(places) /\ StrictOrder(places, before)
  BY IntervalOrder
<1>2. c <= n
  <2>1. IsFiniteSet(1..n) /\ Cardinality(1..n) = n
    <3>1. IsFiniteSet(1..n) /\ Cardinality(1..n) = IF 1 > n THEN 0 ELSE n - 1 + 1
      BY FirstNumbers
    <3> QED BY <3>1
  <2>2. Cardinality(places) <= Cardinality(1..n)
    BY <2>1, FS_Subset
  <2> QED BY <2>1, <2>2
<1> HIDE DEF before
<1>3. /\ c \in Nat /\ DOMAIN order = 1..c
      /\ \A k \in 1..c : order[k] \in places
      /\ \A x \in places : \E k \in 1..c : order[k] = x
      /\ \A j, k \in 1..c : order[j] = order[k] => j = k
  BY <1>0, <1>1, RankedIsASort
<1>4. t = [k \in 1..c |-> list[order[k]]]
  BY DEF At
<1> HIDE DEF order, c, t
<1>5. DOMAIN t = 1..c /\ t = [i \in 1..c |-> t[i]] /\ \A k \in 1..c : t[k] = list[order[k]]
  BY <1>3, <1>4
<1>6. IsList(t) /\ Len(t) = c
  BY <1>3, <1>5, MadeIsList
<1>7. ToSet(t) = {list[i] : i \in places}
  BY <1>3, <1>5 DEF ToSet
<1> QED BY <1>2, <1>3, <1>5, <1>6, <1>7 DEF order, c, t

LEMMA AtOfAList ==
  ASSUME NEW list, IsList(list), NEW places \in SUBSET DOMAIN list
  PROVE  LET t == At(list, places)
         IN /\ IsList(t) /\ Len(t) \in Nat /\ DOMAIN t = 1..Len(t) /\ Len(t) <= Len(list)
            /\ ToSet(t) = {list[i] : i \in places} /\ ToSet(t) \subseteq ToSet(list)
            /\ \A k \in DOMAIN t : t[k] \in ToSet(t)
<1> DEFINE t == At(list, places)
<1>1. /\ Len(list) \in Nat /\ places \in SUBSET (1..Len(list))
      /\ \A i \in DOMAIN list : list[i] \in ToSet(list)
  BY ListShape
<1>2. IsList(t) /\ Len(t) <= Len(list) /\ ToSet(t) = {list[i] : i \in places}
  BY <1>1, AtIsList
<1>3. ToSet(t) \subseteq ToSet(list)
  BY <1>1, <1>2
<1> HIDE DEF t
<1>4. /\ Len(t) \in Nat /\ DOMAIN t = 1..Len(t)
      /\ \A k \in DOMAIN t : t[k] \in ToSet(t)
  BY <1>2, ListShape
<1> QED BY <1>2, <1>3, <1>4 DEF t

-----------------------------------------------------------------------------
(* Flattening                                                              *)

\* The first m lists of a list, joined one after the other.
Joins(lists, f, m) ==
  f = [k \in 0..m |-> IF k = 0 THEN <<>> ELSE f[k - 1] \o lists[k]]

LEMMA JoinsMore ==
  ASSUME NEW lists, NEW f, NEW m \in Nat, Joins(lists, f, m)
  PROVE  \E g : Joins(lists, g, m + 1)
<1> DEFINE g == [k \in 0..(m + 1) |-> IF k = m + 1 THEN f[m] \o lists[m + 1] ELSE f[k]]
<1>1. \A k \in 0..m : f[k] = IF k = 0 THEN <<>> ELSE f[k - 1] \o lists[k]
  <2>1. f = [k \in 0..m |-> IF k = 0 THEN <<>> ELSE f[k - 1] \o lists[k]]
    BY DEF Joins
  <2> DEFINE h == [k \in 0..m |-> IF k = 0 THEN <<>> ELSE f[k - 1] \o lists[k]]
  <2>2. \A k \in 0..m : h[k] = IF k = 0 THEN <<>> ELSE f[k - 1] \o lists[k]
    OBVIOUS
  <2>3. f = h
    BY <2>1
  <2> HIDE DEF h
  <2> QED BY <2>2, <2>3
<1>2. ASSUME NEW k \in 0..(m + 1)
      PROVE  g[k] = IF k = 0 THEN <<>> ELSE g[k - 1] \o lists[k]
  <2>1. CASE k = m + 1
    <3>1. k # 0 /\ k - 1 = m /\ k - 1 \in 0..(m + 1) /\ k - 1 # m + 1
      BY <2>1
    <3>2. g[k] = f[m] \o lists[k] /\ g[k - 1] = f[m]
      BY <2>1, <3>1
    <3> HIDE DEF g
    <3> QED BY <3>1, <3>2
  <2>2. CASE k = 0
    BY <1>1, <2>2
  <2>3. CASE k # m + 1 /\ k # 0
    <3>1. k \in 0..m /\ k - 1 \in 0..m /\ k - 1 # m + 1
      BY <2>3
    <3>2. g[k] = f[k] /\ g[k - 1] = f[k - 1]
      BY <2>3, <3>1
    <3> HIDE DEF g
    <3> QED BY <1>1, <2>3, <3>1, <3>2
  <2> QED BY <2>1, <2>2, <2>3
<1>3. g = [k \in 0..(m + 1) |-> g[k]]
  OBVIOUS
<1>4. [k \in 0..(m + 1) |-> g[k]]
        = [k \in 0..(m + 1) |-> IF k = 0 THEN <<>> ELSE g[k - 1] \o lists[k]]
  <2> HIDE DEF g
  <2> QED BY <1>2
<1>5. Joins(lists, g, m + 1)
  <2> HIDE DEF g
  <2> QED BY <1>3, <1>4 DEF Joins
<1> HIDE DEF g
<1> QED BY <1>5

LEMMA ConcatJoins ==
  ASSUME NEW lists, IsList(lists)
  PROVE  \E f : Joins(lists, f, Len(lists)) /\ Concat(lists) = f[Len(lists)]
<1> DEFINE n == Len(lists)
           reached == {m \in 0..n : \E f : Joins(lists, f, m)}
<1>1. n \in Nat
  BY ListShape
<1>2. 0 \in reached
  <2> DEFINE f == [k \in 0..0 |-> <<>>]
  <2>1. f = [k \in 0..0 |-> IF k = 0 THEN <<>> ELSE f[k - 1] \o lists[k]]
    OBVIOUS
  <2>2. \E g : Joins(lists, g, 0)
    <3> HIDE DEF f
    <3> QED BY <2>1 DEF Joins
  <2> QED BY <1>1, <2>2
<1>3. ASSUME NEW m \in 0..n, m \in reached, m < n PROVE m + 1 \in reached
  <2>1. PICK f : Joins(lists, f, m)
    BY <1>3
  <2>2. \E g : Joins(lists, g, m + 1)
    BY <2>1, JoinsMore
  <2> QED BY <1>1, <1>3, <2>2
<1>4. n \in reached
  <2>1. reached \in SUBSET (0..n)
    OBVIOUS
  <2> HIDE DEF reached, n
  <2> QED BY <1>1, <1>2, <1>3, <2>1, UpTo
<1> DEFINE joined == CHOOSE f : Joins(lists, f, n)
<1>5. Concat(lists) = joined[n]
  BY DEF Concat, Joins
<1>6. Joins(lists, joined, n)
  BY <1>4
<1> HIDE DEF joined
<1> QED BY <1>5, <1>6

LEMMA JoinedStep ==
  ASSUME NEW lists, NEW n \in Nat, NEW f, Joins(lists, f, n)
  PROVE  f[0] = <<>> /\ \A k \in 1..n : f[k] = f[k - 1] \o lists[k]
<1> DEFINE h == [k \in 0..n |-> IF k = 0 THEN <<>> ELSE f[k - 1] \o lists[k]]
<1>1. f = h
  BY DEF Joins
<1>2. h[0] = <<>>
  OBVIOUS
<1>3. ASSUME NEW k \in 1..n PROVE h[k] = f[k - 1] \o lists[k]
  <2>1. k \in 0..n /\ k # 0
    OBVIOUS
  <2>2. h[k] = IF k = 0 THEN <<>> ELSE f[k - 1] \o lists[k]
    BY <2>1
  <2> HIDE DEF h
  <2> QED BY <2>1, <2>2
<1> HIDE DEF h
<1> QED BY <1>1, <1>2, <1>3

\* The lists of a list, joined, hold what each of them holds.
LEMMA ConcatIsList ==
  ASSUME NEW lists, IsList(lists), \A k \in DOMAIN lists : IsList(lists[k])
  PROVE  /\ IsList(Concat(lists))
         /\ ToSet(Concat(lists)) = UNION {ToSet(lists[k]) : k \in DOMAIN lists}
<1> DEFINE n == Len(lists)
           of(k) == UNION {ToSet(lists[j]) : j \in 1..k}
<1>1. n \in Nat /\ DOMAIN lists = 1..n
  BY ListShape
<1>2. PICK f : Joins(lists, f, n) /\ Concat(lists) = f[n]
  BY ConcatJoins
<1>3. f[0] = <<>> /\ \A k \in 1..n : f[k] = f[k - 1] \o lists[k]
  BY <1>1, <1>2, JoinedStep
<1> DEFINE holds == {k \in 0..n : IsList(f[k]) /\ ToSet(f[k]) = of(k)}
<1>4. 0 \in holds
  <2>1. of(0) = {}
    OBVIOUS
  <2>2. IsList(f[0]) /\ ToSet(f[0]) = {}
    <3> HIDE DEF of, holds
    <3> QED BY <1>3, EmptyIsList
  <2>3. 0 \in 0..n
    BY <1>1
  <2> HIDE DEF of
  <2> QED BY <2>1, <2>2, <2>3
<1>5. ASSUME NEW k \in 0..n, k \in holds, k < n PROVE k + 1 \in holds
  <2>1. k + 1 \in 1..n /\ (k + 1) - 1 = k /\ k + 1 \in 0..n
    BY <1>1, <1>5
  <2>2. f[k + 1] = f[k] \o lists[k + 1] /\ IsList(lists[k + 1])
    BY <1>1, <1>3, <2>1
  <2>3. IsList(f[k]) /\ ToSet(f[k]) = of(k)
    BY <1>5
  <2>4. IsList(f[k + 1]) /\ ToSet(f[k + 1]) = of(k) \cup ToSet(lists[k + 1])
    <3> HIDE DEF of, holds
    <3> QED BY <2>2, <2>3, Joined
  <2>5. of(k + 1) = of(k) \cup ToSet(lists[k + 1])
    <3>1. 1..(k + 1) = (1..k) \cup {k + 1}
      BY <1>1
    <3> HIDE DEF holds
    <3> QED BY <3>1
  <2> HIDE DEF of
  <2> QED BY <2>1, <2>4, <2>5
<1>6. n \in holds
  <2>1. holds \in SUBSET (0..n)
    OBVIOUS
  <2> HIDE DEF holds, n
  <2> QED BY <1>1, <1>4, <1>5, <2>1, UpTo
<1>7. IsList(f[n]) /\ ToSet(f[n]) = of(n)
  BY <1>6
<1>8. of(n) = UNION {ToSet(lists[k]) : k \in DOMAIN lists}
  BY <1>1
<1> HIDE DEF of, n
<1> QED BY <1>2, <1>7, <1>8
=============================================================================
