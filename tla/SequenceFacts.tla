--------------------------- MODULE SequenceFacts ---------------------------
(***************************************************************************)
(* What appending, taking a prefix, dropping the head and putting segments *)
(* in front do to the elements of a sequence; a few facts about numbers    *)
(* and finite sets; recursion and counting over the places of a sequence;  *)
(* sums over finite sets, and ranking them.                                *)
(***************************************************************************)
EXTENDS SequencesExt, SequenceTheorems, FiniteSetTheorems, WellFoundedInduction,
        Integers, TLAPS

LEMMA ToSetRange ==
    ASSUME NEW S, NEW s \in Seq(S)
    PROVE  /\ ToSet(s) = {s[i] : i \in 1..Len(s)}
           /\ ToSet(s) \subseteq S
BY DEF ToSet

LEMMA ToSetEmpty == ToSet(<<>>) = {}
BY DEF ToSet

LEMMA ToSetSingleton ==
    ASSUME NEW e PROVE ToSet(<<e>>) = {e}
BY DEF ToSet

LEMMA ToSetAppend ==
    ASSUME NEW S, NEW s \in Seq(S), NEW e \in S
    PROVE  /\ Append(s, e) \in Seq(S)
           /\ ToSet(Append(s, e)) = ToSet(s) \cup {e}
<1> Append(s, e) \in Seq(S) /\ Len(Append(s, e)) = Len(s) + 1
  OBVIOUS
<1> \A i \in 1..Len(s) + 1 : Append(s, e)[i] = IF i <= Len(s) THEN s[i] ELSE e
  OBVIOUS
<1> ToSet(Append(s, e)) = {Append(s, e)[i] : i \in 1..Len(s) + 1}
  BY ToSetRange
<1> ToSet(s) = {s[i] : i \in 1..Len(s)}
  BY ToSetRange
<1> Len(s) \in Nat
  OBVIOUS
<1> QED OBVIOUS

LEMMA ToSetConcat ==
    ASSUME NEW S, NEW s \in Seq(S), NEW t \in Seq(S)
    PROVE  /\ s \o t \in Seq(S)
           /\ ToSet(s \o t) = ToSet(s) \cup ToSet(t)
<1> DEFINE u == s \o t
<1>1. /\ u \in Seq(S) /\ Len(u) = Len(s) + Len(t)
      /\ \A i \in 1..Len(s) + Len(t) : u[i] = IF i <= Len(s) THEN s[i] ELSE t[i - Len(s)]
  BY ConcatProperties
<1>2. /\ ToSet(u) = {u[i] : i \in 1..Len(s) + Len(t)}
      /\ ToSet(s) = {s[i] : i \in 1..Len(s)}
      /\ ToSet(t) = {t[i] : i \in 1..Len(t)}
  BY <1>1, ToSetRange
<1>3. Len(s) \in Nat /\ Len(t) \in Nat
  OBVIOUS
<1> HIDE DEF u
<1>4. ToSet(u) \subseteq ToSet(s) \cup ToSet(t)
  <2> SUFFICES ASSUME NEW i \in 1..Len(s) + Len(t)
               PROVE  u[i] \in ToSet(s) \cup ToSet(t)
    BY <1>2
  <2>1. CASE i <= Len(s)
    BY <2>1, <1>1, <1>2, <1>3
  <2>2. CASE ~(i <= Len(s))
    <3>1. i - Len(s) \in 1..Len(t)
      BY <2>2, <1>3
    <3> QED BY <2>2, <3>1, <1>1, <1>2
  <2> QED BY <2>1, <2>2
<1>5. ToSet(s) \subseteq ToSet(u)
  BY <1>1, <1>2, <1>3
<1>6. ToSet(t) \subseteq ToSet(u)
  <2> SUFFICES ASSUME NEW i \in 1..Len(t) PROVE t[i] \in ToSet(u)
    BY <1>2
  <2>1. /\ Len(s) + i \in 1..Len(s) + Len(t) /\ ~(Len(s) + i <= Len(s))
        /\ Len(s) + i - Len(s) = i
    BY <1>3
  <2>2. u[Len(s) + i] = t[i]
    BY <2>1, <1>1
  <2> QED BY <2>1, <2>2, <1>2
<1> QED BY <1>1, <1>4, <1>5, <1>6 DEF u

LEMMA ToSetHeadTail ==
    ASSUME NEW S, NEW s \in Seq(S), s # <<>>
    PROVE  /\ Head(s) \in S /\ Tail(s) \in Seq(S)
           /\ ToSet(s) = {Head(s)} \cup ToSet(Tail(s))
<1>1. Head(s) \in S /\ Tail(s) \in Seq(S) /\ Head(s) = s[1]
  OBVIOUS
<1>2. s = <<Head(s)>> \o Tail(s)
  BY <1>1
<1>3. <<Head(s)>> \in Seq(S)
  BY <1>1
<1>4. ToSet(<<Head(s)>> \o Tail(s)) = ToSet(<<Head(s)>>) \cup ToSet(Tail(s))
  <2> DEFINE first == <<Head(s)>>
             rest == Tail(s)
  <2>1. first \in Seq(S) /\ rest \in Seq(S)
    BY <1>1, <1>3
  <2> HIDE DEF first, rest
  <2>2. ToSet(first \o rest) = ToSet(first) \cup ToSet(rest)
    BY ONLY <2>1, ToSetConcat
  <2> QED BY <2>2 DEF first, rest
<1> QED BY <1>1, <1>2, <1>4, ToSetSingleton

\* Popping the first n elements of a sequence without repetitions splits it
\* into two such sequences with no element in common.
LEMMA PrefixSplit ==
    ASSUME NEW S, NEW s \in Seq(S), NEW n \in 1..Len(s)
    PROVE  LET front == SubSeq(s, 1, n)
               back == SubSeq(s, n + 1, Len(s))
           IN  /\ front \in Seq(S) /\ back \in Seq(S)
               /\ ToSet(front) = {s[i] : i \in 1..n}
               /\ ToSet(s) = ToSet(front) \cup ToSet(back)
               /\ IsInjective(s) => /\ IsInjective(front) /\ IsInjective(back)
                                 /\ ToSet(front) \cap ToSet(back) = {}
<1> DEFINE front == SubSeq(s, 1, n)
           back == SubSeq(s, n + 1, Len(s))
           m == Len(s)
<1>1. m \in Nat /\ n \in Nat /\ n <= m /\ DOMAIN s = 1..m
  OBVIOUS
<1>2. /\ front \in Seq(S) /\ Len(front) = n
      /\ \A i \in 1..n : front[i] = s[i]
  <2>1. 1 \in Int /\ n \in Int /\ \A i \in 1..n : s[i] \in S
    BY <1>1
  <2>2. /\ front \in Seq(S) /\ Len(front) = (IF 1 <= n THEN n - 1 + 1 ELSE 0)
        /\ \A i \in 1..(n - 1 + 1) : front[i] = s[1 + i - 1]
    BY ONLY <2>1, SubSeqProperties
  <2>3. /\ (IF 1 <= n THEN n - 1 + 1 ELSE 0) = n /\ n - 1 + 1 = n
        /\ \A i \in 1..n : 1 + i - 1 = i
    <3>1. n \in Nat
      BY <1>1
    <3>2. n - 1 + 1 = n
      BY ONLY <3>1
    <3>3. (IF 1 <= n THEN n - 1 + 1 ELSE 0) = n
      BY ONLY <3>1, <3>2
    <3>4. \A i \in 1..n : 1 + i - 1 = i
      BY ONLY <3>1
    <3> QED BY ONLY <3>2, <3>3, <3>4
  <2> HIDE DEF front
  <2> QED BY ONLY <2>2, <2>3
<1>3. /\ back \in Seq(S) /\ Len(back) = m - n
      /\ \A i \in 1..(m - n) : back[i] = s[n + i]
  <2>1. \A i \in n + 1..m : s[i] \in S
    BY <1>1
  <2>2. /\ n + 1 \in Int /\ m \in Int
        /\ m - (n + 1) + 1 = m - n
        /\ \A i \in 1..(m - n) : n + 1 + i - 1 = n + i
        /\ (IF n + 1 <= m THEN m - n ELSE 0) = m - n
    <3> HIDE DEF back, m
    <3> QED BY <1>1
  <2>3. /\ back \in Seq(S)
        /\ Len(back) = IF n + 1 <= m THEN m - (n + 1) + 1 ELSE 0
        /\ \A i \in 1..(m - (n + 1) + 1) : back[i] = s[n + 1 + i - 1]
    <3>1. s \in Seq(S) /\ n + 1 \in Int /\ Len(s) \in Int /\ \A i \in n + 1..Len(s) : s[i] \in S
      BY <2>1, <2>2
    <3> QED BY ONLY <3>1, SubSeqProperties
  <2> QED BY <2>2, <2>3
<1>4. /\ ToSet(front) = {s[i] : i \in 1..n}
      /\ ToSet(back) = {back[i] : i \in 1..(m - n)}
      /\ ToSet(s) = {s[i] : i \in 1..m}
      /\ DOMAIN front = 1..n /\ DOMAIN back = 1..(m - n)
  <2>1. ToSet(front) = {front[i] : i \in 1..n}
    BY <1>2, ToSetRange
  <2>2. ToSet(back) = {back[i] : i \in 1..Len(back)}
    <3> HIDE DEF back
    <3> QED BY <1>3, ToSetRange
  <2>3. ToSet(s) = {s[i] : i \in 1..m}
    BY ToSetRange
  <2>4. DOMAIN front = 1..Len(front) /\ DOMAIN back = 1..Len(back)
    BY <1>2, <1>3, LenProperties
  <2>5. {front[i] : i \in 1..n} = {s[i] : i \in 1..n}
    BY <1>2
  <2> HIDE DEF front, back, m
  <2> QED BY <2>1, <2>2, <2>3, <2>4, <2>5, <1>2, <1>3
<1> HIDE DEF front, back, m
<1>5. ToSet(s) \subseteq ToSet(front) \cup ToSet(back)
  <2> SUFFICES ASSUME NEW i \in 1..m, i > n PROVE s[i] \in ToSet(back)
    BY <1>4, <1>1
  <2>1. i - n \in 1..(m - n) /\ n + (i - n) = i
    BY <1>1
  <2> QED BY <2>1, <1>3, <1>4
<1>6. ToSet(front) \cup ToSet(back) \subseteq ToSet(s)
  <2>1. \A i \in 1..(m - n) : n + i \in 1..m
    BY <1>1
  <2> QED BY <2>1, <1>1, <1>3, <1>4
<1>7. ASSUME IsInjective(s)
      PROVE  IsInjective(front) /\ IsInjective(back) /\ ToSet(front) \cap ToSet(back) = {}
  <2>1. IsInjective(front)
    BY <1>7, <1>1, <1>2, <1>4 DEF IsInjective
  <2>2. IsInjective(back)
    <3> SUFFICES ASSUME NEW i \in 1..(m - n), NEW j \in 1..(m - n), back[i] = back[j]
                 PROVE  i = j
      BY <1>4 DEF IsInjective
    <3>1. n + i \in 1..m /\ n + j \in 1..m /\ s[n + i] = s[n + j]
      BY <1>1, <1>3
    <3> QED BY <3>1, <1>7, <1>1 DEF IsInjective
  <2>3. ToSet(front) \cap ToSet(back) = {}
    <3> SUFFICES ASSUME NEW i \in 1..n, NEW j \in 1..(m - n), s[i] = back[j] PROVE FALSE
      BY <1>4
    <3>1. n + j \in 1..m /\ i \in 1..m /\ i # n + j /\ s[n + j] = s[i]
      BY <1>1, <1>3
    <3> QED BY <3>1, <1>7, <1>1 DEF IsInjective
  <2> QED BY <2>1, <2>2, <2>3
<1> QED BY <1>2, <1>3, <1>4, <1>5, <1>6, <1>7 DEF front, back, m

-----------------------------------------------------------------------------
(* Sequences of numbers that only grow.                                    *)

Ascending(s) == \A i, j \in DOMAIN s : i < j => s[i] < s[j]

\* Every element of s is smaller than every element of t.
Before(s, t) == \A i \in DOMAIN s, j \in DOMAIN t : s[i] < t[j]

LEMMA AscendingConcat ==
    ASSUME NEW s \in Seq(Int), NEW t \in Seq(Int)
    PROVE  Ascending(s \o t) <=> Ascending(s) /\ Ascending(t) /\ Before(s, t)
<1> DEFINE u == s \o t
           m == Len(s)
           n == Len(t)
<1>1. /\ m \in Nat /\ n \in Nat /\ DOMAIN s = 1..m /\ DOMAIN t = 1..n
      /\ \A i \in 1..m : s[i] \in Int
      /\ \A i \in 1..n : t[i] \in Int
  OBVIOUS
<1>2. /\ u \in Seq(Int) /\ Len(u) = m + n
      /\ \A i \in 1..(m + n) : u[i] = IF i <= m THEN s[i] ELSE t[i - m]
  BY ConcatProperties
<1>3. DOMAIN u = 1..(m + n)
  BY <1>2, LenProperties
<1> HIDE DEF u, m, n
<1>4. \A i \in 1..m : i \in 1..(m + n) /\ u[i] = s[i]
  BY <1>1, <1>2
<1>5. \A j \in 1..n : m + j \in 1..(m + n) /\ u[m + j] = t[j]
  <2> TAKE j \in 1..n
  <2> DEFINE k == m + j
  <2>1. k \in 1..(m + n) /\ ~(k <= m) /\ k - m = j
    BY <1>1
  <2> HIDE DEF k
  <2>2. u[k] = t[k - m]
    BY <2>1, <1>2
  <2> QED BY <2>1, <2>2 DEF k
<1>6. ASSUME Ascending(u) PROVE Ascending(s) /\ Ascending(t) /\ Before(s, t)
  <2>1. Ascending(s)
    BY <1>6, <1>1, <1>3, <1>4 DEF Ascending
  <2>2. Ascending(t)
    <3> SUFFICES ASSUME NEW i \in 1..n, NEW j \in 1..n, i < j PROVE t[i] < t[j]
      BY <1>1 DEF Ascending
    <3>1. m + i < m + j
      BY <1>1
    <3> QED BY <3>1, <1>6, <1>3, <1>5 DEF Ascending
  <2>3. Before(s, t)
    <3> SUFFICES ASSUME NEW i \in 1..m, NEW j \in 1..n PROVE s[i] < t[j]
      BY <1>1 DEF Before
    <3>1. i < m + j
      BY <1>1
    <3> QED BY <3>1, <1>6, <1>3, <1>4, <1>5 DEF Ascending
  <2> QED BY <2>1, <2>2, <2>3
<1>7. ASSUME Ascending(s), Ascending(t), Before(s, t) PROVE Ascending(u)
  <2> SUFFICES ASSUME NEW i \in 1..(m + n), NEW j \in 1..(m + n), i < j PROVE u[i] < u[j]
    BY <1>3 DEF Ascending
  <2>1. CASE j <= m
    <3>1. i \in 1..m /\ j \in 1..m
      BY <1>1, <2>1
    <3> QED BY <3>1, <1>1, <1>4, <1>7 DEF Ascending
  <2>2. CASE i <= m /\ ~(j <= m)
    <3>1. i \in 1..m /\ j - m \in 1..n /\ m + (j - m) = j
      BY <1>1, <2>2
    <3> QED BY <3>1, <1>1, <1>2, <2>2, <1>7 DEF Before
  <2>3. CASE ~(i <= m)
    <3>1. i - m \in 1..n /\ j - m \in 1..n /\ i - m < j - m /\ ~(j <= m)
      BY <1>1, <2>3
    <3> QED BY <3>1, <1>1, <1>2, <2>3, <1>7 DEF Ascending
  <2> QED BY <2>1, <2>2, <2>3
<1> QED BY <1>6, <1>7 DEF u

LEMMA AscendingAppend ==
    ASSUME NEW s \in Seq(Int), NEW e \in Int
    PROVE  Ascending(Append(s, e)) <=> Ascending(s) /\ \A i \in DOMAIN s : s[i] < e
<1>1. /\ Append(s, e) = s \o <<e>> /\ <<e>> \in Seq(Int)
      /\ DOMAIN <<e>> = 1..1 /\ <<e>>[1] = e
  OBVIOUS
<1>2. Ascending(<<e>>)
  BY <1>1 DEF Ascending
<1>3. Before(s, <<e>>) <=> \A i \in DOMAIN s : s[i] < e
  BY <1>1 DEF Before
<1>4. Ascending(s \o <<e>>) <=> Ascending(s) /\ Ascending(<<e>>) /\ Before(s, <<e>>)
  BY <1>1, AscendingConcat
<1> QED BY <1>1, <1>2, <1>3, <1>4

\* A part of a growing sequence grows, and comes after whatever the whole came after.
LEMMA AscendingSubSeq ==
    ASSUME NEW S \in SUBSET Int, NEW s \in Seq(S), NEW m \in 1..(Len(s) + 1), NEW n \in 0..Len(s)
    PROVE  LET part == SubSeq(s, m, n)
           IN  /\ part \in Seq(S)
               /\ Len(part) = IF m <= n THEN n - m + 1 ELSE 0
               /\ \A i \in 1..Len(part) : m + i - 1 \in 1..Len(s) /\ part[i] = s[m + i - 1]
               /\ Ascending(s) => Ascending(part)
<1> DEFINE part == SubSeq(s, m, n)
           len == IF m <= n THEN n - m + 1 ELSE 0
<1>1. Len(s) \in Nat /\ m \in Int /\ n \in Int /\ n <= Len(s) /\ m >= 1 /\ DOMAIN s = 1..Len(s)
  OBVIOUS
<1>2. \A i \in m..n : s[i] \in S
  BY <1>1
<1>3. part \in Seq(S) /\ Len(part) = len /\ \A i \in 1..(n - m + 1) : part[i] = s[m + i - 1]
  BY <1>1, <1>2, SubSeqProperties
<1>4. \A i \in 1..len : i \in 1..(n - m + 1) /\ m + i - 1 \in 1..Len(s)
  BY <1>1
<1>5. DOMAIN part = 1..len
  BY <1>3, LenProperties
<1> HIDE DEF part
<1>6. ASSUME Ascending(s) PROVE Ascending(part)
  <2> SUFFICES ASSUME NEW i \in 1..len, NEW j \in 1..len, i < j PROVE part[i] < part[j]
    BY <1>5 DEF Ascending
  <2>1. /\ m + i - 1 \in 1..Len(s) /\ m + j - 1 \in 1..Len(s)
        /\ part[i] = s[m + i - 1] /\ part[j] = s[m + j - 1]
    BY <1>3, <1>4
  <2>2. m + i - 1 < m + j - 1
    BY <1>1
  <2> QED BY <2>1, <2>2, <1>1, <1>6 DEF Ascending
<1> QED BY <1>3, <1>4, <1>6 DEF part

-----------------------------------------------------------------------------

\* A stretch of a function has at most as many values as places.
LEMMA ImageCardinality ==
    ASSUME NEW f, NEW m \in Nat, NEW n \in Nat, m <= n
    PROVE  LET image == {f[i] : i \in (m + 1)..n}
           IN  /\ IsFiniteSet(image) /\ Cardinality(image) \in Nat
               /\ Cardinality(image) <= n - m
<1> DEFINE places == (m + 1)..n
           image == {f[i] : i \in places}
           g == [i \in places |-> f[i]]
<1>1. IsFiniteSet(places) /\ Cardinality(places) = n - m
  <2>1. m + 1 \in Int /\ n \in Int /\ n - (m + 1) + 1 = n - m /\ (m + 1 > n => n - m = 0)
    OBVIOUS
  <2>2. /\ IsFiniteSet(places)
        /\ Cardinality(places) = IF m + 1 > n THEN 0 ELSE n - (m + 1) + 1
    BY ONLY <2>1, FS_Interval
  <2> QED BY <2>1, <2>2
<1>2. g \in Surjection(places, image)
  <2>1. g \in [places -> image] /\ \A y \in image : \E i \in places : g[i] = y
    OBVIOUS
  <2> HIDE DEF g, image, places
  <2> QED BY <2>1 DEF Surjection
<1> HIDE DEF g, image, places
<1>3. IsFiniteSet(image) /\ Cardinality(image) <= Cardinality(places)
  BY <1>1, <1>2, FS_Surjection
<1> QED BY <1>1, <1>3, FS_CardinalityType DEF image, places

-----------------------------------------------------------------------------

\* Natural numbers are well founded: what induction over them rests on.
LEMMA LeastNumber ==
    ASSUME NEW S \in SUBSET Nat, S # {}
    PROVE  \E x \in S : \A y \in S : x <= y
<1> DEFINE less == {p \in Nat \X Nat : p[1] < p[2]}
<1>1. IsWellFoundedOn(less, Nat)
  BY NatLessThanWellFounded DEF OpToRel
<1>2. \A x, y \in Nat : <<y, x>> \in less <=> y < x
  OBVIOUS
<1> HIDE DEF less
<1>3. \E x \in S : \A y \in S : <<y, x>> \notin less
  BY ONLY <1>1, WFMin, S # {}, S \subseteq Nat
<1>4. PICK x \in S : \A y \in S : <<y, x>> \notin less
  BY <1>3
<1>5. ASSUME NEW y \in S PROVE x <= y
  <2>1. x \in Nat /\ y \in Nat
    BY <1>5
  <2>2. ~(y < x)
    BY <1>2, <1>4, <2>1
  <2> QED BY <2>1, <2>2
<1> QED BY <1>5

\* What starts with a and goes on by g, n steps.
Iterations(V, a, n, g) ==
    {F \in [0..n -> V] : F[0] = a /\ \A i \in 1..n : F[i] = g[<<i, F[i - 1]>>]}

\* A recursion over 1..n has a solution.
LEMMA Recursion ==
    ASSUME NEW V, NEW a \in V, NEW n \in Nat, NEW g \in [(1..n) \X V -> V]
    PROVE  Iterations(V, a, n, g) # {}
<1> DEFINE Good(m) == {F \in [0..m -> V] : F[0] = a /\ \A i \in 1..m : F[i] = g[<<i, F[i - 1]>>]}
           S == {m \in 0..n : Good(m) = {}}
<1>1. SUFFICES S = {}
  <2>1. n \in 0..n
    OBVIOUS
  <2>2. Good(n) # {}
    BY <1>1, <2>1
  <2> QED BY <2>2 DEF Iterations
<1>2. SUFFICES ASSUME S # {} PROVE FALSE
  OBVIOUS
<1>3. S \in SUBSET Nat
  OBVIOUS
<1>4. PICK m \in S : \A k \in S : m <= k
  <2> HIDE DEF S
  <2> QED BY <1>2, <1>3, LeastNumber
<1>5. Good(0) # {}
  <2>1. [i \in 0..0 |-> a] \in Good(0)
    OBVIOUS
  <2> QED BY <2>1
<1>6. m \in 1..n /\ m - 1 \in 0..n /\ ~(m <= m - 1)
  <2>1. m \in 0..n /\ Good(m) = {}
    BY <1>4
  <2>2. m # 0
    BY <2>1, <1>5
  <2> QED BY <2>1, <2>2
<1>7. Good(m - 1) # {}
  <2>1. m - 1 \notin S
    <3> HIDE DEF S
    <3> QED BY <1>4, <1>6
  <2> QED BY <2>1, <1>6
<1>8. PICK G : G \in Good(m - 1)
  BY <1>7
<1> DEFINE H == [i \in 0..m |-> IF i = m THEN g[<<m, G[m - 1]>>] ELSE G[i]]
<1>9. H \in Good(m)
  <2>1. G \in [0..(m - 1) -> V] /\ G[0] = a /\ \A i \in 1..(m - 1) : G[i] = g[<<i, G[i - 1]>>]
    BY <1>8
  <2>2. m - 1 \in 0..(m - 1) /\ G[m - 1] \in V /\ g[<<m, G[m - 1]>>] \in V
    BY <1>6, <2>1
  <2>3. H \in [0..m -> V] /\ H[0] = a
    BY <1>6, <2>1, <2>2
  <2>4. ASSUME NEW i \in 1..m PROVE H[i] = g[<<i, H[i - 1]>>]
    <3>1. i \in 0..m /\ i - 1 \in 0..m /\ i - 1 # m /\ m \in Int
      BY <1>6
    <3>2. H[i - 1] = G[i - 1] /\ H[i] = IF i = m THEN g[<<m, G[m - 1]>>] ELSE G[i]
      BY <3>1
    <3>3. i # m => i \in 1..(m - 1)
      BY <3>1
    <3> HIDE DEF H
    <3> QED BY <3>2, <3>3, <2>1
  <2> HIDE DEF H
  <2> QED BY <2>3, <2>4
<1> QED
  <2>1. Good(m) = {}
    BY <1>4
  <2> HIDE DEF Good
  <2> QED BY <2>1, <1>9

\* Counting up to n, for a set of numbers in place of a predicate.
LEMMA CountingUp ==
    ASSUME NEW n \in Nat, NEW S, 0 \in S, \A i \in 1..n : i - 1 \in S => i \in S
    PROVE  \A i \in 0..n : i \in S
<1> DEFINE bad == {i \in 0..n : i \notin S}
<1>1. SUFFICES ASSUME bad # {} PROVE FALSE
  OBVIOUS
<1>2. bad \in SUBSET Nat
  OBVIOUS
<1>3. PICK m \in bad : \A k \in bad : m <= k
  <2> HIDE DEF bad
  <2> QED BY <1>1, <1>2, LeastNumber
<1>4. m \in 1..n /\ m - 1 \in 0..n /\ ~(m <= m - 1) /\ m \notin S
  BY <1>3
<1>5. m - 1 \in S
  <2>1. m - 1 \notin bad
    <3> HIDE DEF bad
    <3> QED BY <1>3, <1>4
  <2> QED BY <2>1, <1>4
<1> QED BY <1>4, <1>5

\* A sequence cut in two: PrefixSplit with the cut also at either end.
LEMMA CutInTwo ==
    ASSUME NEW S, NEW s \in Seq(S), NEW n \in 0..Len(s)
    PROVE  /\ SubSeq(s, 1, n) \in Seq(S) /\ Len(SubSeq(s, 1, n)) = n
           /\ \A i \in 1..n : SubSeq(s, 1, n)[i] = s[i]
           /\ SubSeq(s, n + 1, Len(s)) \in Seq(S) /\ Len(SubSeq(s, n + 1, Len(s))) = Len(s) - n
           /\ \A i \in 1..(Len(s) - n) : SubSeq(s, n + 1, Len(s))[i] = s[n + i]
           /\ ToSet(SubSeq(s, 1, n)) = {s[i] : i \in 1..n}
           /\ ToSet(s) = ToSet(SubSeq(s, 1, n)) \cup ToSet(SubSeq(s, n + 1, Len(s)))
<1> DEFINE front == SubSeq(s, 1, n)
           back == SubSeq(s, n + 1, Len(s))
           m == Len(s)
<1>1. m \in Nat /\ n \in Nat /\ n <= m /\ s \in [1..m -> S]
  OBVIOUS
<1>2. front \in Seq(S) /\ Len(front) = n /\ \A i \in 1..n : front[i] = s[i]
  <2>1. 1 \in Int /\ n \in Int /\ \A i \in 1..n : s[i] \in S
    BY <1>1
  <2>2. /\ front \in Seq(S) /\ Len(front) = (IF 1 <= n THEN n - 1 + 1 ELSE 0)
        /\ \A i \in 1..(n - 1 + 1) : front[i] = s[1 + i - 1]
    BY ONLY <2>1, SubSeqProperties
  <2>3. /\ (IF 1 <= n THEN n - 1 + 1 ELSE 0) = n /\ n - 1 + 1 = n
        /\ \A i \in 1..n : 1 + i - 1 = i
    <3>1. n \in Nat
      BY <1>1
    <3>2. n - 1 + 1 = n
      BY ONLY <3>1
    <3>3. (IF 1 <= n THEN n - 1 + 1 ELSE 0) = n
      BY ONLY <3>1, <3>2
    <3>4. \A i \in 1..n : 1 + i - 1 = i
      BY ONLY <3>1
    <3> QED BY ONLY <3>2, <3>3, <3>4
  <2> HIDE DEF front
  <2> QED BY ONLY <2>2, <2>3
<1>3. back \in Seq(S) /\ Len(back) = m - n /\ \A i \in 1..(m - n) : back[i] = s[n + i]
  <2>1. \A i \in n + 1..m : s[i] \in S
    BY <1>1
  <2>2. /\ n + 1 \in Int /\ m \in Int
        /\ m - (n + 1) + 1 = m - n
        /\ \A i \in 1..(m - n) : n + 1 + i - 1 = n + i
        /\ (IF n + 1 <= m THEN m - n ELSE 0) = m - n
    <3> HIDE DEF back, m
    <3> QED BY <1>1
  <2>3. /\ back \in Seq(S)
        /\ Len(back) = IF n + 1 <= m THEN m - (n + 1) + 1 ELSE 0
        /\ \A i \in 1..(m - (n + 1) + 1) : back[i] = s[n + 1 + i - 1]
    <3>1. s \in Seq(S) /\ n + 1 \in Int /\ Len(s) \in Int /\ \A i \in n + 1..Len(s) : s[i] \in S
      BY <2>1, <2>2
    <3> QED BY ONLY <3>1, SubSeqProperties
  <2> QED BY <2>2, <2>3
<1>4. ToSet(front) = {s[i] : i \in 1..n}
  <2>1. ToSet(front) = {front[i] : i \in 1..Len(front)}
    <3> HIDE DEF front
    <3> QED BY <1>2, ToSetRange
  <2> HIDE DEF front
  <2> QED BY <2>1, <1>2
<1>5. ToSet(back) = {s[n + i] : i \in 1..(m - n)}
  <2>1. ToSet(back) = {back[i] : i \in 1..Len(back)}
    <3> HIDE DEF back
    <3> QED BY <1>3, ToSetRange
  <2> HIDE DEF back
  <2> QED BY <2>1, <1>3
<1>6. ToSet(s) = {s[i] : i \in 1..m}
  BY ToSetRange
<1>7. ToSet(s) = ToSet(front) \cup ToSet(back)
  <2> HIDE DEF front, back, m
  <2>1. ASSUME NEW i \in 1..m PROVE s[i] \in ToSet(front) \cup ToSet(back)
    <3>1. CASE i <= n
      BY <3>1, <1>1, <1>4
    <3>2. CASE ~(i <= n)
      <4>1. i - n \in 1..(m - n) /\ n + (i - n) = i
        BY <3>2, <1>1
      <4> QED BY <4>1, <1>5
    <3> QED BY <3>1, <3>2
  <2>2. ASSUME NEW i \in 1..n PROVE s[i] \in ToSet(s)
    BY <1>1, <1>6
  <2>3. ASSUME NEW i \in 1..(m - n) PROVE s[n + i] \in ToSet(s)
    <3>1. n + i \in 1..m
      BY <1>1
    <3> QED BY <3>1, <1>6
  <2> QED BY <1>4, <1>5, <1>6, <2>1, <2>2, <2>3
<1> QED BY <1>2, <1>3, <1>4, <1>7

-----------------------------------------------------------------------------
(* Sequences whose elements are related, the earlier to the later.         *)

\* R relates each element to every later one.
Ordered(s, R) == \A i, j \in DOMAIN s : i < j => <<s[i], s[j]>> \in R

\* One ordered sequence after another is ordered, if each element of the first comes
\* before each of the second.
LEMMA OrderedConcat ==
    ASSUME NEW S, NEW R, NEW s \in Seq(S), NEW t \in Seq(S), Ordered(s, R), Ordered(t, R),
           \A e \in ToSet(s), f \in ToSet(t) : <<e, f>> \in R
    PROVE  Ordered(s \o t, R)
<1> DEFINE u == s \o t
           m == Len(s)
           n == Len(t)
<1>1. m \in Nat /\ n \in Nat /\ DOMAIN s = 1..m /\ DOMAIN t = 1..n
  OBVIOUS
<1>2. /\ u \in Seq(S) /\ Len(u) = m + n
      /\ \A i \in 1..(m + n) : u[i] = IF i <= m THEN s[i] ELSE t[i - m]
  BY ConcatProperties
<1>3. DOMAIN u = 1..(m + n)
  BY <1>2, LenProperties
<1>4. (\A i \in 1..m : s[i] \in ToSet(s)) /\ (\A i \in 1..n : t[i] \in ToSet(t))
  BY ToSetRange
<1> HIDE DEF u, m, n
<1>5. SUFFICES ASSUME NEW i \in 1..(m + n), NEW j \in 1..(m + n), i < j PROVE <<u[i], u[j]>> \in R
  BY <1>3 DEF Ordered, u
<1>6. CASE j <= m
  <2>1. i \in 1..m /\ j \in 1..m /\ i <= m
    BY <1>1, <1>5, <1>6
  <2> QED BY <2>1, <1>1, <1>2, <1>5, <1>6 DEF Ordered
<1>7. CASE i <= m /\ ~(j <= m)
  <2>1. i \in 1..m /\ j - m \in 1..n
    BY <1>1, <1>7
  <2> QED BY <2>1, <1>2, <1>4, <1>7
<1>8. CASE ~(i <= m)
  <2>1. i - m \in 1..n /\ j - m \in 1..n /\ i - m < j - m /\ ~(j <= m)
    BY <1>1, <1>5, <1>8
  <2> QED BY <2>1, <1>1, <1>2, <1>8 DEF Ordered
<1> QED BY <1>6, <1>7, <1>8

\* The same for one more element.
LEMMA OrderedAppend ==
    ASSUME NEW S, NEW R, NEW s \in Seq(S), NEW e \in S, Ordered(s, R),
           \A d \in ToSet(s) : <<d, e>> \in R
    PROVE  Ordered(Append(s, e), R)
<1>1. Append(s, e) = s \o <<e>> /\ <<e>> \in Seq(S) /\ DOMAIN <<e>> = 1..1
  OBVIOUS
<1>2. Ordered(<<e>>, R)
  BY <1>1 DEF Ordered
<1>3. ToSet(<<e>>) = {e}
  BY ToSetSingleton
<1> QED BY <1>1, <1>2, <1>3, OrderedConcat

\* Both parts of an ordered sequence are ordered, and the one comes before the other.
LEMMA OrderedCut ==
    ASSUME NEW S, NEW R, NEW s \in Seq(S), NEW n \in 0..Len(s), Ordered(s, R)
    PROVE  /\ Ordered(SubSeq(s, 1, n), R) /\ Ordered(SubSeq(s, n + 1, Len(s)), R)
           /\ \A e \in ToSet(SubSeq(s, 1, n)), f \in ToSet(SubSeq(s, n + 1, Len(s))) : <<e, f>> \in R
<1> DEFINE front == SubSeq(s, 1, n)
           back == SubSeq(s, n + 1, Len(s))
           m == Len(s)
<1>1. /\ m \in Nat /\ n \in Nat /\ n <= m /\ DOMAIN s = 1..m
      /\ \A i, j \in 1..m : i < j => <<s[i], s[j]>> \in R
  BY DEF Ordered
<1>2. /\ front \in Seq(S) /\ Len(front) = n /\ \A i \in 1..n : front[i] = s[i]
      /\ back \in Seq(S) /\ Len(back) = m - n /\ \A i \in 1..(m - n) : back[i] = s[n + i]
  BY CutInTwo
<1> HIDE DEF front, back, m
<1>3. DOMAIN front = 1..n /\ DOMAIN back = 1..(m - n)
  BY <1>2, LenProperties
<1>4. ToSet(front) = {front[i] : i \in 1..n} /\ ToSet(back) = {back[i] : i \in 1..(m - n)}
  <2>1. ToSet(front) = {front[i] : i \in 1..Len(front)} /\ ToSet(back) = {back[i] : i \in 1..Len(back)}
    BY <1>2, ToSetRange
  <2> QED BY <2>1, <1>2
<1>5. Ordered(front, R)
  BY <1>1, <1>2, <1>3 DEF Ordered
<1>6. Ordered(back, R)
  <2> SUFFICES ASSUME NEW i \in 1..(m - n), NEW j \in 1..(m - n), i < j
               PROVE  <<back[i], back[j]>> \in R
    BY <1>3 DEF Ordered
  <2>1. n + i \in 1..m /\ n + j \in 1..m /\ n + i < n + j
    BY <1>1
  <2> QED BY <2>1, <1>1, <1>2
<1>7. ASSUME NEW i \in 1..n, NEW j \in 1..(m - n) PROVE <<front[i], back[j]>> \in R
  <2>1. i \in 1..m /\ n + j \in 1..m /\ i < n + j
    BY <1>1
  <2> QED BY <2>1, <1>1, <1>2
<1> QED BY <1>4, <1>5, <1>6, <1>7 DEF front, back, m

-----------------------------------------------------------------------------
(* Sums over finite sets.                                                  *)

\* Induction over the subsets of a finite set, for a set of sets in place of a
\* predicate: taking an element away leads down to the empty set.
LEMMA FiniteDescent ==
    ASSUME NEW S, IsFiniteSet(S), NEW P, {} \in P,
           \A T \in SUBSET S : T # {} /\ (\A x \in T : T \ {x} \in P) => T \in P
    PROVE  \A T \in SUBSET S : T \in P
<1> DEFINE bad == {T \in SUBSET S : T \notin P}
           sizes == {Cardinality(T) : T \in bad}
<1>1. \A T \in SUBSET S : IsFiniteSet(T) /\ Cardinality(T) \in Nat
  BY FS_Subset, FS_CardinalityType
<1>2. SUFFICES ASSUME bad # {} PROVE FALSE
  OBVIOUS
<1>3. sizes \in SUBSET Nat /\ sizes # {}
  BY <1>1, <1>2
<1>4. PICK m \in sizes : \A k \in sizes : m <= k
  <2> HIDE DEF sizes
  <2> QED BY <1>3, LeastNumber
<1>5. PICK T \in bad : Cardinality(T) = m
  BY <1>4
<1>6. T \in SUBSET S /\ T \notin P /\ T # {}
  BY <1>5
<1>7. ASSUME NEW x \in T PROVE T \ {x} \in P
  <2>1. IsFiniteSet(T) /\ Cardinality(T) \in Nat
    BY <1>1, <1>6
  <2>2. Cardinality(T \ {x}) = Cardinality(T) - 1
    BY <1>7, <2>1, FS_RemoveElement
  <2>3. ~(m <= Cardinality(T \ {x}))
    BY <1>5, <2>1, <2>2
  <2>4. T \ {x} \notin bad
    <3> HIDE DEF bad
    <3> QED BY <1>4, <2>3
  <2> QED BY <1>6, <2>4
<1> QED BY <1>6, <1>7

-----------------------------------------------------------------------------
(* Sums over finite sets.                                                  *)

Pick(s) == CHOOSE x \in s : TRUE

\* The equation of the fold that sums are defined by.
AddsUp(f, S, g) ==
    g = [s \in SUBSET S |-> IF s = {} THEN 0 ELSE f[Pick(s)] + g[s \ {Pick(s)}]]

\* The community module's sum, unfolded to the recursive function it chooses.
LEMMA SumIsFold ==
    ASSUME NEW f, NEW S
    PROVE  SumFunctionOnSet(f, S) = (CHOOSE g : AddsUp(f, S, g))[S]
BY DEF SumFunctionOnSet, FoldFunctionOnSet, MapThenFoldSet, AddsUp, Pick

\* A finite set has a sum.
LEMMA FoldExists ==
    ASSUME NEW S, IsFiniteSet(S), NEW f, \A x \in S : f[x] \in Int
    PROVE  \E g \in [SUBSET S -> Int] : AddsUp(f, S, g)
<1> DEFINE n == Cardinality(S) + 1
           V == [SUBSET S -> Int]
           Next_(G) == [s \in SUBSET S |-> IF s = {} THEN 0 ELSE f[Pick(s)] + G[s \ {Pick(s)}]]
           a == [s \in SUBSET S |-> 0]
           h == [p \in (1..n) \X V |-> Next_(p[2])]
<1>1. Cardinality(S) \in Nat /\ n \in Nat /\ n \in 1..n
  BY FS_CardinalityType
<1>2. \A s \in SUBSET S : s # {} => Pick(s) \in s /\ Pick(s) \in S /\ s \ {Pick(s)} \in SUBSET S
  BY DEF Pick
<1>3. \A G \in V : Next_(G) \in V
  BY <1>2
<1>4. a \in V
  OBVIOUS
<1>5. h \in [(1..n) \X V -> V]
  <2> HIDE DEF V, Next_, n
  <2> QED BY <1>3
<1>6. PICK F \in [0..n -> V] : F[0] = a /\ \A i \in 1..n : F[i] = Next_(F[i - 1])
  <2>1. Iterations(V, a, n, h) # {}
    <3> HIDE DEF V, n, h, a
    <3> QED BY <1>1, <1>4, <1>5, Recursion
  <2>2. PICK F : F \in Iterations(V, a, n, h)
    BY <2>1
  <2>3. F \in [0..n -> V] /\ F[0] = a /\ \A i \in 1..n : F[i] = h[<<i, F[i - 1]>>]
    <3> HIDE DEF V, n, h, a
    <3> QED BY <2>2 DEF Iterations
  <2>4. \A i \in 1..n : F[i] = Next_(F[i - 1])
    <3> TAKE i \in 1..n
    <3>1. F[i - 1] \in V
      <4>1. i - 1 \in 0..n
        BY <1>1
      <4> HIDE DEF V, n
      <4> QED BY <2>3, <4>1
    <3>2. h[<<i, F[i - 1]>>] = Next_(F[i - 1])
      <4> HIDE DEF V, Next_, n
      <4> QED BY <3>1
    <3> HIDE DEF Next_, V, n, h
    <3> QED BY <2>3, <3>2
  <2> HIDE DEF V, n, h, a, Next_
  <2> QED BY <2>3, <2>4
<1> DEFINE Settled(i) == \A s \in SUBSET S : Cardinality(s) < i => F[i][s] = F[i - 1][s]
           T == {i \in 0..n : i = 0 \/ Settled(i)}
<1>7. \A s \in SUBSET S : IsFiniteSet(s) /\ Cardinality(s) \in Nat /\ Cardinality(s) <= Cardinality(S)
                          /\ (Cardinality(s) = 0 => s = {})
                          /\ (s # {} => Cardinality(s \ {Pick(s)}) = Cardinality(s) - 1)
  <2> TAKE s \in SUBSET S
  <2>1. IsFiniteSet(s) /\ Cardinality(s) <= Cardinality(S)
    BY FS_Subset
  <2>2. s # {} => Cardinality(s \ {Pick(s)}) = Cardinality(s) - 1
    BY <1>2, <2>1, FS_RemoveElement
  <2> QED BY <2>1, <2>2, FS_CardinalityType, FS_EmptySet
<1>8. \A i \in 1..n, s \in SUBSET S :
         F[i][s] = IF s = {} THEN 0 ELSE f[Pick(s)] + F[i - 1][s \ {Pick(s)}]
  <2> TAKE i \in 1..n, s \in SUBSET S
  <2>1. F[i] = Next_(F[i - 1])
    <3> HIDE DEF V, Next_, n, a
    <3> QED BY <1>6
  <2> DEFINE G == F[i - 1]
  <2>2. F[i] = Next_(G)
    BY <2>1
  <2> HIDE DEF G
  <2>3. F[i][s] = IF s = {} THEN 0 ELSE f[Pick(s)] + G[s \ {Pick(s)}]
    BY <2>2
  <2> QED BY <2>3 DEF G
<1>9. ASSUME NEW i \in 1..n, i - 1 \in T PROVE i \in T
  <2>1. SUFFICES ASSUME NEW s \in SUBSET S, Cardinality(s) < i PROVE F[i][s] = F[i - 1][s]
    BY <1>1
  <2>2. CASE i = 1
    <3>1. s = {}
      <4>1. Cardinality(s) \in Nat /\ Cardinality(s) < 1 /\ (Cardinality(s) = 0 => s = {})
        BY <1>7, <2>1, <2>2
      <4> QED BY <4>1
    <3>2. F[0][s] = 0
      BY <1>6
    <3>3. F[i][s] = 0
      <4> HIDE DEF n
      <4> QED BY <3>1, <1>8
    <3> QED BY <2>2, <3>2, <3>3
  <2>3. CASE i # 1
    <3>1. i - 1 \in 1..n /\ i - 1 # 0
      BY <2>3, <1>1
    <3>2. CASE s = {}
      BY <3>1, <3>2, <1>8
    <3>3. CASE s # {}
      <4> DEFINE r == s \ {Pick(s)}
      <4>1. r \in SUBSET S /\ Cardinality(r) < i - 1
        BY <3>3, <1>2, <1>7, <2>1
      <4>2. F[i - 1][r] = F[(i - 1) - 1][r]
        BY <1>9, <3>1, <4>1
      <4>3. /\ F[i][s] = f[Pick(s)] + F[i - 1][r]
            /\ F[i - 1][s] = f[Pick(s)] + F[(i - 1) - 1][r]
        BY <3>1, <3>3, <1>8
      <4> QED BY <4>2, <4>3
    <3> QED BY <3>2, <3>3
  <2> QED BY <2>2, <2>3
<1>10. n \in T
  <2>1. 0 \in T
    BY <1>1
  <2>2. \A i \in 0..n : i \in T
    <3> HIDE DEF T, n
    <3> QED BY <1>1, <1>9, <2>1, CountingUp
  <2> QED BY <2>2, <1>1
<1>11. \A s \in SUBSET S : F[n][s] = F[n - 1][s]
  <2>1. ASSUME NEW s \in SUBSET S PROVE Cardinality(s) < n
    <3>1. Cardinality(s) \in Nat /\ Cardinality(s) <= Cardinality(S)
      BY <1>7
    <3> QED BY <3>1, <1>1
  <2>2. n # 0
    BY <1>1
  <2>3. Settled(n)
    <3> HIDE DEF n, Settled
    <3> QED BY <1>10, <2>2
  <2> HIDE DEF n
  <2> QED BY <2>1, <2>3
<1> DEFINE G == F[n]
<1>12. G \in V
  <2>1. n \in 0..n
    BY <1>1
  <2> HIDE DEF V, n
  <2> QED BY <2>1, <1>6
<1>13. ASSUME NEW s \in SUBSET S
       PROVE  G[s] = IF s = {} THEN 0 ELSE f[Pick(s)] + G[s \ {Pick(s)}]
  <2>1. F[n][s] = IF s = {} THEN 0 ELSE f[Pick(s)] + F[n - 1][s \ {Pick(s)}]
    <3> HIDE DEF n
    <3> QED BY <1>1, <1>8
  <2>2. s \ {Pick(s)} \in SUBSET S
    OBVIOUS
  <2>3. F[n - 1][s \ {Pick(s)}] = F[n][s \ {Pick(s)}]
    BY <2>2, <1>11
  <2> QED BY <2>1, <2>3
<1>14. AddsUp(f, S, G)
  <2> HIDE DEF G
  <2> QED BY <1>12, <1>13 DEF AddsUp
<1> HIDE DEF G
<1> QED BY <1>12, <1>14

\* A sum is that of the empty set, or an element's and the sum of the others.
LEMMA SumStep ==
    ASSUME NEW S, IsFiniteSet(S), NEW f, \A x \in S : f[x] \in Int
    PROVE  /\ SumFunctionOnSet(f, {}) = 0 /\ SumFunctionOnSet(f, S) \in Int
           /\ S # {} => Pick(S) \in S
                        /\ SumFunctionOnSet(f, S) = f[Pick(S)] + SumFunctionOnSet(f, S \ {Pick(S)})
<1> DEFINE g(T) == CHOOSE h : AddsUp(f, T, h)
<1>1. ASSUME NEW T \in SUBSET S
      PROVE  /\ AddsUp(f, T, g(T)) /\ g(T)[T] \in Int
             /\ \A s \in SUBSET T : g(T)[s] = IF s = {} THEN 0 ELSE f[Pick(s)] + g(T)[s \ {Pick(s)}]
  <2>1. IsFiniteSet(T) /\ \A x \in T : f[x] \in Int
    BY FS_Subset
  <2>2. PICK h \in [SUBSET T -> Int] : AddsUp(f, T, h)
    BY <2>1, FoldExists
  <2>3. AddsUp(f, T, g(T))
    BY <2>2
  <2> DEFINE k == g(T)
  <2>4. AddsUp(f, T, k)
    BY <2>3
  <2> HIDE DEF k
  <2>5. \A s \in SUBSET T : k[s] = IF s = {} THEN 0 ELSE f[Pick(s)] + k[s \ {Pick(s)}]
    BY <2>4 DEF AddsUp
  <2>6. \A s \in SUBSET T : h[s] = IF s = {} THEN 0 ELSE f[Pick(s)] + h[s \ {Pick(s)}]
    BY <2>2 DEF AddsUp
  <2>7. \A s \in SUBSET T : s \in {r \in SUBSET T : k[r] = h[r]}
    <3> DEFINE Q == {r \in SUBSET T : k[r] = h[r]}
    <3>1. {} \in Q
      BY <2>5, <2>6
    <3>2. ASSUME NEW s \in SUBSET T, s # {}, \A x \in s : s \ {x} \in Q PROVE s \in Q
      <4>1. Pick(s) \in s
        BY <3>2 DEF Pick
      <4>2. k[s \ {Pick(s)}] = h[s \ {Pick(s)}]
        BY <3>2, <4>1
      <4> QED BY <3>2, <4>2, <2>5, <2>6
    <3> HIDE DEF Q
    <3>3. \A s \in SUBSET T : s \in Q
      BY <2>1, <3>1, <3>2, FiniteDescent
    <3> QED BY <3>3 DEF Q
  <2>8. k[T] \in Int
    BY <2>2, <2>7
  <2> QED BY <2>4, <2>5, <2>8 DEF k
<1>2. \A T \in SUBSET S : SumFunctionOnSet(f, T) = g(T)[T]
  BY SumIsFold
<1>3. {} \in SUBSET S /\ S \in SUBSET S
  OBVIOUS
<1>4. SumFunctionOnSet(f, {}) = 0 /\ SumFunctionOnSet(f, S) \in Int
  <2> HIDE DEF g
  <2> QED BY <1>1, <1>2, <1>3
<1>5. ASSUME S # {}
      PROVE  Pick(S) \in S
             /\ SumFunctionOnSet(f, S) = f[Pick(S)] + SumFunctionOnSet(f, S \ {Pick(S)})
  <2> DEFINE R == S \ {Pick(S)}
             a == g(S)
             b == g(R)
  <2>1. Pick(S) \in S /\ R \in SUBSET S
    BY <1>5 DEF Pick
  <2>2. /\ a[S] = f[Pick(S)] + a[R]
        /\ \A s \in SUBSET S : a[s] = IF s = {} THEN 0 ELSE f[Pick(s)] + a[s \ {Pick(s)}]
    <3> HIDE DEF g
    <3> QED BY <1>1, <1>3, <1>5
  <2>3. \A s \in SUBSET R : b[s] = IF s = {} THEN 0 ELSE f[Pick(s)] + b[s \ {Pick(s)}]
    <3> HIDE DEF g, R
    <3> QED BY <1>1, <2>1
  <2>4. SumFunctionOnSet(f, R) = b[R] /\ SumFunctionOnSet(f, S) = a[S]
    <3> HIDE DEF g, R
    <3> QED BY <1>2, <1>3, <2>1
  <2> HIDE DEF a, b, R, g
  <2> DEFINE Q == {r \in SUBSET R : a[r] = b[r]}
  <2>5. {} \in Q
    BY <2>2, <2>3
  <2>6. ASSUME NEW s \in SUBSET R, s # {}, \A x \in s : s \ {x} \in Q PROVE s \in Q
    <3>1. Pick(s) \in s /\ s \in SUBSET S
      BY <2>6, <2>1 DEF Pick
    <3>2. a[s \ {Pick(s)}] = b[s \ {Pick(s)}]
      BY <2>6, <3>1
    <3>3. a[s] = f[Pick(s)] + a[s \ {Pick(s)}] /\ b[s] = f[Pick(s)] + b[s \ {Pick(s)}]
      BY <2>6, <3>1, <2>2, <2>3
    <3> QED BY <3>2, <3>3
  <2>7. \A s \in SUBSET R : s \in Q
    <3>1. IsFiniteSet(R)
      BY <2>1, FS_Subset
    <3> HIDE DEF Q
    <3> QED BY <2>5, <2>6, <3>1, FiniteDescent
  <2>8. a[R] = b[R]
    BY <2>7
  <2> QED BY <2>1, <2>2, <2>4, <2>8 DEF R
<1> QED BY <1>4, <1>5

\* A sum does not depend on the order it is taken in.
LEMMA SumRemove ==
    ASSUME NEW S, IsFiniteSet(S), NEW f, \A x \in S : f[x] \in Int, NEW y \in S
    PROVE  /\ SumFunctionOnSet(f, S) \in Int /\ SumFunctionOnSet(f, S \ {y}) \in Int
           /\ SumFunctionOnSet(f, S) = f[y] + SumFunctionOnSet(f, S \ {y})
<1> DEFINE Sum_(T) == SumFunctionOnSet(f, T)
           P == {T \in SUBSET S : \A x \in T : Sum_(T) = f[x] + Sum_(T \ {x})}
<1>1. ASSUME NEW T \in SUBSET S
      PROVE  /\ Sum_(T) \in Int
             /\ T # {} => Pick(T) \in T /\ Sum_(T) = f[Pick(T)] + Sum_(T \ {Pick(T)})
  <2>1. IsFiniteSet(T) /\ \A x \in T : f[x] \in Int
    BY FS_Subset
  <2> QED BY <2>1, SumStep
<1> HIDE DEF Sum_
<1>2. {} \in P
  OBVIOUS
<1>3. ASSUME NEW T \in SUBSET S, T # {}, \A x \in T : T \ {x} \in P PROVE T \in P
  <2> DEFINE p == Pick(T)
  <2>1. p \in T /\ Sum_(T) = f[p] + Sum_(T \ {p})
    BY <1>1, <1>3
  <2> HIDE DEF p
  <2>2. SUFFICES ASSUME NEW x \in T, x # p PROVE Sum_(T) = f[x] + Sum_(T \ {x})
    BY <2>1, <1>3
  <2> DEFINE R == (T \ {p}) \ {x}
  <2>3. R = (T \ {x}) \ {p} /\ R \in SUBSET S /\ x \in T \ {p} /\ p \in T \ {x}
    BY <2>1, <2>2
  <2>4. T \ {p} \in P /\ T \ {x} \in P
    BY <1>3, <2>1, <2>2
  <2>5. Sum_(T \ {p}) = f[x] + Sum_(R) /\ Sum_(T \ {x}) = f[p] + Sum_(R)
    <3> HIDE DEF R
    <3>1. Sum_(T \ {p}) = f[x] + Sum_(R)
      BY <2>3, <2>4 DEF R
    <3>2. Sum_(T \ {x}) = f[p] + Sum_(R)
      BY <2>3, <2>4
    <3> QED BY <3>1, <3>2
  <2>6. f[x] \in Int /\ f[p] \in Int /\ Sum_(R) \in Int
    BY <1>1, <2>1, <2>3
  <2> HIDE DEF R, P
  <2> QED BY <2>1, <2>5, <2>6
<1>4. \A T \in SUBSET S : T \in P
  <2> HIDE DEF P
  <2> QED BY <1>2, <1>3, FiniteDescent
<1>5. S \in P /\ S \in SUBSET S /\ S \ {y} \in SUBSET S
  BY <1>4
<1> QED BY <1>1, <1>5 DEF Sum_

\* One more element adds its own value.
LEMMA SumAdd ==
    ASSUME NEW S, IsFiniteSet(S), NEW f, NEW y, y \notin S, \A x \in S \cup {y} : f[x] \in Int
    PROVE  SumFunctionOnSet(f, S \cup {y}) = f[y] + SumFunctionOnSet(f, S)
<1>1. IsFiniteSet(S \cup {y}) /\ y \in S \cup {y} /\ (S \cup {y}) \ {y} = S
  BY FS_AddElement
<1> DEFINE T == S \cup {y}
<1>2. IsFiniteSet(T) /\ y \in T /\ T \ {y} = S /\ \A x \in T : f[x] \in Int
  BY <1>1
<1> HIDE DEF T
<1>3. SumFunctionOnSet(f, T) = f[y] + SumFunctionOnSet(f, T \ {y})
  BY <1>2, SumRemove
<1> QED BY <1>2, <1>3 DEF T

\* Functions that agree on a set have the same sum there.
LEMMA SumSame ==
    ASSUME NEW S, IsFiniteSet(S), NEW f, NEW g, \A x \in S : f[x] \in Int /\ g[x] = f[x]
    PROVE  SumFunctionOnSet(g, S) = SumFunctionOnSet(f, S)
<1> DEFINE P == {T \in SUBSET S : SumFunctionOnSet(g, T) = SumFunctionOnSet(f, T)}
<1>1. {} \in P
  <2>1. \A x \in S : f[x] \in Int
    OBVIOUS
  <2>2. \A x \in S : g[x] \in Int
    OBVIOUS
  <2>3. SumFunctionOnSet(f, {}) = 0
    BY <2>1, SumStep
  <2>4. SumFunctionOnSet(g, {}) = 0
    BY <2>2, SumStep
  <2> QED BY <2>3, <2>4
<1>2. ASSUME NEW T \in SUBSET S, T # {}, \A x \in T : T \ {x} \in P PROVE T \in P
  <2>1. PICK x : x \in T
    BY <1>2
  <2>2. IsFiniteSet(T) /\ (\A z \in T : f[z] \in Int) /\ (\A z \in T : g[z] \in Int)
    BY FS_Subset
  <2>3. SumFunctionOnSet(f, T) = f[x] + SumFunctionOnSet(f, T \ {x})
    BY <2>1, <2>2, SumRemove
  <2>4. SumFunctionOnSet(g, T) = g[x] + SumFunctionOnSet(g, T \ {x})
    BY <2>1, <2>2, SumRemove
  <2>5. SumFunctionOnSet(g, T \ {x}) = SumFunctionOnSet(f, T \ {x})
    BY <1>2, <2>1
  <2> QED BY <2>1, <2>3, <2>4, <2>5
<1>3. \A T \in SUBSET S : T \in P
  <2> HIDE DEF P
  <2> QED BY <1>1, <1>2, FiniteDescent
<1> QED BY <1>3

\* Sums of numbers that are not negative, and of as many ones.
LEMMA SumNat ==
    ASSUME NEW S, IsFiniteSet(S), NEW f, \A x \in S : f[x] \in Nat
    PROVE  /\ SumFunctionOnSet(f, S) \in Nat
           /\ \A x \in S : f[x] <= SumFunctionOnSet(f, S)
           /\ (\A x \in S : f[x] = 0) => SumFunctionOnSet(f, S) = 0
           /\ (\A x \in S : f[x] = 1) => SumFunctionOnSet(f, S) = Cardinality(S)
<1> DEFINE Sum_(T) == SumFunctionOnSet(f, T)
           P == {T \in SUBSET S : /\ Sum_(T) \in Nat
                                  /\ (\A x \in S : f[x] = 0) => Sum_(T) = 0
                                  /\ (\A x \in S : f[x] = 1) => Sum_(T) = Cardinality(T)}
<1>1. {} \in P
  <2>1. Sum_({}) = 0 /\ Cardinality({}) = 0
    BY SumStep, FS_EmptySet
  <2> HIDE DEF Sum_
  <2> QED BY <2>1
<1>2. ASSUME NEW T \in SUBSET S, NEW x \in T
      PROVE  /\ Sum_(T) = f[x] + Sum_(T \ {x}) /\ f[x] \in Nat
             /\ Cardinality(T) = 1 + Cardinality(T \ {x})
  <2>1. IsFiniteSet(T) /\ \A z \in T : f[z] \in Int
    BY FS_Subset
  <2>2. Sum_(T) = f[x] + Sum_(T \ {x})
    BY <2>1, <1>2, SumRemove
  <2>3. Cardinality(T) \in Nat /\ Cardinality(T \ {x}) = Cardinality(T) - 1
    BY <2>1, <1>2, FS_RemoveElement, FS_CardinalityType
  <2> HIDE DEF Sum_
  <2> QED BY <1>2, <2>2, <2>3
<1> HIDE DEF Sum_
<1>3. ASSUME NEW T \in SUBSET S, T # {}, \A x \in T : T \ {x} \in P PROVE T \in P
  <2>1. PICK x : x \in T
    BY <1>3
  <2>2. /\ Sum_(T) = f[x] + Sum_(T \ {x}) /\ f[x] \in Nat
        /\ Cardinality(T) = 1 + Cardinality(T \ {x})
    BY <1>2, <2>1
  <2>3. /\ Sum_(T \ {x}) \in Nat
        /\ (\A z \in S : f[z] = 0) => Sum_(T \ {x}) = 0
        /\ (\A z \in S : f[z] = 1) => Sum_(T \ {x}) = Cardinality(T \ {x})
    BY <1>3, <2>1
  <2>4. x \in S
    BY <2>1
  <2> QED BY <2>2, <2>3, <2>4
<1>4. \A T \in SUBSET S : T \in P
  <2> HIDE DEF P
  <2> QED BY <1>1, <1>3, FiniteDescent
<1>5. S \in SUBSET S
  OBVIOUS
<1>6. ASSUME NEW x \in S PROVE f[x] <= Sum_(S)
  <2>1. S \ {x} \in SUBSET S
    OBVIOUS
  <2>2. Sum_(S \ {x}) \in Nat
    BY <1>4, <2>1
  <2> QED BY <1>2, <1>5, <2>2
<1>7. S \in P
  BY <1>4, <1>5
<1> QED BY <1>6, <1>7 DEF Sum_

\* The elements that q gives the same i.
Class(S, q, i) == {x \in S : q[x] = i}

\* Groups of a set have together the sum of the set.
LEMMA SumOfGroups ==
    ASSUME NEW S, IsFiniteSet(S), NEW I, IsFiniteSet(I), NEW f, \A x \in S : f[x] \in Int,
           NEW q, \A x \in S : q[x] \in I,
           NEW part, \A i \in I : part[i] = SumFunctionOnSet(f, Class(S, q, i))
    PROVE  SumFunctionOnSet(part, I) = SumFunctionOnSet(f, S)
<1> DEFINE Group(T, i) == {x \in T : q[x] = i}
           Part(T) == [i \in I |-> SumFunctionOnSet(f, Group(T, i))]
           P == {T \in SUBSET S : SumFunctionOnSet(Part(T), I) = SumFunctionOnSet(f, T)}
<1>1. ASSUME NEW T \in SUBSET S, NEW i \in I
      PROVE  /\ Part(T)[i] = SumFunctionOnSet(f, Group(T, i)) /\ Part(T)[i] \in Int
             /\ IsFiniteSet(Group(T, i)) /\ \A z \in Group(T, i) : f[z] \in Int
  <2>1. Group(T, i) \in SUBSET S
    OBVIOUS
  <2>2. IsFiniteSet(Group(T, i))
    BY <2>1, FS_Subset
  <2>3. \A z \in Group(T, i) : f[z] \in Int
    BY <2>1
  <2> HIDE DEF Group
  <2>4. SumFunctionOnSet(f, Group(T, i)) \in Int
    BY <2>2, <2>3, SumStep
  <2> QED BY <2>2, <2>3, <2>4
<1>2. {} \in P
  <2>1. \A i \in I : Group({}, i) = {}
    OBVIOUS
  <2>2. SumFunctionOnSet(f, {}) = 0
    BY SumStep
  <2>3. \A i \in I : Part({})[i] = 0
    BY <2>1, <2>2
  <2> DEFINE zero == Part({})
  <2>4. \A i \in I : zero[i] = 0
    BY <2>3
  <2> HIDE DEF zero
  <2>5. SumFunctionOnSet(zero, I) = 0
    BY <2>4, SumNat
  <2> QED BY <2>2, <2>5 DEF zero
<1>3. ASSUME NEW T \in SUBSET S, T # {}, \A x \in T : T \ {x} \in P PROVE T \in P
  <2>1. PICK x : x \in T
    BY <1>3
  <2> DEFINE R == T \ {x}
             y == q[x]
             now_ == Part(T)
             old == Part(R)
  <2>2. x \in S /\ y \in I /\ R \in SUBSET S /\ f[x] \in Int
    BY <2>1
  <2>3. SumFunctionOnSet(f, T) = f[x] + SumFunctionOnSet(f, R)
    <3>1. IsFiniteSet(T) /\ \A z \in T : f[z] \in Int
      BY FS_Subset
    <3> QED BY <2>1, <3>1, SumRemove
  <2>4. (\A i \in I : now_[i] \in Int) /\ (\A i \in I : old[i] \in Int)
    BY <1>1, <2>2
  <2>5. \A i \in I \ {y} : now_[i] = old[i]
    <3> TAKE i \in I \ {y}
    <3>1. Group(T, i) = Group(R, i)
      OBVIOUS
    <3> HIDE DEF Group
    <3> QED BY <3>1
  <2>6. now_[y] = f[x] + old[y]
    <3>1. Group(R, y) = Group(T, y) \ {x} /\ x \in Group(T, y)
      BY <2>1
    <3>2. IsFiniteSet(Group(T, y)) /\ \A z \in Group(T, y) : f[z] \in Int
      BY <1>1, <2>2
    <3>3. SumFunctionOnSet(f, Group(T, y)) = f[x] + SumFunctionOnSet(f, Group(T, y) \ {x})
      <4> HIDE DEF Group, y
      <4> QED BY <3>1, <3>2, SumRemove
    <3> HIDE DEF Group, y
    <3> QED BY <2>2, <3>1, <3>3
  <2>7. SumFunctionOnSet(old, I) = SumFunctionOnSet(f, R)
    BY <1>3, <2>1
  <2> HIDE DEF now_, old, y, R, P
  <2>8. /\ SumFunctionOnSet(now_, I) = now_[y] + SumFunctionOnSet(now_, I \ {y})
        /\ SumFunctionOnSet(now_, I \ {y}) \in Int
    BY <2>2, <2>4, SumRemove
  <2>9. SumFunctionOnSet(old, I) = old[y] + SumFunctionOnSet(old, I \ {y})
        /\ SumFunctionOnSet(old, I \ {y}) \in Int
    BY <2>2, <2>4, SumRemove
  <2>10. SumFunctionOnSet(now_, I \ {y}) = SumFunctionOnSet(old, I \ {y})
    <3>1. IsFiniteSet(I \ {y})
      BY FS_RemoveElement
    <3> QED BY <2>4, <2>5, <3>1, SumSame
  <2>11. old[y] \in Int
    BY <2>2, <2>4
  <2>12. SumFunctionOnSet(now_, I) = SumFunctionOnSet(f, T)
    BY <2>2, <2>3, <2>6, <2>7, <2>8, <2>9, <2>10, <2>11
  <2> QED BY <2>12 DEF P, now_
<1>4. \A T \in SUBSET S : T \in P
  <2> HIDE DEF P
  <2> QED BY <1>2, <1>3, FiniteDescent
<1>5. SumFunctionOnSet(Part(S), I) = SumFunctionOnSet(f, S)
  BY <1>4
<1>6. \A i \in I : Part(S)[i] \in Int /\ part[i] = Part(S)[i]
  BY <1>1 DEF Class
<1> HIDE DEF Part
<1> QED BY <1>5, <1>6, SumSame

\* The sums of two sets that share nothing add up.
LEMMA SumUnion ==
    ASSUME NEW S, IsFiniteSet(S), NEW T, IsFiniteSet(T), S \cap T = {},
           NEW f, \A x \in S \cup T : f[x] \in Int
    PROVE  SumFunctionOnSet(f, S \cup T) = SumFunctionOnSet(f, S) + SumFunctionOnSet(f, T)
<1> DEFINE P == {R \in SUBSET T : SumFunctionOnSet(f, S \cup R)
                                   = SumFunctionOnSet(f, S) + SumFunctionOnSet(f, R)}
<1>1. SumFunctionOnSet(f, S) \in Int
  <2>1. \A x \in S : f[x] \in Int
    OBVIOUS
  <2> QED BY <2>1, SumStep
<1>2. {} \in P
  <2>1. S \cup {} = S /\ SumFunctionOnSet(f, {}) = 0
    BY SumStep
  <2> QED BY <1>1, <2>1
<1>3. ASSUME NEW R \in SUBSET T, R # {}, \A x \in R : R \ {x} \in P PROVE R \in P
  <2>1. PICK x : x \in R
    BY <1>3
  <2> DEFINE Q == R \ {x}
             U == S \cup Q
  <2>2. IsFiniteSet(R) /\ (\A z \in R : f[z] \in Int) /\ IsFiniteSet(Q) /\ IsFiniteSet(U)
    <3>1. R \in SUBSET T /\ Q \in SUBSET T
      OBVIOUS
    <3>2. IsFiniteSet(R) /\ IsFiniteSet(Q)
      <4> HIDE DEF Q
      <4> QED BY <3>1, FS_Subset
    <3>3. IsFiniteSet(U)
      <4> HIDE DEF Q
      <4> QED BY <3>2, FS_Union
    <3> QED BY <3>2, <3>3
  <2>3. /\ SumFunctionOnSet(f, R) = f[x] + SumFunctionOnSet(f, Q)
        /\ SumFunctionOnSet(f, Q) \in Int
    BY <2>1, <2>2, SumRemove
  <2>4. x \notin U /\ U \cup {x} = S \cup R /\ (\A z \in U \cup {x} : f[z] \in Int) /\ f[x] \in Int
    BY <2>1
  <2>5. SumFunctionOnSet(f, U \cup {x}) = f[x] + SumFunctionOnSet(f, U)
    <3> HIDE DEF U
    <3> QED BY <2>2, <2>4, SumAdd
  <2>6. SumFunctionOnSet(f, U) = SumFunctionOnSet(f, S) + SumFunctionOnSet(f, Q)
    BY <1>3, <2>1
  <2>7. SumFunctionOnSet(f, S \cup R) = f[x] + SumFunctionOnSet(f, U)
    <3> HIDE DEF U, Q
    <3> QED BY <2>4, <2>5
  <2>8. SumFunctionOnSet(f, S \cup R) = SumFunctionOnSet(f, S) + SumFunctionOnSet(f, R)
    <3>1. f[x] \in Int
      BY <2>4
    <3> DEFINE a == SumFunctionOnSet(f, S)
               b == SumFunctionOnSet(f, Q)
               c == SumFunctionOnSet(f, U)
               d == SumFunctionOnSet(f, S \cup R)
               e == SumFunctionOnSet(f, R)
               v == f[x]
    <3>2. /\ a \in Int /\ b \in Int /\ v \in Int
          /\ c = a + b /\ d = v + c /\ e = v + b
      BY <1>1, <2>3, <2>6, <2>7, <3>1
    <3> HIDE DEF a, b, c, d, e, v, U, Q
    <3>3. d = a + e
      BY <3>2
    <3> QED BY <3>3 DEF a, d, e
  <2> QED BY <2>8
<1>4. \A R \in SUBSET T : R \in P
  <2> HIDE DEF P
  <2> QED BY <1>2, <1>3, FiniteDescent
<1> QED BY <1>4

\* Renaming the elements does not change a sum.
LEMMA SumRenamed ==
    ASSUME NEW S, IsFiniteSet(S), NEW T, NEW b \in Bijection(S, T),
           NEW f, NEW g, \A x \in S : g[x] \in Int /\ f[b[x]] = g[x]
    PROVE  SumFunctionOnSet(f, T) = SumFunctionOnSet(g, S)
<1>1. /\ b \in [S -> T] /\ \A t \in T : \E x \in S : b[x] = t
      /\ \A x, y \in S : b[x] = b[y] => x = y
  BY DEF Bijection, Injection, Surjection, IsInjective
<1>2. IsFiniteSet(T)
  BY FS_Bijection, <1>1 DEF ExistsBijection
<1>3. ASSUME NEW t \in T PROVE f[t] = SumFunctionOnSet(g, Class(S, b, t))
  <2>1. PICK x \in S : b[x] = t
    BY <1>1
  <2>2. Class(S, b, t) = {x}
    BY <1>1, <2>1 DEF Class
  <2>3. SumFunctionOnSet(g, {x}) = g[x]
    <3>1. IsFiniteSet({x}) /\ (\A z \in {x} : g[z] \in Int) /\ x \in {x} /\ {x} \ {x} = {}
      BY FS_Singleton
    <3>2. SumFunctionOnSet(g, {x}) = g[x] + SumFunctionOnSet(g, {x} \ {x})
      BY <3>1, SumRemove
    <3>3. SumFunctionOnSet(g, {}) = 0
      BY <3>1, SumStep
    <3>4. g[x] \in Int
      OBVIOUS
    <3>5. SumFunctionOnSet(g, {x} \ {x}) = 0
      BY <3>1, <3>3
    <3> QED BY <3>2, <3>4, <3>5
  <2> QED BY <2>1, <2>2, <2>3
<1>4. (\A x \in S : g[x] \in Int) /\ (\A x \in S : b[x] \in T)
  BY <1>1
<1> QED BY <1>2, <1>3, <1>4, SumOfGroups

\* No more than all: the sum of a part of numbers that are not negative.
LEMMA SumOfPart ==
    ASSUME NEW S, IsFiniteSet(S), NEW R \in SUBSET S, NEW f, \A x \in S : f[x] \in Int
    PROVE  SumFunctionOnSet(f, S) = SumFunctionOnSet(f, R) + SumFunctionOnSet(f, S \ R)
<1>1. IsFiniteSet(R) /\ IsFiniteSet(S \ R) /\ R \cap (S \ R) = {} /\ R \cup (S \ R) = S
  BY FS_Subset, FS_Difference
<1> DEFINE U == S \ R
<1>2. IsFiniteSet(R) /\ IsFiniteSet(U) /\ R \cap U = {} /\ R \cup U = S
  BY <1>1
<1> HIDE DEF U
<1>3. SumFunctionOnSet(f, R \cup U) = SumFunctionOnSet(f, R) + SumFunctionOnSet(f, U)
  BY <1>2, SumUnion
<1> QED BY <1>2, <1>3 DEF U

-----------------------------------------------------------------------------
(* Ranking a finite set.                                                   *)

\* The elements of S that come before y in the order R, a set of pairs.
AheadOf(S, R, y) == {x \in S : <<x, y>> \in R}
StrictOrder(S, R) ==
    /\ \A x \in S : <<x, x>> \notin R
    /\ \A x, y, z \in S : <<x, y>> \in R /\ <<y, z>> \in R => <<x, z>> \in R
    /\ \A x, y \in S : x # y => <<x, y>> \in R \/ <<y, x>> \in R
Ranked(S, R) ==
    [i \in 1..Cardinality(S) |-> CHOOSE y \in S : Cardinality(AheadOf(S, R, y)) = i - 1]

\* Taking from a finite set the element with i - 1 elements before it, for each i,
\* sorts the set.
LEMMA RankedSorts ==
    ASSUME NEW S, IsFiniteSet(S), NEW R, StrictOrder(S, R)
    PROVE  /\ Ranked(S, R) \in Bijection(1..Cardinality(S), S)
           /\ \A i, j \in 1..Cardinality(S) : i < j => <<Ranked(S, R)[i], Ranked(S, R)[j]>> \in R
<1> DEFINE n == Cardinality(S)
           rank == [y \in S |-> Cardinality(AheadOf(S, R, y))]
           I == 0..(n - 1)
<1>1. n \in Nat
  BY FS_CardinalityType
<1>2. ASSUME NEW y \in S
      PROVE  IsFiniteSet(AheadOf(S, R, y)) /\ rank[y] \in Nat /\ rank[y] < n
  <2> DEFINE B == AheadOf(S, R, y)
  <2>1. B \in SUBSET S /\ y \notin B
    BY DEF AheadOf, StrictOrder
  <2>2. IsFiniteSet(B) /\ Cardinality(B) <= n /\ (n = Cardinality(B) => S = B)
    <3> HIDE DEF B
    <3> QED BY <2>1, FS_Subset
  <2>3. Cardinality(B) \in Nat
    <3> HIDE DEF B
    <3> QED BY <2>2, FS_CardinalityType
  <2>4. rank[y] = Cardinality(B)
    OBVIOUS
  <2> HIDE DEF B, rank, n
  <2> QED BY <1>1, <2>1, <2>2, <2>3, <2>4 DEF B
<1>3. ASSUME NEW x \in S, NEW y \in S, <<x, y>> \in R PROVE rank[x] < rank[y]
  <2> DEFINE A == AheadOf(S, R, x)
             B == AheadOf(S, R, y)
  <2>1. A \in SUBSET B /\ A # B
    BY <1>3 DEF AheadOf, StrictOrder
  <2>2. IsFiniteSet(B) /\ rank[x] \in Nat /\ rank[y] \in Nat
    BY <1>2
  <2>3. rank[x] = Cardinality(A) /\ rank[y] = Cardinality(B)
    OBVIOUS
  <2> HIDE DEF A, B, rank
  <2>4. Cardinality(A) <= Cardinality(B) /\ (Cardinality(B) = Cardinality(A) => B = A)
    BY <2>1, <2>2, FS_Subset
  <2> QED BY <2>1, <2>2, <2>3, <2>4
<1> HIDE DEF rank
<1>4. \A x, y \in S : rank[x] = rank[y] => x = y
  <2> SUFFICES ASSUME NEW x \in S, NEW y \in S, rank[x] = rank[y], x # y PROVE FALSE
    OBVIOUS
  <2>1. <<x, y>> \in R \/ <<y, x>> \in R
    BY DEF StrictOrder
  <2>2. rank[x] < rank[y] \/ rank[y] < rank[x]
    BY <1>3, <2>1
  <2> QED BY <1>2, <2>2
<1>5. rank \in Surjection(S, I)
  <2>1. \A y \in S : rank[y] \in I
    BY <1>1, <1>2
  <2>2. rank \in [S -> I]
    BY <2>1 DEF rank
  <2>3. rank \in Injection(S, I)
    <3> HIDE DEF I
    <3> QED BY <1>4, <2>2 DEF Injection, IsInjective
  <2>4. IsFiniteSet(I) /\ Cardinality(I) = n
    <3>1. IsFiniteSet(0..(n - 1)) /\ Cardinality(0..(n - 1)) = IF 0 > n - 1 THEN 0 ELSE (n - 1) - 0 + 1
      <4> HIDE DEF n
      <4> QED BY <1>1, FS_Interval
    <3> HIDE DEF n
    <3> QED BY <1>1, <3>1
  <2> HIDE DEF I
  <2>5. Cardinality(S) = Cardinality(I) <=> rank \in Surjection(S, I)
    BY ONLY <2>3, <2>4, FS_Injection
  <2> QED BY <2>4, <2>5
<1>6. \A i \in 1..n : \E y \in S : rank[y] = i - 1
  <2> SUFFICES ASSUME NEW i \in 1..n PROVE \E y \in S : rank[y] = i - 1
    OBVIOUS
  <2>1. i - 1 \in I
    BY <1>1
  <2> HIDE DEF I
  <2> QED BY <1>5, <2>1 DEF Surjection
<1> DEFINE g == Ranked(S, R)
<1>7. /\ g = [i \in 1..n |-> g[i]]
      /\ \A i \in 1..n : g[i] = CHOOSE y \in S : Cardinality(AheadOf(S, R, y)) = i - 1
  BY DEF Ranked
<1>8. ASSUME NEW i \in 1..n PROVE g[i] \in S /\ rank[g[i]] = i - 1
  <2>1. \E y \in S : Cardinality(AheadOf(S, R, y)) = i - 1
    BY <1>6 DEF rank
  <2>2. g[i] \in S /\ Cardinality(AheadOf(S, R, g[i])) = i - 1
    <3> HIDE DEF g, n
    <3> QED BY <1>7, <2>1
  <2> HIDE DEF g
  <2> QED BY <2>2 DEF rank
<1> HIDE DEF g, I
<1>9. ASSUME NEW i \in 1..n, NEW j \in 1..n, i < j PROVE <<g[i], g[j]>> \in R
  <2>1. rank[g[i]] < rank[g[j]] /\ rank[g[i]] \in Nat /\ rank[g[j]] \in Nat
    BY <1>1, <1>2, <1>8, <1>9
  <2>2. ~(<<g[j], g[i]>> \in R)
    BY <1>3, <1>8, <2>1
  <2>3. g[i] # g[j]
    BY <2>1
  <2> QED BY <1>8, <2>2, <2>3 DEF StrictOrder
<1>10. g \in Bijection(1..n, S)
  <2>1. g \in [1..n -> S]
    BY <1>7, <1>8
  <2>2. \A i, j \in 1..n : g[i] = g[j] => i = j
    <3> SUFFICES ASSUME NEW i \in 1..n, NEW j \in 1..n, g[i] = g[j] PROVE i = j
      OBVIOUS
    <3>1. rank[g[i]] = i - 1 /\ rank[g[j]] = j - 1
      BY <1>8
    <3>2. i - 1 = j - 1
      BY <3>1
    <3> QED BY <1>1, <3>2
  <2>3. \A y \in S : \E i \in 1..n : g[i] = y
    <3> SUFFICES ASSUME NEW y \in S PROVE \E i \in 1..n : g[i] = y
      OBVIOUS
    <3> DEFINE i == rank[y] + 1
    <3>1. i \in 1..n /\ i - 1 = rank[y]
      BY <1>1, <1>2
    <3> HIDE DEF i
    <3>2. g[i] \in S /\ rank[g[i]] = rank[y]
      BY <1>8, <3>1
    <3>3. g[i] = y
      BY <1>4, <3>2
    <3> QED BY <3>1, <3>3
  <2> HIDE DEF n
  <2> QED BY <2>1, <2>2, <2>3 DEF Bijection, Injection, Surjection, IsInjective
<1> QED BY <1>9, <1>10 DEF g
=============================================================================
