---------------------------- MODULE AlertProofs ----------------------------
(***************************************************************************)
(* Proofs about the numbers and the alerts made from them.                 *)
(*                                                                         *)
(* Metrics: the aggregates equal a rebuild from the events, a snapshot     *)
(* adds up, the verdicts of the rules are what their comments promise.     *)
(* AlertEvaluator: type correctness, alerts that do not flap, and the      *)
(* agreement of memory, table and clients.                                 *)
(***************************************************************************)
EXTENDS AlertProperties, MetricsProperties, SequenceFacts

-----------------------------------------------------------------------------
(* Buckets of time.                                                        *)

\* A bucket and what is left of the time make up the time.
LEMMA Quotient ==
    ASSUME NEW t \in Int, NEW u \in Nat \ {0}
    PROVE  t \div u \in Int /\ u * (t \div u) <= t /\ t < u * (t \div u) + u
<1>1. t \div u \in Int /\ t % u \in 0..(u - 1)
  OBVIOUS
<1>2. t = u * (t \div u) + (t % u)
  OBVIOUS
<1> QED BY <1>1, <1>2

\* Multiplying by a positive number keeps the order.
LEMMA Multiples ==
    ASSUME NEW a \in Int, NEW b \in Int, NEW u \in Nat \ {0}, a <= b
    PROVE  u * a <= u * b
<1> DEFINE p == u * a
           q == u * b
           r == u * (b - a)
<1>1. p \in Int /\ q \in Int /\ r \in Nat
  OBVIOUS
<1>2. q = p + r
  OBVIOUS
<1> HIDE DEF p, q, r
<1>3. p <= q
  BY <1>1, <1>2
<1> QED BY <1>3 DEF p, q

\* The times of a bucket and of those before it, of a bucket and of those after it.
LEMMA BucketSpan ==
    ASSUME NEW t \in Int, NEW u \in Nat \ {0}, NEW b \in Int
    PROVE  /\ Bucket(u, t) \in Int
           /\ (Bucket(u, t) <= b) <=> t < (b + 1) * u
           /\ (b <= Bucket(u, t)) <=> b * u <= t
<1> DEFINE d == t \div u
<1>1. d \in Int /\ u * d <= t /\ t < u * d + u
  BY Quotient
<1> HIDE DEF d
<1>2. u * (d + 1) = u * d + u
  BY <1>1
<1>3. d <= b => t < u * (b + 1)
  <2>1. d <= b => u * (d + 1) <= u * (b + 1)
    BY Multiples, <1>1
  <2> QED BY <2>1, <1>1, <1>2
<1>4. d > b => t >= u * (b + 1)
  <2>1. d > b => u * (b + 1) <= u * d
    BY Multiples, <1>1
  <2> QED BY <2>1, <1>1
<1>5. b <= d => u * b <= t
  <2>1. b <= d => u * b <= u * d
    BY Multiples, <1>1
  <2> QED BY <2>1, <1>1
<1>6. b > d => t < u * b
  <2>1. b > d => u * (d + 1) <= u * b
    BY Multiples, <1>1
  <2> QED BY <2>1, <1>1, <1>2
<1>7. (b + 1) * u = u * (b + 1) /\ b * u = u * b
  OBVIOUS
<1>8. (d <= b) <=> t < u * (b + 1)
  <2>1. u * (b + 1) \in Int
    OBVIOUS
  <2> QED BY <1>1, <1>3, <1>4, <2>1
<1>9. (b <= d) <=> u * b <= t
  <2>1. u * b \in Int
    OBVIOUS
  <2> QED BY <1>1, <1>5, <1>6, <2>1
<1> QED BY <1>1, <1>7, <1>8, <1>9 DEF d, Bucket

-----------------------------------------------------------------------------
(* The aggregates.                                                         *)

\* What the settings promise, in the form the proofs use.
LEMMA Settings ==
    /\ Minute \in Nat \ {0} /\ Hour \in Nat \ {0} /\ "all" \notin Dimensions
    /\ \A k \in Kinds : k.amount \in Nat /\ \A d \in Dimensions : k.dims[d] \in Int
BY MetricsAssumption

\* A row of the events table.
Rows == [kind : Kinds, at : Int, wrote : Int]
Priced(group) == \A row \in group : row.kind.amount \in Nat

\* The amount of a finite group of rows is a sum over it, and a natural number.
LEMMA AmountType ==
    ASSUME NEW G, IsFiniteSet(G), Priced(G)
    PROVE  /\ Amount(G) = SumFunctionOnSet([row \in G |-> row.kind.amount], G)
           /\ Amount(G) \in Nat
           /\ G = {} => Amount(G) = 0
<1> DEFINE f == [row \in G |-> row.kind.amount]
<1>1. DOMAIN f = G /\ \A row \in G : f[row] \in Nat
  BY DEF Priced
<1> HIDE DEF f
<1>2. /\ SumFunctionOnSet(f, G) \in Nat
      /\ (\A x \in G : f[x] = 0) => SumFunctionOnSet(f, G) = 0
  BY <1>1, SumNat
<1>3. Amount(G) = SumFunctionOnSet(f, DOMAIN f)
  BY DEF Amount, SumFunction, f
<1>4. Amount(G) = SumFunctionOnSet(f, G)
  BY <1>1, <1>3
<1>5. G = {} => Amount(G) = 0
  BY <1>2, <1>4
<1> QED BY <1>2, <1>4, <1>5 DEF f

\* The amounts of two groups that share no row.
LEMMA AmountUnion ==
    ASSUME NEW G, IsFiniteSet(G), NEW H, IsFiniteSet(H), G \cap H = {}, Priced(G), Priced(H)
    PROVE  Amount(G \cup H) = Amount(G) + Amount(H)
<1> DEFINE U == G \cup H
           f == [row \in U |-> row.kind.amount]
           g == [row \in G |-> row.kind.amount]
           h == [row \in H |-> row.kind.amount]
<1>1. IsFiniteSet(U) /\ Priced(U)
  BY FS_Union DEF Priced
<1>2. /\ Amount(U) = SumFunctionOnSet(f, U) /\ Amount(G) = SumFunctionOnSet(g, G)
      /\ Amount(H) = SumFunctionOnSet(h, H)
  <2> HIDE DEF U
  <2> QED BY <1>1, AmountType
<1>3. \A x \in G : g[x] \in Int /\ f[x] = g[x]
  BY DEF Priced
<1>4. \A x \in H : h[x] \in Int /\ f[x] = h[x]
  BY DEF Priced
<1>5. \A x \in G \cup H : f[x] \in Int
  BY <1>3, <1>4
<1> HIDE DEF f, g, h
<1>6. SumFunctionOnSet(f, G) = SumFunctionOnSet(g, G)
  BY <1>3, SumSame
<1>7. SumFunctionOnSet(f, H) = SumFunctionOnSet(h, H)
  BY <1>4, SumSame
<1>8. SumFunctionOnSet(f, G \cup H) = SumFunctionOnSet(f, G) + SumFunctionOnSet(f, H)
  BY <1>5, SumUnion
<1> QED BY <1>2, <1>6, <1>7, <1>8

\* The rows that count in a key.
Counting(rws, unit, k) == {row \in rws : k \in Keys(row, unit)}

\* What REBUILD_EXPECTED_SQL holds for a key is made from the rows that count in it.
LEMMA RollupRow ==
    ASSUME NEW G, NEW unit
    PROVE  /\ DOMAIN Rollup(G, unit) = UNION {Keys(row, unit) : row \in G}
           /\ \A k : k \in DOMAIN Rollup(G, unit) <=> Counting(G, unit, k) # {}
           /\ \A k \in DOMAIN Rollup(G, unit) :
                 Rollup(G, unit)[k] = [count |-> Cardinality(Counting(G, unit, k)),
                                       amount |-> Amount(Counting(G, unit, k))]
BY DEF Rollup, Counting

\* What a table that was computed from a set of rows holds for a key, also for one
\* that it does not have.
LEMMA RollupAt ==
    ASSUME NEW G, IsFiniteSet(G), Priced(G), NEW unit, NEW k
    PROVE  At(Rollup(G, unit), k, Empty)
               = [count |-> Cardinality(Counting(G, unit, k)),
                  amount |-> Amount(Counting(G, unit, k))]
<1>1. CASE k \in DOMAIN Rollup(G, unit)
  <2> HIDE DEF Rollup
  <2> QED BY <1>1, RollupRow DEF At
<1>2. CASE k \notin DOMAIN Rollup(G, unit)
  <2>1. Counting(G, unit, k) = {}
    BY <1>2, RollupRow
  <2>2. Amount({}) = 0 /\ Cardinality({}) = 0
    <3>1. IsFiniteSet({}) /\ Priced({})
      BY FS_EmptySet DEF Priced
    <3> QED BY <3>1, AmountType, FS_EmptySet
  <2> QED BY <1>2, <2>1, <2>2 DEF At, Empty
<1> QED BY <1>1, <1>2

\* Two rows of a table add up field by field.
LEMMA AddUpRows ==
    ASSUME NEW a, NEW b, NEW c, NEW d
    PROVE  AddUp([count |-> a, amount |-> b], [count |-> c, amount |-> d])
               = [count |-> a + c, amount |-> b + d]
BY DEF AddUp

\* Adding up tables is as good as computing one from all rows.
LEMMA RollupUpsert ==
    ASSUME NEW G, IsFiniteSet(G), NEW H, IsFiniteSet(H), G \cap H = {}, Priced(G), Priced(H),
           NEW unit
    PROVE  Upsert(Rollup(G, unit), Rollup(H, unit), Empty) = Rollup(G \cup H, unit)
<1> DEFINE U == G \cup H
           old == Rollup(G, unit)
           new == Rollup(H, unit)
           all == Rollup(U, unit)
<1>1. DOMAIN all = DOMAIN old \cup DOMAIN new
  <2>1. \A k : k \in DOMAIN all <=> Counting(U, unit, k) # {}
    <3> HIDE DEF U
    <3> QED BY RollupRow
  <2>2. \A k : Counting(U, unit, k) = Counting(G, unit, k) \cup Counting(H, unit, k)
    BY DEF Counting
  <2>3. \A k : /\ k \in DOMAIN old <=> Counting(G, unit, k) # {}
               /\ k \in DOMAIN new <=> Counting(H, unit, k) # {}
    BY RollupRow
  <2> HIDE DEF all, old, new
  <2> QED BY <2>1, <2>2, <2>3
<1>2. ASSUME NEW k \in DOMAIN all
      PROVE  AddUp(At(old, k, Empty), At(new, k, Empty)) = all[k]
  <2> DEFINE a == Counting(G, unit, k)
             b == Counting(H, unit, k)
  <2>1. /\ Counting(U, unit, k) = a \cup b /\ a \cap b = {}
        /\ a \subseteq G /\ b \subseteq H /\ Priced(a) /\ Priced(b)
    BY DEF Counting, Priced
  <2>2. IsFiniteSet(a) /\ IsFiniteSet(b)
    <3> HIDE DEF a, b
    <3> QED BY <2>1, FS_Subset
  <2>3. Cardinality(a \cup b) = Cardinality(a) + Cardinality(b)
    <3> HIDE DEF a, b
    <3>1. Cardinality(a \cup b) = Cardinality(a) + Cardinality(b) - Cardinality(a \cap b)
      BY <2>2, FS_Union
    <3>2. Cardinality(a \cap b) = 0 /\ Cardinality(a) \in Nat /\ Cardinality(b) \in Nat
      BY <2>1, <2>2, FS_EmptySet, FS_CardinalityType
    <3> QED BY <3>1, <3>2
  <2>4. Amount(a \cup b) = Amount(a) + Amount(b)
    <3> HIDE DEF a, b
    <3> QED BY <2>1, <2>2, AmountUnion
  <2>5. all[k] = [count |-> Cardinality(a \cup b), amount |-> Amount(a \cup b)]
    <3>1. all[k] = [count |-> Cardinality(Counting(U, unit, k)),
                    amount |-> Amount(Counting(U, unit, k))]
      <4> HIDE DEF U
      <4> QED BY <1>2, RollupRow
    <3> HIDE DEF a, b, U, all
    <3> QED BY <2>1, <3>1
  <2>6. /\ At(old, k, Empty) = [count |-> Cardinality(a), amount |-> Amount(a)]
        /\ At(new, k, Empty) = [count |-> Cardinality(b), amount |-> Amount(b)]
    BY RollupAt
  <2> HIDE DEF a, b, old, new, all
  <2>7. AddUp(At(old, k, Empty), At(new, k, Empty))
          = [count |-> Cardinality(a) + Cardinality(b), amount |-> Amount(a) + Amount(b)]
    BY <2>6, AddUpRows
  <2> QED BY <2>3, <2>4, <2>5, <2>7
<1>3. all = [k \in DOMAIN all |-> all[k]]
  BY DEF Rollup
<1> HIDE DEF old, new, all
<1>4. Upsert(old, new, Empty) = all
  BY <1>1, <1>2, <1>3 DEF Upsert
<1> QED BY <1>4 DEF old, new, all

\* The rows that the events of a batch become, written at w.
Copy(r, w) == [kind |-> r.kind, at |-> r.at, wrote |-> w]
Copies(events, w) == {Copy(r, w) : r \in events}

\* Stamping events with the time of their commit loses none and changes no amount.
LEMMA CopiesCount ==
    ASSUME NEW N \in SUBSET [kind : Kinds, at : Int], IsFiniteSet(N), NEW w
    PROVE  /\ IsFiniteSet(Copies(N, w)) /\ Cardinality(Copies(N, w)) = Cardinality(N)
           /\ Priced(N) /\ Priced(Copies(N, w)) /\ Amount(Copies(N, w)) = Amount(N)
<1> DEFINE C == Copies(N, w)
           b == [r \in N |-> Copy(r, w)]
           f == [row \in C |-> row.kind.amount]
           g == [row \in N |-> row.kind.amount]
<1>1. Priced(N) /\ Priced(C)
  BY Settings DEF Priced, Copies, Copy
<1>2. b \in Bijection(N, C)
  <2>1. b \in [N -> C] /\ \A c \in C : \E r \in N : b[r] = c
    BY DEF Copies
  <2>2. ASSUME NEW r \in N, NEW s \in N, b[r] = b[s] PROVE r = s
    <3>1. r.kind = s.kind /\ r.at = s.at
      BY <2>2 DEF Copy
    <3> QED BY <3>1
  <2> HIDE DEF b, C
  <2> QED BY <2>1, <2>2 DEF Bijection, Injection, Surjection, IsInjective
<1>3. IsFiniteSet(C) /\ Cardinality(C) = Cardinality(N)
  <2> HIDE DEF b, C
  <2> QED BY <1>2, FS_Bijection DEF ExistsBijection
<1>4. \A r \in N : g[r] \in Int /\ f[b[r]] = g[r]
  BY <1>1 DEF Priced, Copies, Copy
<1>5. Amount(N) = SumFunctionOnSet(g, N)
  BY <1>1, AmountType
<1>6. Amount(C) = SumFunctionOnSet(f, C)
  <2> HIDE DEF C
  <2> QED BY <1>1, <1>3, AmountType
<1>7. SumFunctionOnSet(f, C) = SumFunctionOnSet(g, N)
  <2> HIDE DEF f, g, b, C
  <2> QED BY <1>2, <1>4, SumRenamed
<1> QED BY <1>1, <1>3, <1>5, <1>6, <1>7

\* The time of the commit does not matter to the aggregates.
LEMMA CopiesRollup ==
    ASSUME NEW N \in SUBSET [kind : Kinds, at : Int], IsFiniteSet(N), NEW w, NEW unit
    PROVE  Rollup(Copies(N, w), unit) = Rollup(N, unit)
<1> DEFINE C == Copies(N, w)
<1>1. \A k : Counting(C, unit, k) = Copies(Counting(N, unit, k), w)
  <2>1. \A r : Keys(Copy(r, w), unit) = Keys(r, unit)
    BY DEF Copy, Keys
  <2> QED BY <2>1 DEF Counting, Copies
<1>2. ASSUME NEW k
      PROVE  /\ Cardinality(Counting(C, unit, k)) = Cardinality(Counting(N, unit, k))
             /\ Amount(Counting(C, unit, k)) = Amount(Counting(N, unit, k))
             /\ Counting(C, unit, k) # {} <=> Counting(N, unit, k) # {}
  <2> DEFINE G == Counting(N, unit, k)
  <2>1. G \in SUBSET N
    BY DEF Counting
  <2>2. IsFiniteSet(G) /\ G \in SUBSET [kind : Kinds, at : Int]
    <3> HIDE DEF G
    <3> QED BY <2>1, FS_Subset
  <2>3. Cardinality(Copies(G, w)) = Cardinality(G) /\ Amount(Copies(G, w)) = Amount(G)
    <3> HIDE DEF G
    <3> QED BY <2>2, CopiesCount
  <2>4. Copies(G, w) # {} <=> G # {}
    BY DEF Copies
  <2> HIDE DEF G
  <2> QED BY <1>1, <2>3, <2>4 DEF G
<1> DEFINE old == Rollup(N, unit)
           new == Rollup(C, unit)
<1>3. old = [k \in DOMAIN old |-> old[k]] /\ new = [k \in DOMAIN new |-> new[k]]
  BY DEF Rollup
<1>4. \A k : k \in DOMAIN new <=> Counting(C, unit, k) # {}
  <2> HIDE DEF C
  <2> QED BY RollupRow
<1>5. \A k : k \in DOMAIN old <=> Counting(N, unit, k) # {}
  BY RollupRow
<1>6. \A k \in DOMAIN new : new[k] = [count |-> Cardinality(Counting(C, unit, k)),
                                      amount |-> Amount(Counting(C, unit, k))]
  <2> HIDE DEF C
  <2> QED BY RollupRow
<1>7. \A k \in DOMAIN old : old[k] = [count |-> Cardinality(Counting(N, unit, k)),
                                      amount |-> Amount(Counting(N, unit, k))]
  BY RollupRow
<1> HIDE DEF old, new, C
<1>8. DOMAIN old = DOMAIN new
  BY <1>2, <1>4, <1>5
<1>9. \A k \in DOMAIN new : new[k] = old[k]
  BY <1>2, <1>6, <1>7, <1>8
<1>10. new = old
  BY <1>3, <1>8, <1>9
<1> QED BY <1>10 DEF old, new, C

-----------------------------------------------------------------------------
(* The invariant.                                                          *)

CountsOf(bucket) == At(stats, bucket, NoStats)

\* Types, and no row is written after the last commit.
MetricsTypeOK ==
    /\ now \in Int /\ lastCommit \in Int /\ lastCommit <= now
    /\ rows \in SUBSET Rows /\ IsFiniteSet(rows)
    /\ \A r \in rows : r.wrote <= lastCommit
    /\ DOMAIN stats \in SUBSET Int /\ IsFiniteSet(DOMAIN stats)
    /\ \A b \in DOMAIN stats : stats[b] \in [accepted : Nat, duplicates : Nat, rejected : Nat]

WrittenIn(b) == {r \in rows : Bucket(Minute, r.wrote) = b}

\* The tables are what a rebuild would give.
TablesOK ==
    /\ aggMinute = Rollup(rows, Minute) /\ aggHour = Rollup(rows, Hour)
    /\ \A b \in Int : CountsOf(b).accepted = Cardinality(WrittenIn(b))

\* A batch is finite, and its duplicates are as many as it has events beyond the new ones.
LEMMA BatchIsFinite ==
    ASSUME NEW batch \in {<<a>> : a \in Valid} \cup {<<a, b>> : a, b \in Valid}, now \in Int
    PROVE  /\ ToSet(batch) \in SUBSET [kind : Kinds, at : Int] /\ IsFiniteSet(ToSet(batch))
           /\ IsFiniteSet(Inserted(batch)) /\ Inserted(batch) \in SUBSET ToSet(batch)
           /\ Len(batch) - Cardinality(Inserted(batch)) \in Nat
<1>1. Valid \in SUBSET [kind : Kinds, at : Int]
  BY MetricsAssumption DEF Valid
<1>2. PICK a \in Valid, b \in Valid : batch = <<a>> \/ batch = <<a, b>>
  <2>1. CASE batch \in {<<a>> : a \in Valid}
    <3>1. PICK a \in Valid : batch = <<a>>
      BY <2>1
    <3> HIDE DEF Valid
    <3> QED BY <3>1
  <2>2. CASE batch \in {<<a, b>> : a, b \in Valid}
    <3> HIDE DEF Valid
    <3> QED BY <2>2
  <2> QED BY <2>1, <2>2
<1>3. \/ ToSet(batch) = {a} /\ Len(batch) = 1
      \/ ToSet(batch) = {a} \cup {b} /\ Len(batch) = 2
  BY <1>2 DEF ToSet
<1>4. /\ ToSet(batch) \in SUBSET Valid /\ IsFiniteSet(ToSet(batch))
      /\ Cardinality(ToSet(batch)) <= Len(batch)
  <2>1. IsFiniteSet({a}) /\ Cardinality({a}) = 1
    <3>1. IsFiniteSet({a})
      BY FS_Singleton
    <3>2. Cardinality({a}) = 1
      BY <3>1, FS_Singleton
    <3> QED BY <3>1, <3>2
  <2>2. IsFiniteSet({a} \cup {b}) /\ Cardinality({a} \cup {b}) <= 2
    BY ONLY <2>1, FS_AddElement
  <2>3. {a} \in SUBSET Valid /\ {a} \cup {b} \in SUBSET Valid
    OBVIOUS
  <2>4. CASE ToSet(batch) = {a} /\ Len(batch) = 1
    BY <2>1, <2>3, <2>4
  <2>5. CASE ToSet(batch) = {a} \cup {b} /\ Len(batch) = 2
    BY <2>2, <2>3, <2>5
  <2> QED BY <1>3, <2>4, <2>5
<1>5. Inserted(batch) \in SUBSET ToSet(batch)
  BY DEF Inserted
<1>6. IsFiniteSet(Inserted(batch)) /\ Cardinality(Inserted(batch)) <= Cardinality(ToSet(batch))
  BY <1>4, <1>5, FS_Subset
<1>7. Len(batch) - Cardinality(Inserted(batch)) \in Nat
  <2>1. Cardinality(Inserted(batch)) \in Nat /\ Cardinality(ToSet(batch)) \in Nat
    BY <1>4, <1>6, FS_CardinalityType
  <2>2. Len(batch) \in Nat
    BY <1>3
  <2> QED BY <1>4, <1>6, <2>1, <2>2
<1> QED BY <1>1, <1>4, <1>5, <1>6, <1>7

\* n more are counted as accepted in the minute in progress, and none in the others.
CountedMore(n) ==
    \A b \in Int : CountsOf(b)'.accepted = CountsOf(b).accepted + (IF b = Now(Minute) THEN n ELSE 0)

\* Counting adds to the minute in progress and leaves the other minutes alone.
LEMMA CountAdds ==
    ASSUME NEW a \in Nat, NEW d \in Nat, NEW r \in Nat, MetricsTypeOK, Count(a, d, r)
    PROVE  /\ DOMAIN stats' \in SUBSET Int /\ IsFiniteSet(DOMAIN stats')
           /\ \A b \in DOMAIN stats' :
                 stats'[b] \in [accepted : Nat, duplicates : Nat, rejected : Nat]
           /\ CountedMore(a)
<1> DEFINE m == Now(Minute)
           rec == [accepted |-> a, duplicates |-> d, rejected |-> r]
           Three == [accepted : Nat, duplicates : Nat, rejected : Nat]
           one == [b \in {m} |-> rec]
           D == DOMAIN stats \cup {m}
<1>1. m \in Int
  BY Settings, BucketSpan DEF MetricsTypeOK, Now
<1>2. stats' = [k \in D |-> AddUp(At(stats, k, NoStats), At(one, k, NoStats))]
  BY DEF Count, Upsert
<1>3. DOMAIN stats \in SUBSET Int /\ IsFiniteSet(DOMAIN stats)
      /\ \A b \in DOMAIN stats : stats[b] \in Three
  BY DEF MetricsTypeOK
<1>4. \A k : /\ At(stats, k, NoStats) \in Three
             /\ At(one, k, NoStats) = IF k = m THEN rec ELSE NoStats
  <2>1. rec \in Three /\ NoStats \in Three
    BY DEF NoStats
  <2> QED BY <1>3, <2>1 DEF At
<1>5. \A x \in Three, y \in Three :
         AddUp(x, y) \in Three /\ AddUp(x, y).accepted = x.accepted + y.accepted
  BY DEF AddUp
<1>6. rec \in Three /\ rec.accepted = a /\ NoStats \in Three /\ NoStats.accepted = 0
  BY DEF NoStats
<1>7. DOMAIN stats' = D
  BY <1>2
<1>8. D \in SUBSET Int /\ IsFiniteSet(D)
  <2> HIDE DEF m
  <2> QED BY <1>1, <1>3, FS_AddElement
<1>9. \A b \in D : stats'[b] \in Three
  <2> HIDE DEF D, one, rec, Three, m
  <2> QED BY <1>2, <1>4, <1>5, <1>6
<1>10. ASSUME NEW b \in Int
       PROVE  CountsOf(b)'.accepted = CountsOf(b).accepted + (IF b = m THEN a ELSE 0)
  <2>1. CountsOf(b)' = IF b \in D THEN stats'[b] ELSE NoStats
    BY <1>7 DEF CountsOf, At
  <2>2. CountsOf(b) \in Three /\ CountsOf(b) = At(stats, b, NoStats)
    BY <1>4 DEF CountsOf
  <2>3. CASE b \in D
    <3>1. CountsOf(b)' = AddUp(CountsOf(b), At(one, b, NoStats))
      <4> HIDE DEF D, one
      <4> QED BY <1>2, <2>1, <2>2, <2>3
    <3>2. At(one, b, NoStats) \in Three
          /\ At(one, b, NoStats).accepted = IF b = m THEN a ELSE 0
      <4> HIDE DEF rec, Three, m, one
      <4> QED BY <1>4, <1>6
    <3> HIDE DEF Three, m, one, rec
    <3> QED BY <1>5, <2>2, <3>1, <3>2
  <2>4. CASE b \notin D
    <3>1. CountsOf(b) = NoStats /\ CountsOf(b)' = NoStats /\ b # m
      BY <2>1, <2>4 DEF CountsOf, At
    <3> QED BY <3>1 DEF NoStats
  <2> QED BY <2>3, <2>4
<1> HIDE DEF D
<1> QED BY <1>7, <1>8, <1>9, <1>10 DEF CountedMore

\* Without a commit the tables and the events stay.
LEMMA TablesStay ==
    ASSUME MetricsTypeOK, TablesOK, UNCHANGED <<rows, aggMinute, aggHour>>,
           \A b \in Int : CountsOf(b)'.accepted = CountsOf(b).accepted
    PROVE  TablesOK'
<1>1. \A b : WrittenIn(b)' = WrittenIn(b)
  BY DEF WrittenIn, Bucket
<1>2. Rollup(rows, Minute)' = Rollup(rows, Minute) /\ Rollup(rows, Hour)' = Rollup(rows, Hour)
  BY DEF Rollup, Keys, Bucket, Amount
<1> QED BY <1>1, <1>2 DEF TablesOK

\* Adding a batch's rollup to the tables leaves what a rebuild from all rows would.
LEMMA TablesCommit ==
    ASSUME MetricsTypeOK, TablesOK,
           NEW new \in SUBSET [kind : Kinds, at : Int], IsFiniteSet(new),
           \A r \in new : ~Stored(r),
           rows' = rows \cup Copies(new, now),
           aggMinute' = Upsert(aggMinute, Rollup(new, Minute), Empty),
           aggHour' = Upsert(aggHour, Rollup(new, Hour), Empty),
           CountedMore(Cardinality(new))
    PROVE  /\ TablesOK' /\ rows' \in SUBSET Rows /\ IsFiniteSet(rows')
           /\ rows \cap Copies(new, now) = {}
<1> DEFINE C == Copies(new, now)
<1>1. /\ IsFiniteSet(C) /\ Cardinality(C) = Cardinality(new) /\ Priced(C)
      /\ Rollup(C, Minute) = Rollup(new, Minute) /\ Rollup(C, Hour) = Rollup(new, Hour)
  BY CopiesCount, CopiesRollup DEF MetricsTypeOK
<1>2. C \in SUBSET Rows /\ \A c \in C : c.wrote = now
  BY DEF Copies, Copy, Rows, MetricsTypeOK
<1>3. rows \cap C = {}
  BY DEF Copies, Copy, Stored
<1>4. Priced(rows) /\ IsFiniteSet(rows)
  BY Settings DEF Priced, MetricsTypeOK, Rows
<1>5. rows' = rows \cup C
  OBVIOUS
<1> HIDE DEF C
<1>6. IsFiniteSet(rows') /\ rows' \in SUBSET Rows
  <2>1. IsFiniteSet(rows \cup C)
    BY <1>1, <1>4, FS_Union
  <2>2. rows \cup C \in SUBSET Rows
    BY <1>2 DEF MetricsTypeOK
  <2> QED BY <1>5, <2>1, <2>2
<1>7. /\ Upsert(Rollup(rows, Minute), Rollup(C, Minute), Empty) = Rollup(rows \cup C, Minute)
      /\ Upsert(Rollup(rows, Hour), Rollup(C, Hour), Empty) = Rollup(rows \cup C, Hour)
  BY <1>1, <1>3, <1>4, RollupUpsert
<1>8. aggMinute' = Rollup(rows', Minute) /\ aggHour' = Rollup(rows', Hour)
  BY <1>1, <1>5, <1>7 DEF TablesOK
<1>9. ASSUME NEW b \in Int PROVE CountsOf(b)'.accepted = Cardinality(WrittenIn(b)')
  <2>1. WrittenIn(b)' = {r \in rows \cup C : Bucket(Minute, r.wrote) = b}
    BY <1>5 DEF WrittenIn, Bucket
  <2>2. \A c \in C : Bucket(Minute, c.wrote) = Now(Minute)
    BY <1>2 DEF Now
  <2>3. CountsOf(b).accepted = Cardinality(WrittenIn(b))
    BY DEF TablesOK
  <2>4. IsFiniteSet(WrittenIn(b)) /\ WrittenIn(b) \subseteq rows
    <3>1. WrittenIn(b) \in SUBSET rows
      BY DEF WrittenIn
    <3> QED BY <1>4, <3>1, FS_Subset
  <2>5. CASE b = Now(Minute)
    <3>1. WrittenIn(b)' = WrittenIn(b) \cup C
      BY <2>1, <2>2, <2>5 DEF WrittenIn
    <3>2. Cardinality(WrittenIn(b) \cup C)
            = Cardinality(WrittenIn(b)) + Cardinality(C) - Cardinality(WrittenIn(b) \cap C)
      BY <1>1, <2>4, FS_Union
    <3>3. Cardinality(WrittenIn(b) \cap C) = 0
      <4>1. WrittenIn(b) \cap C = {}
        BY <1>3, <2>4
      <4> QED BY <4>1, FS_EmptySet
    <3>4. Cardinality(WrittenIn(b)) \in Nat /\ Cardinality(C) \in Nat
      BY <1>1, <2>4, FS_CardinalityType
    <3> QED BY <1>1, <2>3, <2>5, <3>1, <3>2, <3>3, <3>4 DEF CountedMore
  <2>6. CASE b # Now(Minute)
    <3>1. WrittenIn(b)' = WrittenIn(b)
      BY <2>1, <2>2, <2>6 DEF WrittenIn
    <3>2. Cardinality(WrittenIn(b)) \in Nat
      BY <2>4, FS_CardinalityType
    <3> QED BY <2>3, <2>6, <3>1, <3>2 DEF CountedMore
  <2> QED BY <2>5, <2>6
<1> QED BY <1>3, <1>6, <1>8, <1>9 DEF TablesOK, C

-----------------------------------------------------------------------------
(* The samples of the rate meter.                                          *)

\* A sample of the rate meter: when, and how many.
Sample == [at : Int, count : Nat]
Counts(log) == [i \in DOMAIN log |-> log[i].count]
Since(log, t) == {i \in DOMAIN log : log[i].at >= t}
SumSince(log, t) == SumFunctionOnSet(Counts(log), Since(log, t))

\* In the order of their times, with the sum of their counts.
LogOK(log, sum) ==
    /\ log \in Seq(Sample)
    /\ \A i, j \in DOMAIN log : i < j => log[i].at <= log[j].at
    /\ sum = SumFunctionOnSet(Counts(log), DOMAIN log)

\* Any of the samples of a log have a sum.
LEMMA LogSums ==
    ASSUME NEW log \in Seq(Sample)
    PROVE  /\ DOMAIN log = 1..Len(log) /\ IsFiniteSet(DOMAIN log)
           /\ \A i \in DOMAIN log : Counts(log)[i] \in Nat
           /\ \A R \in SUBSET DOMAIN log :
                 IsFiniteSet(R) /\ SumFunctionOnSet(Counts(log), R) \in Nat
<1>1. DOMAIN log = 1..Len(log) /\ Len(log) \in Nat
  OBVIOUS
<1>2. IsFiniteSet(DOMAIN log)
  BY <1>1, FS_Interval
<1>3. \A i \in DOMAIN log : Counts(log)[i] \in Nat
  <2>1. \A i \in DOMAIN log : log[i] \in Sample
    BY <1>1
  <2> QED BY <2>1 DEF Counts, Sample
<1>4. ASSUME NEW R \in SUBSET DOMAIN log
      PROVE  IsFiniteSet(R) /\ SumFunctionOnSet(Counts(log), R) \in Nat
  <2>1. IsFiniteSet(R)
    BY <1>2, FS_Subset
  <2> DEFINE f == Counts(log)
  <2>2. \A i \in R : f[i] \in Nat
    BY <1>3
  <2> HIDE DEF f
  <2>3. SumFunctionOnSet(f, R) \in Nat
    BY <2>1, <2>2, SumNat
  <2> QED BY <2>1, <2>3 DEF f
<1> QED BY <1>1, <1>2, <1>3, <1>4

\* A sample at the end.
LEMMA LogAppend ==
    ASSUME NEW log, NEW sum, LogOK(log, sum), NEW t \in Int, NEW c \in Nat,
           \A i \in DOMAIN log : log[i].at <= t
    PROVE  LET longer == Append(log, [at |-> t, count |-> c])
           IN  /\ LogOK(longer, sum + c)
               /\ \A i \in DOMAIN longer : longer[i].at <= t
               /\ \A u \in Int : SumSince(longer, u) = SumSince(log, u) + (IF t >= u THEN c ELSE 0)
<1> DEFINE longer == Append(log, [at |-> t, count |-> c])
           n == Len(log) + 1
           f == Counts(log)
           g == Counts(longer)
<1>1. log \in Seq(Sample) /\ [at |-> t, count |-> c] \in Sample
  BY DEF LogOK, Sample
<1>2. /\ longer \in Seq(Sample) /\ n \in Nat /\ DOMAIN log = 1..(n - 1)
      /\ DOMAIN longer = DOMAIN log \cup {n} /\ n \notin DOMAIN log
      /\ \A i \in DOMAIN log : longer[i] = log[i]
      /\ longer[n] = [at |-> t, count |-> c]
  BY <1>1
<1> HIDE DEF longer, n
<1>3. \A i, j \in DOMAIN longer : i < j => longer[i].at <= longer[j].at
  <2> SUFFICES ASSUME NEW i \in DOMAIN longer, NEW j \in DOMAIN longer, i < j
               PROVE  longer[i].at <= longer[j].at
    OBVIOUS
  <2>1. i \in DOMAIN log
    BY <1>2
  <2>2. CASE j \in DOMAIN log
    BY <1>2, <2>1, <2>2 DEF LogOK
  <2>3. CASE j = n
    BY <1>2, <2>1, <2>3
  <2> QED BY <1>2, <2>2, <2>3
<1>4. \A i \in DOMAIN longer : longer[i].at <= t
  BY <1>2
<1>5. /\ \A i \in DOMAIN log : g[i] = f[i] /\ f[i] \in Nat
      /\ g[n] = c
  BY <1>1, <1>2, LogSums DEF Counts
<1> HIDE DEF f, g
<1>6. ASSUME NEW R \in SUBSET DOMAIN log
      PROVE  /\ SumFunctionOnSet(g, R) = SumFunctionOnSet(f, R)
             /\ SumFunctionOnSet(g, R \cup {n}) = c + SumFunctionOnSet(f, R)
  <2>1. IsFiniteSet(R)
    BY <1>1, LogSums
  <2>2. \A i \in R : f[i] \in Int /\ g[i] = f[i]
    BY <1>5
  <2>3. SumFunctionOnSet(g, R) = SumFunctionOnSet(f, R)
    BY <2>1, <2>2, SumSame
  <2>4. n \notin R /\ \A i \in R \cup {n} : g[i] \in Int
    BY <1>2, <1>5
  <2>5. SumFunctionOnSet(g, R \cup {n}) = g[n] + SumFunctionOnSet(g, R)
    BY <2>1, <2>4, SumAdd
  <2> QED BY <1>5, <2>3, <2>5
<1>7. /\ \A R \in SUBSET DOMAIN log : SumFunctionOnSet(f, R) \in Nat
      /\ sum = SumFunctionOnSet(f, DOMAIN log)
  BY <1>1, LogSums DEF LogOK, f
<1>8. sum + c = SumFunctionOnSet(g, DOMAIN longer)
  <2>1. SumFunctionOnSet(g, DOMAIN log \cup {n}) = c + SumFunctionOnSet(f, DOMAIN log)
    BY <1>6
  <2>2. SumFunctionOnSet(f, DOMAIN log) \in Nat
    BY <1>7
  <2> QED BY <1>2, <1>7, <2>1, <2>2
<1>9. ASSUME NEW u \in Int
      PROVE  SumSince(longer, u) = SumSince(log, u) + (IF t >= u THEN c ELSE 0)
  <2> DEFINE R == Since(log, u)
  <2>1. /\ R \in SUBSET DOMAIN log
        /\ Since(longer, u) = IF t >= u THEN R \cup {n} ELSE R
    BY <1>2 DEF Since
  <2> HIDE DEF R
  <2>2. SumFunctionOnSet(f, R) \in Nat
    BY <1>7, <2>1
  <2>3. SumFunctionOnSet(g, Since(longer, u)) = SumFunctionOnSet(f, R) + (IF t >= u THEN c ELSE 0)
    BY <1>6, <2>1, <2>2
  <2> QED BY <2>3 DEF SumSince, R, f, g
<1>10. LogOK(longer, sum + c)
  BY <1>2, <1>3, <1>8 DEF LogOK, g
<1> QED BY <1>4, <1>9, <1>10 DEF longer

\* What _prune() drops is the front part of the log that the window has left behind.
LEMMA LogExpired ==
    ASSUME NEW log, NEW sum, LogOK(log, sum), now \in Int
    PROVE  /\ Expired(log) \in 0..Len(log)
           /\ \A i \in DOMAIN log : InWindow(log[i]) <=> i > Expired(log)
<1> DEFINE young == {i \in DOMAIN log : InWindow(log[i])}
<1>1. /\ log \in Seq(Sample) /\ Len(log) \in Nat /\ DOMAIN log = 1..Len(log)
      /\ \A i \in DOMAIN log : log[i].at \in Int
      /\ \A i, j \in DOMAIN log : i < j => log[i].at <= log[j].at
  <2>1. log \in Seq(Sample)
    BY DEF LogOK
  <2>2. \A i \in DOMAIN log : log[i] \in Sample
    BY <2>1
  <2> QED BY <2>1, <2>2 DEF LogOK, Sample
<1>2. CASE young = {}
  <2>1. Expired(log) = Len(log)
    BY <1>2 DEF Expired
  <2> QED BY <1>1, <1>2, <2>1
<1>3. CASE young # {}
  <2>1. young \in SUBSET Nat /\ young \in SUBSET DOMAIN log
    BY <1>1
  <2>2. \E x \in young : \A y \in young : x <= y
    <3> HIDE DEF young
    <3> QED BY <1>3, <2>1, LeastNumber
  <2> DEFINE m == Min(young)
  <2>3. m \in young /\ \A y \in young : m <= y
    <3> HIDE DEF young
    <3> QED BY <2>2 DEF Min
  <2>4. Expired(log) = m - 1
    BY <1>3 DEF Expired
  <2> HIDE DEF m
  <2>5. m \in 1..Len(log) /\ InWindow(log[m])
    BY <1>1, <2>3
  <2>6. \A i \in DOMAIN log : i >= m => InWindow(log[i])
    <3> TAKE i \in DOMAIN log
    <3> HAVE i >= m
    <3>1. CASE i = m
      BY <2>5, <3>1
    <3>2. CASE i > m
      <4>1. log[m].at <= log[i].at /\ log[m].at \in Int /\ log[i].at \in Int
        BY <1>1, <2>5, <3>2
      <4>2. now - RateWindow \in Int
        BY MetricsAssumption
      <4> QED BY <2>5, <4>1, <4>2 DEF InWindow
    <3> QED BY <1>1, <2>5, <3>1, <3>2
  <2>7. \A i \in DOMAIN log : InWindow(log[i]) => i >= m
    BY <2>3
  <2> HIDE DEF young
  <2> QED BY <1>1, <2>4, <2>5, <2>6, <2>7
<1> QED BY <1>2, <1>3

\* _prune() drops what is out of the window from the total too (rate_meter.py:31-36).
LEMMA LogPrune ==
    ASSUME NEW log, NEW sum, LogOK(log, sum), now \in Int
    PROVE  LET rest == SubSeq(log, Expired(log) + 1, Len(log))
               start == now - RateWindow
           IN  /\ LogOK(rest, Remaining(log, sum))
               /\ \A i \in DOMAIN rest : \E j \in DOMAIN log : rest[i] = log[j]
               /\ \A u \in Int : u >= start => SumSince(rest, u) = SumSince(log, u)
               /\ Remaining(log, sum) = SumSince(log, start)
<1> DEFINE n == Expired(log)
           m == Len(log)
           rest == SubSeq(log, n + 1, m)
           f == Counts(log)
           g == Counts(rest)
           gone == 1..n
           kept == n + 1..m
           start == now - RateWindow
<1>1. /\ log \in Seq(Sample) /\ m \in Nat /\ DOMAIN log = 1..m /\ n \in 0..m
      /\ sum = SumFunctionOnSet(f, DOMAIN log)
      /\ \A i, j \in DOMAIN log : i < j => log[i].at <= log[j].at
      /\ \A i \in DOMAIN log : log[i].at >= start <=> i > n
  <2>1. n \in 0..m /\ \A i \in DOMAIN log : InWindow(log[i]) <=> i > n
    BY LogExpired
  <2> QED BY <2>1 DEF LogOK, InWindow
<1>2. /\ rest \in Seq(Sample) /\ DOMAIN rest = 1..(m - n)
      /\ \A i \in 1..(m - n) : rest[i] = log[n + i]
  <2>1. /\ rest \in Seq(Sample) /\ Len(rest) = m - n
        /\ \A i \in 1..(m - n) : rest[i] = log[n + i]
    <3> HIDE DEF n
    <3> QED BY <1>1, CutInTwo
  <2> HIDE DEF rest
  <2>2. DOMAIN rest = 1..Len(rest)
    BY <2>1
  <2> QED BY <2>1, <2>2
<1> HIDE DEF n, m, rest
<1>3. /\ \A i \in DOMAIN log : f[i] \in Nat
      /\ \A R \in SUBSET DOMAIN log : IsFiniteSet(R) /\ SumFunctionOnSet(f, R) \in Nat
      /\ \A R \in SUBSET DOMAIN rest : IsFiniteSet(R) /\ SumFunctionOnSet(g, R) \in Nat
  BY <1>1, <1>2, LogSums
<1>4. /\ gone \in SUBSET DOMAIN log /\ kept \in SUBSET DOMAIN log
      /\ DOMAIN log \ gone = kept
  BY <1>1
<1>5. \A i \in DOMAIN rest : n + i \in DOMAIN log /\ g[i] = f[n + i] /\ rest[i] = log[n + i]
  BY <1>1, <1>2 DEF Counts
<1>6. sum = SumFunctionOnSet(f, gone) + SumFunctionOnSet(f, kept)
  <2>1. IsFiniteSet(DOMAIN log) /\ \A i \in DOMAIN log : f[i] \in Int
    BY <1>3
  <2> HIDE DEF f, gone, kept
  <2>2. SumFunctionOnSet(f, DOMAIN log)
          = SumFunctionOnSet(f, gone) + SumFunctionOnSet(f, DOMAIN log \ gone)
    BY <1>4, <2>1, SumOfPart
  <2> QED BY <1>1, <1>4, <2>2
<1>7. Remaining(log, sum) = sum - SumFunctionOnSet(f, gone)
  <2> DEFINE h == [i \in gone |-> log[i].count]
  <2>1. DOMAIN h = gone /\ \A i \in gone : h[i] = f[i] /\ f[i] \in Int
    BY <1>3, <1>4 DEF Counts
  <2>2. Remaining(log, sum) = sum - SumFunctionOnSet(h, DOMAIN h)
    BY DEF Remaining, SumFunction, n
  <2>3. IsFiniteSet(gone)
    <3> HIDE DEF gone, f
    <3> QED BY <1>3, <1>4
  <2> HIDE DEF h, gone, f
  <2>4. SumFunctionOnSet(h, gone) = SumFunctionOnSet(f, gone)
    BY <2>1, <2>3, SumSame
  <2> QED BY <2>1, <2>2, <2>4
<1>8. Remaining(log, sum) = SumFunctionOnSet(f, kept)
  <2>1. SumFunctionOnSet(f, gone) \in Nat /\ SumFunctionOnSet(f, kept) \in Nat
    BY <1>3, <1>4
  <2> QED BY <1>6, <1>7, <2>1
<1>9. kept = Since(log, start)
  BY <1>1 DEF Since
<1>10. ASSUME NEW R \in SUBSET DOMAIN rest, NEW T \in SUBSET DOMAIN log,
              \A i \in R : n + i \in T, \A j \in T : j - n \in R
       PROVE  SumFunctionOnSet(g, R) = SumFunctionOnSet(f, T)
  <2> DEFINE b == [i \in R |-> n + i]
  <2>1. R \in SUBSET Int /\ T \in SUBSET Int /\ n \in Int
    BY <1>1, <1>2
  <2>2. b \in Bijection(R, T)
    <3>1. b \in [R -> T]
      BY <1>10
    <3>2. ASSUME NEW i \in R, NEW j \in R, b[i] = b[j] PROVE i = j
      <4>1. n + i = n + j /\ i \in Int /\ j \in Int
        BY <2>1, <3>2
      <4> QED BY <2>1, <4>1
    <3>3. \A j \in T : \E i \in R : b[i] = j
      <4> TAKE j \in T
      <4>1. j - n \in R /\ n + (j - n) = j
        BY <1>10, <2>1
      <4> QED BY <4>1
    <3> HIDE DEF b
    <3> QED BY <3>1, <3>2, <3>3 DEF Bijection, Injection, Surjection, IsInjective
  <2>3. IsFiniteSet(R) /\ \A i \in R : g[i] \in Int /\ f[b[i]] = g[i]
    <3>1. \A i \in R : i \in DOMAIN rest
      OBVIOUS
    <3>2. \A i \in R : g[i] = f[n + i] /\ n + i \in DOMAIN log
      BY <1>5, <3>1
    <3>3. IsFiniteSet(R)
      BY <1>3
    <3> HIDE DEF f, g
    <3> QED BY <1>3, <3>2, <3>3
  <2> HIDE DEF b, f, g
  <2> QED BY <2>2, <2>3, SumRenamed
<1>11. Remaining(log, sum) = SumFunctionOnSet(g, DOMAIN rest)
  <2>1. /\ \A i \in DOMAIN rest : n + i \in kept
        /\ \A j \in kept : j - n \in DOMAIN rest
    BY <1>1, <1>2
  <2>2. SumFunctionOnSet(g, DOMAIN rest) = SumFunctionOnSet(f, kept)
    <3> HIDE DEF kept, f, g
    <3> QED BY <1>4, <1>10, <2>1
  <2> QED BY <1>8, <2>2
<1>12. ASSUME NEW u \in Int, u >= start PROVE SumSince(rest, u) = SumSince(log, u)
  <2>1. /\ \A i \in Since(rest, u) : n + i \in Since(log, u)
    BY <1>5 DEF Since
  <2>2. \A j \in Since(log, u) : j - n \in Since(rest, u)
    <3> TAKE j \in Since(log, u)
    <3>1. j \in 1..m /\ log[j].at >= u /\ log[j].at \in Int
      <4>1. j \in 1..m /\ log[j].at >= u
        BY <1>1 DEF Since
      <4>2. log[j] \in Sample
        BY <1>1, <4>1
      <4> QED BY <4>1, <4>2 DEF Sample
    <3>2. start \in Int
      BY MetricsAssumption
    <3>3. j > n
      <4> HIDE DEF start
      <4> QED BY <1>1, <1>12, <3>1, <3>2
    <3>4. j - n \in DOMAIN rest /\ n + (j - n) = j
      BY <1>1, <1>2, <3>1, <3>3
    <3>5. rest[j - n] = log[j]
      BY <1>5, <3>4
    <3> QED BY <3>1, <3>4, <3>5 DEF Since
  <2>3. Since(rest, u) \in SUBSET DOMAIN rest /\ Since(log, u) \in SUBSET DOMAIN log
    BY DEF Since
  <2>4. SumFunctionOnSet(g, Since(rest, u)) = SumFunctionOnSet(f, Since(log, u))
    <3> HIDE DEF f, g
    <3> QED BY <1>10, <2>1, <2>2, <2>3
  <2> QED BY <2>4 DEF SumSince
<1>13. LogOK(rest, Remaining(log, sum))
  <2>1. \A i, j \in DOMAIN rest : i < j => rest[i].at <= rest[j].at
    <3> SUFFICES ASSUME NEW i \in DOMAIN rest, NEW j \in DOMAIN rest, i < j
                 PROVE  rest[i].at <= rest[j].at
      OBVIOUS
    <3>1. n + i < n + j
      BY <1>1, <1>2
    <3> QED BY <1>1, <1>5, <3>1
  <2> QED BY <1>2, <1>11, <2>1 DEF LogOK
<1>14. Remaining(log, sum) = SumSince(log, start)
  BY <1>8, <1>9 DEF SumSince
<1>15. \A i \in DOMAIN rest : \E j \in DOMAIN log : rest[i] = log[j]
  BY <1>5
<1> QED BY <1>12, <1>13, <1>14, <1>15 DEF rest, n, m

\* The rate meter: samples in order, none ahead of the clock, and what they add up to since
\* any time in the window is what was written since.
SamplesOK ==
    /\ LogOK(samples, total) /\ \A i \in DOMAIN samples : samples[i].at <= now
    /\ \A t \in Int : t >= now - RateWindow =>
          SumSince(samples, t) = Cardinality(WrittenSince(t))

\* The inductive invariant.
MetricsIInv == MetricsTypeOK /\ TablesOK /\ SamplesOK

\* The invariant holds at the start.
LEMMA MetricsStart == MetricsInit => MetricsIInv
<1> SUFFICES ASSUME MetricsInit PROVE MetricsIInv
  OBVIOUS
<1> USE DEF MetricsInit
<1>1. MetricsTypeOK
  <2>1. IsFiniteSet({}) /\ DOMAIN stats = {}
    BY FS_EmptySet
  <2> QED BY <2>1, MetricsAssumption DEF MetricsTypeOK, None
<1>2. TablesOK
  <2>1. <<>> = [k \in {} |-> [count |-> 0, amount |-> 0]]
    OBVIOUS
  <2>2. \A unit : Rollup({}, unit) = <<>>
    BY DEF Rollup
  <2>3. \A b : WrittenIn(b) = {} /\ CountsOf(b).accepted = 0
    BY DEF WrittenIn, CountsOf, At, NoStats
  <2> QED BY <2>2, <2>3, FS_EmptySet DEF TablesOK
<1>3. SamplesOK
  <2>1. <<>> \in Seq(Sample) /\ DOMAIN <<>> = {}
    OBVIOUS
  <2>2. SumFunctionOnSet(Counts(<<>>), {}) = 0
    <3> DEFINE f == Counts(<<>>)
    <3>1. IsFiniteSet({}) /\ \A x \in {} : f[x] \in Int
      BY FS_EmptySet
    <3> HIDE DEF f
    <3>2. SumFunctionOnSet(f, {}) = 0
      BY <3>1, SumStep
    <3> QED BY <3>2 DEF f
  <2>3. \A t : Since(<<>>, t) = {} /\ WrittenSince(t) = {}
    BY <2>1 DEF Since, WrittenSince
  <2> QED BY <2>1, <2>2, <2>3, FS_EmptySet DEF SamplesOK, LogOK, SumSince
<1> QED BY <1>1, <1>2, <1>3 DEF MetricsIInv

\* Events written now are all in, or all out, of what was written since t.
LEMMA WrittenSinceCommit ==
    ASSUME MetricsTypeOK, NEW new \in SUBSET [kind : Kinds, at : Int], IsFiniteSet(new),
           rows' = rows \cup Copies(new, now), rows \cap Copies(new, now) = {}, NEW t \in Int
    PROVE  Cardinality(WrittenSince(t)')
              = Cardinality(WrittenSince(t)) + (IF now >= t THEN Cardinality(new) ELSE 0)
<1> DEFINE C == Copies(new, now)
           W == WrittenSince(t)
<1>1. IsFiniteSet(C) /\ Cardinality(C) = Cardinality(new)
  BY CopiesCount
<1>2. \A c \in C : c.wrote = now
  BY DEF Copies, Copy
<1>3. W \in SUBSET rows /\ IsFiniteSet(rows)
  BY DEF WrittenSince, MetricsTypeOK
<1>4. WrittenSince(t)' = {r \in rows \cup C : r.wrote >= t}
  BY DEF WrittenSince
<1>5. WrittenSince(t)' = IF now >= t THEN W \cup C ELSE W
  <2> HIDE DEF C
  <2> QED BY <1>2, <1>4 DEF WrittenSince
<1> HIDE DEF C, W
<1>6. IsFiniteSet(W)
  BY <1>3, FS_Subset
<1>7. Cardinality(W \cup C) = Cardinality(W) + Cardinality(C) - Cardinality(W \cap C)
  BY <1>1, <1>6, FS_Union
<1>8. Cardinality(W \cap C) = 0
  <2>1. W \cap C = {}
    BY <1>3 DEF C
  <2> QED BY <2>1, FS_EmptySet
<1>9. Cardinality(W) \in Nat /\ Cardinality(C) \in Nat
  BY <1>1, <1>6, FS_CardinalityType
<1>10. CASE now >= t
  BY <1>1, <1>5, <1>7, <1>8, <1>9, <1>10 DEF W
<1>11. CASE ~(now >= t)
  BY <1>5, <1>9, <1>11 DEF W
<1> QED BY <1>10, <1>11

\* Pruning a log that agrees with the events leaves one that does.
LEMMA PruneKeeps ==
    ASSUME NEW log, NEW sum, LogOK(log, sum), now \in Int, Prune(log, sum), now' = now,
           \A i \in DOMAIN log : log[i].at <= now,
           \A t \in Int : t >= now - RateWindow =>
              SumSince(log, t) = Cardinality(WrittenSince(t)')
    PROVE  SamplesOK'
<1> DEFINE rest == SubSeq(log, Expired(log) + 1, Len(log))
<1>1. samples' = rest /\ total' = Remaining(log, sum)
  BY DEF Prune
<1>2. /\ LogOK(rest, Remaining(log, sum))
      /\ \A i \in DOMAIN rest : \E j \in DOMAIN log : rest[i] = log[j]
      /\ \A u \in Int : u >= now - RateWindow => SumSince(rest, u) = SumSince(log, u)
  BY LogPrune
<1> HIDE DEF rest
<1>3. LogOK(samples', total')
  BY <1>1, <1>2
<1>4. LogOK(samples, total)'
  BY <1>3 DEF LogOK, Counts
<1>5. \A t : SumSince(samples', t) = SumSince(samples, t)'
  BY DEF SumSince, Since, Counts
<1>6. \A i \in DOMAIN samples' : samples'[i].at <= now
  BY <1>1, <1>2
<1> QED BY <1>1, <1>2, <1>4, <1>5, <1>6 DEF SamplesOK

\* A commit, with repeated events or not, keeps the invariant.
LEMMA CommitKeeps == MetricsIInv /\ Commit => MetricsIInv'
<1> SUFFICES ASSUME MetricsIInv, Commit PROVE MetricsIInv'
  OBVIOUS
<1> USE DEF MetricsIInv
<1>1. PICK batch \in {<<a>> : a \in Valid} \cup {<<a, b>> : a, b \in Valid} :
         LET new == Inserted(batch)
             repeated == Len(batch) - Cardinality(new)
         IN  /\ rows' = rows \cup {[kind |-> r.kind, at |-> r.at, wrote |-> now] : r \in new}
             /\ aggMinute' = Upsert(aggMinute, Rollup(new, Minute), Empty)
             /\ aggHour' = Upsert(aggHour, Rollup(new, Hour), Empty)
             /\ Count(Cardinality(new), repeated, 0)
             /\ Prune(Append(samples, [at |-> now, count |-> Cardinality(new)]),
                      total + Cardinality(new))
  BY DEF Commit
<1>2. lastCommit' = now /\ now' = now
  BY DEF Commit
<1> DEFINE new == Inserted(batch)
           n == Cardinality(new)
           repeated == Len(batch) - n
           longer == Append(samples, [at |-> now, count |-> n])
<1>3. now \in Int /\ lastCommit <= now
  BY DEF MetricsTypeOK
<1>4. /\ new \in SUBSET [kind : Kinds, at : Int] /\ IsFiniteSet(new) /\ n \in Nat
      /\ \A r \in new : ~Stored(r)
  <2>1. /\ ToSet(batch) \in SUBSET [kind : Kinds, at : Int] /\ IsFiniteSet(ToSet(batch))
        /\ IsFiniteSet(new) /\ new \in SUBSET ToSet(batch)
    BY <1>3, BatchIsFinite
  <2>2. \A r \in new : ~Stored(r)
    BY DEF Inserted
  <2>3. n \in Nat
    <3> HIDE DEF new
    <3> QED BY <2>1, FS_CardinalityType
  <2> HIDE DEF new
  <2> QED BY <2>1, <2>2, <2>3
<1>5. repeated \in Nat
  BY <1>3, BatchIsFinite
<1>6. /\ rows' = rows \cup Copies(new, now)
      /\ aggMinute' = Upsert(aggMinute, Rollup(new, Minute), Empty)
      /\ aggHour' = Upsert(aggHour, Rollup(new, Hour), Empty)
      /\ Count(n, repeated, 0) /\ Prune(longer, total + n)
  BY <1>1 DEF Copies, Copy
<1> HIDE DEF new, repeated, n, longer
<1>7. LogOK(longer, total + n)
      /\ (\A i \in DOMAIN longer : longer[i].at <= now)
      /\ \A u \in Int : SumSince(longer, u) = SumSince(samples, u) + (IF now >= u THEN n ELSE 0)
  BY <1>3, <1>4, LogAppend DEF SamplesOK, longer
<1>8. /\ DOMAIN stats' \in SUBSET Int /\ IsFiniteSet(DOMAIN stats')
      /\ \A b \in DOMAIN stats' :
            stats'[b] \in [accepted : Nat, duplicates : Nat, rejected : Nat]
      /\ CountedMore(n)
  BY <1>4, <1>5, <1>6, CountAdds
<1>9. /\ TablesOK' /\ rows' \in SUBSET Rows /\ IsFiniteSet(rows')
      /\ rows \cap Copies(new, now) = {}
  <2>1. MetricsTypeOK /\ TablesOK
    OBVIOUS
  <2>2. /\ rows' = rows \cup Copies(new, now)
        /\ aggMinute' = Upsert(aggMinute, Rollup(new, Minute), Empty)
        /\ aggHour' = Upsert(aggHour, Rollup(new, Hour), Empty)
        /\ CountedMore(Cardinality(new))
    BY <1>6, <1>8 DEF n
  <2>3. new \in SUBSET [kind : Kinds, at : Int] /\ IsFiniteSet(new) /\ \A r \in new : ~Stored(r)
    BY <1>4
  <2> QED BY ONLY <2>1, <2>2, <2>3, TablesCommit
<1>10. \A r \in rows' : r.wrote <= now
  <2>1. \A r \in rows : r.wrote \in Int /\ r.wrote <= lastCommit /\ lastCommit \in Int
    BY DEF MetricsTypeOK, Rows
  <2>2. \A r \in Copies(new, now) : r.wrote = now
    BY DEF Copies, Copy
  <2> QED BY <1>3, <1>6, <2>1, <2>2
<1>11. MetricsTypeOK'
  BY <1>2, <1>3, <1>8, <1>9, <1>10 DEF MetricsTypeOK
<1>12. ASSUME NEW t \in Int, t >= now - RateWindow
       PROVE  SumSince(longer, t) = Cardinality(WrittenSince(t)')
  <2>1. Cardinality(WrittenSince(t)')
           = Cardinality(WrittenSince(t)) + (IF now >= t THEN n ELSE 0)
    BY <1>4, <1>6, <1>9, WrittenSinceCommit DEF n
  <2>2. SumSince(samples, t) = Cardinality(WrittenSince(t))
    BY <1>12 DEF SamplesOK
  <2> QED BY <1>7, <2>1, <2>2
<1>13. SamplesOK'
  BY <1>2, <1>3, <1>6, <1>7, <1>12, PruneKeeps
<1> QED BY <1>9, <1>11, <1>13

\* Counting a dead letter keeps the invariant.
LEMMA RejectKeeps == MetricsIInv /\ Reject => MetricsIInv'
<1> SUFFICES ASSUME MetricsIInv, Reject PROVE MetricsIInv'
  OBVIOUS
<1> USE DEF MetricsIInv
<1>1. /\ Count(0, 0, 1)
      /\ UNCHANGED <<now, rows, aggMinute, aggHour, samples, total, lastCommit>>
  BY DEF Reject
<1>2. /\ DOMAIN stats' \in SUBSET Int /\ IsFiniteSet(DOMAIN stats')
      /\ \A b \in DOMAIN stats' :
            stats'[b] \in [accepted : Nat, duplicates : Nat, rejected : Nat]
      /\ CountedMore(0)
  BY <1>1, CountAdds
<1>3. MetricsTypeOK'
  BY <1>1, <1>2 DEF MetricsTypeOK
<1>4. TablesOK'
  <2>1. \A b \in Int : CountsOf(b).accepted = Cardinality(WrittenIn(b))
    BY DEF TablesOK
  <2>2. \A b \in Int : IsFiniteSet(WrittenIn(b))
    <3>1. \A b \in Int : WrittenIn(b) \in SUBSET rows
      BY DEF WrittenIn
    <3> QED BY <3>1, FS_Subset DEF MetricsTypeOK
  <2>3. \A b \in Int : CountsOf(b).accepted \in Nat
    BY <2>1, <2>2, FS_CardinalityType
  <2>4. \A b \in Int : CountsOf(b)'.accepted = CountsOf(b).accepted
    BY <1>2, <2>3 DEF CountedMore
  <2> QED BY <1>1, <2>4, TablesStay
<1>5. SamplesOK'
  BY <1>1 DEF SamplesOK, LogOK, SumSince, Since, Counts, WrittenSince
<1> QED BY <1>3, <1>4, <1>5

\* Reading the rate, which prunes, keeps the invariant.
LEMMA BroadcastKeeps == MetricsIInv /\ Broadcast => MetricsIInv'
<1> SUFFICES ASSUME MetricsIInv, Broadcast PROVE MetricsIInv'
  OBVIOUS
<1> USE DEF MetricsIInv
<1>1. Prune(samples, total) /\ UNCHANGED <<now, rows, aggMinute, aggHour, stats, lastCommit>>
  BY DEF Broadcast
<1>2. MetricsTypeOK'
  BY <1>1 DEF MetricsTypeOK
<1>3. TablesOK'
  BY <1>1, TablesStay DEF CountsOf
<1>4. SamplesOK'
  <2>1. \A t : WrittenSince(t)' = WrittenSince(t)
    BY <1>1 DEF WrittenSince
  <2>2. now \in Int
    BY DEF MetricsTypeOK
  <2> QED BY <1>1, <2>1, <2>2, PruneKeeps DEF SamplesOK
<1> QED BY <1>2, <1>3, <1>4

\* The passing of time keeps the invariant: the window only moves forward.
LEMMA TickKeeps == MetricsIInv /\ Tick => MetricsIInv'
<1> SUFFICES ASSUME MetricsIInv, Tick PROVE MetricsIInv'
  OBVIOUS
<1> USE DEF MetricsIInv
<1>1. /\ now' = now + 1
      /\ UNCHANGED <<rows, aggMinute, aggHour, stats, samples, total, lastCommit>>
  BY DEF Tick
<1>2. now \in Int
  BY DEF MetricsTypeOK
<1>3. MetricsTypeOK'
  BY <1>1, <1>2 DEF MetricsTypeOK
<1>4. TablesOK'
  BY <1>1, TablesStay DEF CountsOf
<1>5. SamplesOK'
  <2>1. LogOK(samples, total)' /\ \A t : SumSince(samples, t)' = SumSince(samples, t)
    BY <1>1 DEF SamplesOK, LogOK, SumSince, Since, Counts
  <2>2. \A t : WrittenSince(t)' = WrittenSince(t)
    BY <1>1 DEF WrittenSince
  <2>3. \A i \in DOMAIN samples : samples[i].at \in Int
    <3>1. \A i \in DOMAIN samples : samples[i] \in Sample
      BY DEF SamplesOK, LogOK
    <3> QED BY <3>1 DEF Sample
  <2>4. \A i \in DOMAIN samples' : samples'[i].at <= now'
    BY <1>1, <1>2, <2>3 DEF SamplesOK
  <2>5. \A t \in Int : t >= now' - RateWindow => t >= now - RateWindow
    BY <1>1, <1>2, MetricsAssumption
  <2> QED BY <1>1, <2>1, <2>2, <2>4, <2>5 DEF SamplesOK
<1> QED BY <1>3, <1>4, <1>5

\* The tables are what a rebuild from the events would give, and the samples of the rate
\* meter count the events written in its window, in every reachable state.
THEOREM MetricsInvariant == MetricsSpec => []MetricsIInv
<1>1. MetricsInit => MetricsIInv
  BY MetricsStart
<1>2. MetricsIInv /\ [MetricsNext]_metricsVars => MetricsIInv'
  <2> SUFFICES ASSUME MetricsIInv, [MetricsNext]_metricsVars PROVE MetricsIInv'
    OBVIOUS
  <2>1. CASE MetricsNext
    BY <2>1, CommitKeeps, RejectKeeps, BroadcastKeeps, TickKeeps DEF MetricsNext
  <2>2. CASE UNCHANGED metricsVars
    <3> USE <2>2 DEF metricsVars, MetricsIInv
    <3>1. MetricsTypeOK'
      BY DEF MetricsTypeOK
    <3>2. TablesOK'
      BY TablesStay DEF CountsOf
    <3>3. SamplesOK'
      BY DEF SamplesOK, LogOK, SumSince, Since, Counts, WrittenSince
    <3> QED BY <3>1, <3>2, <3>3
  <2> QED BY <2>1, <2>2
<1> QED BY <1>1, <1>2, PTL DEF MetricsSpec

\* In every reachable state the aggregate tables equal what REBUILD_EXPECTED_SQL computes
\* from all events at once, and the accepted events of a minute are those written in it
\* (aggregates.py:3-13, 122-144).
THEOREM AggregatesAreRight == MetricsSpec => []AggregatesMatchEvents
<1>1. MetricsIInv => AggregatesMatchEvents
  <2> SUFFICES ASSUME MetricsIInv PROVE AggregatesMatchEvents
    OBVIOUS
  <2>1. \A b \in Bucket(Minute, ClockStart)..Now(Minute) : b \in Int
    OBVIOUS
  <2> QED BY <2>1 DEF MetricsIInv, TablesOK, AggregatesMatchEvents, CountsOf, WrittenIn
<1> QED BY <1>1, MetricsInvariant, PTL

-----------------------------------------------------------------------------
(* Sums over rows of a table are sums over events.                         *)

\* The one key of a dimension that a row counts in.
KeyOf(row, d, unit) ==
    <<d, Bucket(unit, row.at), IF d = "all" THEN "" ELSE row.kind.dims[d], row.kind.type>>

\* GROUPING SETS: in each dimension a row counts in exactly one key.
LEMMA KeysOfRow ==
    ASSUME NEW d \in Dimensions \cup {"all"}, NEW unit, NEW row
    PROVE  /\ KeyOf(row, d, unit) \in Keys(row, unit) /\ KeyOf(row, d, unit)[1] = d
           /\ \A k \in Keys(row, unit) : k[1] = d => k = KeyOf(row, d, unit)
<1>1. "all" \notin Dimensions
  BY Settings
<1> DEFINE b == Bucket(unit, row.at)
           type == row.kind.type
           names == row.kind.dims
<1>2. /\ KeyOf(row, d, unit) = <<d, b, IF d = "all" THEN "" ELSE names[d], type>>
      /\ Keys(row, unit) = {<<"all", b, "", type>>} \cup {<<e, b, names[e], type>> : e \in Dimensions}
  BY DEF Keys, KeyOf
<1> HIDE DEF b, type, names
<1>3. KeyOf(row, d, unit) \in Keys(row, unit)
  <2>1. CASE d = "all"
    BY <1>2, <2>1
  <2>2. CASE d \in Dimensions
    BY <1>1, <1>2, <2>2
  <2> QED BY <2>1, <2>2
<1>4. KeyOf(row, d, unit)[1] = d
  BY DEF KeyOf
<1>5. ASSUME NEW k \in Keys(row, unit), k[1] = d PROVE k = KeyOf(row, d, unit)
  <2>1. CASE k = <<"all", b, "", type>>
    <3>1. d = "all"
      BY <1>5, <2>1
    <3> QED BY <1>2, <2>1, <3>1
  <2>2. CASE \E e \in Dimensions : k = <<e, b, names[e], type>>
    <3>1. PICK e \in Dimensions : k = <<e, b, names[e], type>>
      BY <2>2
    <3>2. d = e /\ d # "all"
      BY <1>1, <1>5, <3>1
    <3> QED BY <1>2, <3>1, <3>2
  <2> QED BY <1>2, <1>5, <2>1, <2>2
<1> QED BY <1>3, <1>4, <1>5

\* Keys of dimension d that the table of the rows has.
KeysIn(K, rws, d, unit) == \A k \in K : k \in DOMAIN Rollup(rws, unit) /\ k[1] = d

\* The rows that count in one of the keys K of dimension d.
Members(rws, d, unit, K) == {row \in rws : KeyOf(row, d, unit) \in K}

\* The rows of a dimension that a table holds are no more than the events they count.
LEMMA KeysGroup ==
    ASSUME NEW R, IsFiniteSet(R), NEW d \in Dimensions \cup {"all"}, NEW unit,
           NEW K, KeysIn(K, R, d, unit)
    PROVE  LET S == Members(R, d, unit, K)
               q == [row \in S |-> KeyOf(row, d, unit)]
           IN  /\ S \in SUBSET R /\ IsFiniteSet(S) /\ IsFiniteSet(K)
               /\ \A row \in S : q[row] \in K
               /\ \A k \in K : Counting(R, unit, k) = Class(S, q, k)
<1> USE DEF KeysIn
<1> DEFINE S == Members(R, d, unit, K)
           q == [row \in S |-> KeyOf(row, d, unit)]
<1>1. S \in SUBSET R
  BY DEF Members
<1>2. IsFiniteSet(S)
  <2> HIDE DEF S
  <2> QED BY <1>1, FS_Subset
<1>3. \A row \in S : q[row] \in K
  BY DEF Members
<1>4. ASSUME NEW k \in K PROVE Counting(R, unit, k) = Class(S, q, k) /\ Counting(R, unit, k) # {}
  <2>1. k[1] = d /\ k \in DOMAIN Rollup(R, unit)
    OBVIOUS
  <2>2. \A row \in R : k \in Keys(row, unit) <=> KeyOf(row, d, unit) = k
    BY <2>1, KeysOfRow
  <2>3. Counting(R, unit, k) # {}
    <3> HIDE DEF S, q
    <3> QED BY <2>1, RollupRow
  <2> QED BY <2>2, <2>3 DEF Counting, Members, Class
<1>5. q \in Surjection(S, K)
  <2>1. q \in [S -> K]
    BY <1>3
  <2>2. \A k \in K : \E row \in S : q[row] = k
    BY <1>4 DEF Class
  <2> HIDE DEF q, S
  <2> QED BY <2>1, <2>2 DEF Surjection
<1>6. IsFiniteSet(K)
  <2> HIDE DEF q, S
  <2> QED BY <1>2, <1>5, FS_Surjection
<1> QED BY <1>1, <1>2, <1>3, <1>4, <1>6

\* Summing up what each key of a dimension has is summing up over the events.
LEMMA SumByKey ==
    ASSUME NEW R, IsFiniteSet(R), NEW d \in Dimensions \cup {"all"}, NEW unit,
           NEW K, KeysIn(K, R, d, unit),
           NEW w, \A row \in R : w[row] \in Int,
           NEW f, \A k \in K : f[k] = SumFunctionOnSet(w, Counting(R, unit, k))
    PROVE  SumFunctionOnSet(f, K) = SumFunctionOnSet(w, Members(R, d, unit, K))
<1> DEFINE S == Members(R, d, unit, K)
           q == [row \in S |-> KeyOf(row, d, unit)]
<1>1. /\ S \in SUBSET R /\ IsFiniteSet(S) /\ IsFiniteSet(K)
      /\ \A row \in S : q[row] \in K
      /\ \A k \in K : Counting(R, unit, k) = Class(S, q, k)
  BY KeysGroup
<1> HIDE DEF q, S
<1>2. \A k \in K : f[k] = SumFunctionOnSet(w, Class(S, q, k))
  BY <1>1
<1>3. \A row \in S : w[row] \in Int
  BY <1>1
<1>4. SumFunctionOnSet(f, K) = SumFunctionOnSet(w, S)
  BY ONLY <1>1, <1>2, <1>3, SumOfGroups
<1> QED BY <1>4 DEF S

\* What the sums over rows of a table say of the events it was computed from.
LEMMA TableSums ==
    ASSUME NEW R \in SUBSET Rows, IsFiniteSet(R), NEW d \in Dimensions \cup {"all"}, NEW unit,
           NEW K, KeysIn(K, R, d, unit)
    PROVE  /\ IsFiniteSet(K) /\ IsFiniteSet(Members(R, d, unit, K))
           /\ CountOf(Rollup(R, unit), K) = Cardinality(Members(R, d, unit, K))
           /\ AmountOf(Rollup(R, unit), K) = Amount(Members(R, d, unit, K))
<1> DEFINE S == Members(R, d, unit, K)
           table == Rollup(R, unit)
           one == [row \in R |-> 1]
           price == [row \in R |-> row.kind.amount]
           priceOfS == [row \in S |-> row.kind.amount]
           counts == [k \in K |-> table[k].count]
           amounts == [k \in K |-> table[k].amount]
<1>1. Priced(R) /\ \A row \in R : one[row] = 1 /\ price[row] = row.kind.amount /\ price[row] \in Nat
  BY Settings DEF Priced, Rows
<1>2. S \in SUBSET R
  BY DEF Members
<1>3. IsFiniteSet(S) /\ Priced(S)
  <2> HIDE DEF S
  <2> QED BY <1>1, <1>2, FS_Subset DEF Priced
<1>4. ASSUME NEW G \in SUBSET R
      PROVE  /\ IsFiniteSet(G) /\ SumFunctionOnSet(one, G) = Cardinality(G)
             /\ SumFunctionOnSet(price, G) = Amount(G)
  <2> DEFINE h == [row \in G |-> row.kind.amount]
  <2>1. IsFiniteSet(G) /\ Priced(G)
    BY <1>1, FS_Subset DEF Priced
  <2>2. /\ \A row \in G : one[row] \in Nat /\ one[row] = 1
        /\ \A row \in G : h[row] \in Int /\ price[row] = h[row]
    BY <1>1
  <2>3. Amount(G) = SumFunctionOnSet(h, G)
    BY <2>1, AmountType
  <2> HIDE DEF one, h, price
  <2>4. SumFunctionOnSet(one, G) = Cardinality(G)
    BY <2>1, <2>2, SumNat
  <2>5. SumFunctionOnSet(price, G) = SumFunctionOnSet(h, G)
    BY <2>1, <2>2, SumSame
  <2> QED BY <2>1, <2>3, <2>4, <2>5
<1>5. ASSUME NEW k \in K
      PROVE  /\ counts[k] = SumFunctionOnSet(one, Counting(R, unit, k))
             /\ amounts[k] = SumFunctionOnSet(price, Counting(R, unit, k))
  <2> DEFINE G == Counting(R, unit, k)
  <2>1. G \in SUBSET R
    BY DEF Counting
  <2>2. table[k] = [count |-> Cardinality(G), amount |-> Amount(G)]
    <3>1. k \in DOMAIN Rollup(R, unit)
      BY DEF KeysIn
    <3> HIDE DEF one, price
    <3> QED BY <3>1, RollupRow
  <2>3. counts[k] = Cardinality(G) /\ amounts[k] = Amount(G)
    <3> HIDE DEF table, G
    <3> QED BY <2>2
  <2> HIDE DEF G, counts, amounts, one, price
  <2>4. counts[k] = SumFunctionOnSet(one, G) /\ amounts[k] = SumFunctionOnSet(price, G)
    BY <1>4, <2>1, <2>3
  <2> QED BY <2>4 DEF G
<1>6. /\ CountOf(table, K) = SumFunctionOnSet(counts, K)
      /\ AmountOf(table, K) = SumFunctionOnSet(amounts, K)
  <2>1. DOMAIN counts = K /\ DOMAIN amounts = K
    OBVIOUS
  <2>2. /\ CountOf(table, K) = SumFunctionOnSet(counts, DOMAIN counts)
        /\ AmountOf(table, K) = SumFunctionOnSet(amounts, DOMAIN amounts)
    BY DEF CountOf, AmountOf, SumFunction
  <2> HIDE DEF counts, amounts, table
  <2> QED BY <2>1, <2>2
<1>7. \A row \in R : one[row] \in Int /\ price[row] \in Int
  BY <1>1
<1> HIDE DEF counts, amounts, one, price
<1>8. IsFiniteSet(K) /\ SumFunctionOnSet(counts, K) = SumFunctionOnSet(one, S)
  <2>1. \A k \in K : counts[k] = SumFunctionOnSet(one, Counting(R, unit, k))
    BY <1>5
  <2> HIDE DEF table, S
  <2>2. /\ IsFiniteSet(K)
        /\ SumFunctionOnSet(counts, K) = SumFunctionOnSet(one, Members(R, d, unit, K))
    <3>1. \A row \in R : one[row] \in Int
      BY <1>7
    <3>2. SumFunctionOnSet(counts, K) = SumFunctionOnSet(one, Members(R, d, unit, K))
      BY <2>1, <3>1, SumByKey
    <3>3. IsFiniteSet(K)
      BY KeysGroup
    <3> QED BY <3>2, <3>3
  <2> QED BY <2>2 DEF S
<1>9. SumFunctionOnSet(amounts, K) = SumFunctionOnSet(price, S)
  <2>1. \A k \in K : amounts[k] = SumFunctionOnSet(price, Counting(R, unit, k))
    BY <1>5
  <2> HIDE DEF table
  <2> QED BY <1>7, <2>1, SumByKey
<1>10. SumFunctionOnSet(one, S) = Cardinality(S) /\ SumFunctionOnSet(price, S) = Amount(S)
  <2> HIDE DEF S
  <2> QED BY <1>2, <1>4
<1> QED BY <1>3, <1>6, <1>8, <1>9, <1>10

\* The rows of a window of buckets, and the events sent in its span.
Window(table, d, first, last, type) == OfType(Read(table, {d}, first, last), type)
Sent(first, last, unit, type) == Of(type, SentBetween(first * unit, (last + 1) * unit))

\* The counts and amounts of a window of buckets, of every dimension, are those of the
\* events that were sent in its span.
LEMMA WindowSums ==
    ASSUME MetricsTypeOK, NEW unit \in {Minute, Hour}, NEW table, table = Rollup(rows, unit),
           NEW d \in Dimensions \cup {"all"}, NEW first \in Int, NEW last \in Int, NEW type
    PROVE  /\ KeysIn(Window(table, d, first, last, type), rows, d, unit)
           /\ Members(rows, d, unit, Window(table, d, first, last, type))
                 = Sent(first, last, unit, type)
           /\ CountOf(table, Window(table, d, first, last, type))
                 = Cardinality(Sent(first, last, unit, type))
           /\ AmountOf(table, Window(table, d, first, last, type))
                 = Amount(Sent(first, last, unit, type))
           /\ IsFiniteSet(Sent(first, last, unit, type)) /\ Priced(Sent(first, last, unit, type))
           /\ Cardinality(Sent(first, last, unit, type)) \in Nat
           /\ Amount(Sent(first, last, unit, type)) \in Nat
<1> USE DEF Window, Sent
<1> DEFINE keys == OfType(Read(table, {d}, first, last), type)
           group == Of(type, SentBetween(first * unit, (last + 1) * unit))
<1>1. rows \in SUBSET Rows /\ IsFiniteSet(rows) /\ unit \in Nat \ {0}
  BY Settings DEF MetricsTypeOK
<1>2. KeysIn(keys, rows, d, unit)
  BY DEF OfType, Read, KeysIn
<1>3. ASSUME NEW row \in rows
      PROVE  KeyOf(row, d, unit) \in keys <=> row \in group
  <2> DEFINE k == KeyOf(row, d, unit)
             b == Bucket(unit, row.at)
  <2>1. k[1] = d /\ k[2] = b /\ k[4] = row.kind.type
    BY DEF KeyOf
  <2>2. k \in DOMAIN table
    <3>1. k \in Keys(row, unit)
      BY KeysOfRow
    <3> HIDE DEF k
    <3> QED BY <3>1, RollupRow DEF Counting
  <2>3. row.at \in Int
    BY <1>1 DEF Rows
  <2>4. b \in Int /\ (b <= last <=> row.at < (last + 1) * unit) /\ (first <= b <=> first * unit <= row.at)
    <3>1. /\ Bucket(unit, row.at) \in Int
          /\ (Bucket(unit, row.at) <= last) <=> row.at < (last + 1) * unit
          /\ (first <= Bucket(unit, row.at)) <=> first * unit <= row.at
      BY <1>1, <2>3, BucketSpan
    <3> QED BY <3>1
  <2> HIDE DEF k, b
  <2>5. k \in keys <=> b \in first..last /\ row.kind.type = type
    BY <2>1, <2>2 DEF OfType, Read
  <2>6. row \in group <=> first * unit <= row.at /\ row.at < (last + 1) * unit /\ row.kind.type = type
    BY DEF Of, SentBetween
  <2> HIDE DEF keys, group
  <2>7. b \in first..last <=> first <= b /\ b <= last
    BY <2>4
  <2> QED BY <2>4, <2>5, <2>6, <2>7 DEF k
<1>4. Members(rows, d, unit, keys) = group
  <2>1. group \in SUBSET rows
    BY DEF Of, SentBetween
  <2> HIDE DEF keys, group
  <2> QED BY <1>3, <2>1 DEF Members
<1>5. Priced(group)
  BY Settings, <1>1 DEF Priced, Of, SentBetween, Rows
<1> HIDE DEF keys, group
<1>6. /\ IsFiniteSet(keys) /\ IsFiniteSet(Members(rows, d, unit, keys))
      /\ CountOf(Rollup(rows, unit), keys) = Cardinality(Members(rows, d, unit, keys))
      /\ AmountOf(Rollup(rows, unit), keys) = Amount(Members(rows, d, unit, keys))
  BY <1>1, <1>2, TableSums
<1>7. Cardinality(group) \in Nat /\ Amount(group) \in Nat
  BY <1>4, <1>5, <1>6, AmountType, FS_CardinalityType
<1> QED BY <1>2, <1>4, <1>5, <1>6, <1>7 DEF keys, group

-----------------------------------------------------------------------------
(* The verdicts.                                                           *)

\* A verdict on a rate is never both, is breached when all are bad, and recovered when
\* none is.
LEMMA JudgedSound ==
    ASSUME NEW part \in Int, NEW whole \in Nat \ {0},
           NEW threshold \in {CancellationAt, DropAt, DeadLetterAt}
    PROVE  LET verdict == Judged(part, whole, threshold)
           IN  /\ verdict.data /\ ~(verdict.breached /\ verdict.recovered)
               /\ part = 0 => verdict.recovered /\ ~verdict.breached
               /\ part = whole => verdict.breached
<1> DEFINE x == threshold * whole
           y == threshold * ResolveRatio * whole
<1>1. threshold \in 1..100 /\ ResolveRatio \in 1..100
  BY MetricsAssumption
<1>2. x \in Nat /\ x > 0
  <2>1. whole * 1 <= whole * threshold
    BY <1>1, Multiples
  <2>2. x = whole * threshold /\ x \in Int
    BY <1>1
  <2> HIDE DEF x
  <2> QED BY <1>1, <2>1, <2>2
<1>3. x <= whole * 100
  <2>1. whole * threshold <= whole * 100
    BY <1>1, Multiples
  <2> QED BY <1>1, <2>1
<1>4. y = x * ResolveRatio
  BY <1>1
<1> HIDE DEF x, y
<1>5. y \in Int /\ y > 0 /\ y <= x * 100
  <2>1. x * 1 <= x * ResolveRatio /\ x * ResolveRatio <= x * 100
    BY <1>1, <1>2, Multiples
  <2> DEFINE z == x * ResolveRatio
  <2>2. z \in Int
    BY <1>1, <1>2
  <2> HIDE DEF z
  <2>3. x * 1 <= z /\ z <= x * 100
    BY <2>1 DEF z
  <2>4. y = z
    BY <1>4 DEF z
  <2> QED BY <1>2, <2>2, <2>3, <2>4
<1> DEFINE over == part * 100 >= x
           under == part * 10000 < y
           verdict == [data |-> TRUE, breached |-> over, recovered |-> under]
<1>6. Judged(part, whole, threshold) = verdict
  BY DEF Judged, x, y
<1>7. ~(over /\ under)
  BY <1>2, <1>5
<1>8. part = 0 => under /\ ~over
  BY <1>2, <1>5
<1>9. part = whole => over
  BY <1>2, <1>3
<1> HIDE DEF over, under
<1>10. verdict.data = TRUE /\ verdict.breached = over /\ verdict.recovered = under
  OBVIOUS
<1> HIDE DEF verdict
<1>11. verdict.data /\ ~(verdict.breached /\ verdict.recovered)
  BY <1>7, <1>10, Zenon
<1>12. part = 0 => verdict.recovered /\ ~verdict.breached
  BY <1>8, <1>10, Zenon
<1>13. part = whole => verdict.breached
  BY <1>9, <1>10, Zenon
<1> QED BY <1>6, <1>11, <1>12, <1>13, Zenon

-----------------------------------------------------------------------------

\* The revenue of every minute, as a function to sum.
MinuteSums == [m \in Int |-> MinuteRevenue(m)]

\* The revenue of a minute is a natural number.
LEMMA MinuteRevenueType ==
    ASSUME MetricsIInv, NEW m \in Int
    PROVE  MinuteSums[m] = MinuteRevenue(m) /\ MinuteRevenue(m) \in Nat
<1> DEFINE group == Of("order_paid", SentBetween(m * Minute, (m + 1) * Minute))
<1>1. group \in SUBSET rows /\ IsFiniteSet(rows) /\ Priced(rows)
  BY Settings DEF Of, SentBetween, MetricsIInv, MetricsTypeOK, Priced, Rows
<1>2. IsFiniteSet(group) /\ Priced(group)
  <2> HIDE DEF group
  <2> QED BY <1>1, FS_Subset DEF Priced
<1>3. Amount(group) \in Nat
  <2> HIDE DEF group
  <2> QED BY <1>2, AmountType
<1> QED BY <1>3 DEF MinuteSums, MinuteRevenue

\* The revenue of a window is that of its minutes together.
LEMMA RevenueByMinute ==
    ASSUME MetricsIInv, NEW first \in Int, NEW end \in Int
    PROVE  Revenue(first, end) = SumFunctionOnSet(MinuteSums, first..(end - 1))
<1> DEFINE keys == OfType(Read(aggMinute, {"all"}, first, end - 1), "order_paid")
           G == Of("order_paid", SentBetween(first * Minute, end * Minute))
           q == [row \in G |-> Bucket(Minute, row.at)]
           f == [row \in G |-> row.kind.amount]
           I == first..(end - 1)
<1>1. MetricsTypeOK /\ aggMinute = Rollup(rows, Minute) /\ rows \in SUBSET Rows /\ IsFiniteSet(rows)
  BY DEF MetricsIInv, TablesOK, MetricsTypeOK
<1>2. end - 1 \in Int /\ (end - 1) + 1 = end
  OBVIOUS
<1>3. AmountOf(aggMinute, keys) = Amount(G)
  <2>1. AmountOf(aggMinute, OfType(Read(aggMinute, {"all"}, first, end - 1), "order_paid"))
          = Amount(Of("order_paid", SentBetween(first * Minute, ((end - 1) + 1) * Minute)))
    <3>1. /\ Minute \in {Minute, Hour} /\ "all" \in Dimensions \cup {"all"}
      OBVIOUS
    <3> DEFINE last == end - 1
    <3>2. last \in Int
      BY <1>2
    <3> HIDE DEF last
    <3>3. AmountOf(aggMinute, Window(aggMinute, "all", first, last, "order_paid"))
            = Amount(Sent(first, last, Minute, "order_paid"))
      BY <1>1, <3>1, <3>2, WindowSums
    <3> QED BY <3>3 DEF last, Window, Sent
  <2> QED BY <1>2, <2>1
<1>4. Revenue(first, end) = Amount(G)
  BY <1>3 DEF Revenue
<1>5. G \in SUBSET rows
  BY DEF Of, SentBetween
<1>6. IsFiniteSet(G) /\ Priced(G)
  <2>1. Priced(rows)
    BY <1>1, Settings DEF Priced, Rows
  <2> HIDE DEF G
  <2> QED BY <1>1, <1>5, <2>1, FS_Subset DEF Priced
<1>7. ASSUME NEW row \in rows, NEW m \in Int
      PROVE  /\ Bucket(Minute, row.at) \in Int
             /\ (Bucket(Minute, row.at) <= m) <=> row.at < (m + 1) * Minute
             /\ (m <= Bucket(Minute, row.at)) <=> m * Minute <= row.at
  <2>1. row.at \in Int
    BY <1>1 DEF Rows
  <2> QED BY <2>1, Settings, BucketSpan
<1>8. ASSUME NEW row \in G PROVE q[row] \in I
  <2>1. row \in rows /\ first * Minute <= row.at /\ row.at < end * Minute
    BY DEF Of, SentBetween
  <2>2. first <= Bucket(Minute, row.at)
    BY <1>7, <2>1
  <2>3. Bucket(Minute, row.at) <= end - 1
    <3>1. row.at < ((end - 1) + 1) * Minute
      BY <1>2, <2>1
    <3> QED BY <1>2, <1>7, <2>1, <3>1
  <2>4. Bucket(Minute, row.at) \in Int
    BY <1>7, <2>1
  <2>5. q[row] = Bucket(Minute, row.at)
    OBVIOUS
  <2> HIDE DEF q
  <2> QED BY <2>2, <2>3, <2>4, <2>5
<1>9. ASSUME NEW m \in I
      PROVE  Class(G, q, m) = Of("order_paid", SentBetween(m * Minute, (m + 1) * Minute))
  <2>1. m \in Int /\ first <= m /\ m <= end - 1
    OBVIOUS
  <2>2. ASSUME NEW row \in rows
        PROVE  row \in SentBetween(m * Minute, (m + 1) * Minute)
                 <=> row \in SentBetween(first * Minute, end * Minute) /\ Bucket(Minute, row.at) = m
    <3> DEFINE b == Bucket(Minute, row.at)
    <3>1. /\ b \in Int
          /\ (b <= m) <=> row.at < (m + 1) * Minute
          /\ (m <= b) <=> m * Minute <= row.at
      BY <1>7, <2>1
    <3>2. (first <= b) <=> first * Minute <= row.at
      BY <1>7
    <3>3. (b <= end - 1) <=> row.at < end * Minute
      BY <1>2, <1>7
    <3> HIDE DEF b
    <3>4. b = m => first <= b /\ b <= end - 1
      BY <2>1
    <3>5. b = m <=> b <= m /\ m <= b
      BY <2>1, <3>1
    <3> QED BY <3>1, <3>2, <3>3, <3>4, <3>5 DEF SentBetween, b
  <2> QED BY <2>2 DEF Class, Of, SentBetween
<1>10. ASSUME NEW m \in I PROVE MinuteSums[m] = SumFunctionOnSet(f, Class(G, q, m))
  <2> DEFINE C == Class(G, q, m)
             g == [row \in C |-> row.kind.amount]
  <2>1. C \in SUBSET G
    BY DEF Class
  <2>2. IsFiniteSet(C) /\ Priced(C)
    <3> HIDE DEF C, G
    <3> QED BY <1>6, <2>1, FS_Subset DEF Priced
  <2>3. \A row \in C : g[row] \in Int /\ f[row] = g[row]
    BY <2>1, <2>2 DEF Priced
  <2>4. Amount(C) = SumFunctionOnSet(g, C)
    <3> HIDE DEF C
    <3> QED BY <2>2, AmountType
  <2>5. SumFunctionOnSet(f, C) = SumFunctionOnSet(g, C)
    <3> HIDE DEF C, f, g
    <3> QED BY <2>2, <2>3, SumSame
  <2>6. MinuteSums[m] = Amount(C)
    BY <1>9 DEF MinuteSums, MinuteRevenue
  <2> QED BY <2>4, <2>5, <2>6
<1>11. Amount(G) = SumFunctionOnSet(f, G) /\ \A row \in G : f[row] \in Int
  <2>1. Amount(G) = SumFunctionOnSet(f, G)
    <3> HIDE DEF G
    <3> QED BY <1>6, AmountType
  <2> QED BY <1>6, <2>1 DEF Priced
<1>12. IsFiniteSet(I)
  BY <1>2, FS_Interval
<1>13. SumFunctionOnSet(MinuteSums, I) = SumFunctionOnSet(f, G)
  <2>1. \A row \in G : f[row] \in Int
    BY <1>11
  <2>2. \A m \in I : MinuteSums[m] = SumFunctionOnSet(f, Class(G, q, m))
    BY <1>10
  <2> HIDE DEF f, G, q, I
  <2>3. \A row \in G : q[row] \in I
    BY <1>8
  <2> QED BY ONLY <1>6, <1>12, <2>1, <2>2, <2>3, SumOfGroups
<1> QED BY <1>4, <1>11, <1>13

\* The sums read from ingest_stats_minute are natural numbers.
LEMMA StatsType ==
    ASSUME MetricsTypeOK, NEW field \in {"accepted", "rejected"}, NEW first \in Int, NEW last \in Int
    PROVE  StatsOf(field, first, last) \in Nat
<1> DEFINE D == DOMAIN stats \cap first..last
           f == [b \in D |-> stats[b][field]]
<1>1. D \in SUBSET DOMAIN stats /\ IsFiniteSet(DOMAIN stats)
  BY DEF MetricsTypeOK
<1>2. IsFiniteSet(D)
  <2> HIDE DEF D
  <2> QED BY <1>1, FS_Subset
<1>3. \A b \in D : f[b] \in Nat
  <2> SUFFICES ASSUME NEW b \in D PROVE stats[b][field] \in Nat
    OBVIOUS
  <2>1. stats[b] \in [accepted : Nat, duplicates : Nat, rejected : Nat]
    BY DEF MetricsTypeOK
  <2> QED BY <2>1
<1>4. DOMAIN f = D
  OBVIOUS
<1>5. StatsOf(field, first, last) = SumFunctionOnSet(f, DOMAIN f)
  BY DEF StatsOf, SumFunction
<1> HIDE DEF f, D
<1>6. SumFunctionOnSet(f, D) \in Nat
  BY <1>2, <1>3, SumNat
<1> QED BY <1>4, <1>5, <1>6

\* The events the rules on orders judge, by type.
RecentOf(type) ==
    Of(type, SentBetween((Now(Minute) - AlertMinutes + 1) * Minute, (Now(Minute) + 1) * Minute))

\* The minutes of the current (1) and the previous (2) revenue window.
Half(k) == (Now(Minute) - k * AlertMinutes)..(Now(Minute) - (k - 1) * AlertMinutes - 1)

\* The inputs of the rules, in terms of the events.
LEMMA InputsAreRight ==
    ASSUME MetricsIInv
    PROVE  /\ Now(Minute) \in Int /\ AlertMinutes \in Nat \ {0}
           /\ read_inputs.placed = Cardinality(RecentOf("order_placed"))
           /\ read_inputs.cancelled = Cardinality(RecentOf("order_cancelled"))
           /\ read_inputs.placed \in Nat /\ read_inputs.cancelled \in Nat
           /\ RecentOf("order_cancelled") = {} => read_inputs.cancelled = 0
           /\ read_inputs.accepted \in Nat /\ read_inputs.rejected \in Nat
           /\ read_inputs.revenueCurrent = SumFunctionOnSet(MinuteSums, Half(1))
           /\ read_inputs.revenuePrevious = SumFunctionOnSet(MinuteSums, Half(2))
           /\ read_inputs.silence = IF lastCommit = None THEN None ELSE now - lastCommit
<1> DEFINE minute == Now(Minute)
           start == RecentStart(minute)
           window == Read(aggMinute, {"all"}, start, minute)
<1>1. MetricsTypeOK /\ aggMinute = Rollup(rows, Minute)
  BY DEF MetricsIInv, TablesOK
<1>2. minute \in Int
  BY <1>1, Settings, BucketSpan DEF Now, MetricsTypeOK
<1>3. AlertMinutes \in Nat \ {0}
  BY MetricsAssumption
<1> HIDE DEF minute
<1>4. start = minute - AlertMinutes + 1 /\ start \in Int
  BY <1>2, <1>3 DEF RecentStart
<1>5. \A type : OfType(window, type) = Window(aggMinute, "all", start, minute, type)
  BY DEF Window
<1>6. \A type : RecentOf(type) = Sent(start, minute, Minute, type)
  BY <1>4 DEF Sent, RecentOf, minute
<1>7. \A type : /\ CountOf(aggMinute, OfType(window, type)) = Cardinality(RecentOf(type))
                /\ Cardinality(RecentOf(type)) \in Nat
  <2> TAKE type
  <2> HIDE DEF start
  <2>1. /\ Minute \in {Minute, Hour} /\ "all" \in Dimensions \cup {"all"}
    OBVIOUS
  <2>2. start \in Int
    BY <1>4
  <2>3. CountOf(aggMinute, Window(aggMinute, "all", start, minute, type))
          = Cardinality(Sent(start, minute, Minute, type))
    BY <1>1, <1>2, <2>1, <2>2, WindowSums
  <2>4. Cardinality(Sent(start, minute, Minute, type)) \in Nat
    <3>1. IsFiniteSet(Sent(start, minute, Minute, type))
      <4>1. Sent(start, minute, Minute, type) \in SUBSET rows
        BY DEF Sent, Of, SentBetween
      <4> QED BY <1>1, <4>1, FS_Subset DEF MetricsTypeOK
    <3> QED BY <3>1, FS_CardinalityType
  <2> HIDE DEF window
  <2> QED BY <1>5, <1>6, <2>3, <2>4
<1>8. /\ StatsOf("accepted", start, minute) \in Nat /\ StatsOf("rejected", start, minute) \in Nat
  <2> HIDE DEF start
  <2> QED BY <1>1, <1>2, <1>4, StatsType
<1>9. \A first \in Int, end \in Int :
         Revenue(first, end) = SumFunctionOnSet(MinuteSums, first..(end - 1))
  BY RevenueByMinute
<1> DEFINE current == CurrentStart(minute)
           previous == current - AlertMinutes
<1>10. /\ current \in Int /\ previous \in Int
       /\ current = minute - AlertMinutes /\ previous = minute - 2 * AlertMinutes
       /\ minute - 1 * AlertMinutes = current /\ minute - (1 - 1) * AlertMinutes - 1 = minute - 1
       /\ minute - (2 - 1) * AlertMinutes - 1 = current - 1
  BY <1>2, <1>3 DEF CurrentStart
<1>11. Half(1) = current..(minute - 1) /\ Half(2) = previous..(current - 1)
  <2> HIDE DEF current, previous
  <2> QED BY <1>10 DEF Half, minute
<1>12. /\ Revenue(current, minute) = SumFunctionOnSet(MinuteSums, Half(1))
       /\ Revenue(previous, current) = SumFunctionOnSet(MinuteSums, Half(2))
  <2> HIDE DEF current, previous
  <2> QED BY <1>2, <1>9, <1>10, <1>11
<1>13. /\ read_inputs.placed = CountOf(aggMinute, OfType(window, "order_placed"))
       /\ read_inputs.cancelled = CountOf(aggMinute, OfType(window, "order_cancelled"))
       /\ read_inputs.accepted = StatsOf("accepted", start, minute)
       /\ read_inputs.rejected = StatsOf("rejected", start, minute)
       /\ read_inputs.revenueCurrent = Revenue(current, minute)
       /\ read_inputs.revenuePrevious = Revenue(previous, current)
       /\ read_inputs.silence = IF lastCommit = None THEN None ELSE now - lastCommit
  BY DEF read_inputs, minute
<1>14. RecentOf("order_cancelled") = {} => Cardinality(RecentOf("order_cancelled")) = 0
  BY FS_EmptySet
<1> HIDE DEF window, start, current, previous
<1> QED BY <1>2, <1>3, <1>7, <1>8, <1>12, <1>13, <1>14 DEF minute

\* The minutes of a half window: what their sums are, for comparing halves.
LEMMA Halves ==
    ASSUME MetricsIInv
    PROVE  /\ \A k \in {1, 2} : /\ IsFiniteSet(Half(k)) /\ Half(k) \in SUBSET Int
                                /\ SumFunctionOnSet(MinuteSums, Half(k)) \in Nat
                                /\ (\A m \in Half(k) : MinuteRevenue(m) = 0)
                                      => SumFunctionOnSet(MinuteSums, Half(k)) = 0
                                /\ \A m \in Half(k) :
                                      MinuteRevenue(m) <= SumFunctionOnSet(MinuteSums, Half(k))
           /\ (Now(Minute) - 2 * AlertMinutes)..(Now(Minute) - 1) = Half(1) \cup Half(2)
           /\ \A m \in Half(1) \cup Half(2) :
                 m \in Half(1) <=> m >= Now(Minute) - AlertMinutes
<1> DEFINE minute == Now(Minute)
           A == AlertMinutes
<1>1. minute \in Int /\ A \in Nat \ {0}
  BY InputsAreRight
<1>2. Half(1) = (minute - A)..(minute - 1) /\ Half(2) = (minute - 2 * A)..(minute - A - 1)
  <2>1. /\ minute - 1 * A = minute - A /\ minute - (1 - 1) * A - 1 = minute - 1
        /\ minute - (2 - 1) * A - 1 = minute - A - 1
    BY <1>1
  <2> QED BY <2>1 DEF Half
<1> HIDE DEF minute, A
<1>3. ASSUME NEW k \in {1, 2}
      PROVE  IsFiniteSet(Half(k)) /\ Half(k) \in SUBSET Int
  <2>1. \E a, b \in Int : Half(k) = a..b
    <3>1. minute - A \in Int /\ minute - 1 \in Int /\ minute - 2 * A \in Int /\ minute - A - 1 \in Int
      BY <1>1
    <3> QED BY <1>2, <3>1
  <2>2. PICK a \in Int, b \in Int : Half(k) = a..b
    BY <2>1
  <2>3. IsFiniteSet(a..b)
    BY FS_Interval
  <2> QED BY <2>2, <2>3
<1>4. ASSUME NEW k \in {1, 2}
      PROVE  /\ SumFunctionOnSet(MinuteSums, Half(k)) \in Nat
             /\ (\A m \in Half(k) : MinuteRevenue(m) = 0)
                   => SumFunctionOnSet(MinuteSums, Half(k)) = 0
             /\ \A m \in Half(k) : MinuteRevenue(m) <= SumFunctionOnSet(MinuteSums, Half(k))
  <2>1. \A m \in Half(k) : MinuteSums[m] = MinuteRevenue(m) /\ MinuteSums[m] \in Nat
    BY <1>3, MinuteRevenueType
  <2>2. /\ SumFunctionOnSet(MinuteSums, Half(k)) \in Nat
        /\ \A m \in Half(k) : MinuteSums[m] <= SumFunctionOnSet(MinuteSums, Half(k))
        /\ (\A m \in Half(k) : MinuteSums[m] = 0) => SumFunctionOnSet(MinuteSums, Half(k)) = 0
    BY <1>3, <2>1, SumNat
  <2> QED BY <2>1, <2>2
<1>5. (minute - 2 * A)..(minute - 1) = Half(1) \cup Half(2)
  BY <1>1, <1>2
<1>6. \A m \in Half(1) \cup Half(2) : m \in Half(1) <=> m >= minute - A
  BY <1>1, <1>2
<1> QED BY <1>3, <1>4, <1>5, <1>6 DEF minute, A

\* With the same revenue in every complete minute there is no drop.
LEMMA EvenRevenue ==
    ASSUME MetricsIInv, \A m, n \in Half(1) \cup Half(2) : MinuteRevenue(m) = MinuteRevenue(n)
    PROVE  read_inputs.revenueCurrent = read_inputs.revenuePrevious
<1> DEFINE minute == Now(Minute)
           A == AlertMinutes
           b == [m \in Half(1) |-> m - A]
<1>1. minute \in Int /\ A \in Nat \ {0}
  BY InputsAreRight
<1>2. Half(1) = (minute - A)..(minute - 1) /\ Half(2) = (minute - 2 * A)..(minute - A - 1)
  <2>1. /\ minute - 1 * A = minute - A /\ minute - (1 - 1) * A - 1 = minute - 1
        /\ minute - (2 - 1) * A - 1 = minute - A - 1
    BY <1>1
  <2> QED BY <2>1 DEF Half
<1> HIDE DEF minute, A
<1>3. b \in Bijection(Half(1), Half(2))
  <2>1. \A m \in Half(1) : m \in Int /\ m - A \in Half(2)
    BY <1>1, <1>2
  <2>2. \A n \in Half(2) : n + A \in Half(1) /\ (n + A) - A = n
    BY <1>1, <1>2
  <2>3. b \in [Half(1) -> Half(2)]
    BY <2>1
  <2>4. \A n \in Half(2) : \E m \in Half(1) : b[m] = n
    BY <2>2
  <2>5. ASSUME NEW m \in Half(1), NEW n \in Half(1), b[m] = b[n] PROVE m = n
    <3>1. m - A = n - A /\ m \in Int /\ n \in Int
      BY <2>1, <2>5
    <3> QED BY <1>1, <3>1
  <2> HIDE DEF b
  <2> QED BY <2>3, <2>4, <2>5 DEF Bijection, Injection, Surjection, IsInjective
<1>4. IsFiniteSet(Half(1)) /\ Half(1) \in SUBSET Int /\ Half(2) \in SUBSET Int
  BY Halves
<1>5. ASSUME NEW m \in Half(1) PROVE MinuteSums[m] \in Int /\ MinuteSums[b[m]] = MinuteSums[m]
  <2>1. b[m] \in Half(2)
    BY <1>3 DEF Bijection, Injection
  <2> HIDE DEF b
  <2>2. /\ MinuteSums[m] = MinuteRevenue(m) /\ MinuteRevenue(m) \in Nat
        /\ MinuteSums[b[m]] = MinuteRevenue(b[m])
    BY <1>4, <2>1, MinuteRevenueType
  <2>3. MinuteRevenue(b[m]) = MinuteRevenue(m)
    BY <2>1
  <2> QED BY <2>2, <2>3
<1> HIDE DEF b
<1>6. SumFunctionOnSet(MinuteSums, Half(2)) = SumFunctionOnSet(MinuteSums, Half(1))
  BY <1>3, <1>4, <1>5, SumRenamed
<1> QED BY <1>6, InputsAreRight

\* The sentences of VerdictsSound, by rule.
LEMMA RevenueVerdicts ==
    ASSUME MetricsIInv
    PROVE  LET past == (Now(Minute) - 2 * AlertMinutes)..(Now(Minute) - 1)
               verdict == RevenueDrop(read_inputs)
           IN  /\ (\A m, n \in past : MinuteRevenue(m) = MinuteRevenue(n)) => ~verdict.breached
               /\ /\ \A m \in past : m >= Now(Minute) - AlertMinutes => MinuteRevenue(m) = 0
                  /\ \E m \in past : MinuteRevenue(m) >= MinBaseline
                  => verdict.breached
               /\ ~(verdict.breached /\ verdict.recovered)
               /\ ~verdict.data => ~verdict.breached /\ ~verdict.recovered
<1> DEFINE past == (Now(Minute) - 2 * AlertMinutes)..(Now(Minute) - 1)
           verdict == RevenueDrop(read_inputs)
           current == read_inputs.revenueCurrent
           previous == read_inputs.revenuePrevious
<1>1. /\ current = SumFunctionOnSet(MinuteSums, Half(1)) /\ current \in Nat
      /\ previous = SumFunctionOnSet(MinuteSums, Half(2)) /\ previous \in Nat
  BY InputsAreRight, Halves
<1>2. past = Half(1) \cup Half(2)
  BY Halves
<1>3. MinBaseline \in Nat \ {0}
  BY MetricsAssumption
<1>4. verdict = IF previous < MinBaseline THEN _no_data
                ELSE Judged(previous - current, previous, DropAt)
  BY DEF RevenueDrop
<1> HIDE DEF past, verdict, current, previous
<1>5. CASE previous < MinBaseline
  <2>1. verdict = _no_data
    BY <1>4, <1>5
  <2>2. ~verdict.breached /\ ~verdict.recovered
    BY <2>1 DEF _no_data
  <2>3. ASSUME \A m \in past : m >= Now(Minute) - AlertMinutes => MinuteRevenue(m) = 0,
               NEW m \in past, MinuteRevenue(m) >= MinBaseline
        PROVE  FALSE
    <3>1. m \notin Half(1)
      <4>1. m >= Now(Minute) - AlertMinutes => MinuteRevenue(m) = 0
        BY <2>3
      <4>2. m \in Half(1) => MinuteRevenue(m) = 0
        BY <1>2, <4>1, Halves
      <4> QED BY <1>3, <2>3, <4>2
    <3>2. m \in Half(2) /\ m \in Int
      BY <1>2, <3>1, Halves
    <3>3. MinuteRevenue(m) <= previous /\ MinuteRevenue(m) \in Nat
      BY <1>1, <3>2, Halves, MinuteRevenueType
    <3> QED BY <1>1, <1>3, <1>5, <2>3, <3>3
  <2> QED BY <2>2, <2>3 DEF past, verdict
<1>6. CASE ~(previous < MinBaseline)
  <2>1. /\ previous \in Nat \ {0} /\ previous - current \in Int
        /\ DropAt \in {CancellationAt, DropAt, DeadLetterAt}
    BY <1>1, <1>3, <1>6
  <2>2. verdict = Judged(previous - current, previous, DropAt)
    BY <1>4, <1>6
  <2>3. /\ verdict.data /\ ~(verdict.breached /\ verdict.recovered)
        /\ previous - current = 0 => ~verdict.breached
        /\ previous - current = previous => verdict.breached
    <3> DEFINE part == previous - current
    <3>1. part \in Int /\ verdict = Judged(part, previous, DropAt)
      BY <2>1, <2>2
    <3> HIDE DEF part
    <3>2. /\ verdict.data /\ ~(verdict.breached /\ verdict.recovered)
          /\ part = 0 => ~verdict.breached
          /\ part = previous => verdict.breached
      BY <2>1, <3>1, JudgedSound
    <3> QED BY <3>2 DEF part
  <2>4. (\A m, n \in past : MinuteRevenue(m) = MinuteRevenue(n)) => ~verdict.breached
    <3> SUFFICES ASSUME \A m, n \in past : MinuteRevenue(m) = MinuteRevenue(n)
                 PROVE  ~verdict.breached
      OBVIOUS
    <3>1. current = previous
      BY <1>2, EvenRevenue DEF current, previous
    <3>2. previous - current = 0
      BY <1>1, <3>1
    <3> QED BY <2>3, <3>2
  <2>5. (\A m \in past : m >= Now(Minute) - AlertMinutes => MinuteRevenue(m) = 0)
          => verdict.breached
    <3> SUFFICES ASSUME \A m \in past : m >= Now(Minute) - AlertMinutes => MinuteRevenue(m) = 0
                 PROVE  verdict.breached
      OBVIOUS
    <3>1. \A m \in Half(1) : MinuteRevenue(m) = 0
      BY <1>2, Halves
    <3>2. current = 0
      BY <1>1, <3>1, Halves
    <3>3. previous - current = previous
      BY <1>1, <3>2
    <3> QED BY <2>3, <3>3
  <2> QED BY <2>3, <2>4, <2>5 DEF past, verdict
<1> QED BY <1>5, <1>6

\* An order is judged with its cancellations of the same minutes; too few orders are
\* no data.
LEMMA CancellationVerdicts ==
    ASSUME MetricsIInv
    PROVE  LET verdict == CancellationRate(read_inputs)
           IN  /\ verdict.data = (Cardinality(RecentOf("order_placed")) >= MinOrders)
               /\ verdict.data /\ RecentOf("order_cancelled") = {} => verdict.recovered
               /\ ~(verdict.breached /\ verdict.recovered)
               /\ ~verdict.data => ~verdict.breached /\ ~verdict.recovered
<1> DEFINE verdict == CancellationRate(read_inputs)
           placed == read_inputs.placed
           cancelled == read_inputs.cancelled
<1>1. /\ placed = Cardinality(RecentOf("order_placed")) /\ placed \in Nat /\ cancelled \in Nat
      /\ RecentOf("order_cancelled") = {} => cancelled = 0
  BY InputsAreRight
<1>2. MinOrders \in Nat \ {0}
  BY MetricsAssumption
<1>3. verdict = IF placed < MinOrders THEN _no_data ELSE Judged(cancelled, placed, CancellationAt)
  BY DEF CancellationRate
<1> HIDE DEF verdict, placed, cancelled
<1>4. CASE placed < MinOrders
  <2>1. verdict = _no_data
    BY <1>3, <1>4
  <2>2. /\ verdict.data = FALSE /\ verdict.breached = FALSE /\ verdict.recovered = FALSE
    BY <2>1 DEF _no_data
  <2> DEFINE enough == Cardinality(RecentOf("order_placed")) >= MinOrders
  <2>3. enough = FALSE
    BY <1>1, <1>2, <1>4
  <2> HIDE DEF enough
  <2>4. verdict.data = enough
    BY <2>2, <2>3
  <2> QED BY <2>2, <2>4 DEF verdict, enough
<1>5. CASE ~(placed < MinOrders)
  <2>1. placed \in Nat \ {0} /\ Cardinality(RecentOf("order_placed")) >= MinOrders
    BY <1>1, <1>2, <1>5
  <2>2. verdict = Judged(cancelled, placed, CancellationAt)
    BY <1>3, <1>5
  <2>3. /\ verdict.data /\ ~(verdict.breached /\ verdict.recovered)
        /\ cancelled = 0 => verdict.recovered
    BY <1>1, <2>1, <2>2, JudgedSound
  <2>4. verdict.data = TRUE
    BY <2>2 DEF Judged
  <2> QED BY <1>1, <2>1, <2>3, <2>4 DEF verdict
<1> QED BY <1>4, <1>5

\* The verdict on the dead letters.
LEMMA DeadLetterVerdicts ==
    ASSUME MetricsIInv
    PROVE  LET verdict == DeadLetterRate(read_inputs)
           IN  /\ ~(verdict.breached /\ verdict.recovered)
               /\ ~verdict.data => ~verdict.breached /\ ~verdict.recovered
<1> DEFINE verdict == DeadLetterRate(read_inputs)
           received == read_inputs.accepted + read_inputs.rejected
           rejected == read_inputs.rejected
<1>1. received \in Nat /\ rejected \in Int
  BY InputsAreRight
<1>2. MinReceived \in Nat \ {0}
  BY MetricsAssumption
<1>3. verdict = IF received < MinReceived THEN _no_data ELSE Judged(rejected, received, DeadLetterAt)
  BY DEF DeadLetterRate
<1> HIDE DEF verdict, received, rejected
<1>4. CASE received < MinReceived
  <2>1. verdict = _no_data
    BY <1>3, <1>4
  <2>2. ~verdict.breached /\ ~verdict.recovered
    BY <2>1 DEF _no_data
  <2> QED BY <2>2 DEF verdict
<1>5. CASE ~(received < MinReceived)
  <2>1. received \in Nat \ {0}
    BY <1>1, <1>2, <1>5
  <2>2. verdict = Judged(rejected, received, DeadLetterAt)
    BY <1>3, <1>5
  <2>3. verdict.data /\ ~(verdict.breached /\ verdict.recovered)
    BY <1>1, <2>1, <2>2, JudgedSound
  <2> QED BY <2>3 DEF verdict
<1> QED BY <1>4, <1>5

\* While the writer commits there is no stall.
LEMMA StallVerdicts ==
    ASSUME MetricsIInv
    PROVE  LET verdict == IngestionStalled(read_inputs)
           IN  /\ verdict.breached => WrittenSince(now - StallAfter + 1) = {}
               /\ ~(verdict.breached /\ verdict.recovered)
               /\ ~verdict.data => ~verdict.breached /\ ~verdict.recovered
<1> DEFINE verdict == IngestionStalled(read_inputs)
           silence == read_inputs.silence
           over == silence >= StallAfter
           under == silence < StallAfter
<1>1. silence = IF lastCommit = None THEN None ELSE now - lastCommit
  BY InputsAreRight
<1>2. /\ now \in Int /\ lastCommit \in Int /\ lastCommit <= now
      /\ \A r \in rows : r.wrote \in Int /\ r.wrote <= lastCommit
  BY DEF MetricsIInv, MetricsTypeOK, Rows
<1>3. StallAfter \in Nat \ {0}
  BY MetricsAssumption
<1>4. verdict = IF silence = None THEN _no_data
                ELSE [data |-> TRUE, breached |-> over, recovered |-> under]
  BY DEF IngestionStalled
<1> HIDE DEF verdict, silence
<1>5. CASE silence = None
  <2>1. verdict = _no_data
    BY <1>4, <1>5
  <2>2. ~verdict.breached /\ ~verdict.recovered
    BY <2>1 DEF _no_data
  <2> QED BY <2>2 DEF verdict
<1>6. CASE silence # None
  <2>1. silence = now - lastCommit /\ silence \in Int
    BY <1>1, <1>2, <1>6
  <2>2. ~(over /\ under)
    BY <1>3, <2>1
  <2>3. ASSUME over PROVE WrittenSince(now - StallAfter + 1) = {}
    <3>1. lastCommit < now - StallAfter + 1
      BY <1>2, <1>3, <2>1, <2>3
    <3>2. \A r \in rows : ~(r.wrote >= now - StallAfter + 1)
      BY <1>2, <1>3, <3>1
    <3> QED BY <3>2 DEF WrittenSince
  <2> HIDE DEF over, under
  <2>4. verdict = [data |-> TRUE, breached |-> over, recovered |-> under]
    BY <1>4, <1>6
  <2>5. verdict.data = TRUE /\ verdict.breached = over /\ verdict.recovered = under
    BY <2>4
  <2>6. verdict.breached => WrittenSince(now - StallAfter + 1) = {}
    BY <2>3, <2>5, Zenon
  <2>7. verdict.data /\ ~(verdict.breached /\ verdict.recovered)
    BY <2>2, <2>5, Zenon
  <2> QED BY <2>6, <2>7 DEF verdict
<1> QED BY <1>5, <1>6

\* In every reachable state the four rules see what their comments promise: even
\* revenue is no drop and none after a baseline is one, too little data is no verdict,
\* no rule is breached and recovered at once, and a stall means no commit
\* (rules.py:6-13, 31-39, evaluator.py:74-110).
THEOREM VerdictsAreSound == MetricsSpec => []VerdictsSound
<1>1. MetricsIInv => VerdictsSound
  <2> SUFFICES ASSUME MetricsIInv PROVE VerdictsSound
    OBVIOUS
  <2> DEFINE past == (Now(Minute) - 2 * AlertMinutes)..(Now(Minute) - 1)
             sound(verdict) == /\ ~(verdict.breached /\ verdict.recovered)
                               /\ ~verdict.data => ~verdict.breached /\ ~verdict.recovered
             even == \A m, n \in past : MinuteRevenue(m) = MinuteRevenue(n)
             gone == /\ \A m \in past : m >= Now(Minute) - AlertMinutes => MinuteRevenue(m) = 0
                     /\ \E m \in past : MinuteRevenue(m) >= MinBaseline
  <2>1. /\ even => ~RevenueDrop(read_inputs).breached
        /\ gone => RevenueDrop(read_inputs).breached
        /\ sound(RevenueDrop(read_inputs))
    BY RevenueVerdicts
  <2>2. /\ CancellationRate(read_inputs).data = (Cardinality(RecentOf("order_placed")) >= MinOrders)
        /\ CancellationRate(read_inputs).data /\ RecentOf("order_cancelled") = {}
              => CancellationRate(read_inputs).recovered
        /\ sound(CancellationRate(read_inputs))
    BY CancellationVerdicts
  <2>3. sound(DeadLetterRate(read_inputs))
    BY DeadLetterVerdicts
  <2>4. /\ IngestionStalled(read_inputs).breached => WrittenSince(now - StallAfter + 1) = {}
        /\ sound(IngestionStalled(read_inputs))
    BY StallVerdicts
  <2>5. \A verdict \in {CancellationRate(read_inputs), RevenueDrop(read_inputs),
                        DeadLetterRate(read_inputs), IngestionStalled(read_inputs)} : sound(verdict)
    BY <2>1, <2>2, <2>3, <2>4
  <2> QED BY <2>1, <2>2, <2>4, <2>5 DEF VerdictsSound, RecentOf
<1> QED BY <1>1, MetricsInvariant, PTL

-----------------------------------------------------------------------------
(* The snapshot.                                                           *)

\* The rows of no particular dimension in a window.
AllOf(first, last) == Read(aggMinute, {"all"}, first, last)

\* The cards of a window are those of the events sent in it.
LEMMA KpisRight ==
    ASSUME MetricsIInv, NEW first \in Int, NEW last \in Int
    PROVE  KpisOf(compute_kpis(AllOf(first, last)), SentBetween(first * Minute, (last + 1) * Minute))
<1> DEFINE keys == AllOf(first, last)
           group == SentBetween(first * Minute, (last + 1) * Minute)
           k == compute_kpis(keys)
<1>1. MetricsTypeOK /\ aggMinute = Rollup(rows, Minute)
  BY DEF MetricsIInv, TablesOK
<1>2. ASSUME NEW type
      PROVE  /\ CountOf(aggMinute, OfType(keys, type)) = Cardinality(Of(type, group))
             /\ AmountOf(aggMinute, OfType(keys, type)) = Amount(Of(type, group))
  <2>1. /\ CountOf(aggMinute, Window(aggMinute, "all", first, last, type))
              = Cardinality(Sent(first, last, Minute, type))
        /\ AmountOf(aggMinute, Window(aggMinute, "all", first, last, type))
              = Amount(Sent(first, last, Minute, type))
    <3>1. Minute \in {Minute, Hour} /\ "all" \in Dimensions \cup {"all"}
      OBVIOUS
    <3> QED BY <1>1, <3>1, WindowSums
  <2> QED BY <2>1 DEF Window, Sent, AllOf
<1>3. /\ k.revenue = AmountOf(aggMinute, OfType(keys, "order_paid"))
      /\ k.orders = CountOf(aggMinute, OfType(keys, "order_placed"))
      /\ k.paid = CountOf(aggMinute, OfType(keys, "order_paid"))
      /\ k.shipped = CountOf(aggMinute, OfType(keys, "order_shipped"))
      /\ k.cancelled = CountOf(aggMinute, OfType(keys, "order_cancelled"))
  <2> HIDE DEF keys
  <2> QED BY DEF compute_kpis
<1> HIDE DEF keys, group, k
<1>4. KpisOf(k, group)
  BY <1>2, <1>3 DEF KpisOf
<1> QED BY <1>4 DEF keys, group, k

\* The series of a window has a point for each bucket, with the events of its span.
LEMMA SeriesRight ==
    ASSUME MetricsIInv, NEW unit \in {Minute, Hour}, NEW table, table = Rollup(rows, unit),
           NEW length \in Nat \ {0}, NEW series, NEW first, first = Now(unit) - (length - 1),
           series = dense_series(table, Read(table, {"all"}, first, Now(unit)), first, Now(unit))
    PROVE  SeriesOf(series, length, unit)
<1> DEFINE last == Now(unit)
           keys == Read(table, {"all"}, first, last)
<1>1. MetricsTypeOK /\ unit \in Nat \ {0}
  BY Settings DEF MetricsIInv
<1>2. last \in Int
  BY <1>1, BucketSpan DEF Now, MetricsTypeOK
<1> DEFINE Point(b) ==
             LET bucket == {k \in keys : k[2] = b}
             IN  [revenue |-> AmountOf(table, OfType(bucket, "order_paid")),
                  orders |-> CountOf(table, OfType(bucket, "order_placed")),
                  cancelled |-> CountOf(table, OfType(bucket, "order_cancelled"))]
<1>3. series = [b \in first..last |-> Point(b)]
  BY DEF dense_series
<1>4. ASSUME NEW b \in first..last, NEW type
      PROVE  OfType({k \in keys : k[2] = b}, type) = Window(table, "all", b, b, type)
  <2>1. b \in Int /\ b..b = {b} /\ b \in first..last
    BY <1>2
  <2> HIDE DEF last
  <2> QED BY <2>1 DEF OfType, Window, Read
<1> HIDE DEF last
<1>5. first \in Int /\ first <= last
  BY <1>2 DEF last
<1>6. ASSUME NEW b \in first..last
      PROVE  LET group == SentBetween(b * unit, (b + 1) * unit)
             IN  /\ series[b].revenue = Amount(Of("order_paid", group))
                 /\ series[b].orders = Cardinality(Of("order_placed", group))
                 /\ series[b].cancelled = Cardinality(Of("order_cancelled", group))
  <2> DEFINE bucket == {k \in keys : k[2] = b}
             group == SentBetween(b * unit, (b + 1) * unit)
  <2>1. b \in Int
    BY <1>2, <1>5
  <2>2. ASSUME NEW type
        PROVE  /\ CountOf(table, OfType(bucket, type)) = Cardinality(Of(type, group))
               /\ AmountOf(table, OfType(bucket, type)) = Amount(Of(type, group))
    <3>1. /\ CountOf(table, Window(table, "all", b, b, type))
                = Cardinality(Sent(b, b, unit, type))
          /\ AmountOf(table, Window(table, "all", b, b, type)) = Amount(Sent(b, b, unit, type))
      <4>1. "all" \in Dimensions \cup {"all"}
        OBVIOUS
      <4> QED BY <1>1, <2>1, <4>1, WindowSums
    <3> QED BY <1>4, <3>1 DEF Sent
  <2>3. /\ series[b].revenue = AmountOf(table, OfType(bucket, "order_paid"))
        /\ series[b].orders = CountOf(table, OfType(bucket, "order_placed"))
        /\ series[b].cancelled = CountOf(table, OfType(bucket, "order_cancelled"))
    <3>1. series[b] = Point(b)
      <4> HIDE DEF Point
      <4> QED BY <1>3
    <3> DEFINE r == AmountOf(table, OfType(bucket, "order_paid"))
               o == CountOf(table, OfType(bucket, "order_placed"))
               c == CountOf(table, OfType(bucket, "order_cancelled"))
    <3>2. Point(b) = [revenue |-> r, orders |-> o, cancelled |-> c]
      BY DEF Point
    <3> HIDE DEF Point, r, o, c
    <3>3. series[b].revenue = r /\ series[b].orders = o /\ series[b].cancelled = c
      BY <3>1, <3>2
    <3> QED BY <3>3 DEF r, o, c
  <2> HIDE DEF bucket, group
  <2>4. /\ series[b].revenue = Amount(Of("order_paid", group))
        /\ series[b].orders = Cardinality(Of("order_placed", group))
        /\ series[b].cancelled = Cardinality(Of("order_cancelled", group))
    BY <2>2, <2>3
  <2> QED BY <2>4 DEF group
<1> HIDE DEF Point
<1>7. DOMAIN series = first..last
  BY <1>3
<1>8. Cardinality(first..last) = length
  <2>1. Cardinality(first..last) = IF first > last THEN 0 ELSE last - first + 1
    BY <1>2, <1>5, FS_Interval
  <2>2. last - first + 1 = length
    BY <1>2 DEF last
  <2> QED BY <1>2, <1>5, <2>1, <2>2
<1>9. Max(first..last) = last
  <2>1. last \in first..last /\ \A x \in first..last : x <= last /\ x \in Int
    BY <1>2, <1>5
  <2> DEFINE I == first..last
  <2>2. \A m : m \in I /\ (\A y \in I : m >= y) <=> m = last
    BY <1>2, <1>5
  <2>3. Max(I) = CHOOSE x \in I : \A y \in I : x >= y
    BY DEF Max
  <2> HIDE DEF I
  <2> QED BY <2>2, <2>3 DEF I
<1> QED BY <1>6, <1>7, <1>8, <1>9 DEF SeriesOf, last

\* The rate the snapshot shows counts the events written in the window of the meter.
LEMMA RateRight ==
    ASSUME MetricsIInv
    PROVE  Remaining(samples, total) = Cardinality(WrittenSince(now - RateWindow))
<1>1. now \in Int /\ LogOK(samples, total)
  BY DEF MetricsIInv, MetricsTypeOK, SamplesOK
<1>2. Remaining(samples, total) = SumSince(samples, now - RateWindow)
  BY <1>1, LogPrune
<1>3. now - RateWindow \in Int /\ now - RateWindow >= now - RateWindow
  BY <1>1, MetricsAssumption
<1> QED BY <1>2, <1>3 DEF MetricsIInv, SamplesOK

\* Items with a name of their own each, and the order the rankings put them in.
ItemsOf(names, revenue, orders) ==
    {[name |-> n, revenue |-> revenue[n], orders |-> orders[n]] : n \in names}
Ranking(items) ==
    [i \in 1..Cardinality(items) |->
        CHOOSE item \in items : Cardinality({o \in items : Outranks(o, item)}) = i - 1]

\* A ranking has every item once, in descending order of revenue, and loses nothing.
LEMMA RankingSound ==
    ASSUME NEW names \in SUBSET Int, IsFiniteSet(names),
           NEW revenue, NEW orders, \A n \in names : revenue[n] \in Nat /\ orders[n] \in Nat,
           NEW items, items = ItemsOf(names, revenue, orders), NEW top, top = Ranking(items)
    PROVE  /\ SumFunction([i \in DOMAIN top |-> top[i].revenue]) = SumFunctionOnSet(revenue, names)
           /\ SumFunction([i \in DOMAIN top |-> top[i].orders]) = SumFunctionOnSet(orders, names)
           /\ \A i, j \in DOMAIN top : i < j =>
                 top[i].name # top[j].name /\ top[i].revenue >= top[j].revenue
<1> DEFINE R == {p \in items \X items : Outranks(p[1], p[2])}
           n_ == Cardinality(items)
           item == [n \in names |-> [name |-> n, revenue |-> revenue[n], orders |-> orders[n]]]
<1>1. \A n \in names : /\ item[n] \in items /\ item[n].name = n
                       /\ item[n].revenue = revenue[n] /\ item[n].orders = orders[n]
  BY DEF ItemsOf
<1>2. \A x \in items : \E n \in names : x = item[n]
  BY DEF ItemsOf
<1>3. item \in Bijection(names, items)
  <2>1. item \in [names -> items]
    BY <1>1
  <2> HIDE DEF item
  <2>2. \A m, n \in names : item[m] = item[n] => m = n
    BY <1>1
  <2>3. \A x \in items : \E n \in names : item[n] = x
    BY <1>2
  <2> QED BY <2>1, <2>2, <2>3 DEF Bijection, Injection, Surjection, IsInjective
<1> HIDE DEF item
<1>4. IsFiniteSet(items)
  BY <1>3, FS_Bijection DEF ExistsBijection
<1>5. \A x \in items : /\ x.name \in Int /\ x.revenue \in Nat /\ x.orders \in Nat
                       /\ x = item[x.name]
  <2> SUFFICES ASSUME NEW x \in items
               PROVE  /\ x.name \in Int /\ x.revenue \in Nat /\ x.orders \in Nat
                      /\ x = item[x.name]
    OBVIOUS
  <2>1. PICK n \in names : x = item[n]
    BY <1>2
  <2>2. x.name = n /\ x.revenue = revenue[n] /\ x.orders = orders[n]
    BY <1>1, <2>1
  <2> QED BY <2>1, <2>2
<1>6. StrictOrder(items, R)
  <2>1. \A x, y \in items : <<x, y>> \in R <=> Outranks(x, y)
    OBVIOUS
  <2>2. \A x \in items : ~Outranks(x, x)
    BY <1>5 DEF Outranks
  <2>3. ASSUME NEW x \in items, NEW y \in items, NEW z \in items, Outranks(x, y), Outranks(y, z)
        PROVE  Outranks(x, z)
    <3>1. /\ x.name \in Int /\ x.revenue \in Int /\ x.orders \in Int
          /\ y.name \in Int /\ y.revenue \in Int /\ y.orders \in Int
          /\ z.name \in Int /\ z.revenue \in Int /\ z.orders \in Int
      BY <1>5
    <3> QED BY <2>3, <3>1 DEF Outranks
  <2>4. ASSUME NEW x \in items, NEW y \in items, x # y PROVE Outranks(x, y) \/ Outranks(y, x)
    <3>1. x.name # y.name
      BY <1>5, <2>4
    <3>2. /\ x.name \in Int /\ x.revenue \in Int /\ x.orders \in Int
          /\ y.name \in Int /\ y.revenue \in Int /\ y.orders \in Int
      BY <1>5
    <3> QED BY <3>1, <3>2 DEF Outranks
  <2> HIDE DEF R
  <2> QED BY <2>1, <2>2, <2>3, <2>4 DEF StrictOrder
<1>7. top = Ranked(items, R)
  <2>1. \A y \in items : AheadOf(items, R, y) = {o \in items : Outranks(o, y)}
    BY DEF AheadOf
  <2> DEFINE F(i) == CHOOSE y \in items : Cardinality({o \in items : Outranks(o, y)}) = i - 1
             G(i) == CHOOSE y \in items : Cardinality(AheadOf(items, R, y)) = i - 1
  <2>2. top = [i \in 1..n_ |-> F(i)]
    BY DEF Ranking
  <2>3. Ranked(items, R) = [i \in 1..n_ |-> G(i)]
    BY DEF Ranked
  <2>4. \A i : F(i) = G(i)
    <3> HIDE DEF R
    <3> QED BY <2>1
  <2> HIDE DEF R, n_, F, G
  <2> QED BY <2>2, <2>3, <2>4
<1>8. /\ top \in Bijection(1..n_, items)
      /\ \A i, j \in 1..n_ : i < j => <<top[i], top[j]>> \in R
  <2> HIDE DEF R
  <2> QED BY <1>4, <1>6, <1>7, RankedSorts
<1>9. DOMAIN top = 1..n_ /\ IsFiniteSet(1..n_) /\ \A i \in 1..n_ : top[i] \in items
  <2>1. n_ \in Nat
    BY <1>4, FS_CardinalityType
  <2>2. IsFiniteSet(1..n_)
    <3> HIDE DEF n_
    <3> QED BY <2>1, FS_Interval
  <2>3. top \in [1..n_ -> items]
    BY <1>8 DEF Bijection, Injection
  <2> QED BY <2>2, <2>3
<1>10. ASSUME NEW i \in 1..n_, NEW j \in 1..n_, i < j
       PROVE  top[i].name # top[j].name /\ top[i].revenue >= top[j].revenue
  <2>1. Outranks(top[i], top[j]) /\ top[i] \in items /\ top[j] \in items
    BY <1>8, <1>9, <1>10
  <2>2. /\ top[i].name \in Int /\ top[i].revenue \in Int /\ top[i].orders \in Int
        /\ top[j].name \in Int /\ top[j].revenue \in Int /\ top[j].orders \in Int
    BY <1>5, <2>1
  <2>3. top[i] # top[j]
    BY <2>1, <2>2 DEF Outranks
  <2>4. top[i].name # top[j].name
    BY <1>5, <2>1, <2>3
  <2> QED BY <2>1, <2>2, <2>4 DEF Outranks
<1> HIDE DEF n_, R
<1> DEFINE rank == [i \in 1..n_ |-> top[i].name]
<1>11. rank \in Bijection(1..n_, names)
  <2>1. \A i \in 1..n_ : top[i].name \in names
    BY <1>1, <1>2, <1>9
  <2>2. rank \in [1..n_ -> names]
    BY <2>1
  <2>3. \A i, j \in 1..n_ : rank[i] = rank[j] => i = j
    <3> SUFFICES ASSUME NEW i \in 1..n_, NEW j \in 1..n_, rank[i] = rank[j], i # j PROVE FALSE
      OBVIOUS
    <3>1. i < j \/ j < i
      BY <1>4, FS_CardinalityType DEF n_
    <3> QED BY <1>10, <3>1
  <2>4. \A n \in names : \E i \in 1..n_ : rank[i] = n
    <3> SUFFICES ASSUME NEW n \in names PROVE \E i \in 1..n_ : rank[i] = n
      OBVIOUS
    <3>1. PICK i \in 1..n_ : top[i] = item[n]
      BY <1>1, <1>8 DEF Bijection, Surjection
    <3> QED BY <1>1, <3>1
  <2> HIDE DEF rank
  <2> QED BY <2>2, <2>3, <2>4 DEF Bijection, Injection, Surjection, IsInjective
<1>12. \A i \in 1..n_ : /\ top[i].revenue \in Nat /\ revenue[rank[i]] = top[i].revenue
                        /\ top[i].orders \in Nat /\ orders[rank[i]] = top[i].orders
  <2> SUFFICES ASSUME NEW i \in 1..n_
               PROVE  /\ top[i].revenue \in Nat /\ revenue[rank[i]] = top[i].revenue
                      /\ top[i].orders \in Nat /\ orders[rank[i]] = top[i].orders
    OBVIOUS
  <2>1. rank[i] = top[i].name /\ rank[i] \in names
    BY <1>11 DEF Bijection, Injection
  <2>2. top[i] = item[rank[i]] /\ top[i] \in items
    BY <1>5, <1>9, <2>1
  <2> HIDE DEF rank
  <2> QED BY <1>1, <1>5, <2>1, <2>2
<1> HIDE DEF rank
<1> DEFINE r == [i \in DOMAIN top |-> top[i].revenue]
           o == [i \in DOMAIN top |-> top[i].orders]
<1>13. /\ DOMAIN r = 1..n_ /\ DOMAIN o = 1..n_
       /\ \A i \in 1..n_ : r[i] = top[i].revenue /\ o[i] = top[i].orders
  BY <1>9
<1>14. /\ SumFunction(r) = SumFunctionOnSet(r, DOMAIN r)
       /\ SumFunction(o) = SumFunctionOnSet(o, DOMAIN o)
  BY DEF SumFunction
<1> HIDE DEF r, o
<1>15. SumFunctionOnSet(revenue, names) = SumFunctionOnSet(r, 1..n_)
  <2> DEFINE I == 1..n_
  <2>1. \A i \in I : r[i] \in Int /\ revenue[rank[i]] = r[i]
    BY <1>12, <1>13
  <2>2. IsFiniteSet(I) /\ rank \in Bijection(I, names)
    BY <1>9, <1>11
  <2> HIDE DEF I
  <2>3. SumFunctionOnSet(revenue, names) = SumFunctionOnSet(r, I)
    BY ONLY <2>1, <2>2, SumRenamed
  <2> QED BY <2>3 DEF I
<1>16. SumFunctionOnSet(orders, names) = SumFunctionOnSet(o, 1..n_)
  <2> DEFINE I == 1..n_
  <2>1. \A i \in I : o[i] \in Int /\ orders[rank[i]] = o[i]
    BY <1>12, <1>13
  <2>2. IsFiniteSet(I) /\ rank \in Bijection(I, names)
    BY <1>9, <1>11
  <2> HIDE DEF I
  <2>3. SumFunctionOnSet(orders, names) = SumFunctionOnSet(o, I)
    BY ONLY <2>1, <2>2, SumRenamed
  <2> QED BY <2>3 DEF I
<1> QED BY <1>9, <1>10, <1>13, <1>14, <1>15, <1>16 DEF r, o

\* The rows of a table that have a name.
Named(K, n) == {k \in K : k[3] = n}

\* Summing some rows of a table is summing its function on them.
LEMMA SumOfRows ==
    ASSUME NEW K, IsFiniteSet(K), NEW f, \A k \in K : f[k] \in Nat, NEW C \in SUBSET K
    PROVE  /\ SumFunction([k \in C |-> f[k]]) = SumFunctionOnSet(f, C)
           /\ SumFunctionOnSet(f, C) \in Nat
<1> DEFINE g == [k \in C |-> f[k]]
<1>1. IsFiniteSet(C) /\ \A k \in C : f[k] \in Nat
  BY FS_Subset
<1>2. SumFunction(g) = SumFunctionOnSet(g, DOMAIN g) /\ DOMAIN g = C
  BY DEF SumFunction
<1>3. \A k \in C : f[k] \in Int /\ g[k] = f[k]
  BY <1>1
<1> HIDE DEF g
<1>4. SumFunctionOnSet(g, C) = SumFunctionOnSet(f, C)
  BY ONLY <1>1, <1>3, SumSame
<1>5. SumFunctionOnSet(f, C) \in Nat
  BY ONLY <1>1, SumNat
<1> QED BY <1>2, <1>4, <1>5 DEF g

\* What the rows of a table have, name by name, is what they have together.
LEMMA SumByName ==
    ASSUME NEW K, IsFiniteSet(K), NEW f, \A k \in K : f[k] \in Nat,
           NEW names, IsFiniteSet(names), \A k \in K : k[3] \in names,
           NEW part, \A n \in names : part[n] = SumFunctionOnSet(f, Named(K, n))
    PROVE  /\ \A n \in names : part[n] \in Nat
           /\ SumFunctionOnSet(part, names) = SumFunctionOnSet(f, K)
<1> DEFINE q == [k \in K |-> k[3]]
<1>1. \A n \in names : Named(K, n) = Class(K, q, n)
  BY DEF Named, Class
<1>2. \A n \in names : part[n] \in Nat
  <2> SUFFICES ASSUME NEW n \in names PROVE part[n] \in Nat
    OBVIOUS
  <2>1. Named(K, n) \in SUBSET K
    BY DEF Named
  <2>2. SumFunctionOnSet(f, Named(K, n)) \in Nat
    BY <2>1, SumOfRows
  <2> QED BY <2>2
<1>3. \A k \in K : q[k] \in names /\ f[k] \in Int
  OBVIOUS
<1> HIDE DEF q
<1>4. SumFunctionOnSet(part, names) = SumFunctionOnSet(f, K)
  <2>1. \A n \in names : part[n] = SumFunctionOnSet(f, Class(K, q, n))
    BY <1>1
  <2>2. (\A k \in K : q[k] \in names) /\ (\A k \in K : f[k] \in Int)
    BY <1>3
  <2> QED BY ONLY <2>1, <2>2, IsFiniteSet(K), IsFiniteSet(names), SumOfGroups
<1> QED BY <1>2, <1>4

\* The rows of one dimension in a window have counts, amounts, and a name.
LEMMA WindowRows ==
    ASSUME MetricsIInv, NEW d \in Dimensions, NEW first \in Int, NEW last \in Int, NEW type,
           NEW K, K = Window(aggMinute, d, first, last, type)
    PROVE  /\ IsFiniteSet(K)
           /\ \A k \in K : /\ aggMinute[k].count \in Nat /\ aggMinute[k].amount \in Nat
                           /\ k[3] \in Int
<1>1. /\ MetricsTypeOK /\ aggMinute = Rollup(rows, Minute)
      /\ rows \in SUBSET Rows /\ IsFiniteSet(rows) /\ Priced(rows)
  BY Settings DEF MetricsIInv, TablesOK, MetricsTypeOK, Rows, Priced
<1>2. d \in Dimensions \cup {"all"} /\ d # "all" /\ Minute \in {Minute, Hour}
  BY Settings
<1>3. KeysIn(K, rows, d, Minute)
  BY <1>1, <1>2, WindowSums
<1>4. IsFiniteSet(K)
  BY <1>1, <1>2, <1>3, KeysGroup
<1>5. ASSUME NEW k \in K
      PROVE  aggMinute[k].count \in Nat /\ aggMinute[k].amount \in Nat /\ k[3] \in Int
  <2> DEFINE G == Counting(rows, Minute, k)
  <2>1. k \in DOMAIN Rollup(rows, Minute) /\ k[1] = d
    BY <1>3 DEF KeysIn
  <2>2. G \in SUBSET rows /\ G # {}
    <3>1. G \in SUBSET rows
      BY DEF Counting
    <3>2. Counting(rows, Minute, k) # {}
      <4> HIDE DEF G
      <4> QED BY <2>1, RollupRow
    <3> QED BY <3>1, <3>2
  <2>3. aggMinute[k] = [count |-> Cardinality(G), amount |-> Amount(G)]
    BY <1>1, <2>1, RollupRow
  <2>4. PICK row \in rows : k \in Keys(row, Minute)
    BY <2>2 DEF Counting
  <2> HIDE DEF G
  <2>5. IsFiniteSet(G) /\ Priced(G)
    BY <1>1, <2>2, FS_Subset DEF Priced
  <2>6. Cardinality(G) \in Nat /\ Amount(G) \in Nat
    BY <2>5, FS_CardinalityType, AmountType
  <2>7. k = KeyOf(row, d, Minute)
    BY <1>2, <2>1, <2>4, KeysOfRow
  <2>8. k[3] = row.kind.dims[d]
    BY <1>2, <2>7 DEF KeyOf
  <2>9. row.kind \in Kinds
    BY <1>1 DEF Rows
  <2> QED BY <2>3, <2>6, <2>8, <2>9, Settings
<1> QED BY <1>4, <1>5

\* The names of a set of rows are finitely many.
LEMMA NamesFinite ==
    ASSUME NEW K, IsFiniteSet(K)
    PROVE  IsFiniteSet({k[3] : k \in K})
<1> DEFINE T == {k[3] : k \in K}
           f == [k \in K |-> k[3]]
<1>1. f \in Surjection(K, T)
  BY DEF Surjection
<1> HIDE DEF f, T
<1>2. IsFiniteSet(T)
  BY <1>1, FS_Surjection
<1> QED BY <1>2 DEF T

\* What a ranking adds up to.
RevenueOf(top) == SumFunction([i \in DOMAIN top |-> top[i].revenue])
OrdersOf(top) == SumFunction([i \in DOMAIN top |-> top[i].orders])

\* Each name once, in descending order of revenue.
Descending(top) ==
    \A i, j \in DOMAIN top : i < j =>
       top[i].name # top[j].name /\ top[i].revenue >= top[j].revenue

\* The ranking of a dimension has the revenue and the orders of the window, each name
\* once, in descending order of revenue.
LEMMA TopRight ==
    ASSUME MetricsIInv, NEW d \in Dimensions, NEW first \in Int, NEW last \in Int,
           NEW top, top = rank_dimension(Read(aggMinute, {d}, first, last))
    PROVE  /\ RevenueOf(top)
                 = AmountOf(aggMinute, Window(aggMinute, d, first, last, "order_paid"))
           /\ OrdersOf(top)
                 = CountOf(aggMinute, Window(aggMinute, d, first, last, "order_placed"))
           /\ Descending(top)
<1> DEFINE P == Window(aggMinute, d, first, last, "order_paid")
           O == Window(aggMinute, d, first, last, "order_placed")
           names == {k[3] : k \in P \cup O}
           revenue == [n \in names |-> AmountOf(aggMinute, Named(P, n))]
           orders == [n \in names |-> CountOf(aggMinute, Named(O, n))]
           items == ItemsOf(names, revenue, orders)
<1>1. /\ IsFiniteSet(P) /\ \A k \in P : aggMinute[k].amount \in Nat /\ k[3] \in Int
  BY WindowRows
<1>2. /\ IsFiniteSet(O) /\ \A k \in O : aggMinute[k].count \in Nat /\ k[3] \in Int
  BY WindowRows
<1>3. top = Ranking(items)
  <2> DEFINE keys == Read(aggMinute, {d}, first, last)
             items_ == {[name |-> n, revenue |-> AmountOf(aggMinute, Named(P, n)),
                         orders |-> CountOf(aggMinute, Named(O, n))] : n \in names}
  <2>1. OfType(keys, "order_paid") = P /\ OfType(keys, "order_placed") = O
    BY DEF Window
  <2>2. rank_dimension(keys) = Ranking(items_)
    <3> DEFINE p == OfType(keys, "order_paid")
               o == OfType(keys, "order_placed")
               all == {[name |-> n, revenue |-> AmountOf(aggMinute, Named(p, n)),
                        orders |-> CountOf(aggMinute, Named(o, n))] : n \in {k[3] : k \in p \cup o}}
    <3>1. rank_dimension(keys) = Ranking(all)
      <4> HIDE DEF keys, P, O
      <4> QED BY DEF rank_dimension, Ranking, Named
    <3>2. p = P /\ o = O
      BY <2>1
    <3> HIDE DEF p, o, P, O, keys
    <3>3. all = items_
      BY <3>2
    <3> HIDE DEF all, items_
    <3> QED BY <3>1, <3>3
  <2>3. items_ = items
    <3> HIDE DEF P, O
    <3> QED BY DEF ItemsOf
  <2> QED BY <2>2, <2>3
<1> HIDE DEF P, O
<1>4. names \in SUBSET Int /\ IsFiniteSet(names)
  <2> DEFINE K == P \cup O
  <2>1. \A k \in K : k[3] \in Int
    BY <1>1, <1>2
  <2>2. IsFiniteSet(K)
    BY <1>1, <1>2, FS_Union
  <2> HIDE DEF K
  <2>3. IsFiniteSet({k[3] : k \in K})
    BY <2>2, NamesFinite
  <2> QED BY <2>1, <2>3 DEF K
<1>5. (\A k \in P : k[3] \in names) /\ (\A k \in O : k[3] \in names)
  OBVIOUS
<1>6. /\ \A n \in names : revenue[n] = SumFunction([k \in Named(P, n) |-> aggMinute[k].amount])
      /\ \A n \in names : orders[n] = SumFunction([k \in Named(O, n) |-> aggMinute[k].count])
  BY DEF AmountOf, CountOf
<1> HIDE DEF names, revenue, orders
<1> DEFINE amounts == [k \in P |-> aggMinute[k].amount]
           counts == [k \in O |-> aggMinute[k].count]
<1>7. (\A k \in P : amounts[k] \in Nat) /\ (\A k \in O : counts[k] \in Nat)
  BY <1>1, <1>2
<1>8. \A n \in names : /\ revenue[n] = SumFunctionOnSet(amounts, Named(P, n))
                       /\ orders[n] = SumFunctionOnSet(counts, Named(O, n))
  <2> SUFFICES ASSUME NEW n \in names
               PROVE  /\ revenue[n] = SumFunctionOnSet(amounts, Named(P, n))
                      /\ orders[n] = SumFunctionOnSet(counts, Named(O, n))
    OBVIOUS
  <2>1. Named(P, n) \in SUBSET P /\ Named(O, n) \in SUBSET O
    BY DEF Named
  <2>2. /\ [k \in Named(P, n) |-> aggMinute[k].amount] = [k \in Named(P, n) |-> amounts[k]]
        /\ [k \in Named(O, n) |-> aggMinute[k].count] = [k \in Named(O, n) |-> counts[k]]
    BY <2>1
  <2> HIDE DEF amounts, counts
  <2>3. SumFunction([k \in Named(P, n) |-> amounts[k]]) = SumFunctionOnSet(amounts, Named(P, n))
    BY ONLY <1>1, <1>7, <2>1, SumOfRows
  <2>4. SumFunction([k \in Named(O, n) |-> counts[k]]) = SumFunctionOnSet(counts, Named(O, n))
    BY ONLY <1>2, <1>7, <2>1, SumOfRows
  <2> QED BY <1>6, <2>2, <2>3, <2>4
<1>9. /\ SumFunctionOnSet(amounts, P) = AmountOf(aggMinute, P)
      /\ SumFunctionOnSet(counts, O) = CountOf(aggMinute, O)
  BY DEF AmountOf, CountOf, SumFunction
<1> HIDE DEF amounts, counts
<1>10. /\ \A n \in names : revenue[n] \in Nat
       /\ SumFunctionOnSet(revenue, names) = AmountOf(aggMinute, P)
  <2>1. \A n \in names : revenue[n] = SumFunctionOnSet(amounts, Named(P, n))
    BY <1>8
  <2>2. IsFiniteSet(P) /\ \A k \in P : amounts[k] \in Nat
    BY <1>1, <1>7
  <2>3. IsFiniteSet(names) /\ \A k \in P : k[3] \in names
    BY <1>4, <1>5
  <2>4. /\ \A n \in names : revenue[n] \in Nat
        /\ SumFunctionOnSet(revenue, names) = SumFunctionOnSet(amounts, P)
    BY ONLY <2>1, <2>2, <2>3, SumByName
  <2> QED BY <1>9, <2>4
<1>11. /\ \A n \in names : orders[n] \in Nat
       /\ SumFunctionOnSet(orders, names) = CountOf(aggMinute, O)
  <2>1. \A n \in names : orders[n] = SumFunctionOnSet(counts, Named(O, n))
    BY <1>8
  <2>2. IsFiniteSet(O) /\ \A k \in O : counts[k] \in Nat
    BY <1>2, <1>7
  <2>3. IsFiniteSet(names) /\ \A k \in O : k[3] \in names
    BY <1>4, <1>5
  <2>4. /\ \A n \in names : orders[n] \in Nat
        /\ SumFunctionOnSet(orders, names) = SumFunctionOnSet(counts, O)
    BY ONLY <2>1, <2>2, <2>3, SumByName
  <2> QED BY <1>9, <2>4
<1>12. \A n \in names : revenue[n] \in Nat /\ orders[n] \in Nat
  BY <1>10, <1>11
<1> HIDE DEF items
<1>13. /\ SumFunction([i \in DOMAIN top |-> top[i].revenue]) = SumFunctionOnSet(revenue, names)
       /\ SumFunction([i \in DOMAIN top |-> top[i].orders]) = SumFunctionOnSet(orders, names)
       /\ \A i, j \in DOMAIN top : i < j =>
             top[i].name # top[j].name /\ top[i].revenue >= top[j].revenue
  <2>1. items = ItemsOf(names, revenue, orders)
    BY DEF items
  <2> QED BY ONLY <1>3, <1>4, <1>12, <2>1, RankingSound
<1>14. Descending(top)
  BY <1>13 DEF Descending
<1>15. /\ RevenueOf(top) = SumFunctionOnSet(revenue, names)
       /\ OrdersOf(top) = SumFunctionOnSet(orders, names)
  BY <1>13 DEF RevenueOf, OrdersOf
<1> QED BY <1>10, <1>11, <1>14, <1>15 DEF P, O

\* The windows of a snapshot, in ticks.
LEMMA SnapshotWindows ==
    ASSUME MetricsIInv
    PROVE  LET minute == Now(Minute)
               end == (minute + 1) * Minute
               span == WindowMinutes * Minute
           IN  /\ minute \in Int /\ WindowStart(minute) \in Int /\ PreviousStart(minute) \in Int
               /\ WindowStart(minute) - 1 \in Int
               /\ WindowStart(minute) * Minute = end - span
               /\ PreviousStart(minute) * Minute = end - 2 * span
               /\ (WindowStart(minute) - 1 + 1) * Minute = end - span
<1> DEFINE minute == Now(Minute)
           w == WindowMinutes
           u == Minute
<1>1. w \in Int /\ u \in Nat \ {0}
  BY MetricsAssumption
<1>2. minute \in Int
  BY <1>1, BucketSpan DEF Now, MetricsIInv, MetricsTypeOK
<1>3. /\ WindowStart(minute) = minute - (w - 1)
      /\ PreviousStart(minute) = minute - (w - 1) - w
  BY DEF WindowStart, PreviousStart
<1> HIDE DEF minute, w, u
<1>4. /\ (minute - (w - 1)) * u = (minute + 1) * u - w * u
      /\ (minute - (w - 1) - w) * u = (minute + 1) * u - 2 * (w * u)
      /\ (minute - (w - 1) - 1 + 1) * u = (minute + 1) * u - w * u
  BY <1>1, <1>2
<1>5. minute - (w - 1) \in Int /\ minute - (w - 1) - w \in Int /\ minute - (w - 1) - 1 \in Int
  BY <1>1, <1>2
<1>6. /\ WindowStart(minute) \in Int /\ PreviousStart(minute) \in Int
      /\ WindowStart(minute) - 1 \in Int
      /\ WindowStart(minute) * u = (minute + 1) * u - w * u
      /\ PreviousStart(minute) * u = (minute + 1) * u - 2 * (w * u)
      /\ (WindowStart(minute) - 1 + 1) * u = (minute + 1) * u - w * u
  BY <1>3, <1>4, <1>5
<1> QED BY <1>2, <1>6 DEF minute, w, u

\* In every reachable state the cards, the series and the rankings of a snapshot are
\* those of the events in their windows and agree with each other, and its rate counts
\* the last RateWindow (metrics.py:10-11, 66-78, 106-209, rate_meter.py:18-36).
THEOREM SnapshotIsRight == MetricsSpec => []SnapshotAddsUp
<1>1. MetricsIInv => SnapshotAddsUp
  <2> SUFFICES ASSUME MetricsIInv PROVE SnapshotAddsUp
    OBVIOUS
  <2> DEFINE minute == Now(Minute)
             first == WindowStart(minute)
             before == PreviousStart(minute)
             end == (minute + 1) * Minute
             span == WindowMinutes * Minute
             s == Snapshot
             hour == Now(Hour)
             current == AllOf(first, minute)
             previous == AllOf(before, first - 1)
             hours == Read(aggHour, {"all"}, hour - (HourlyHours - 1), hour)
  <2>1. /\ minute \in Int /\ first \in Int /\ before \in Int /\ first - 1 \in Int
        /\ first * Minute = end - span
        /\ before * Minute = end - 2 * span
        /\ (first - 1 + 1) * Minute = end - span
    BY SnapshotWindows
  <2>2. MetricsTypeOK /\ aggMinute = Rollup(rows, Minute) /\ aggHour = Rollup(rows, Hour)
    BY DEF MetricsIInv, TablesOK
  <2>3. WindowMinutes \in Nat \ {0} /\ HourlyHours \in Nat \ {0}
    BY MetricsAssumption
  <2>4. /\ s.kpis = compute_kpis(current)
        /\ s.previousKpis = compute_kpis(previous)
        /\ s.perMinute = dense_series(aggMinute, current, first, minute)
        /\ s.perHour = dense_series(aggHour, hours, hour - (HourlyHours - 1), hour)
        /\ s.top = [d \in Dimensions |-> rank_dimension(Read(aggMinute, {d}, first, minute))]
        /\ s.rate = <<Remaining(samples, total), Observed>>
    BY DEF Snapshot, AllOf
  <2>5. KpisOf(s.kpis, SentBetween(end - span, end))
    <3>1. KpisOf(compute_kpis(current), SentBetween(first * Minute, (minute + 1) * Minute))
      <4> HIDE DEF first, minute
      <4> QED BY <2>1, KpisRight
    <3> QED BY <2>1, <2>4, <3>1
  <2>6. KpisOf(s.previousKpis, SentBetween(end - 2 * span, end - span))
    <3>1. KpisOf(compute_kpis(previous), SentBetween(before * Minute, (first - 1 + 1) * Minute))
      <4> DEFINE last == first - 1
      <4>1. last \in Int
        BY <2>1
      <4> HIDE DEF first, before, last
      <4>2. KpisOf(compute_kpis(AllOf(before, last)), SentBetween(before * Minute, (last + 1) * Minute))
        BY <2>1, <4>1, KpisRight
      <4> QED BY <4>2 DEF last
    <3> HIDE DEF first, before, end, span, s
    <3> QED BY <2>1, <2>4, <3>1
  <2>7. SeriesOf(s.perMinute, WindowMinutes, Minute)
    <3>1. Minute \in {Minute, Hour} /\ first = Now(Minute) - (WindowMinutes - 1)
      BY DEF WindowStart
    <3>2. s.perMinute = dense_series(aggMinute, Read(aggMinute, {"all"}, first, Now(Minute)),
                                     first, Now(Minute))
      BY <2>4 DEF AllOf
    <3> HIDE DEF first, s
    <3> QED BY <2>2, <2>3, <3>1, <3>2, SeriesRight
  <2>8. SeriesOf(s.perHour, HourlyHours, Hour)
    <3> DEFINE start == hour - (HourlyHours - 1)
    <3>1. Hour \in {Minute, Hour} /\ start = Now(Hour) - (HourlyHours - 1)
      OBVIOUS
    <3>2. s.perHour = dense_series(aggHour, Read(aggHour, {"all"}, start, Now(Hour)),
                                   start, Now(Hour))
      BY <2>4
    <3> HIDE DEF start, s
    <3> QED BY <2>2, <2>3, <3>1, <3>2, SeriesRight
  <2>9. ASSUME NEW d \in Dimensions
        PROVE  /\ SumFunction([i \in DOMAIN s.top[d] |-> s.top[d][i].revenue]) = s.kpis.revenue
               /\ SumFunction([i \in DOMAIN s.top[d] |-> s.top[d][i].orders]) = s.kpis.orders
               /\ \A i, j \in DOMAIN s.top[d] : i < j =>
                     /\ s.top[d][i].name # s.top[d][j].name
                     /\ s.top[d][i].revenue >= s.top[d][j].revenue
    <3> DEFINE top == s.top[d]
               group == SentBetween(first * Minute, (minute + 1) * Minute)
    <3>1. top = rank_dimension(Read(aggMinute, {d}, first, minute))
      BY <2>4
    <3> HIDE DEF s, top, first, minute
    <3>7. first \in Int /\ minute \in Int /\ d \in Dimensions
      BY <2>1
    <3>2. /\ RevenueOf(top)
                = AmountOf(aggMinute, Window(aggMinute, d, first, minute, "order_paid"))
          /\ OrdersOf(top)
                = CountOf(aggMinute, Window(aggMinute, d, first, minute, "order_placed"))
      BY ONLY MetricsIInv, <3>1, <3>7, TopRight
    <3>6. Descending(top)
      BY ONLY MetricsIInv, <3>1, <3>7, TopRight
    <3>3. KpisOf(s.kpis, group)
      BY <2>1, <2>4, KpisRight
    <3>4. /\ AmountOf(aggMinute, Window(aggMinute, d, first, minute, "order_paid"))
                = Amount(Of("order_paid", group))
          /\ CountOf(aggMinute, Window(aggMinute, d, first, minute, "order_placed"))
                = Cardinality(Of("order_placed", group))
      <4>1. d \in Dimensions \cup {"all"} /\ Minute \in {Minute, Hour}
        OBVIOUS
      <4>2. /\ AmountOf(aggMinute, Window(aggMinute, d, first, minute, "order_paid"))
                  = Amount(Sent(first, minute, Minute, "order_paid"))
            /\ CountOf(aggMinute, Window(aggMinute, d, first, minute, "order_placed"))
                  = Cardinality(Sent(first, minute, Minute, "order_placed"))
        BY <2>1, <2>2, <4>1, WindowSums
      <4> QED BY <4>2 DEF Sent
    <3>5. RevenueOf(top) = s.kpis.revenue /\ OrdersOf(top) = s.kpis.orders
      BY <3>2, <3>3, <3>4 DEF KpisOf
    <3> QED BY <3>5, <3>6 DEF Descending, RevenueOf, OrdersOf, top
  <2>10. s.rate[1] = Cardinality(WrittenSince(now - RateWindow))
    <3>1. s.rate[1] = Remaining(samples, total)
      BY <2>4
    <3> QED BY <3>1, RateRight
  <2> HIDE DEF s, end, span
  <2>11. /\ KpisOf(s.kpis, SentBetween(end - span, end))
         /\ KpisOf(s.previousKpis, SentBetween(end - 2 * span, end - span))
         /\ SeriesOf(s.perMinute, WindowMinutes, Minute) /\ SeriesOf(s.perHour, HourlyHours, Hour)
         /\ \A d \in Dimensions :
               /\ SumFunction([i \in DOMAIN s.top[d] |-> s.top[d][i].revenue]) = s.kpis.revenue
               /\ SumFunction([i \in DOMAIN s.top[d] |-> s.top[d][i].orders]) = s.kpis.orders
               /\ \A i, j \in DOMAIN s.top[d] : i < j =>
                     /\ s.top[d][i].name # s.top[d][j].name
                     /\ s.top[d][i].revenue >= s.top[d][j].revenue
         /\ s.rate[1] = Cardinality(WrittenSince(now - RateWindow))
    BY <2>5, <2>6, <2>7, <2>8, <2>9, <2>10
  <2> QED BY <2>11 DEF SnapshotAddsUp, s, end, span, minute
<1> QED BY <1>1, MetricsInvariant, PTL

-----------------------------------------------------------------------------
(* The evaluator.                                                          *)

USE AlertAssumption DEF AlertAssumption

-----------------------------------------------------------------------------
(* Where an evaluation is.                                                 *)

\* What a statement is about follows from what the tracker decided, and an
\* alert is reported for a rule whose turn is over.
StatementsFollow ==
    \A i \in Instances :
        /\ stage[i] \in {"fire", "select", "resolve"} => turn[i] <= Len(RuleList)
        /\ stage[i] \in {"fire", "select"} => tracker[i][InTurn(i)].firing
        /\ stage[i] = "resolve" => ~tracker[i][InTurn(i)].firing

PushedBefore ==
    \A i \in Instances : \A p \in Pushed(i) : \E k \in 1..(turn[i] - 1) : RuleList[k] = p[1]

Trackers == [firing : BOOLEAN, streak : 0..(History - 1)]

LEMMA HistoryFacts ==
    /\ History \in Nat /\ FireAfter <= History /\ ResolveAfter <= History
    /\ \A t : Needed(t) \in Nat /\ Needed(t) > 0 /\ Needed(t) <= History
BY DEF History, Needed

LEMMA RuleListFacts ==
    /\ Len(RuleList) \in Nat /\ DOMAIN RuleList = 1..Len(RuleList)
    /\ \A k \in 1..Len(RuleList) : RuleList[k] \in Rules
    /\ \A j, k \in 1..Len(RuleList) : RuleList[j] = RuleList[k] => j = k
    /\ \A r \in Rules : \E k \in 1..Len(RuleList) : RuleList[k] = r
<1>1. RuleList \in Seq(Rules)
  BY DEF Rules
<1>2. Rules = {RuleList[k] : k \in 1..Len(RuleList)}
  BY <1>1, ToSetRange DEF Rules
<1>3. Len(RuleList) \in Nat /\ DOMAIN RuleList = 1..Len(RuleList)
  BY ONLY <1>1, LenProperties
<1>4. \A j, k \in DOMAIN RuleList : RuleList[j] = RuleList[k] => j = k
  BY DEF IsInjective
<1> QED BY ONLY <1>2, <1>3, <1>4

\* RuleTracker.step() keeps the tracker in its type, and flips it or counts on.
LEMMA StepFacts ==
    ASSUME NEW t \in Trackers, NEW verdict
    PROVE  /\ Step(t, verdict) \in Trackers
           /\ Step(t, verdict).firing = IF Flips(t, verdict) THEN ~t.firing ELSE t.firing
           /\ Step(t, verdict).streak = IF Flips(t, verdict) THEN 0 ELSE Streak(t, verdict)
           /\ Step(t, verdict).streak < Needed(Step(t, verdict))
           /\ Streak(t, verdict) \in 0..History
<1>1. t.firing \in BOOLEAN /\ t.streak \in 0..(History - 1) /\ History \in Nat
  BY HistoryFacts DEF Trackers
<1>2. Streak(t, verdict) \in 0..History /\ 0 \in 0..(History - 1)
  BY <1>1, HistoryFacts DEF Streak
<1>3. CASE Flips(t, verdict)
  <2>1. Step(t, verdict) = [firing |-> ~t.firing, streak |-> 0]
    BY <1>3 DEF Step
  <2>2. (~t.firing) \in BOOLEAN
    BY <1>1
  <2> QED BY <1>2, <1>3, <2>1, <2>2, HistoryFacts DEF Trackers
<1>4. CASE ~Flips(t, verdict)
  <2>1. Step(t, verdict) = [firing |-> t.firing, streak |-> Streak(t, verdict)]
    BY <1>4 DEF Step
  <2>2. Streak(t, verdict) < Needed(t) /\ Streak(t, verdict) \in 0..(History - 1)
    BY <1>2, <1>4, HistoryFacts DEF Flips
  <2>3. Needed(Step(t, verdict)) = Needed(t)
    BY <2>1 DEF Needed
  <2> QED BY <1>1, <1>2, <1>4, <2>1, <2>2, <2>3 DEF Trackers
<1> QED BY <1>3, <1>4

-----------------------------------------------------------------------------
(* Type correctness.                                                       *)

\* TypeOK with where an evaluation is.
WellTyped == TypeOK /\ StatementsFollow /\ PushedBefore

Stages == {"idle", "rule", "fire", "select", "resolve", "down"}
Reports == Rules \X {"firing", "resolved"}

LEMMA InitWellTyped == Init => WellTyped
<1> SUFFICES ASSUME Init PROVE WellTyped
  OBVIOUS
<1>1. Fresh \in Trackers
  BY HistoryFacts DEF Fresh, Trackers, History
<1>2. tracker \in [Instances -> [Rules -> Trackers]]
  BY <1>1 DEF Init
<1>3. /\ active \in [Instances -> SUBSET Rules] /\ told \in [Instances -> SUBSET Rules]
      /\ stage \in [Instances -> Stages] /\ turn \in [Instances -> 1..(Len(RuleList) + 1)]
      /\ db \in [Rules -> {"none", "firing", "resolved"}]
      /\ faults \in 0..MaxFaults
  BY RuleListFacts DEF Init, Stages
<1>4. /\ changed \in [Instances -> Seq(Reports)]
      /\ recent \in [Instances -> [Rules -> Seq(Verdicts)]]
  BY DEF Init
<1>5. crashed \subseteq Instances /\ Cardinality(crashed) <= MaxCrashes
  BY FS_EmptySet DEF Init
<1>6. StatementsFollow
  BY DEF Init, StatementsFollow
<1>7. PushedBefore
  BY ToSetEmpty DEF Init, PushedBefore, Pushed
<1> QED BY <1>2, <1>3, <1>4, <1>5, <1>6, <1>7
        DEF WellTyped, TypeOK, Trackers, Stages, Reports

\* The rule whose turn it is.
LEMMA InTurnFacts ==
    ASSUME WellTyped, NEW i \in Instances,
           stage[i] \in {"fire", "select", "resolve"} \/ turn[i] <= Len(RuleList)
    PROVE  /\ turn[i] \in 1..Len(RuleList) /\ turn[i] + 1 \in 1..(Len(RuleList) + 1)
           /\ InTurn(i) \in Rules
           /\ \A k \in 1..(turn[i] - 1) : RuleList[k] # InTurn(i)
<1>1. turn[i] \in 1..(Len(RuleList) + 1) /\ turn[i] <= Len(RuleList)
  BY DEF WellTyped, StatementsFollow, TypeOK
<1>2. turn[i] \in 1..Len(RuleList)
  BY <1>1, RuleListFacts
<1>3. \A k \in 1..(turn[i] - 1) : k \in 1..Len(RuleList) /\ k # turn[i]
  BY <1>2, RuleListFacts
<1> QED BY <1>2, <1>3, RuleListFacts DEF InTurn

\* A report about the rule in turn, added when its turn is over.
LEMMA ReportFacts ==
    ASSUME WellTyped, NEW i \in Instances, stage[i] \in {"fire", "select", "resolve"},
           NEW state \in {"firing", "resolved"}, Report(i, InTurn(i), state), NextRule(i)
    PROVE  /\ changed' \in [Instances -> Seq(Reports)]
           /\ Pushed(i)' = Pushed(i) \cup {<<InTurn(i), state>>}
           /\ \A j \in Instances \ {i} : Pushed(j)' = Pushed(j)
           /\ PushedBefore'
<1>1. InTurn(i) \in Rules /\ turn[i] \in 1..Len(RuleList)
  BY InTurnFacts
<1>2. /\ changed \in [Instances -> Seq(Reports)] /\ turn \in [Instances -> 1..(Len(RuleList) + 1)]
      /\ <<InTurn(i), state>> \in Reports
  BY <1>1 DEF WellTyped, TypeOK, Reports
<1>3. /\ changed' = [changed EXCEPT ![i] = Append(changed[i], <<InTurn(i), state>>)]
      /\ turn' = [turn EXCEPT ![i] = turn[i] + 1]
  BY DEF Report, NextRule
<1>4. /\ Append(changed[i], <<InTurn(i), state>>) \in Seq(Reports)
      /\ ToSet(Append(changed[i], <<InTurn(i), state>>)) = Pushed(i) \cup {<<InTurn(i), state>>}
  <2>1. changed[i] \in Seq(Reports)
    BY <1>2
  <2>2. Append(changed[i], <<InTurn(i), state>>) \in Seq(Reports)
    BY <1>2, <2>1, AppendProperties
  <2>3. ToSet(Append(changed[i], <<InTurn(i), state>>)) = ToSet(changed[i]) \cup {<<InTurn(i), state>>}
    <3>1. <<InTurn(i), state>> \in Reports
      BY <1>2
    <3> QED BY ONLY <2>1, <3>1, ToSetAppend
  <2> QED BY <2>2, <2>3 DEF Pushed
<1>5. /\ changed' \in [Instances -> Seq(Reports)]
      /\ Pushed(i)' = Pushed(i) \cup {<<InTurn(i), state>>}
      /\ \A j \in Instances \ {i} : Pushed(j)' = Pushed(j)
  BY <1>2, <1>3, <1>4 DEF Pushed
<1>6. PushedBefore'
  <2> SUFFICES ASSUME NEW j \in Instances, NEW p \in Pushed(j)'
               PROVE  \E k \in 1..(turn'[j] - 1) : RuleList[k] = p[1]
    BY DEF PushedBefore
  <2>1. CASE p \in Pushed(j)
    <3>1. PICK k \in 1..(turn[j] - 1) : RuleList[k] = p[1]
      BY <2>1 DEF WellTyped, PushedBefore
    <3>2. k \in 1..(turn'[j] - 1)
      BY <1>2, <1>3, RuleListFacts
    <3> QED BY <3>1, <3>2
  <2>2. CASE p \notin Pushed(j)
    <3>1. j = i /\ p = <<InTurn(i), state>>
      BY <1>5, <2>2
    <3>2. turn[i] \in 1..(turn'[i] - 1) /\ RuleList[turn[i]] = p[1]
      BY <1>1, <1>2, <1>3, <3>1, RuleListFacts DEF InTurn
    <3> QED BY <3>1, <3>2
  <2> QED BY <2>1, <2>2
<1> QED BY <1>5, <1>6

\* An evaluation that moves on without a report.
LEMMA PushedFrame ==
    ASSUME WellTyped, UNCHANGED changed, turn' \in [Instances -> 1..(Len(RuleList) + 1)],
           \A i \in Instances : turn'[i] >= turn[i]
    PROVE  PushedBefore'
<1> SUFFICES ASSUME NEW i \in Instances, NEW p \in Pushed(i)
             PROVE  \E k \in 1..(turn'[i] - 1) : RuleList[k] = p[1]
  BY DEF PushedBefore, Pushed
<1>1. PICK k \in 1..(turn[i] - 1) : RuleList[k] = p[1]
  BY DEF WellTyped, PushedBefore
<1>2. turn[i] \in Int /\ turn'[i] \in Int /\ turn'[i] >= turn[i]
  BY RuleListFacts DEF WellTyped, TypeOK
<1> QED BY <1>1, <1>2

LEMMA SettleType ==
    ASSUME WellTyped, NEW i \in Instances, Settle(i)
    PROVE  db' \in [Rules -> {"none", "firing", "resolved"}]
BY DEF WellTyped, TypeOK, Settle

LEMMA NextWellTyped == WellTyped /\ [Next]_vars => WellTyped'
<1> SUFFICES ASSUME WellTyped, [Next]_vars PROVE WellTyped'
  OBVIOUS
<1>0. /\ tracker \in [Instances -> [Rules -> Trackers]]
      /\ active \in [Instances -> SUBSET Rules] /\ told \in [Instances -> SUBSET Rules]
      /\ stage \in [Instances -> Stages] /\ turn \in [Instances -> 1..(Len(RuleList) + 1)]
      /\ changed \in [Instances -> Seq(Reports)]
      /\ db \in [Rules -> {"none", "firing", "resolved"}]
      /\ recent \in [Instances -> [Rules -> Seq(Verdicts)]]
      /\ faults \in 0..MaxFaults /\ crashed \subseteq Instances /\ Cardinality(crashed) <= MaxCrashes
      /\ StatementsFollow /\ PushedBefore
  BY DEF WellTyped, TypeOK, Trackers, Stages, Reports
<1> USE DEF memVars
<1> DEFINE Typed ==
             /\ tracker \in [Instances -> [Rules -> Trackers]]
             /\ active \in [Instances -> SUBSET Rules] /\ told \in [Instances -> SUBSET Rules]
             /\ stage \in [Instances -> Stages] /\ turn \in [Instances -> 1..(Len(RuleList) + 1)]
             /\ changed \in [Instances -> Seq(Reports)]
             /\ db \in [Rules -> {"none", "firing", "resolved"}]
             /\ recent \in [Instances -> [Rules -> Seq(Verdicts)]]
             /\ faults \in 0..MaxFaults /\ crashed \subseteq Instances
             /\ Cardinality(crashed) <= MaxCrashes
<1>t. Typed' /\ StatementsFollow' /\ PushedBefore' => WellTyped'
  BY DEF WellTyped, TypeOK, Trackers, Stages, Reports
<1>1. ASSUME NEW i \in Instances, Begin(i) PROVE WellTyped'
  <2>1. changed' \in [Instances -> Seq(Reports)] /\ turn' \in [Instances -> 1..(Len(RuleList) + 1)]
    BY <1>0, <1>1, RuleListFacts DEF Begin
  <2>2. stage' \in [Instances -> Stages]
    BY <1>0, <1>1 DEF Begin, Stages
  <2>3. Typed'
    BY <1>0, <1>1, <2>1, <2>2 DEF Begin
  <2>4. StatementsFollow'
    BY <1>0, <1>1 DEF Begin, StatementsFollow, InTurn
  <2>5. PushedBefore'
    BY <1>0, <1>1, ToSetEmpty DEF Begin, PushedBefore, Pushed
  <2> QED BY <1>t, <2>3, <2>4, <2>5
<1>2. ASSUME NEW i \in Instances, Judge(i) PROVE WellTyped'
  <2> DEFINE r == InTurn(i)
             t == tracker[i][r]
  <2>1. turn[i] <= Len(RuleList) /\ stage[i] = "rule"
    BY <1>2 DEF Judge
  <2>2. r \in Rules /\ turn[i] \in 1..Len(RuleList) /\ turn[i] + 1 \in 1..(Len(RuleList) + 1)
    BY <2>1, InTurnFacts
  <2>3. t \in Trackers
    BY <1>0, <2>2
  <2>4. PICK verdict \in Verdicts :
           /\ tracker' = [tracker EXCEPT ![i][r] = Step(t, verdict)]
           /\ recent' = [recent EXCEPT ![i][r] = Remember(@, verdict)]
           /\ \/ /\ ~Flips(t, verdict)
                 /\ turn' = [turn EXCEPT ![i] = @ + 1]
                 /\ UNCHANGED stage
              \/ /\ Flips(t, verdict)
                 /\ stage' = [stage EXCEPT ![i] = IF t.firing THEN "resolve" ELSE "fire"]
                 /\ UNCHANGED turn
    BY <1>2 DEF Judge
  <2>5. UNCHANGED <<active, changed, told, db, faults, crashed>>
    BY <1>2 DEF Judge
  <2> HIDE DEF r
  <2>6. Step(t, verdict) \in Trackers
    BY <2>3, StepFacts
  <2>7. tracker' \in [Instances -> [Rules -> Trackers]]
    BY <1>0, <2>2, <2>4, <2>6
  <2>8. recent' \in [Instances -> [Rules -> Seq(Verdicts)]]
    <3>0. recent[i][r] \in Seq(Verdicts)
      BY <1>0, <2>2
    <3>1. Append(recent[i][r], verdict) \in Seq(Verdicts) /\ Append(recent[i][r], verdict) # <<>>
      BY <3>0, AppendProperties
    <3>2. Remember(recent[i][r], verdict) \in Seq(Verdicts)
      BY <3>1, ToSetHeadTail DEF Remember
    <3> QED BY <1>0, <2>2, <2>4, <3>2
  <2>9. stage' \in [Instances -> Stages] /\ turn' \in [Instances -> 1..(Len(RuleList) + 1)]
    <3> DEFINE Turns == 1..(Len(RuleList) + 1)
               next == turn[i] + 1
               after == IF t.firing THEN "resolve" ELSE "fire"
    <3>1. stage \in [Instances -> Stages] /\ turn \in [Instances -> Turns] /\ next \in Turns
      BY <1>0, <2>2
    <3>2. after \in Stages
      BY DEF Stages
    <3>3. \/ turn' = [turn EXCEPT ![i] = next] /\ stage' = stage
          \/ turn' = turn /\ stage' = [stage EXCEPT ![i] = after]
      BY <2>4
    <3> HIDE DEF Turns, next, after
    <3>4. stage' \in [Instances -> Stages] /\ turn' \in [Instances -> Turns]
      BY ONLY <3>1, <3>2, <3>3
    <3> QED BY <3>4 DEF Turns
  <2>10. Typed'
    BY <1>0, <2>5, <2>7, <2>8, <2>9
  <2>11. StatementsFollow'
    <3> SUFFICES ASSUME NEW j \in Instances
                 PROVE  /\ stage'[j] \in {"fire", "select", "resolve"} => turn'[j] <= Len(RuleList)
                        /\ stage'[j] \in {"fire", "select"} => tracker'[j][RuleList[turn'[j]]].firing
                        /\ stage'[j] = "resolve" => ~tracker'[j][RuleList[turn'[j]]].firing
      BY DEF StatementsFollow, InTurn
    <3>1. CASE j # i
      BY <1>0, <2>4, <3>1 DEF StatementsFollow, InTurn
    <3>2. CASE j = i
      <4>1. CASE ~Flips(t, verdict)
        BY <1>0, <2>1, <2>4, <3>2, <4>1
      <4>2. CASE Flips(t, verdict)
        <5>1. stage'[j] = (IF t.firing THEN "resolve" ELSE "fire") /\ turn'[j] = turn[i]
          BY <1>0, <2>4, <3>2, <4>2
        <5>2. tracker'[j][r] = Step(t, verdict)
          BY <1>0, <2>2, <2>4, <3>2
        <5>3. tracker'[j][r].firing = ~t.firing
          BY <2>3, <4>2, <5>2, StepFacts
        <5>4. RuleList[turn'[j]] = r
          BY <5>1 DEF r, InTurn
        <5> QED BY <2>1, <5>1, <5>3, <5>4
      <4> QED BY <4>1, <4>2
    <3> QED BY <3>1, <3>2
  <2>12. PushedBefore'
    <3>0. \A j \in Instances : turn[j] \in Int
      BY <1>0, RuleListFacts
    <3>1. turn' = turn \/ turn' = [turn EXCEPT ![i] = turn[i] + 1]
      BY <2>4
    <3>2. \A j \in Instances : turn'[j] = turn[j] \/ turn'[j] = turn[j] + 1
      BY <1>0, <3>1
    <3>3. \A j \in Instances : turn'[j] >= turn[j]
      BY <3>0, <3>2
    <3> QED BY <2>5, <2>9, <3>3, PushedFrame
  <2> QED BY <1>t, <2>10, <2>11, <2>12
<1>3. ASSUME NEW i \in Instances, stage[i] \in {"fire", "select", "resolve"}, NextRule(i),
             UNCHANGED <<tracker, recent, faults, crashed, told>>,
             db' \in [Rules -> {"none", "firing", "resolved"}],
             active' \in [Instances -> SUBSET Rules],
             \/ UNCHANGED changed
             \/ \E state \in {"firing", "resolved"} : Report(i, InTurn(i), state)
      PROVE  WellTyped'
  <2>1. turn[i] + 1 \in 1..(Len(RuleList) + 1)
    BY <1>3, InTurnFacts
  <2>2. stage' \in [Instances -> Stages] /\ turn' \in [Instances -> 1..(Len(RuleList) + 1)]
    BY <1>0, <1>3, <2>1 DEF NextRule, Stages
  <2>3. changed' \in [Instances -> Seq(Reports)] /\ PushedBefore'
    <3>1. CASE UNCHANGED changed
      <4>1. \A j \in Instances : turn'[j] >= turn[j]
        BY <1>0, <1>3, RuleListFacts DEF NextRule
      <4> QED BY <1>0, <2>2, <3>1, <4>1, PushedFrame
    <3> QED BY <1>3, <3>1, ReportFacts
  <2>4. Typed'
    BY <1>0, <1>3, <2>2, <2>3
  <2>5. StatementsFollow'
    BY <1>0, <1>3 DEF StatementsFollow, NextRule, InTurn
  <2> QED BY <1>t, <2>3, <2>4, <2>5
<1>4. ASSUME NEW i \in Instances, Fire(i) PROVE WellTyped'
  <2>1. InTurn(i) \in Rules /\ stage[i] = "fire"
    BY <1>4, InTurnFacts DEF Fire
  <2>2. CASE db[InTurn(i)] # "firing"
    <3>1. /\ db' = [db EXCEPT ![InTurn(i)] = "firing"]
          /\ active' = [active EXCEPT ![i] = active[i] \cup {InTurn(i)}]
          /\ Report(i, InTurn(i), "firing") /\ NextRule(i)
      BY <1>4, <2>2 DEF Fire
    <3>2. active[i] \cup {InTurn(i)} \in SUBSET Rules
      BY <1>0, <2>1
    <3>3. db' \in [Rules -> {"none", "firing", "resolved"}] /\ active' \in [Instances -> SUBSET Rules]
      BY <1>0, <2>1, <3>1, <3>2
    <3> QED BY <1>3, <1>4, <2>1, <3>1, <3>3 DEF Fire
  <2>3. CASE db[InTurn(i)] = "firing"
    <3>1. /\ stage' = [stage EXCEPT ![i] = "select"]
          /\ UNCHANGED <<tracker, active, turn, changed, told, db, recent, faults, crashed>>
      BY <1>4, <2>3 DEF Fire
    <3>2. Typed'
      BY <1>0, <3>1 DEF Stages
    <3>3. StatementsFollow' /\ PushedBefore'
      BY <1>0, <2>1, <3>1 DEF StatementsFollow, PushedBefore, Pushed, InTurn
    <3> QED BY <1>t, <3>2, <3>3
  <2> QED BY <2>2, <2>3
<1>5. ASSUME NEW i \in Instances, Select(i) PROVE WellTyped'
  <2>1. InTurn(i) \in Rules /\ stage[i] = "select"
    BY <1>5, InTurnFacts DEF Select
  <2>2. /\ active' \in [Instances -> SUBSET Rules]
        /\ UNCHANGED changed \/ Report(i, InTurn(i), "firing")
    <3>1. active[i] \cup {InTurn(i)} \in SUBSET Rules
      BY <1>0, <2>1
    <3>2. \/ active' = active /\ UNCHANGED changed
          \/ /\ active' = [active EXCEPT ![i] = active[i] \cup {InTurn(i)}]
             /\ Report(i, InTurn(i), "firing")
      BY <1>5 DEF Select
    <3>3. active' \in [Instances -> SUBSET Rules]
      BY <1>0, <3>1, <3>2
    <3> QED BY <3>2, <3>3
  <2> QED BY <1>0, <1>3, <1>5, <2>1, <2>2 DEF Select
<1>6. ASSUME NEW i \in Instances, Resolve(i) PROVE WellTyped'
  <2>1. InTurn(i) \in Rules /\ stage[i] = "resolve"
    BY <1>6, InTurnFacts DEF Resolve
  <2>2. /\ db' \in [Rules -> {"none", "firing", "resolved"}]
        /\ active' \in [Instances -> SUBSET Rules]
        /\ UNCHANGED changed \/ Report(i, InTurn(i), "resolved")
    BY <1>0, <1>6, <2>1 DEF Resolve, Forget
  <2> QED BY <1>3, <1>6, <2>1, <2>2 DEF Resolve
<1>7. ASSUME NEW i \in Instances, Finish(i) PROVE WellTyped'
  <2>1. told' \in [Instances -> SUBSET Rules] /\ stage' \in [Instances -> Stages]
    BY <1>0, <1>7 DEF Finish, Stages
  <2>2. Typed'
    BY <1>0, <1>7, <2>1 DEF Finish
  <2>3. StatementsFollow' /\ PushedBefore'
    BY <1>0, <1>7 DEF Finish, StatementsFollow, PushedBefore, Pushed, InTurn
  <2> QED BY <1>t, <2>2, <2>3
<1>8. ASSUME NEW i \in Instances, StatementFails(i) PROVE WellTyped'
  <2>1. stage' \in [Instances -> Stages] /\ faults' \in 0..MaxFaults
    BY <1>0, <1>8 DEF StatementFails, Stages
  <2>2. Typed'
    BY <1>0, <1>8, <2>1, SettleType DEF StatementFails
  <2>3. StatementsFollow' /\ PushedBefore'
    BY <1>0, <1>8 DEF StatementFails, StatementsFollow, PushedBefore, Pushed, InTurn
  <2> QED BY <1>t, <2>2, <2>3
<1>9. ASSUME NEW i \in Instances, End(i) PROVE WellTyped'
  <2>1. Fresh \in Trackers
    BY HistoryFacts DEF Fresh, Trackers, History
  <2>2. /\ tracker' \in [Instances -> [Rules -> Trackers]]
        /\ active' \in [Instances -> SUBSET Rules] /\ told' \in [Instances -> SUBSET Rules]
        /\ stage' \in [Instances -> Stages] /\ turn' \in [Instances -> 1..(Len(RuleList) + 1)]
    BY <1>0, <1>9, <2>1, RuleListFacts DEF End, Stages
  <2>3. /\ changed' \in [Instances -> Seq(Reports)]
        /\ recent' \in [Instances -> [Rules -> Seq(Verdicts)]]
    BY <1>0, <1>9 DEF End
  <2>4. crashed' \subseteq Instances /\ Cardinality(crashed') <= MaxCrashes
    <3>1. IsFiniteSet(crashed) /\ Cardinality(crashed) \in Nat
      BY <1>0, FS_Subset, FS_CardinalityType
    <3>2. crashed' = crashed \cup {i} /\ i \notin crashed /\ Cardinality(crashed) < MaxCrashes
      BY <1>9 DEF End
    <3>3. Cardinality(crashed') = Cardinality(crashed) + 1
      BY <3>1, <3>2, FS_AddElement
    <3> QED BY <1>0, <3>1, <3>2, <3>3
  <2>5. Typed'
    BY <1>0, <1>9, <2>2, <2>3, <2>4, SettleType DEF End
  <2>6. StatementsFollow'
    BY <1>0, <1>9 DEF End, StatementsFollow, InTurn
  <2>7. PushedBefore'
    BY <1>0, <1>9, ToSetEmpty DEF End, PushedBefore, Pushed
  <2> QED BY <1>t, <2>5, <2>6, <2>7
<1>10. ASSUME NEW i \in Instances, Start(i) PROVE WellTyped'
  <2> DEFINE Loaded(r) == [Fresh EXCEPT !.firing = (r \in FiringInDb)]
  <2>1. \A r \in Rules : Loaded(r) \in Trackers
    <3>1. \A r : (r \in FiringInDb) \in BOOLEAN
      OBVIOUS
    <3>2. 0 \in 0..(History - 1)
      BY HistoryFacts
    <3> QED BY <3>1, <3>2 DEF Fresh, Trackers
  <2>2. FiringInDb \subseteq Rules
    BY DEF FiringInDb
  <2>3. tracker' = [tracker EXCEPT ![i] = [r \in Rules |-> Loaded(r)]]
    BY <1>10 DEF Start
  <2> HIDE DEF Loaded
  <2>4. tracker' \in [Instances -> [Rules -> Trackers]]
    BY <1>0, <2>1, <2>3
  <2>5. /\ active' \in [Instances -> SUBSET Rules] /\ told' \in [Instances -> SUBSET Rules]
        /\ stage' \in [Instances -> Stages]
    BY <1>0, <1>10, <2>2 DEF Start, Stages
  <2>6. Typed'
    BY <1>0, <1>10, <2>4, <2>5 DEF Start
  <2>7. StatementsFollow' /\ PushedBefore'
    BY <1>0, <1>10 DEF Start, StatementsFollow, PushedBefore, Pushed, InTurn
  <2> QED BY <1>t, <2>6, <2>7
<1>11. CASE UNCHANGED vars
  <2>1. Typed'
    BY <1>0, <1>11 DEF vars
  <2>2. StatementsFollow' /\ PushedBefore'
    BY <1>0, <1>11 DEF vars, StatementsFollow, PushedBefore, Pushed, InTurn
  <2> QED BY <1>t, <2>1, <2>2
<1> QED BY <1>1, <1>2, <1>4, <1>5, <1>6, <1>7, <1>8, <1>9, <1>10, <1>11 DEF Next, EvaluatorStep

\* Streaks stay under the number of verdicts they wait for, every other variable in
\* its type.
THEOREM TypeCorrect == Spec => []TypeOK
<1>1. WellTyped => TypeOK
  BY DEF WellTyped
<1> QED BY <1>1, InitWellTyped, NextWellTyped, PTL DEF Spec

-----------------------------------------------------------------------------
(* Streaks.                                                                *)

\* The streak of a tracker is what its last verdicts were.
StreaksLasted ==
    \A i \in Instances : \A r \in Rules :
        /\ Len(recent[i][r]) <= History
        /\ tracker[i][r].streak < Needed(tracker[i][r])
        /\ Lasted(recent[i][r], tracker[i][r].streak, Wanted(tracker[i][r]))

\* What is remembered is long enough for the verdict that completes a streak.
LEMMA RememberLasts ==
    ASSUME NEW seen \in Seq(Verdicts), Len(seen) <= History, NEW verdict \in Verdicts
    PROVE  /\ Len(Remember(seen, verdict)) <= History
           /\ \A n \in 0..(History - 1) :
                 Lasted(seen, n, verdict) => Lasted(Remember(seen, verdict), n + 1, verdict)
<1> DEFINE all == Append(seen, verdict)
<1>1. /\ all \in Seq(Verdicts) /\ Len(all) = Len(seen) + 1 /\ all[Len(all)] = verdict
      /\ \A k \in 1..Len(seen) : all[k] = seen[k]
  BY AppendProperties
<1>2. Len(seen) \in Nat /\ History \in Nat /\ History > 0
  BY HistoryFacts, LenProperties DEF History
<1>3. CASE Len(all) > History
  <2>1. Remember(seen, verdict) = Tail(all)
    BY <1>3 DEF Remember
  <2>2. Len(Tail(all)) = Len(seen) /\ \A k \in 1..Len(seen) : Tail(all)[k] = all[k + 1]
    BY <1>1, <1>2
  <2>3. ASSUME NEW n \in 0..(History - 1), Lasted(seen, n, verdict)
        PROVE  Lasted(Tail(all), n + 1, verdict)
    <3>1. Len(seen) = History
      BY <1>1, <1>2, <1>3
    <3>2. \A k \in (Len(seen) - n + 1)..Len(seen) : seen[k] = verdict
      BY <2>3 DEF Lasted
    <3>3. ASSUME NEW k \in (Len(seen) - n)..Len(seen) PROVE Tail(all)[k] = verdict
      <4> HIDE DEF all
      <4>1. k \in 1..Len(seen) /\ Tail(all)[k] = all[k + 1]
        BY <1>2, <2>2, <3>1
      <4>2. CASE k = Len(seen)
        BY <1>1, <4>1, <4>2
      <4>3. CASE k # Len(seen)
        <5>1. k + 1 \in (Len(seen) - n + 1)..Len(seen) /\ k + 1 \in 1..Len(seen)
          BY <1>2, <3>1, <4>1, <4>3
        <5> QED BY <1>1, <3>2, <4>1, <5>1
      <4> QED BY <4>2, <4>3
    <3> HIDE DEF all
    <3>4. Len(Tail(all)) - (n + 1) + 1 = Len(seen) - n /\ Len(Tail(all)) >= n + 1
      BY <1>2, <2>2, <3>1
    <3> QED BY <2>2, <3>3, <3>4 DEF Lasted
  <2> QED BY <1>2, <2>1, <2>2, <2>3
<1>4. CASE Len(all) <= History
  <2>1. Remember(seen, verdict) = all
    BY <1>2, <1>4, <1>1 DEF Remember
  <2>2. ASSUME NEW n \in 0..(History - 1), Lasted(seen, n, verdict)
        PROVE  Lasted(all, n + 1, verdict)
    <3>1. Len(seen) >= n /\ \A k \in (Len(seen) - n + 1)..Len(seen) : seen[k] = verdict
      BY <2>2 DEF Lasted
    <3> HIDE DEF all
    <3>2. ASSUME NEW k \in (Len(all) - (n + 1) + 1)..Len(all) PROVE all[k] = verdict
      <4>1. CASE k = Len(all)
        BY <1>1, <4>1
      <4>2. CASE k # Len(all)
        <5>1. k \in (Len(seen) - n + 1)..Len(seen) /\ k \in 1..Len(seen)
          BY <1>1, <1>2, <3>1, <4>2
        <5> QED BY <1>1, <3>1, <5>1
      <4> QED BY <4>1, <4>2
    <3>3. Len(all) >= n + 1
      BY <1>1, <1>2, <3>1
    <3> QED BY <3>2, <3>3 DEF Lasted
  <2> QED BY <1>4, <2>1, <2>2
<1> QED BY <1>1, <1>2, <1>3, <1>4

\* A judgement that changes the mind of a tracker completes its streak.
LEMMA JudgeStreak ==
    ASSUME NEW t \in Trackers, NEW verdict \in Verdicts, NEW seen \in Seq(Verdicts),
           Len(seen) <= History, t.streak < Needed(t), Lasted(seen, t.streak, Wanted(t))
    PROVE  /\ Len(Remember(seen, verdict)) <= History
           /\ Lasted(Remember(seen, verdict), Step(t, verdict).streak, Wanted(Step(t, verdict)))
           /\ Flips(t, verdict) => Lasted(Remember(seen, verdict), Needed(t), Wanted(t))
<1> DEFINE known == Remember(seen, verdict)
<1>1. t.streak \in Nat /\ Needed(t) \in Nat /\ Needed(t) > 0 /\ Needed(t) <= History /\ History \in Nat
  BY HistoryFacts DEF Trackers
<1>2. Len(known) <= History /\ known \in Seq(Verdicts)
  <2>1. Append(seen, verdict) \in Seq(Verdicts) /\ Append(seen, verdict) # <<>>
    BY AppendProperties
  <2>2. known \in Seq(Verdicts)
    BY <2>1, ToSetHeadTail DEF Remember
  <2> QED BY <2>2, RememberLasts
<1>3. \A w : Lasted(known, 0, w)
  <2>1. Len(known) \in Nat
    BY <1>2, LenProperties
  <2> HIDE DEF known
  <2> QED BY <2>1 DEF Lasted
<1>4. CASE verdict = Wanted(t)
  <2>1. Streak(t, verdict) = t.streak + 1
    BY <1>4 DEF Streak
  <2>2. t.streak \in 0..(History - 1)
    BY <1>1
  <2>3. Lasted(known, t.streak + 1, Wanted(t))
    BY <1>4, <2>2, RememberLasts
  <2>4. CASE Flips(t, verdict)
    <3>1. t.streak + 1 = Needed(t)
      BY <1>1, <2>1, <2>4 DEF Flips
    <3> QED BY <1>2, <1>3, <2>3, <2>4, <3>1, StepFacts
  <2>5. CASE ~Flips(t, verdict)
    <3>1. Step(t, verdict) = [firing |-> t.firing, streak |-> t.streak + 1]
      BY <2>1, <2>5 DEF Step
    <3>2. Wanted(Step(t, verdict)) = Wanted(t) /\ Step(t, verdict).streak = t.streak + 1
      BY <3>1 DEF Wanted
    <3> QED BY <1>2, <2>3, <2>5, <3>2
  <2> QED BY <2>4, <2>5
<1>5. CASE verdict # Wanted(t)
  <2>1. Streak(t, verdict) = 0
    BY <1>5 DEF Streak
  <2>2. ~Flips(t, verdict)
    BY <1>1, <2>1 DEF Flips
  <2>3. Step(t, verdict).streak = 0
    BY <2>1, <2>2, StepFacts
  <2> QED BY <1>2, <1>3, <2>2, <2>3
<1> QED BY <1>4, <1>5

LEMMA InitStreaks == Init => StreaksLasted
<1> SUFFICES ASSUME Init, NEW i \in Instances, NEW r \in Rules
             PROVE  /\ Len(recent[i][r]) <= History
                    /\ tracker[i][r].streak < Needed(tracker[i][r])
                    /\ Lasted(recent[i][r], tracker[i][r].streak, Wanted(tracker[i][r]))
  BY DEF StreaksLasted
<1>1. recent[i][r] = <<>> /\ tracker[i][r] = Fresh
  BY DEF Init
<1>2. Len(<<>>) = 0 /\ Fresh.streak = 0 /\ Needed(Fresh) > 0 /\ History \in Nat
  BY HistoryFacts DEF Fresh
<1> QED BY <1>1, <1>2 DEF Lasted

\* A tracker that changes its mind has the streak for it, or its process ends or starts.
FlipsEarned(i, r) ==
    tracker'[i][r].firing # tracker[i][r].firing =>
        \/ stage[i] = "down" \/ stage'[i] = "down"
        \/ /\ tracker'[i][r].firing
           /\ Lasted(recent'[i][r], FireAfter, "breached")
        \/ /\ ~tracker'[i][r].firing
           /\ Lasted(recent'[i][r], ResolveAfter, "recovered")

LEMMA NextStreaks ==
    WellTyped /\ StreaksLasted /\ [Next]_vars =>
        StreaksLasted' /\ \A i \in Instances : \A r \in Rules : FlipsEarned(i, r)
<1> SUFFICES ASSUME WellTyped, StreaksLasted, [Next]_vars,
                    NEW i \in Instances, NEW r \in Rules
             PROVE  /\ Len(recent'[i][r]) <= History
                    /\ tracker'[i][r].streak < Needed(tracker'[i][r])
                    /\ Lasted(recent'[i][r], tracker'[i][r].streak, Wanted(tracker'[i][r]))
                    /\ FlipsEarned(i, r)
  BY DEF StreaksLasted, Needed, Wanted, Lasted
<1> DEFINE t == tracker[i][r]
<1>0. /\ tracker \in [Instances -> [Rules -> Trackers]]
      /\ recent \in [Instances -> [Rules -> Seq(Verdicts)]]
      /\ t \in Trackers /\ recent[i][r] \in Seq(Verdicts)
      /\ Len(recent[i][r]) <= History /\ t.streak < Needed(t)
      /\ Lasted(recent[i][r], t.streak, Wanted(t))
  BY DEF WellTyped, TypeOK, Trackers, StreaksLasted
<1>1. CASE tracker'[i][r] = tracker[i][r] /\ recent'[i][r] = recent[i][r]
  BY <1>0, <1>1 DEF FlipsEarned
<1>2. ASSUME NEW j \in Instances, Judge(j)
      PROVE  \/ tracker'[i][r] = tracker[i][r] /\ recent'[i][r] = recent[i][r]
             \/ \E verdict \in Verdicts : /\ tracker'[i][r] = Step(t, verdict)
                                          /\ recent'[i][r] = Remember(recent[i][r], verdict)
  <2>1. InTurn(j) \in Rules
    BY <1>2, InTurnFacts DEF Judge
  <2>2. PICK verdict \in Verdicts :
           /\ tracker' = [tracker EXCEPT ![j][InTurn(j)] = Step(tracker[j][InTurn(j)], verdict)]
           /\ recent' = [recent EXCEPT ![j][InTurn(j)] = Remember(@, verdict)]
    BY <1>2 DEF Judge
  <2>3. CASE i = j /\ r = InTurn(j)
    <3>1. tracker'[i][r] = Step(t, verdict) /\ recent'[i][r] = Remember(recent[i][r], verdict)
      BY <1>0, <2>2, <2>3
    <3> QED BY <3>1
  <2>4. CASE ~(i = j /\ r = InTurn(j))
    BY <1>0, <2>1, <2>2, <2>4
  <2> QED BY <2>3, <2>4
<1>3. ASSUME NEW verdict \in Verdicts, tracker'[i][r] = Step(t, verdict),
             recent'[i][r] = Remember(recent[i][r], verdict)
      PROVE  /\ Len(recent'[i][r]) <= History
             /\ tracker'[i][r].streak < Needed(tracker'[i][r])
             /\ Lasted(recent'[i][r], tracker'[i][r].streak, Wanted(tracker'[i][r]))
             /\ FlipsEarned(i, r)
  <2> DEFINE known == Remember(recent[i][r], verdict)
  <2>1. /\ Len(known) <= History
        /\ Lasted(known, Step(t, verdict).streak, Wanted(Step(t, verdict)))
        /\ Flips(t, verdict) => Lasted(known, Needed(t), Wanted(t))
    BY <1>0, JudgeStreak
  <2>2. /\ Step(t, verdict).streak < Needed(Step(t, verdict))
        /\ Step(t, verdict).firing = IF Flips(t, verdict) THEN ~t.firing ELSE t.firing
    BY <1>0, StepFacts
  <2>3. t.firing \in BOOLEAN
    BY <1>0 DEF Trackers
  <2>4. FlipsEarned(i, r)
    <3> HIDE DEF t, known
    <3> SUFFICES ASSUME tracker'[i][r].firing # tracker[i][r].firing
                 PROVE  \/ tracker'[i][r].firing /\ Lasted(known, FireAfter, "breached")
                        \/ ~tracker'[i][r].firing /\ Lasted(known, ResolveAfter, "recovered")
      BY <1>3 DEF FlipsEarned, known
    <3>1. Flips(t, verdict)
      BY <1>3, <2>2 DEF t
    <3>2. CASE t.firing
      BY <1>3, <2>1, <2>2, <3>1, <3>2 DEF Needed, Wanted
    <3>3. CASE ~t.firing
      BY <1>3, <2>1, <2>2, <3>1, <3>3 DEF Needed, Wanted
    <3> QED BY <3>2, <3>3
  <2> QED BY <1>3, <2>1, <2>2, <2>4
<1>4. ASSUME recent'[i][r] = <<>> \/ recent'[i][r] = recent[i][r],
             tracker'[i][r].streak = 0, stage[i] = "down" \/ stage'[i] = "down"
      PROVE  /\ Len(recent'[i][r]) <= History
             /\ tracker'[i][r].streak < Needed(tracker'[i][r])
             /\ Lasted(recent'[i][r], tracker'[i][r].streak, Wanted(tracker'[i][r]))
             /\ FlipsEarned(i, r)
  <2>1. Len(recent'[i][r]) \in Nat /\ Len(recent'[i][r]) <= History
    <3>1. CASE recent'[i][r] = <<>>
      BY <3>1, HistoryFacts
    <3>2. CASE recent'[i][r] = recent[i][r]
      BY <1>0, <3>2, LenProperties
    <3> QED BY <1>4, <3>1, <3>2
  <2>2. 0 < Needed(tracker'[i][r])
    BY HistoryFacts
  <2>3. Lasted(recent'[i][r], 0, Wanted(tracker'[i][r]))
    BY <2>1 DEF Lasted
  <2> QED BY <1>4, <2>1, <2>2, <2>3 DEF FlipsEarned
<1>5. ASSUME NEW j \in Instances, End(j)
      PROVE  \/ tracker'[i][r] = tracker[i][r] /\ recent'[i][r] = recent[i][r]
             \/ recent'[i][r] = <<>> /\ tracker'[i][r] = Fresh /\ stage'[i] = "down"
  <2>1. stage \in [Instances -> Stages]
    BY DEF WellTyped, TypeOK, Stages
  <2> QED BY <1>0, <1>5, <2>1 DEF End
<1>6. ASSUME NEW j \in Instances, Start(j)
      PROVE  \/ tracker'[i][r] = tracker[i][r] /\ recent'[i][r] = recent[i][r]
             \/ recent'[i][r] = recent[i][r] /\ tracker'[i][r].streak = 0 /\ stage[i] = "down"
  BY <1>0, <1>6 DEF Start, Fresh
<1>7. Fresh.streak = 0
  BY DEF Fresh
<1>8. ASSUME NEW j \in Instances,
             Begin(j) \/ Fire(j) \/ Select(j) \/ Resolve(j) \/ Finish(j) \/ StatementFails(j)
      PROVE  UNCHANGED <<tracker, recent>>
  BY <1>8 DEF Begin, Fire, Select, Resolve, Finish, StatementFails
<1>9. CASE UNCHANGED vars
  BY <1>1, <1>9 DEF vars, memVars
<1> HIDE DEF t
<1> QED BY <1>1, <1>2, <1>3, <1>4, <1>5, <1>6, <1>7, <1>8, <1>9 DEF Next, EvaluatorStep

\* "Firing/resolved state of one rule, changed only after N consecutive evaluations"
\* (rules.py:162), whatever the verdicts, the failed statements and the other processes.
THEOREM ChangesAreEarned == Spec => NoFlapping
<1>1. WellTyped /\ StreaksLasted /\ [Next]_vars =>
         [\A i \in Instances : \A r \in Rules :
             tracker'[i][r].firing # tracker[i][r].firing =>
                 \/ stage[i] = "down" \/ stage'[i] = "down"
                 \/ /\ tracker'[i][r].firing
                    /\ Lasted(recent'[i][r], FireAfter, "breached")
                 \/ /\ ~tracker'[i][r].firing
                    /\ Lasted(recent'[i][r], ResolveAfter, "recovered")]_vars
  BY NextStreaks DEF FlipsEarned
<1>2. WellTyped /\ StreaksLasted /\ [Next]_vars => StreaksLasted'
  BY NextStreaks
<1> QED BY <1>1, <1>2, InitWellTyped, InitStreaks, NextWellTyped, PTL DEF Spec, NoFlapping

-----------------------------------------------------------------------------
(* Agreement.                                                              *)

About(i, statement, r) == stage[i] = statement /\ InTurn(i) = r

\* An alert that is not open has an instance that does not consider it firing, is
\* about to open it, or will learn from the table; one that is open has an
\* instance that considers it firing, is about to close it, or will learn.
TableFollowed ==
    \A r \in Rules :
        IF r \in FiringInDb
        THEN \E i \in Instances :
                tracker[i][r].firing \/ About(i, "resolve", r) \/ stage[i] = "down"
        ELSE \E i \in Instances :
                ~tracker[i][r].firing \/ About(i, "fire", r) \/ stage[i] = "down"

ActiveFollows ==
    \A i \in Instances : \A r \in active[i] : tracker[i][r].firing \/ About(i, "resolve", r)

\* Alone on the table, an instance disagrees with it only about the rule whose
\* statement is under way, and clients only about what is yet to be pushed.
AloneAgrees(i) ==
    /\ stage[i] # "select"
    /\ active[i] = FiringInDb
    /\ \A r \in Rules :
          IF About(i, "fire", r) \/ About(i, "resolve", r)
          THEN tracker[i][r].firing <=> r \notin FiringInDb
          ELSE tracker[i][r].firing <=> r \in FiringInDb
    /\ IF stage[i] = "idle" THEN told[i] = FiringInDb
       ELSE \A r \in Rules :
               /\ <<r, "firing">> \in Pushed(i) =>
                     r \in FiringInDb /\ <<r, "resolved">> \notin Pushed(i)
               /\ <<r, "resolved">> \in Pushed(i) => r \notin FiringInDb
               /\ <<r, "firing">> \notin Pushed(i) /\ <<r, "resolved">> \notin Pushed(i) =>
                     (r \in told[i] <=> r \in FiringInDb)

AgreeInv ==
    faults = 0 =>
        /\ TableFollowed /\ ActiveFollows
        /\ \A i \in Instances : Alone(i) /\ stage[i] # "down" => AloneAgrees(i)

LEMMA InitAgree == Init => AgreeInv
<1> SUFFICES ASSUME Init PROVE AgreeInv
  OBVIOUS
<1>1. FiringInDb = {} /\ \A i \in Instances : \A r \in Rules : ~tracker[i][r].firing
  BY DEF Init, FiringInDb, Fresh
<1>2. TableFollowed /\ ActiveFollows
  BY <1>1 DEF Init, TableFollowed, ActiveFollows
<1>3. ASSUME NEW i \in Instances, stage[i] # "down" PROVE AloneAgrees(i)
  BY <1>1, <1>3 DEF Init, AloneAgrees, About
<1> QED BY <1>2, <1>3 DEF AgreeInv

\* An instance that is alone is the one that acts, and was alone before.
LEMMA AloneActs ==
    ASSUME WellTyped, NEW i \in Instances, EvaluatorStep(i) \/ End(i),
           NEW k \in Instances, Alone(k)'
    PROVE  k = i /\ Alone(i)
<1>0. stage \in [Instances -> Stages] /\ crashed \subseteq crashed'
  BY DEF WellTyped, TypeOK, Stages, EvaluatorStep, Begin, Judge, Fire, Select, Resolve, Finish, Start, End
<1>1. \A j \in Instances \ {i} : stage'[j] = stage[j]
  BY <1>0 DEF EvaluatorStep, Begin, Judge, Fire, Select, Resolve, Finish, Start, End, NextRule
<1>2. stage'[i] # "down" \/ i \in crashed'
  <2>1. CASE Judge(i)
    BY <1>0, <2>1 DEF Judge
  <2> QED BY <1>0, <2>1 DEF EvaluatorStep, Begin, Fire, Select, Resolve, Finish, Start, End, NextRule
<1> QED BY <1>0, <1>1, <1>2 DEF Alone

\* The parts of the agreement after the step of one instance.
AgreeAfter(i) ==
    /\ TableFollowed' /\ ActiveFollows'
    /\ Alone(i) => stage'[i] = "down" \/ AloneAgrees(i)'

LEMMA BeginAgrees ==
    ASSUME WellTyped, AgreeInv, faults = 0, NEW i \in Instances, Begin(i) PROVE AgreeAfter(i)
<1>0. /\ stage \in [Instances -> Stages] /\ turn \in [Instances -> 1..(Len(RuleList) + 1)]
      /\ changed \in [Instances -> Seq(Reports)]
      /\ TableFollowed /\ ActiveFollows
      /\ Alone(i) => AloneAgrees(i)
  BY DEF WellTyped, TypeOK, Stages, Reports, AgreeInv, Begin
<1>1. /\ stage[i] = "idle" /\ stage'[i] = "rule"
      /\ UNCHANGED <<tracker, active, told, db>> /\ Pushed(i)' = {}
      /\ \A j \in Instances \ {i} : stage'[j] = stage[j] /\ turn'[j] = turn[j]
  BY <1>0, ToSetEmpty DEF Begin, Pushed
<1>2. /\ FiringInDb' = FiringInDb
      /\ \A j \in Instances : \A x \in Rules :
            /\ About(j, "resolve", x) => About(j, "resolve", x)'
            /\ About(j, "fire", x) => About(j, "fire", x)'
            /\ stage[j] = "down" => stage'[j] = "down"
  BY <1>1 DEF FiringInDb, About, InTurn
<1>3. TableFollowed'
  BY <1>0, <1>1, <1>2 DEF TableFollowed
<1>4. ActiveFollows'
  <2>1. \A k \in Instances : active[k] \subseteq Rules
    BY DEF WellTyped, TypeOK
  <2> QED BY <1>0, <1>1, <1>2, <2>1 DEF ActiveFollows
<1>5. Alone(i) => AloneAgrees(i)'
  BY <1>0, <1>1 DEF AloneAgrees, About, FiringInDb
<1> QED BY <1>3, <1>4, <1>5 DEF AgreeAfter

\* A tracker that changes its mind has the statement to follow.
LEMMA JudgeAgrees ==
    ASSUME WellTyped, AgreeInv, faults = 0, NEW i \in Instances, Judge(i) PROVE AgreeAfter(i)
<1> DEFINE r == InTurn(i)
<1>0. /\ stage \in [Instances -> Stages] /\ turn \in [Instances -> 1..(Len(RuleList) + 1)]
      /\ tracker \in [Instances -> [Rules -> Trackers]] /\ r \in Rules
      /\ TableFollowed /\ ActiveFollows
      /\ Alone(i) => AloneAgrees(i)
  BY InTurnFacts DEF WellTyped, TypeOK, Stages, Trackers, AgreeInv, Judge
<1>1. /\ stage[i] = "rule" /\ UNCHANGED <<active, changed, told, db>>
      /\ \A j \in Instances \ {i} : stage'[j] = stage[j] /\ turn'[j] = turn[j] /\ tracker'[j] = tracker[j]
      /\ \A x \in Rules \ {r} : tracker'[i][x] = tracker[i][x]
  BY <1>0 DEF Judge
<1>2. \/ stage'[i] = "rule" /\ tracker'[i][r].firing = tracker[i][r].firing
      \/ /\ stage'[i] = (IF tracker[i][r].firing THEN "resolve" ELSE "fire")
         /\ InTurn(i)' = r
         /\ tracker'[i][r].firing = ~tracker[i][r].firing
  <2>1. PICK verdict \in Verdicts :
           /\ tracker' = [tracker EXCEPT ![i][r] = Step(tracker[i][r], verdict)]
           /\ \/ /\ ~Flips(tracker[i][r], verdict)
                 /\ UNCHANGED stage
              \/ /\ Flips(tracker[i][r], verdict)
                 /\ stage' = [stage EXCEPT ![i] = IF tracker[i][r].firing THEN "resolve" ELSE "fire"]
                 /\ UNCHANGED turn
    BY DEF Judge
  <2>2. tracker[i][r] \in Trackers
    BY <1>0
  <2>3. Step(tracker[i][r], verdict).firing =
           IF Flips(tracker[i][r], verdict) THEN ~tracker[i][r].firing ELSE tracker[i][r].firing
    BY <2>2, StepFacts
  <2>4. tracker'[i][r] = Step(tracker[i][r], verdict)
    BY <1>0, <2>1
  <2>5. CASE Flips(tracker[i][r], verdict)
    <3>1. stage'[i] = (IF tracker[i][r].firing THEN "resolve" ELSE "fire") /\ InTurn(i)' = r
      BY <1>0, <2>1, <2>5 DEF InTurn
    <3> QED BY <2>3, <2>4, <2>5, <3>1
  <2>6. CASE ~Flips(tracker[i][r], verdict)
    BY <1>1, <2>1, <2>3, <2>4, <2>6
  <2> QED BY <2>5, <2>6
<1>3. \A x \in Rules : /\ tracker[i][x].firing => tracker'[i][x].firing \/ About(i, "resolve", x)'
                       /\ ~tracker[i][x].firing => ~tracker'[i][x].firing \/ About(i, "fire", x)'
  <2>1. tracker'[i][r].firing \in BOOLEAN /\ tracker[i][r].firing \in BOOLEAN
    BY <1>0, <1>2 DEF Trackers
  <2> HIDE DEF r
  <2> QED BY <1>1, <1>2, <2>1 DEF About
<1> HIDE DEF r
<1>4. TableFollowed'
  <2> SUFFICES ASSUME NEW x \in Rules
               PROVE  IF x \in FiringInDb
                      THEN \E k \in Instances :
                              tracker'[k][x].firing \/ About(k, "resolve", x)' \/ stage'[k] = "down"
                      ELSE \E k \in Instances :
                              ~tracker'[k][x].firing \/ About(k, "fire", x)' \/ stage'[k] = "down"
    BY <1>1 DEF TableFollowed, FiringInDb
  <2>1. \A k \in Instances \ {i} : \A statement :
           /\ tracker'[k][x].firing = tracker[k][x].firing /\ stage'[k] = stage[k]
           /\ About(k, statement, x)' = About(k, statement, x)
    BY <1>1 DEF About, InTurn
  <2>2. stage[i] = "rule"
    BY <1>1
  <2>3. CASE x \in FiringInDb
    <3>1. PICK k \in Instances : tracker[k][x].firing \/ About(k, "resolve", x) \/ stage[k] = "down"
      BY <1>0, <2>3 DEF TableFollowed
    <3>2. tracker'[k][x].firing \/ About(k, "resolve", x)' \/ stage'[k] = "down"
      <4>1. CASE k = i
        BY <1>3, <2>2, <3>1, <4>1 DEF About
      <4>2. CASE k # i
        BY <2>1, <3>1, <4>2
      <4> QED BY <4>1, <4>2
    <3> QED BY <2>3, <3>2
  <2>4. CASE x \notin FiringInDb
    <3>1. PICK k \in Instances : ~tracker[k][x].firing \/ About(k, "fire", x) \/ stage[k] = "down"
      BY <1>0, <2>4 DEF TableFollowed
    <3>2. ~tracker'[k][x].firing \/ About(k, "fire", x)' \/ stage'[k] = "down"
      <4>1. CASE k = i
        BY <1>3, <2>2, <3>1, <4>1 DEF About
      <4>2. CASE k # i
        BY <2>1, <3>1, <4>2
      <4> QED BY <4>1, <4>2
    <3> QED BY <2>4, <3>2
  <2> QED BY <2>3, <2>4
<1>5. ActiveFollows'
  <2>1. \A k \in Instances : active[k] \subseteq Rules
    BY DEF WellTyped, TypeOK
  <2> QED BY <1>0, <1>1, <1>3, <2>1 DEF ActiveFollows, About, InTurn
<1>6. Alone(i) => AloneAgrees(i)'
  <2> SUFFICES ASSUME Alone(i) PROVE AloneAgrees(i)'
    OBVIOUS
  <2>1. FiringInDb' = FiringInDb /\ Pushed(i)' = Pushed(i)
    BY <1>1 DEF FiringInDb, Pushed
  <2>2. \A x \in Rules : tracker[i][x].firing <=> x \in FiringInDb
    BY <1>0, <1>1 DEF AloneAgrees, About
  <2>3. stage'[i] # "select" /\ stage'[i] # "idle"
    BY <1>2
  <2>4. ASSUME NEW x \in Rules
        PROVE  IF About(i, "fire", x)' \/ About(i, "resolve", x)'
               THEN tracker'[i][x].firing <=> x \notin FiringInDb
               ELSE tracker'[i][x].firing <=> x \in FiringInDb
    <3>1. CASE x # r
      <4>1. ~About(i, "fire", x)' /\ ~About(i, "resolve", x)'
        BY <1>2, <3>1 DEF About
      <4> QED BY <1>1, <2>2, <3>1, <4>1
    <3>2. CASE x = r
      BY <1>2, <2>2, <3>2 DEF About
    <3> QED BY <3>1, <3>2
  <2> QED BY <1>0, <1>1, <2>1, <2>3, <2>4 DEF AloneAgrees
<1> QED BY <1>4, <1>5, <1>6 DEF AgreeAfter

\* The rule in turn has not been reported: its alert is, when its statement is over.
LEMMA NotYetPushed ==
    ASSUME WellTyped, NEW i \in Instances, stage[i] \in {"fire", "select", "resolve"}
    PROVE  \A state : <<InTurn(i), state>> \notin Pushed(i)
<1> SUFFICES ASSUME NEW state, <<InTurn(i), state>> \in Pushed(i) PROVE FALSE
  OBVIOUS
<1>1. PICK k \in 1..(turn[i] - 1) : RuleList[k] = <<InTurn(i), state>>[1]
  BY DEF WellTyped, PushedBefore
<1> QED BY <1>1, InTurnFacts

\* A statement that is carried out has its effect on the rule in turn, and leaves
\* table and memory alone about the others.
LEMMA StatementAgrees ==
    ASSUME WellTyped, AgreeInv, faults = 0, NEW i \in Instances,
           stage[i] \in {"fire", "select", "resolve"}, NextRule(i), UNCHANGED tracker,
           \A x \in Rules \ {InTurn(i)} : x \in FiringInDb' <=> x \in FiringInDb,
           stage[i] = "fire" => InTurn(i) \in FiringInDb',
           stage[i] = "select" => UNCHANGED db,
           stage[i] = "resolve" => InTurn(i) \notin FiringInDb' /\ InTurn(i) \notin active'[i],
           \A j \in Instances \ {i} : active'[j] = active[j],
           active'[i] \subseteq active[i] \cup {InTurn(i)}
    PROVE  TableFollowed' /\ ActiveFollows'
<1> DEFINE r == InTurn(i)
<1>0. /\ stage \in [Instances -> Stages] /\ turn \in [Instances -> 1..(Len(RuleList) + 1)]
      /\ r \in Rules /\ active \in [Instances -> SUBSET Rules]
      /\ TableFollowed /\ ActiveFollows
  BY InTurnFacts DEF WellTyped, TypeOK, Stages, AgreeInv
<1>1. /\ stage'[i] = "rule"
      /\ \A j \in Instances \ {i} : stage'[j] = stage[j] /\ turn'[j] = turn[j]
  BY <1>0 DEF NextRule
<1>2. /\ stage[i] \in {"fire", "select"} => tracker[i][r].firing
      /\ stage[i] = "resolve" => ~tracker[i][r].firing
  BY DEF WellTyped, StatementsFollow
<1>3. /\ \A j \in Instances \ {i} : \A s, x : About(j, s, x)' <=> About(j, s, x)
      /\ \A s : \A x \in Rules \ {r} : ~About(i, s, x)
      /\ \A s : About(i, s, r) <=> stage[i] = s
  BY <1>1 DEF About, InTurn
<1> HIDE DEF r
<1>4. TableFollowed'
  <2> SUFFICES ASSUME NEW x \in Rules
               PROVE  IF x \in FiringInDb'
                      THEN \E k \in Instances :
                              tracker[k][x].firing \/ About(k, "resolve", x)' \/ stage'[k] = "down"
                      ELSE \E k \in Instances :
                              ~tracker[k][x].firing \/ About(k, "fire", x)' \/ stage'[k] = "down"
    BY DEF TableFollowed
  <2>0. /\ x \in FiringInDb => \E k \in Instances :
              tracker[k][x].firing \/ About(k, "resolve", x) \/ stage[k] = "down"
        /\ x \notin FiringInDb => \E k \in Instances :
              ~tracker[k][x].firing \/ About(k, "fire", x) \/ stage[k] = "down"
    BY <1>0 DEF TableFollowed
  <2>1. CASE x # r
    <3>1. x \in FiringInDb' <=> x \in FiringInDb
      BY <2>1 DEF r
    <3>2. CASE x \in FiringInDb
      <4>1. PICK k \in Instances : tracker[k][x].firing \/ About(k, "resolve", x) \/ stage[k] = "down"
        BY <2>0, <3>2
      <4> QED BY <1>1, <1>3, <2>1, <3>1, <3>2, <4>1
    <3>3. CASE x \notin FiringInDb
      <4>1. PICK k \in Instances : ~tracker[k][x].firing \/ About(k, "fire", x) \/ stage[k] = "down"
        BY <2>0, <3>3
      <4> QED BY <1>1, <1>3, <2>1, <3>1, <3>3, <4>1
    <3> QED BY <3>2, <3>3
  <2>2. CASE x = r /\ stage[i] # "select"
    BY <1>2, <2>2 DEF r
  <2>3. CASE x = r /\ stage[i] = "select"
    <3>1. FiringInDb' = FiringInDb
      BY <2>3 DEF FiringInDb
    <3>2. CASE x \in FiringInDb
      BY <1>2, <2>3, <3>1, <3>2
    <3>3. CASE x \notin FiringInDb
      <4>1. PICK k \in Instances : ~tracker[k][x].firing \/ About(k, "fire", x) \/ stage[k] = "down"
        BY <2>0, <3>3
      <4>2. k # i
        BY <1>2, <1>3, <2>3, <4>1
      <4> QED BY <1>1, <1>3, <3>1, <3>3, <4>1, <4>2
    <3> QED BY <3>2, <3>3
  <2> QED BY <2>1, <2>2, <2>3
<1>5. ActiveFollows'
  <2> SUFFICES ASSUME NEW k \in Instances, NEW x \in active'[k]
               PROVE  tracker[k][x].firing \/ About(k, "resolve", x)'
    BY DEF ActiveFollows
  <2>1. CASE k # i
    BY <1>0, <1>3, <2>1 DEF ActiveFollows
  <2>2. CASE k = i /\ x # r
    <3>1. x \in active[i] /\ x \in Rules \ {r}
      BY <1>0, <2>2 DEF r
    <3> QED BY <1>0, <1>3, <2>2, <3>1 DEF ActiveFollows
  <2>3. CASE k = i /\ x = r
    BY <1>2, <2>3 DEF r
  <2> QED BY <2>1, <2>2, <2>3
<1> QED BY <1>4, <1>5

LEMMA FireAgrees ==
    ASSUME WellTyped, AgreeInv, faults = 0, NEW i \in Instances, Fire(i) PROVE AgreeAfter(i)
<1> DEFINE r == InTurn(i)
<1>0. /\ stage \in [Instances -> Stages] /\ turn \in [Instances -> 1..(Len(RuleList) + 1)]
      /\ active \in [Instances -> SUBSET Rules] /\ db \in [Rules -> {"none", "firing", "resolved"}]
      /\ TableFollowed /\ ActiveFollows /\ r \in Rules
      /\ stage[i] = "fire" /\ tracker[i][r].firing
      /\ Alone(i) => AloneAgrees(i)
  BY InTurnFacts DEF WellTyped, TypeOK, StatementsFollow, Stages, AgreeInv, Fire
<1>t. UNCHANGED <<tracker, told>>
  BY DEF Fire
<1>1. CASE db[r] # "firing"
  <2>1. /\ db' = [db EXCEPT ![r] = "firing"]
        /\ active' = [active EXCEPT ![i] = active[i] \cup {r}]
        /\ Report(i, r, "firing") /\ NextRule(i)
    BY <1>1 DEF Fire
  <2>2. FiringInDb' = FiringInDb \cup {r} /\ r \notin FiringInDb
    BY <1>0, <1>1, <2>1 DEF FiringInDb
  <2>3. /\ active'[i] = active[i] \cup {r} /\ stage'[i] = "rule"
        /\ \A j \in Instances \ {i} : active'[j] = active[j]
    BY <1>0, <2>1 DEF NextRule
  <2>4. Pushed(i)' = Pushed(i) \cup {<<r, "firing">>} /\ \A state : <<r, state>> \notin Pushed(i)
    BY <1>0, <2>1, ReportFacts, NotYetPushed
  <2>5. TableFollowed' /\ ActiveFollows'
    BY <1>0, <1>t, <2>1, <2>2, <2>3, StatementAgrees
  <2> HIDE DEF r
  <2>6. ASSUME Alone(i) PROVE AloneAgrees(i)'
    <3>1. /\ active[i] = FiringInDb
          /\ \A x \in Rules \ {r} : tracker[i][x].firing <=> x \in FiringInDb
          /\ \A x \in Rules :
                /\ <<x, "firing">> \in Pushed(i) =>
                      x \in FiringInDb /\ <<x, "resolved">> \notin Pushed(i)
                /\ <<x, "resolved">> \in Pushed(i) => x \notin FiringInDb
                /\ <<x, "firing">> \notin Pushed(i) /\ <<x, "resolved">> \notin Pushed(i) =>
                      (x \in told[i] <=> x \in FiringInDb)
      BY <1>0, <2>6 DEF AloneAgrees, About, r
    <3>2. \A x : /\ <<x, "firing">> \in Pushed(i)' <=> x = r \/ <<x, "firing">> \in Pushed(i)
                 /\ <<x, "resolved">> \in Pushed(i)' <=> <<x, "resolved">> \in Pushed(i)
      BY <2>4
    <3>3. \A x \in Rules : /\ ~About(i, "fire", x)' /\ ~About(i, "resolve", x)'
                           /\ tracker[i][x].firing <=> x \in FiringInDb'
      BY <1>0, <2>2, <2>3, <3>1 DEF About
    <3> QED BY <1>t, <2>2, <2>3, <2>4, <3>1, <3>2, <3>3 DEF AloneAgrees
  <2> QED BY <2>5, <2>6 DEF AgreeAfter
<1>2. CASE db[r] = "firing"
  <2>1. /\ stage' = [stage EXCEPT ![i] = "select"] /\ UNCHANGED <<turn, db, active>>
    BY <1>2 DEF Fire
  <2>2. r \in FiringInDb /\ FiringInDb' = FiringInDb
    BY <1>0, <1>2, <2>1 DEF FiringInDb
  <2>3. /\ \A j \in Instances : \A x : About(j, "resolve", x)' <=> About(j, "resolve", x)
        /\ \A j \in Instances : \A x \in Rules \ {r} : About(j, "fire", x)' <=> About(j, "fire", x)
        /\ \A j \in Instances : stage[j] = "down" => stage'[j] = "down"
    BY <1>0, <2>1 DEF About, InTurn
  <2> HIDE DEF r
  <2>4. TableFollowed'
    <3> SUFFICES ASSUME NEW x \in Rules
                 PROVE  IF x \in FiringInDb
                        THEN \E k \in Instances :
                                tracker[k][x].firing \/ About(k, "resolve", x)' \/ stage'[k] = "down"
                        ELSE \E k \in Instances :
                                ~tracker[k][x].firing \/ About(k, "fire", x)' \/ stage'[k] = "down"
      BY <1>t, <2>2 DEF TableFollowed
    <3> QED BY <1>0, <2>2, <2>3 DEF TableFollowed
  <2>5. ActiveFollows'
    BY <1>0, <1>t, <2>1, <2>3 DEF ActiveFollows
  <2>6. ~Alone(i)
    <3> SUFFICES ASSUME Alone(i) PROVE FALSE
      OBVIOUS
    <3> QED BY <1>0, <2>2 DEF AloneAgrees, About, r
  <2> QED BY <2>4, <2>5, <2>6 DEF AgreeAfter
<1> QED BY <1>1, <1>2

LEMMA SelectAgrees ==
    ASSUME WellTyped, AgreeInv, faults = 0, NEW i \in Instances, Select(i) PROVE AgreeAfter(i)
<1>0. /\ stage[i] = "select" /\ active \in [Instances -> SUBSET Rules] /\ InTurn(i) \in Rules
      /\ Alone(i) => AloneAgrees(i)
  BY InTurnFacts DEF WellTyped, TypeOK, AgreeInv, Select
<1>1. /\ NextRule(i) /\ UNCHANGED <<tracker, told, db>>
      /\ \A j \in Instances \ {i} : active'[j] = active[j]
      /\ active'[i] \subseteq active[i] \cup {InTurn(i)}
  BY <1>0 DEF Select
<1>2. FiringInDb' = FiringInDb
  BY <1>1 DEF FiringInDb
<1>3. TableFollowed' /\ ActiveFollows'
  BY <1>0, <1>1, <1>2, StatementAgrees
<1>4. ~Alone(i)
  BY <1>0 DEF AloneAgrees
<1> QED BY <1>3, <1>4 DEF AgreeAfter

LEMMA ResolveAgrees ==
    ASSUME WellTyped, AgreeInv, faults = 0, NEW i \in Instances, Resolve(i) PROVE AgreeAfter(i)
<1> DEFINE r == InTurn(i)
<1>0. /\ stage \in [Instances -> Stages] /\ turn \in [Instances -> 1..(Len(RuleList) + 1)]
      /\ active \in [Instances -> SUBSET Rules] /\ db \in [Rules -> {"none", "firing", "resolved"}]
      /\ r \in Rules /\ stage[i] = "resolve" /\ ~tracker[i][r].firing
      /\ Alone(i) => AloneAgrees(i)
  BY InTurnFacts DEF WellTyped, TypeOK, StatementsFollow, Stages, AgreeInv, Resolve
<1>1. /\ UNCHANGED <<tracker, told>> /\ NextRule(i)
      /\ active' = [active EXCEPT ![i] = active[i] \ {r}]
      /\ \/ db[r] = "firing" /\ db' = [db EXCEPT ![r] = "resolved"] /\ Report(i, r, "resolved")
         \/ db[r] # "firing" /\ UNCHANGED db
  BY DEF Resolve, Forget
<1>2. FiringInDb' = FiringInDb \ {r}
  BY <1>0, <1>1 DEF FiringInDb
<1>3. /\ active'[i] = active[i] \ {r} /\ stage'[i] = "rule"
      /\ \A j \in Instances \ {i} : active'[j] = active[j]
  BY <1>0, <1>1 DEF NextRule
<1>4. TableFollowed' /\ ActiveFollows'
  BY <1>0, <1>1, <1>2, <1>3, StatementAgrees
<1> HIDE DEF r
<1>5. ASSUME Alone(i) PROVE AloneAgrees(i)'
  <2>1. /\ active[i] = FiringInDb /\ r \in FiringInDb
        /\ \A x \in Rules \ {r} : tracker[i][x].firing <=> x \in FiringInDb
        /\ \A x \in Rules :
              /\ <<x, "firing">> \in Pushed(i) =>
                    x \in FiringInDb /\ <<x, "resolved">> \notin Pushed(i)
              /\ <<x, "resolved">> \in Pushed(i) => x \notin FiringInDb
              /\ <<x, "firing">> \notin Pushed(i) /\ <<x, "resolved">> \notin Pushed(i) =>
                    (x \in told[i] <=> x \in FiringInDb)
    BY <1>0, <1>5 DEF AloneAgrees, About, r
  <2>2. Report(i, r, "resolved")
    BY <1>1, <2>1 DEF FiringInDb
  <2>3. Pushed(i)' = Pushed(i) \cup {<<r, "resolved">>} /\ \A state : <<r, state>> \notin Pushed(i)
    BY <1>0, <1>1, <2>2, ReportFacts, NotYetPushed DEF r
  <2>4. \A x : /\ <<x, "resolved">> \in Pushed(i)' <=> x = r \/ <<x, "resolved">> \in Pushed(i)
               /\ <<x, "firing">> \in Pushed(i)' <=> <<x, "firing">> \in Pushed(i)
    BY <2>3
  <2>5. \A x \in Rules : /\ ~About(i, "fire", x)' /\ ~About(i, "resolve", x)'
                         /\ tracker[i][x].firing <=> x \in FiringInDb'
    BY <1>0, <1>2, <1>3, <2>1 DEF About
  <2> QED BY <1>1, <1>2, <1>3, <2>1, <2>3, <2>4, <2>5 DEF AloneAgrees
<1> QED BY <1>4, <1>5 DEF AgreeAfter

LEMMA FinishAgrees ==
    ASSUME WellTyped, AgreeInv, faults = 0, NEW i \in Instances, Finish(i) PROVE AgreeAfter(i)
<1>0. /\ stage \in [Instances -> Stages] /\ told \in [Instances -> SUBSET Rules]
      /\ TableFollowed /\ ActiveFollows /\ active \in [Instances -> SUBSET Rules]
      /\ Alone(i) => AloneAgrees(i)
  BY DEF WellTyped, TypeOK, Stages, AgreeInv, Finish
<1>1. /\ stage[i] = "rule" /\ stage' = [stage EXCEPT ![i] = "idle"]
      /\ UNCHANGED <<tracker, active, turn, changed, db>>
      /\ told'[i] = (told[i] \cup {r \in Rules : <<r, "firing">> \in Pushed(i)})
                        \ {r \in Rules : <<r, "resolved">> \in Pushed(i)}
  BY <1>0 DEF Finish
<1>2. FiringInDb' = FiringInDb /\ stage'[i] = "idle"
  BY <1>0, <1>1 DEF FiringInDb
<1>3. \A j \in Instances : /\ \A x : /\ About(j, "resolve", x)' <=> About(j, "resolve", x)
                                     /\ About(j, "fire", x)' <=> About(j, "fire", x)
                           /\ stage'[j] = "down" <=> stage[j] = "down"
  BY <1>0, <1>1 DEF About, InTurn
<1>4. TableFollowed' /\ ActiveFollows'
  BY <1>0, <1>1, <1>2, <1>3 DEF TableFollowed, ActiveFollows
<1>5. ASSUME Alone(i) PROVE AloneAgrees(i)'
  <2>1. /\ active[i] = FiringInDb
        /\ \A x \in Rules : /\ tracker[i][x].firing <=> x \in FiringInDb
                            /\ ~About(i, "resolve", x) /\ ~About(i, "fire", x)
        /\ \A x \in Rules :
              /\ <<x, "firing">> \in Pushed(i) =>
                    x \in FiringInDb /\ <<x, "resolved">> \notin Pushed(i)
              /\ <<x, "resolved">> \in Pushed(i) => x \notin FiringInDb
              /\ <<x, "firing">> \notin Pushed(i) /\ <<x, "resolved">> \notin Pushed(i) =>
                    (x \in told[i] <=> x \in FiringInDb)
    BY <1>0, <1>1, <1>5 DEF AloneAgrees, About
  <2>2. \A x \in Rules : x \in told'[i] <=> x \in FiringInDb
    BY <1>1, <2>1
  <2>3. told'[i] \subseteq Rules /\ FiringInDb \subseteq Rules
    BY <1>0, <1>1 DEF FiringInDb
  <2>4. told'[i] = FiringInDb
    BY <2>2, <2>3
  <2> QED BY <1>1, <1>2, <1>3, <2>1, <2>4 DEF AloneAgrees
<1> QED BY <1>4, <1>5 DEF AgreeAfter

\* The process that loads the table agrees with it.
LEMMA StartAgrees ==
    ASSUME WellTyped, NEW i \in Instances, Start(i), AgreeInv, faults = 0 PROVE AgreeAfter(i)
<1>0. /\ stage \in [Instances -> Stages] /\ tracker \in [Instances -> [Rules -> Trackers]]
      /\ active \in [Instances -> SUBSET Rules] /\ told \in [Instances -> SUBSET Rules]
      /\ TableFollowed /\ ActiveFollows
  BY DEF WellTyped, TypeOK, Stages, Trackers, AgreeInv
<1>1. /\ stage' = [stage EXCEPT ![i] = "idle"] /\ stage[i] = "down"
      /\ active' = [active EXCEPT ![i] = FiringInDb] /\ told' = [told EXCEPT ![i] = FiringInDb]
      /\ UNCHANGED <<turn, db>> /\ FiringInDb' = FiringInDb
  BY DEF Start, FiringInDb
<1>2. /\ \A j \in Instances \ {i} : tracker'[j] = tracker[j]
      /\ \A x \in Rules : tracker'[i][x] = [Fresh EXCEPT !.firing = (x \in FiringInDb)]
  BY <1>0 DEF Start
<1>3. \A x \in Rules : tracker'[i][x].firing <=> x \in FiringInDb
  BY <1>2 DEF Fresh
<1>4. TableFollowed'
  <2> SUFFICES ASSUME NEW x \in Rules
               PROVE  IF x \in FiringInDb
                      THEN \E k \in Instances :
                              tracker'[k][x].firing \/ About(k, "resolve", x)' \/ stage'[k] = "down"
                      ELSE \E k \in Instances :
                              ~tracker'[k][x].firing \/ About(k, "fire", x)' \/ stage'[k] = "down"
    BY <1>1 DEF TableFollowed
  <2> QED BY <1>3
<1>5. ActiveFollows'
  <2> SUFFICES ASSUME NEW k \in Instances, NEW x \in active'[k]
               PROVE  tracker'[k][x].firing \/ About(k, "resolve", x)'
    BY DEF ActiveFollows
  <2>1. CASE k = i
    BY <1>0, <1>1, <1>3, <2>1 DEF FiringInDb
  <2>2. CASE k # i
    BY <1>0, <1>1, <1>2, <2>2 DEF ActiveFollows, About, InTurn
  <2> QED BY <2>1, <2>2
<1>6. AloneAgrees(i)'
  <2>1. stage'[i] = "idle" /\ active'[i] = FiringInDb /\ told'[i] = FiringInDb
    BY <1>0, <1>1
  <2> QED BY <1>1, <1>3, <2>1 DEF AloneAgrees, About
<1> QED BY <1>4, <1>5, <1>6 DEF AgreeAfter

\* Nobody relies on the memory of a process that ends: it will learn from the table.
LEMMA EndAgrees ==
    ASSUME WellTyped, AgreeInv, faults = 0, NEW i \in Instances, End(i) PROVE AgreeAfter(i)
<1>0. /\ stage \in [Instances -> Stages] /\ tracker \in [Instances -> [Rules -> Trackers]]
      /\ active \in [Instances -> SUBSET Rules] /\ turn \in [Instances -> 1..(Len(RuleList) + 1)]
      /\ ActiveFollows
  BY DEF WellTyped, TypeOK, Stages, Trackers, AgreeInv
<1>1. /\ stage'[i] = "down" /\ active'[i] = {}
      /\ \A j \in Instances \ {i} : /\ stage'[j] = stage[j] /\ turn'[j] = turn[j]
                                    /\ active'[j] = active[j] /\ tracker'[j] = tracker[j]
  BY <1>0 DEF End
<1>2. TableFollowed'
  BY <1>1 DEF TableFollowed
<1>3. ActiveFollows'
  BY <1>0, <1>1 DEF ActiveFollows, About, InTurn
<1> QED BY <1>1, <1>2, <1>3 DEF AgreeAfter

LEMMA NextAgree == WellTyped /\ AgreeInv /\ [Next]_vars => AgreeInv'
<1> SUFFICES ASSUME WellTyped, AgreeInv, [Next]_vars, faults' = 0 PROVE AgreeInv'
  BY DEF AgreeInv
<1>0. faults \in Nat
  BY DEF WellTyped, TypeOK
<1>1. ASSUME NEW i \in Instances, EvaluatorStep(i) \/ End(i) PROVE AgreeInv'
  <2>1. faults = 0
    BY <1>1 DEF EvaluatorStep, Begin, Judge, Fire, Select, Resolve, Finish, Start, End
  <2>2. AgreeAfter(i)
    BY <1>1, <2>1, BeginAgrees, JudgeAgrees, FireAgrees, SelectAgrees, ResolveAgrees,
       FinishAgrees, StartAgrees, EndAgrees DEF EvaluatorStep
  <2>3. \A k \in Instances : Alone(k)' => k = i /\ Alone(i)
    BY <1>1, AloneActs
  <2> QED BY <2>2, <2>3 DEF AgreeInv, AgreeAfter
<1>2. ASSUME NEW i \in Instances, StatementFails(i) PROVE FALSE
  BY <1>0, <1>2 DEF StatementFails
<1>3. CASE UNCHANGED vars
  BY <1>3 DEF vars, memVars, AgreeInv, TableFollowed, ActiveFollows, Alone, AloneAgrees, About,
              InTurn, FiringInDb, Pushed
<1> QED BY <1>1, <1>2, <1>3 DEF Next

\* Memory, table and clients agree between evaluations, for any number of processes
\* and rules, however their evaluations interleave and whenever a process ends, as
\* long as no statement fails.
THEOREM MemoryFollowsTable == Spec => []AlertsAgree
<1>1. WellTyped /\ AgreeInv => AlertsAgree
  <2> SUFFICES ASSUME WellTyped, AgreeInv, faults = 0 PROVE AlertsAgree
    BY DEF AlertsAgree
  <2>1. ASSUME NEW i \in Instances, stage[i] = "idle", Alone(i)
        PROVE  /\ {r \in Rules : tracker[i][r].firing} = FiringInDb
               /\ active[i] = FiringInDb /\ told[i] = FiringInDb
    <3>1. /\ active[i] = FiringInDb /\ told[i] = FiringInDb
          /\ \A r \in Rules : tracker[i][r].firing <=> r \in FiringInDb
      BY <2>1 DEF AgreeInv, AloneAgrees, About
    <3>2. FiringInDb \subseteq Rules
      BY DEF FiringInDb
    <3> QED BY <3>1, <3>2
  <2>2. ASSUME \A i \in Instances : stage[i] = "idle", NEW r \in Rules
        PROVE  /\ (\A i \in Instances : tracker[i][r].firing) => r \in FiringInDb
               /\ (\A i \in Instances : ~tracker[i][r].firing) =>
                     r \notin FiringInDb /\ \A i \in Instances : r \notin active[i]
    BY <2>2 DEF AgreeInv, TableFollowed, ActiveFollows, About
  <2> QED BY <2>1, <2>2 DEF AlertsAgree
<1> QED BY InitWellTyped, NextWellTyped, InitAgree, NextAgree, <1>1, PTL DEF Spec
=============================================================================
