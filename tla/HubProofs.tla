----------------------------- MODULE HubProofs -----------------------------
(***************************************************************************)
(* Proofs about Hub: memory within its bounds, no gap in the alerts and    *)
(* pings of any client, and the newest snapshot on its way to each.        *)
(***************************************************************************)
EXTENDS HubProperties, SequenceFacts

USE DEF mailVars, sendVars, newsVars

ReliableKinds == {"hello", "reliable"}

LEMMA KindFacts ==
    /\ Conflated \cap ReliableKinds = {} /\ "snapshot" \in Conflated
    /\ \A kind \in ReliableKinds, n \in Nat : Message(kind, n) \in Messages
    /\ \A kind \in Conflated, n \in Nat : Message(kind, n) \in Messages
    /\ \A kind, n : Message(kind, n).kind = kind /\ Message(kind, n).n = n
    /\ \A m \in Messages : /\ m.kind \in ReliableKinds \/ m.kind \in Conflated
                           /\ m.n \in Nat
BY HubAssumption DEF HubAssumption, ReliableKinds, Messages, Message

-----------------------------------------------------------------------------
(* Logs without a gap.  Sets of logs, to hide what they are made of.       *)

GaplessLogs == {s \in Seq(Messages) : Gapless(s)}
LogsUpTo(n) == {s \in Seq(Messages) : UpTo(s, n)}

LEMMA EmptyLog == <<>> \in GaplessLogs
BY DEF GaplessLogs, Gapless, Places

LEMMA FirstHello ==
    ASSUME NEW n \in Nat
    PROVE  <<Message("hello", n)>> \in GaplessLogs /\ <<Message("hello", n)>> \in LogsUpTo(n)
<1> DEFINE s == <<Message("hello", n)>>
<1>1. /\ s \in Seq(Messages) /\ DOMAIN s = {1} /\ s[1].kind = "hello" /\ s[1].n = n
  BY KindFacts DEF ReliableKinds
<1> HIDE DEF s
<1>2. Places(s) = {1}
  BY <1>1 DEF Places
<1>3. Gapless(s) /\ UpTo(s, n)
  BY <1>1, <1>2 DEF Gapless, UpTo
<1>4. s \in GaplessLogs /\ s \in LogsUpTo(n)
  BY <1>1, <1>3 DEF GaplessLogs, LogsUpTo
<1> QED BY <1>4 DEF s

LEMMA GaplessPrefix ==
    ASSUME NEW s \in Seq(Messages), NEW t \in Seq(Messages), s \o t \in GaplessLogs
    PROVE  s \in GaplessLogs
<1> DEFINE u == s \o t
           m == Len(s)
           n == Len(t)
<1>1. m \in Nat /\ n \in Nat /\ DOMAIN s = 1..m
  OBVIOUS
<1>2. /\ u \in Seq(Messages) /\ Len(u) = m + n
      /\ \A i \in 1..(m + n) : u[i] = IF i <= m THEN s[i] ELSE t[i - m]
  BY ConcatProperties
<1>3. DOMAIN u = 1..(m + n)
  BY <1>2, LenProperties
<1>4. Gapless(u)
  BY DEF GaplessLogs
<1> HIDE DEF u, m, n
<1>5. \A i \in 1..m : i \in 1..(m + n) /\ u[i] = s[i]
  BY <1>1, <1>2
<1>6. /\ Places(s) \subseteq Places(u) /\ Places(s) \subseteq 1..m
      /\ \A i \in Places(u) : i \in Int /\ (i <= m => i \in Places(s))
  BY <1>1, <1>3, <1>5 DEF Places
<1>7. ASSUME NEW i \in Places(s) PROVE s[i].kind = "hello" <=> \A j \in Places(s) : i <= j
  <2>1. u[i].kind = "hello" <=> \A j \in Places(u) : i <= j
    BY <1>4, <1>6 DEF Gapless
  <2>2. (\A j \in Places(u) : i <= j) <=> \A j \in Places(s) : i <= j
    BY <1>1, <1>6
  <2> QED BY <2>1, <2>2, <1>5, <1>6
<1>8. ASSUME NEW i \in Places(s), NEW j \in Places(s), i < j,
             \A k \in Places(s) : k <= i \/ j <= k
      PROVE  s[j].n = s[i].n + 1
  <2>1. \A k \in Places(u) : k <= i \/ j <= k
    BY <1>1, <1>6, <1>8
  <2>2. u[j].n = u[i].n + 1
    BY <1>4, <1>6, <1>8, <2>1 DEF Gapless
  <2> QED BY <2>2, <1>5, <1>6
<1>9. Gapless(s)
  BY <1>7, <1>8 DEF Gapless
<1> QED BY <1>9 DEF GaplessLogs

LEMMA AppendPlaces ==
    ASSUME NEW s \in Seq(Messages), NEW e \in Messages
    PROVE  LET u == Append(s, e)
               last == Len(s) + 1
           IN  /\ u \in Seq(Messages) /\ last \in Nat
               /\ Places(s) \subseteq 1..Len(s)
               /\ \A i \in Places(s) : i \in Nat /\ i < last /\ u[i] = s[i]
               /\ u[last] = e
               /\ Places(u) = IF e.kind \in ReliableKinds THEN Places(s) \cup {last} ELSE Places(s)
<1> DEFINE u == Append(s, e)
           m == Len(s)
<1>1. /\ m \in Nat /\ DOMAIN s = 1..m /\ u \in Seq(Messages) /\ DOMAIN u = 1..(m + 1)
      /\ \A i \in 1..m : u[i] = s[i]
      /\ u[m + 1] = e
  BY AppendProperties
<1> HIDE DEF u, m
<1>2. 1..(m + 1) = (1..m) \cup {m + 1}
  BY <1>1
<1>3. Places(u) = IF e.kind \in ReliableKinds THEN Places(s) \cup {m + 1} ELSE Places(s)
  BY <1>1, <1>2 DEF Places, ReliableKinds
<1>4. Places(s) \subseteq 1..m
  BY <1>1 DEF Places
<1>5. \A i \in Places(s) : i \in Nat /\ i < m + 1 /\ u[i] = s[i]
  BY <1>1, <1>4
<1> QED BY <1>1, <1>3, <1>4, <1>5 DEF u, m

\* A conflated message is not in the sequence.
LEMMA AppendOther ==
    ASSUME NEW s \in GaplessLogs, NEW e \in Messages, e.kind \in Conflated
    PROVE  /\ Append(s, e) \in GaplessLogs
           /\ \A n \in Nat : s \in LogsUpTo(n) => Append(s, e) \in LogsUpTo(n)
<1> DEFINE u == Append(s, e)
<1>1. s \in Seq(Messages) /\ Gapless(s)
  BY DEF GaplessLogs
<1>2. /\ u \in Seq(Messages) /\ Places(u) = Places(s)
      /\ \A i \in Places(s) : u[i] = s[i]
  BY <1>1, AppendPlaces, KindFacts
<1> HIDE DEF u
<1>3. Gapless(u)
  BY <1>1, <1>2 DEF Gapless
<1>4. \A n \in Nat : UpTo(s, n) => UpTo(u, n)
  BY <1>2 DEF UpTo
<1>5. u \in GaplessLogs /\ \A n \in Nat : s \in LogsUpTo(n) => u \in LogsUpTo(n)
  BY <1>2, <1>3, <1>4 DEF GaplessLogs, LogsUpTo
<1> QED BY <1>5 DEF u

\* The next reliable message goes on where the log got to.
LEMMA AppendNext ==
    ASSUME NEW n \in Nat, NEW s \in GaplessLogs, s \in LogsUpTo(n)
    PROVE  /\ Append(s, Message("reliable", n + 1)) \in GaplessLogs
           /\ Append(s, Message("reliable", n + 1)) \in LogsUpTo(n + 1)
<1> DEFINE e == Message("reliable", n + 1)
           u == Append(s, e)
           last == Len(s) + 1
<1>1. s \in Seq(Messages) /\ Gapless(s) /\ UpTo(s, n)
  BY DEF GaplessLogs, LogsUpTo
<1>2. e \in Messages /\ e.kind = "reliable" /\ e.n = n + 1 /\ "reliable" \in ReliableKinds
  <2>1. n + 1 \in Nat
    OBVIOUS
  <2> QED BY <2>1, KindFacts DEF ReliableKinds
<1> HIDE DEF e
<1>3. /\ u \in Seq(Messages) /\ Places(u) = Places(s) \cup {last} /\ last \in Nat
      /\ \A i \in Places(s) : i \in Nat /\ i < last /\ u[i] = s[i]
      /\ u[last] = e
  BY <1>1, <1>2, AppendPlaces
<1> HIDE DEF u, last
<1>4. PICK top \in Places(s) : s[top].n = n /\ \A j \in Places(s) : j <= top
  BY <1>1 DEF UpTo
<1>5. UpTo(u, n + 1)
  BY <1>2, <1>3 DEF UpTo
<1>6. ASSUME NEW i \in Places(u) PROVE u[i].kind = "hello" <=> \A j \in Places(u) : i <= j
  <2>1. CASE i = last
    <3>1. ~(i <= top) /\ top \in Places(u)
      BY <1>3, <1>4, <2>1
    <3> QED BY <1>2, <1>3, <2>1, <3>1
  <2>2. CASE i \in Places(s)
    <3>1. s[i].kind = "hello" <=> \A j \in Places(s) : i <= j
      BY <1>1, <2>2 DEF Gapless
    <3>2. u[i] = s[i] /\ i <= last
      BY <1>3, <2>2
    <3> QED BY <1>3, <3>1, <3>2
  <2> QED BY <1>3, <1>6, <2>1, <2>2
<1>7. ASSUME NEW i \in Places(u), NEW j \in Places(u), i < j,
             \A k \in Places(u) : k <= i \/ j <= k
      PROVE  u[j].n = u[i].n + 1
  <2>1. CASE j = last
    <3>1. i \in Places(s)
      BY <1>3, <1>7, <2>1
    <3>2. top <= i
      <4>1. top \in Places(u) /\ top < last
        BY <1>3, <1>4
      <4>2. top <= i \/ j <= top
        BY <1>7, <4>1
      <4>3. top \in Nat /\ last \in Nat
        BY <1>3, <1>4
      <4> QED BY <2>1, <4>1, <4>2, <4>3
    <3>3. i = top
      BY <1>3, <1>4, <3>1, <3>2
    <3> QED BY <1>2, <1>3, <1>4, <2>1, <3>3
  <2>2. CASE j \in Places(s)
    <3>1. i \in Places(s)
      BY <1>3, <1>7, <2>2
    <3>2. \A k \in Places(s) : k <= i \/ j <= k
      BY <1>3, <1>7
    <3>3. s[j].n = s[i].n + 1
      BY <1>1, <1>7, <2>2, <3>1, <3>2 DEF Gapless
    <3> QED BY <1>3, <2>2, <3>1, <3>3
  <2> QED BY <1>3, <1>7, <2>1, <2>2
<1>8. Gapless(u)
  BY <1>6, <1>7 DEF Gapless
<1>9. u \in GaplessLogs /\ u \in LogsUpTo(n + 1)
  BY <1>3, <1>5, <1>8 DEF GaplessLogs, LogsUpTo
<1> QED BY <1>9 DEF u, e

-----------------------------------------------------------------------------
(* Logs whose conflated messages are newer and newer.                      *)

Newer(old, new) ==
    \A m \in old, o \in new : m.kind = o.kind /\ m.kind \in Conflated => m.n < o.n

RisingLogs == {s \in Seq(Messages) : Rising(s)}

\* Slots that hold at most one message of each kind.
Distinct(slots) == \A i, j \in DOMAIN slots : slots[i].kind = slots[j].kind => i = j
Slots == {s \in Seq(Messages) : Distinct(s)}

LEMMA RisingConcat ==
    ASSUME NEW s \in Seq(Messages), NEW t \in Seq(Messages)
    PROVE  s \o t \in RisingLogs
             <=> s \in RisingLogs /\ t \in RisingLogs /\ Newer(ToSet(s), ToSet(t))
<1> DEFINE u == s \o t
           m == Len(s)
           n == Len(t)
           Less(a, b) == a.kind = b.kind /\ a.kind \in Conflated => a.n < b.n
<1>1. /\ m \in Nat /\ n \in Nat /\ DOMAIN s = 1..m /\ DOMAIN t = 1..n
      /\ ToSet(s) = {s[i] : i \in 1..m} /\ ToSet(t) = {t[i] : i \in 1..n}
  BY ToSetRange
<1>2. /\ u \in Seq(Messages) /\ Len(u) = m + n
      /\ \A i \in 1..(m + n) : u[i] = IF i <= m THEN s[i] ELSE t[i - m]
  BY ConcatProperties
<1>3. DOMAIN u = 1..(m + n)
  BY <1>2, LenProperties
<1> HIDE DEF u, m, n
<1>4. \A i \in 1..m : i \in 1..(m + n) /\ u[i] = s[i]
  BY <1>1, <1>2
<1>5. \A j \in 1..n : m + j \in 1..(m + n) /\ u[m + j] = t[j]
  <2> TAKE j \in 1..n
  <2> DEFINE k == m + j
  <2>1. k \in 1..(m + n) /\ ~(k <= m) /\ k - m = j
    BY <1>1
  <2> HIDE DEF k
  <2>2. u[k] = t[k - m]
    BY <2>1, <1>2
  <2> QED BY <2>1, <2>2 DEF k
<1>6. /\ Rising(u) <=> \A i, j \in 1..(m + n) : i < j => Less(u[i], u[j])
      /\ Rising(s) <=> \A i, j \in 1..m : i < j => Less(s[i], s[j])
      /\ Rising(t) <=> \A i, j \in 1..n : i < j => Less(t[i], t[j])
      /\ Newer(ToSet(s), ToSet(t)) <=> \A i \in 1..m, j \in 1..n : Less(s[i], t[j])
  <2>1. Newer(ToSet(s), ToSet(t)) <=> \A i \in 1..m, j \in 1..n : Less(s[i], t[j])
    BY <1>1 DEF Newer
  <2> QED BY <1>1, <1>3, <2>1 DEF Rising
<1> HIDE DEF Less
<1>7. ASSUME Rising(u) PROVE Rising(s) /\ Rising(t) /\ Newer(ToSet(s), ToSet(t))
  <2>1. Rising(s)
    BY <1>4, <1>6, <1>7
  <2>2. ASSUME NEW i \in 1..n, NEW j \in 1..n, i < j PROVE Less(t[i], t[j])
    <3>1. m + i < m + j
      BY <1>1, <2>2
    <3> QED BY <1>5, <1>6, <1>7, <3>1
  <2>3. ASSUME NEW i \in 1..m, NEW j \in 1..n PROVE Less(s[i], t[j])
    <3>1. i < m + j
      BY <1>1
    <3> QED BY <1>4, <1>5, <1>6, <1>7, <3>1
  <2> QED BY <1>6, <2>1, <2>2, <2>3
<1>8. ASSUME Rising(s), Rising(t), Newer(ToSet(s), ToSet(t)) PROVE Rising(u)
  <2> SUFFICES ASSUME NEW i \in 1..(m + n), NEW j \in 1..(m + n), i < j PROVE Less(u[i], u[j])
    BY <1>6
  <2>1. CASE j <= m
    <3>1. i \in 1..m /\ j \in 1..m
      BY <1>1, <2>1
    <3> QED BY <1>4, <1>6, <1>8, <3>1
  <2>2. CASE i <= m /\ ~(j <= m)
    <3>1. i \in 1..m /\ j - m \in 1..n /\ u[j] = t[j - m]
      BY <1>1, <1>2, <2>2
    <3> QED BY <1>4, <1>6, <1>8, <3>1
  <2>3. CASE ~(i <= m)
    <3>1. i - m \in 1..n /\ j - m \in 1..n /\ i - m < j - m /\ ~(j <= m)
      BY <1>1, <2>3
    <3>2. u[i] = t[i - m] /\ u[j] = t[j - m]
      BY <1>2, <2>3, <3>1
    <3> QED BY <1>6, <1>8, <3>1, <3>2
  <2> QED BY <2>1, <2>2, <2>3
<1>9. Rising(u) <=> Rising(s) /\ Rising(t) /\ Newer(ToSet(s), ToSet(t))
  BY <1>7, <1>8
<1> QED BY <1>2, <1>9 DEF RisingLogs, u

LEMMA SlotFacts ==
    /\ <<>> \in Slots /\ Slots \subseteq RisingLogs /\ RisingLogs \subseteq Seq(Messages)
    /\ \A m \in Messages : <<m>> \in Slots
    /\ <<>> \in RisingLogs
<1>1. <<>> \in Slots
  BY DEF Slots, Distinct
<1>2. ASSUME NEW s \in Slots PROVE s \in RisingLogs
  <2>1. s \in Seq(Messages) /\ Distinct(s) /\ DOMAIN s \subseteq Int
    BY DEF Slots
  <2>2. Rising(s)
    BY <2>1 DEF Rising, Distinct
  <2> QED BY <2>1, <2>2 DEF RisingLogs
<1>3. ASSUME NEW m \in Messages PROVE <<m>> \in Slots
  BY DEF Slots, Distinct
<1> QED BY <1>1, <1>2, <1>3 DEF RisingLogs

LEMMA RisingAppend ==
    ASSUME NEW s \in RisingLogs, NEW e \in Messages, Newer(ToSet(s), {e})
    PROVE  Append(s, e) \in RisingLogs
<1>1. s \in Seq(Messages) /\ <<e>> \in Seq(Messages)
  BY DEF RisingLogs
<1>2. Append(s, e) = s \o <<e>> /\ ToSet(<<e>>) = {e}
  BY <1>1, AppendIsConcat, ToSetSingleton
<1>3. <<e>> \in RisingLogs
  BY SlotFacts
<1>4. Newer(ToSet(s), ToSet(<<e>>))
  BY <1>2
<1>5. s \o <<e>> \in RisingLogs
  BY ONLY <1>1, <1>3, <1>4, s \in RisingLogs, RisingConcat
<1> QED BY <1>2, <1>5

\* The oldest slot is taken.
LEMMA TakeSlot ==
    ASSUME NEW s \in Slots, s # <<>>
    PROVE  /\ Head(s) \in Messages /\ Tail(s) \in Slots
           /\ ToSet(s) = {Head(s)} \cup ToSet(Tail(s))
           /\ \A m \in ToSet(Tail(s)) : m.kind # Head(s).kind
<1>1. s \in Seq(Messages) /\ Distinct(s)
  BY DEF Slots
<1> DEFINE t == Tail(s)
           m == Len(s)
<1>2. /\ m \in Nat \ {0} /\ DOMAIN s = 1..m /\ Head(s) = s[1] /\ s[1] \in Messages
      /\ t \in Seq(Messages) /\ Len(t) = m - 1 /\ \A i \in 1..(m - 1) : t[i] = s[i + 1]
  BY <1>1, HeadTailProperties
<1>3. DOMAIN t = 1..(m - 1) /\ ToSet(t) = {t[i] : i \in 1..(m - 1)}
  BY <1>2, LenProperties, ToSetRange
<1>4. ToSet(s) = {Head(s)} \cup ToSet(t)
  BY <1>1, ToSetHeadTail
<1> HIDE DEF t, m
<1>5. \A i \in 1..(m - 1) : i + 1 \in 1..m /\ i + 1 # 1 /\ i \in Int
  BY <1>2
<1>6. 1 \in 1..m
  BY <1>2
<1>7. Distinct(t)
  <2> SUFFICES ASSUME NEW i \in 1..(m - 1), NEW j \in 1..(m - 1), t[i].kind = t[j].kind PROVE i = j
    BY <1>3 DEF Distinct
  <2>1. /\ t[i] = s[i + 1] /\ t[j] = s[j + 1]
        /\ i + 1 \in DOMAIN s /\ j + 1 \in DOMAIN s
    BY <1>2, <1>5
  <2>2. i + 1 = j + 1
    BY <1>1, <2>1 DEF Distinct
  <2> QED BY <1>5, <2>2
<1>8. \A o \in ToSet(t) : o.kind # Head(s).kind
  <2> SUFFICES ASSUME NEW i \in 1..(m - 1) PROVE t[i].kind # s[1].kind
    BY <1>2, <1>3
  <2>1. t[i] = s[i + 1] /\ i + 1 \in DOMAIN s /\ 1 \in DOMAIN s /\ i + 1 # 1
    BY <1>2, <1>5, <1>6
  <2> QED BY <1>1, <2>1 DEF Distinct
<1> QED BY <1>2, <1>4, <1>7, <1>8 DEF t, Slots

\* A new message takes the place of the pending one of its kind.
LEMMA ReplaceFacts ==
    ASSUME NEW s \in Slots, NEW e \in Messages
    PROVE  /\ Replace(s, e) \in Slots
           /\ ToSet(Replace(s, e)) = {e} \cup {m \in ToSet(s) : m.kind # e.kind}
<1> DEFINE m == Len(s)
           u == Replace(s, e)
<1>1. /\ s \in Seq(Messages) /\ Distinct(s) /\ m \in Nat /\ DOMAIN s = 1..m
      /\ ToSet(s) = {s[i] : i \in 1..m} /\ \A i \in 1..m : s[i] \in Messages
  BY ToSetRange DEF Slots
<1>2. CASE \E i \in DOMAIN s : s[i].kind = e.kind
  <2>1. PICK k \in 1..m : s[k].kind = e.kind
    BY <1>1, <1>2
  <2>2. u = [i \in 1..m |-> IF s[i].kind = e.kind THEN e ELSE s[i]]
    <3>1. u = [i \in DOMAIN s |-> IF s[i].kind = e.kind THEN e ELSE s[i]]
      BY ONLY <1>2 DEF Replace
    <3>2. DOMAIN s = 1..m
      BY <1>1
    <3> HIDE DEF u, m
    <3> QED BY ONLY <3>1, <3>2
  <2>3. u \in Seq(Messages) /\ Len(u) = m /\ DOMAIN u = 1..m
    BY <1>1, <2>2
  <2> HIDE DEF u, m
  <2>4. \A i \in 1..m : u[i] = IF s[i].kind = e.kind THEN e ELSE s[i]
    BY <2>2
  <2>5. \A i \in 1..m : u[i].kind = s[i].kind
    BY <2>4
  <2>6. Distinct(u)
    BY <1>1, <2>3, <2>5 DEF Distinct
  <2>7. ToSet(u) = {u[i] : i \in 1..m}
    BY <2>3, ToSetRange
  <2>8. ToSet(u) = {e} \cup {o \in ToSet(s) : o.kind # e.kind}
    BY <1>1, <2>1, <2>4, <2>7
  <2> QED BY <2>3, <2>6, <2>8 DEF Slots, u
<1>3. CASE \A i \in DOMAIN s : s[i].kind # e.kind
  <2>1. u = Append(s, e)
    BY <1>3 DEF Replace
  <2>2. /\ u \in Seq(Messages) /\ DOMAIN u = 1..(m + 1) /\ u[m + 1] = e
        /\ \A i \in 1..m : u[i] = s[i]
    BY <1>1, <2>1, AppendProperties
  <2>3. ToSet(u) = ToSet(s) \cup {e}
    BY <1>1, <2>1, ToSetAppend
  <2> HIDE DEF u, m
  <2>4. Distinct(u)
    <3>1. \A i \in 1..(m + 1) : i \in 1..m \/ i = m + 1
      BY <1>1
    <3> QED BY <1>1, <1>3, <2>2, <3>1 DEF Distinct
  <2>5. ToSet(u) = {e} \cup {o \in ToSet(s) : o.kind # e.kind}
    BY <1>1, <1>3, <2>3
  <2> QED BY <2>2, <2>4, <2>5 DEF Slots, u
<1> QED BY <1>2, <1>3

-----------------------------------------------------------------------------
(* The inductive invariant.                                                *)

\* The number of connections is the one bound that no single client keeps.
Roomy == Cardinality(Registered) <= MaxClients

Typed ==
    /\ handler \in [Clients -> {"new", "refused", "open", "gone"}]
    /\ left \in [Clients -> BOOLEAN]
    /\ queue \in [Clients -> Seq(Messages)] /\ latest \in [Clients -> Slots]
    /\ wake \in [Clients -> BOOLEAN] /\ overflowed \in [Clients -> BOOLEAN]
    /\ sender \in [Clients -> {"waiting", "draining", "sending", "overflow", "failed"}]
    /\ wire \in [Clients -> Seq(Messages)] /\ sent \in [Clients -> Seq(Messages)]
    /\ published \in 0..MaxReliable /\ version \in [Conflated -> Nat]
    /\ \A c \in Clients : Len(queue[c]) <= MaxPending

\* A mailbox and a sender belong to an open connection, a message on the wire to a
\* send; an overflow leaves the queue full; and each kind has its place.
Tidy ==
    \A c \in Clients :
        /\ handler[c] # "open" => queue[c] = <<>> /\ latest[c] = <<>> /\ sender[c] = "waiting"
        /\ handler[c] \in {"new", "refused"} => sent[c] = <<>>
        /\ sender[c] # "sending" => wire[c] = <<>>
        /\ overflowed[c] => handler[c] = "open" /\ IsFull(c)
        /\ \A m \in ToSet(queue[c]) : m.kind \in ReliableKinds
        /\ \A m \in ToSet(latest[c]) : m.kind \in Conflated

\* What has been handed to the transport, and what will be next.
Done(c) == sent[c] \o wire[c]
Log(c) == sent[c] \o Upcoming(c, queue)

Complete ==
    \A c \in Clients :
        /\ handler[c] \in {"open", "gone"} => Log(c) \in GaplessLogs
        /\ handler[c] = "open" /\ ~overflowed[c] /\ sender[c] # "failed" => Log(c) \in LogsUpTo(published)

\* What waits in the slots is newer than what left them, nothing is newer than what
\* was published, and the newest snapshot is in one of the two.
Fresh ==
    \A c \in Clients :
        /\ Done(c) \in RisingLogs
        /\ Newer(ToSet(Done(c)), ToSet(latest[c]))
        /\ \A m \in ToSet(Done(c)) \cup ToSet(latest[c]) : m.kind \in Conflated => m.n <= version[m.kind]
        /\ handler[c] = "open" /\ sender[c] # "failed" /\ version["snapshot"] > 0 =>
              Message("snapshot", version["snapshot"]) \in ToSet(Done(c)) \cup ToSet(latest[c])

IInv == Typed /\ Roomy /\ Tidy /\ Complete /\ Fresh

-----------------------------------------------------------------------------
(* Types and bounds.                                                       *)

LEMMA InitIInv == Init => IInv
<1> SUFFICES ASSUME Init PROVE IInv
  OBVIOUS
<1>1. Typed
  BY HubAssumption, SlotFacts DEF HubAssumption, Init, Typed
<1>2. Roomy
  <2>1. Registered = {}
    BY DEF Init, Registered
  <2> QED BY <2>1, FS_EmptySet, HubAssumption DEF HubAssumption, Roomy
<1>3. Tidy
  BY ToSetEmpty DEF Init, Tidy
<1>4. Complete
  BY DEF Init, Complete
<1>5. Fresh
  <2> SUFFICES ASSUME NEW c \in Clients
               PROVE  /\ Done(c) = <<>> /\ latest[c] = <<>> /\ version["snapshot"] = 0
    BY ToSetEmpty, SlotFacts DEF Fresh, Newer
  <2>1. sent[c] = <<>> /\ wire[c] = <<>> /\ latest[c] = <<>> /\ version["snapshot"] = 0
    BY HubAssumption DEF Init, HubAssumption
  <2> QED BY <2>1 DEF Done
<1> QED BY <1>1, <1>2, <1>3, <1>4, <1>5 DEF IInv

LEMMA FirstMailFacts ==
    ASSUME Typed
    PROVE  /\ FirstMail \in Slots
           /\ ToSet(FirstMail) = IF version["snapshot"] > 0
                                 THEN {Message("snapshot", version["snapshot"])} ELSE {}
<1>1. version["snapshot"] \in Nat
  BY KindFacts DEF Typed
<1>2. Message("snapshot", version["snapshot"]) \in Messages
  BY <1>1, KindFacts
<1> QED BY <1>2, SlotFacts, ToSetEmpty, ToSetSingleton DEF FirstMail

LEMMA NextTyped == IInv /\ [Next]_vars => Typed'
<1> SUFFICES ASSUME IInv, [Next]_vars PROVE Typed'
  OBVIOUS
<1>0. Typed /\ Tidy /\ MaxPending \in Nat \ {0} /\ MaxReliable \in Nat
  BY HubAssumption DEF IInv, HubAssumption
<1>1. ASSUME NEW c \in Clients, Refuse(c) \/ Leave(c) \/ WakeUp(c) \/ GiveUp(c) \/ GoIdle(c) PROVE Typed'
  BY <1>0, <1>1 DEF Typed, Refuse, Leave, WakeUp, GiveUp, GoIdle
<1>2. ASSUME NEW c \in Clients, Connect(c) PROVE Typed'
  <2>1. <<Message("hello", published)>> \in Seq(Messages) /\ Len(<<Message("hello", published)>>) = 1
    <3>1. published \in Nat
      BY <1>0 DEF Typed
    <3>2. Message("hello", published) \in Messages
      BY <3>1, KindFacts DEF ReliableKinds
    <3> QED BY <3>2
  <2>2. FirstMail \in Slots
    BY <1>0, FirstMailFacts
  <2> QED BY <1>0, <1>2, <2>1, <2>2 DEF Typed, Connect
<1>3. ASSUME NEW c \in Clients, Unregister(c) PROVE Typed'
  BY <1>0, <1>3, SlotFacts DEF Typed, Unregister
<1>4. CASE Publish
  <2>1. Message("reliable", published + 1) \in Messages /\ published + 1 \in 0..MaxReliable
    <3>1. published + 1 \in Nat /\ published + 1 \in 0..MaxReliable
      BY <1>0, <1>4 DEF Typed, Publish
    <3> QED BY <3>1, KindFacts DEF ReliableKinds
  <2> DEFINE e == Message("reliable", published + 1)
             full(c) == c \in Registered /\ ~IsFull(c)
  <2>2. \A c \in Clients : queue'[c] = IF full(c) THEN Append(queue[c], e) ELSE queue[c]
    BY <1>4 DEF Publish
  <2>3. ASSUME NEW c \in Clients PROVE queue'[c] \in Seq(Messages) /\ Len(queue'[c]) <= MaxPending
    <3>1. queue[c] \in Seq(Messages) /\ Len(queue[c]) <= MaxPending /\ Len(queue[c]) \in Nat
      BY <1>0 DEF Typed
    <3>2. full(c) => Len(queue[c]) < MaxPending
      BY <1>0, <3>1 DEF IsFull
    <3>3. Append(queue[c], e) \in Seq(Messages) /\ Len(Append(queue[c], e)) = Len(queue[c]) + 1
      BY <2>1, <3>1, AppendProperties
    <3>4. queue'[c] = IF full(c) THEN Append(queue[c], e) ELSE queue[c]
      BY <2>2
    <3> HIDE DEF e, full
    <3>5. CASE full(c)
      <4>1. Len(queue'[c]) = Len(queue[c]) + 1 /\ Len(queue[c]) < MaxPending
        BY <3>2, <3>3, <3>4, <3>5
      <4> QED BY <1>0, <3>1, <3>3, <3>4, <3>5, <4>1
    <3>6. CASE ~full(c)
      BY <3>1, <3>4, <3>6
    <3> QED BY <3>5, <3>6
  <2>4. queue' \in [Clients -> Seq(Messages)]
    BY <1>4, <2>3 DEF Publish
  <2>5. /\ UNCHANGED <<handler, left, latest, sender, wire, sent, version>>
        /\ published' \in 0..MaxReliable
        /\ overflowed' \in [Clients -> BOOLEAN] /\ wake' \in [Clients -> BOOLEAN]
    BY <1>0, <1>4, <2>1 DEF Typed, Publish
  <2> QED BY <1>0, <2>3, <2>4, <2>5 DEF Typed
<1>5. ASSUME NEW kind \in Conflated, PublishLatest(kind) PROVE Typed'
  <2>1. version[kind] + 1 \in Nat /\ Message(kind, version[kind] + 1) \in Messages
    <3>1. version[kind] + 1 \in Nat
      BY <1>0 DEF Typed
    <3> QED BY <3>1, KindFacts
  <2>2. latest' \in [Clients -> Slots]
    BY <1>0, <1>5, <2>1, ReplaceFacts DEF Typed, PublishLatest
  <2>3. version' \in [Conflated -> Nat]
    BY <1>0, <1>5, <2>1 DEF Typed, PublishLatest
  <2>4. /\ UNCHANGED <<handler, left, queue, overflowed, sender, wire, sent, published>>
        /\ wake' \in [Clients -> BOOLEAN]
    BY <1>0, <1>5 DEF Typed, PublishLatest
  <2> QED BY <1>0, <2>2, <2>3, <2>4 DEF Typed
<1>6. ASSUME NEW c \in Clients, StartSend(c) PROVE Typed'
  <2>1. UNCHANGED <<handler, left, wake, overflowed, sent, published, version>>
    BY <1>6 DEF StartSend
  <2>2. sender' \in [Clients -> {"waiting", "draining", "sending", "overflow", "failed"}]
    BY <1>0, <1>6 DEF Typed, StartSend
  <2>3. CASE /\ queue[c] # <<>> /\ wire' = [wire EXCEPT ![c] = <<Head(queue[c])>>]
             /\ queue' = [queue EXCEPT ![c] = Tail(@)] /\ UNCHANGED latest
    <3>1. /\ Head(queue[c]) \in Messages /\ Tail(queue[c]) \in Seq(Messages)
          /\ Len(Tail(queue[c])) = Len(queue[c]) - 1 /\ Len(queue[c]) \in Nat
      BY <1>0, <2>3, HeadTailProperties DEF Typed
    <3>2. Len(Tail(queue[c])) <= MaxPending
      BY <1>0, <3>1 DEF Typed
    <3>3. wire' \in [Clients -> Seq(Messages)] /\ queue' \in [Clients -> Seq(Messages)]
      BY <1>0, <2>3, <3>1 DEF Typed
    <3>4. \A d \in Clients : Len(queue'[d]) <= MaxPending
      BY <1>0, <2>3, <3>2 DEF Typed
    <3> QED BY <1>0, <2>1, <2>2, <2>3, <3>3, <3>4 DEF Typed
  <2>4. CASE /\ latest[c] # <<>> /\ wire' = [wire EXCEPT ![c] = <<Head(latest[c])>>]
             /\ latest' = [latest EXCEPT ![c] = Tail(@)] /\ UNCHANGED queue
    <3>1. Head(latest[c]) \in Messages /\ Tail(latest[c]) \in Slots
      BY <1>0, <2>4, TakeSlot DEF Typed
    <3>2. wire' \in [Clients -> Seq(Messages)] /\ latest' \in [Clients -> Slots]
      BY <1>0, <2>4, <3>1 DEF Typed
    <3> QED BY <1>0, <2>1, <2>2, <2>4, <3>2 DEF Typed
  <2> QED BY <1>6, <2>3, <2>4 DEF StartSend
<1>7. ASSUME NEW c \in Clients, SendCompletes(c) \/ SendFails(c) PROVE Typed'
  <2>1. sent[c] \o wire[c] \in Seq(Messages)
    BY <1>0, ConcatProperties DEF Typed
  <2>2. sent' \in [Clients -> Seq(Messages)]
    BY <1>0, <1>7, <2>1 DEF Typed, SendCompletes, SendFails
  <2>3. /\ UNCHANGED <<handler, left, queue, latest, wake, overflowed, published, version>>
        /\ wire' = [wire EXCEPT ![c] = <<>>]
        /\ \E ph \in {"draining", "failed"} : sender' = [sender EXCEPT ![c] = ph]
    BY <1>7 DEF SendCompletes, SendFails
  <2>4. /\ wire' \in [Clients -> Seq(Messages)]
        /\ sender' \in [Clients -> {"waiting", "draining", "sending", "overflow", "failed"}]
    BY <1>0, <2>3 DEF Typed
  <2> QED BY <1>0, <2>2, <2>3, <2>4 DEF Typed
<1>8. CASE UNCHANGED vars
  BY <1>0, <1>8 DEF Typed, vars
<1> QED BY <1>1, <1>2, <1>3, <1>4, <1>5, <1>6, <1>7, <1>8 DEF Next, SenderStep

LEMMA NextRoomy == IInv /\ [Next]_vars => Roomy'
<1> SUFFICES ASSUME IInv, [Next]_vars PROVE Roomy'
  OBVIOUS
<1>0. /\ handler \in [Clients -> {"new", "refused", "open", "gone"}] /\ MaxClients \in Nat
      /\ Cardinality(Registered) <= MaxClients
      /\ IsFiniteSet(Registered) /\ Cardinality(Registered) \in Nat
  <2>1. IsFiniteSet(Clients) /\ Registered \subseteq Clients
    BY HubAssumption DEF HubAssumption, Registered
  <2>2. IsFiniteSet(Registered)
    BY <2>1, FS_Subset
  <2>3. Cardinality(Registered) \in Nat
    BY <2>2, FS_CardinalityType
  <2> QED BY <2>2, <2>3, HubAssumption DEF HubAssumption, IInv, Typed, Roomy
<1>1. ASSUME Registered' \subseteq Registered PROVE Roomy'
  <2>1. Cardinality(Registered') <= Cardinality(Registered) /\ Cardinality(Registered') \in Nat
    <3>1. IsFiniteSet(Registered') /\ Cardinality(Registered') <= Cardinality(Registered)
      BY <1>0, <1>1, FS_Subset
    <3> QED BY <3>1, FS_CardinalityType
  <2> QED BY <1>0, <2>1 DEF Roomy
<1>2. ASSUME NEW c \in Clients, Connect(c) PROVE Roomy'
  <2>1. Registered' = Registered \cup {c} /\ c \notin Registered
    BY <1>0, <1>2 DEF Connect, Registered
  <2>2. Cardinality(Registered') = Cardinality(Registered) + 1
    BY <1>0, <2>1, FS_AddElement
  <2> QED BY <1>0, <1>2, <2>2 DEF Connect, AtCapacity, Roomy
<1>3. ASSUME NEW c \in Clients, Refuse(c) \/ Unregister(c) PROVE Roomy'
  <2>1. Registered' \subseteq Registered
    BY <1>0, <1>3 DEF Refuse, Unregister, Registered
  <2> QED BY <1>1, <2>1
<1>4. ASSUME UNCHANGED handler PROVE Roomy'
  <2>1. Registered' \subseteq Registered
    BY <1>4 DEF Registered
  <2> QED BY <1>1, <2>1
<1>5. ASSUME NEW c \in Clients, Leave(c) \/ SenderStep(c) PROVE UNCHANGED handler
  BY <1>5 DEF Leave, SenderStep, WakeUp, GiveUp, StartSend, GoIdle, SendCompletes, SendFails
<1>6. CASE Publish \/ (\E kind \in Conflated : PublishLatest(kind)) \/ UNCHANGED vars
  BY <1>4, <1>6 DEF Publish, PublishLatest, vars
<1> QED BY <1>2, <1>3, <1>4, <1>5, <1>6 DEF Next

-----------------------------------------------------------------------------
(* A step of one client is no step of another.                             *)

ClientStep(c) == Refuse(c) \/ Connect(c) \/ Leave(c) \/ Unregister(c) \/ SenderStep(c)

LEMMA OthersStill ==
    ASSUME Typed, NEW d \in Clients, ClientStep(d)
    PROVE  /\ published' = published /\ version' = version
           /\ \A c \in Clients \ {d} :
                 /\ handler'[c] = handler[c] /\ queue'[c] = queue[c] /\ latest'[c] = latest[c]
                 /\ overflowed'[c] = overflowed[c] /\ sender'[c] = sender[c]
                 /\ wire'[c] = wire[c] /\ sent'[c] = sent[c]
<1>1. CASE Refuse(d) \/ Connect(d) \/ Leave(d) \/ Unregister(d)
  BY <1>1 DEF Typed, Refuse, Connect, Leave, Unregister
<1>2. CASE WakeUp(d) \/ GiveUp(d) \/ GoIdle(d)
  BY <1>2 DEF Typed, WakeUp, GiveUp, GoIdle
<1>3. CASE StartSend(d)
  BY <1>3 DEF Typed, StartSend
<1>4. CASE SendCompletes(d) \/ SendFails(d)
  BY <1>4 DEF Typed, SendCompletes, SendFails
<1> QED BY <1>1, <1>2, <1>3, <1>4 DEF ClientStep, SenderStep

\* What a send does to its own client.
LEMMA StartFacts ==
    ASSUME Typed, Tidy, NEW c \in Clients, StartSend(c)
    PROVE  /\ sender[c] = "draining" /\ sender'[c] = "sending" /\ wire[c] = <<>>
           /\ handler[c] = "open" /\ ~overflowed[c]
           /\ UNCHANGED <<handler, overflowed, sent>>
           /\ \/ /\ queue[c] # <<>> /\ wire'[c] = <<Head(queue[c])>> /\ queue'[c] = Tail(queue[c])
                 /\ latest'[c] = latest[c]
              \/ /\ queue[c] = <<>> /\ latest[c] # <<>> /\ wire'[c] = <<Head(latest[c])>>
                 /\ latest'[c] = Tail(latest[c]) /\ queue'[c] = queue[c]
<1>1. /\ sender[c] = "draining" /\ sender'[c] = "sending" /\ ~overflowed[c]
      /\ UNCHANGED <<handler, overflowed, sent>>
  BY DEF Typed, StartSend, NoticesOverflow
<1>2. handler[c] = "open" /\ wire[c] = <<>>
  BY <1>1 DEF Tidy
<1>3. \/ /\ queue[c] # <<>> /\ wire'[c] = <<Head(queue[c])>> /\ queue'[c] = Tail(queue[c])
         /\ latest'[c] = latest[c]
      \/ /\ queue[c] = <<>> /\ latest[c] # <<>> /\ wire'[c] = <<Head(latest[c])>>
         /\ latest'[c] = Tail(latest[c]) /\ queue'[c] = queue[c]
  BY DEF Typed, StartSend
<1> QED BY <1>1, <1>2, <1>3

LEMMA EndFacts ==
    ASSUME Typed, Tidy, NEW c \in Clients, SendCompletes(c) \/ SendFails(c)
    PROVE  /\ handler[c] = "open" /\ sender[c] = "sending" /\ wire'[c] = <<>>
           /\ UNCHANGED <<handler, overflowed, queue, latest>>
           /\ \/ sender'[c] = "draining" /\ sent'[c] = sent[c] \o wire[c]
              \/ sender'[c] = "failed" /\ sent'[c] \in {sent[c], sent[c] \o wire[c]}
<1>1. CASE SendCompletes(c)
  BY <1>1 DEF Typed, Tidy, SendCompletes
<1>2. CASE SendFails(c)
  BY <1>2 DEF Typed, Tidy, SendFails
<1> QED BY <1>1, <1>2

\* The rest of the sender's steps, and what does not touch a mailbox.
LEMMA QuietFacts ==
    ASSUME Typed, Tidy, NEW c \in Clients,
           Refuse(c) \/ Leave(c) \/ WakeUp(c) \/ GiveUp(c) \/ GoIdle(c)
    PROVE  /\ UNCHANGED <<overflowed, queue, latest, wire, sent>>
           /\ (handler'[c] = "open") <=> (handler[c] = "open")
           /\ handler'[c] = "gone" <=> handler[c] = "gone"
           /\ sender[c] \notin {"sending", "failed"} => sender'[c] \notin {"sending", "failed"}
           /\ handler[c] # "open" => sender'[c] = sender[c]
           /\ sender[c] \in {"sending", "failed"} => sender'[c] = sender[c]
<1>1. CASE Refuse(c) \/ Leave(c)
  BY <1>1 DEF Typed, Refuse, Leave
<1>2. CASE WakeUp(c) \/ GiveUp(c) \/ GoIdle(c)
  BY <1>2 DEF Typed, Tidy, WakeUp, GiveUp, GoIdle
<1> QED BY <1>1, <1>2

LEMMA ConnectFacts ==
    ASSUME Typed, Tidy, NEW c \in Clients, Connect(c)
    PROVE  /\ handler'[c] = "open" /\ queue'[c] = <<Message("hello", published)>> /\ latest'[c] = FirstMail
           /\ sender'[c] = "waiting" /\ wire'[c] = <<>> /\ sent'[c] = <<>>
           /\ wire[c] = <<>> /\ sent[c] = <<>>
           /\ ~overflowed[c] /\ ~overflowed'[c] /\ published' = published /\ version' = version
BY DEF Typed, Tidy, Connect

LEMMA UnregisterFacts ==
    ASSUME Typed, Tidy, NEW c \in Clients, Unregister(c)
    PROVE  /\ handler[c] = "open" /\ handler'[c] = "gone" /\ queue'[c] = <<>> /\ latest'[c] = <<>>
           /\ sender'[c] = "waiting" /\ wire'[c] = <<>> /\ sent'[c] = sent[c]
           /\ ~overflowed'[c] /\ published' = published /\ version' = version
BY DEF Typed, Tidy, Unregister

LEMMA PublishFacts ==
    ASSUME Typed, Publish, NEW c \in Clients
    PROVE  /\ UNCHANGED <<handler, latest, sender, wire, sent, version>>
           /\ published' = published + 1 /\ published \in Nat
           /\ \/ /\ handler[c] = "open" /\ ~IsFull(c) /\ overflowed'[c] = overflowed[c]
                 /\ queue'[c] = Append(queue[c], Message("reliable", published + 1))
              \/ handler[c] = "open" /\ IsFull(c) /\ overflowed'[c] /\ queue'[c] = queue[c]
              \/ handler[c] # "open" /\ overflowed'[c] = overflowed[c] /\ queue'[c] = queue[c]
<1>1. /\ UNCHANGED <<handler, latest, sender, wire, sent, version>>
      /\ published' = published + 1 /\ published \in Nat
  BY DEF Typed, Publish
<1>2. /\ queue'[c] = IF c \in Registered /\ ~IsFull(c)
                     THEN Append(queue[c], Message("reliable", published + 1)) ELSE queue[c]
      /\ overflowed'[c] = (overflowed[c] \/ (c \in Registered /\ IsFull(c)))
      /\ c \in Registered <=> handler[c] = "open"
  BY DEF Publish, Registered
<1>3. overflowed[c] \in BOOLEAN
  BY DEF Typed
<1>4. ~(c \in Registered /\ IsFull(c)) => overflowed'[c] = overflowed[c]
  BY <1>2, <1>3, Zenon
<1>5. c \in Registered /\ IsFull(c) => overflowed'[c]
  BY <1>2, Zenon
<1>6. /\ c \in Registered /\ ~IsFull(c) => queue'[c] = Append(queue[c], Message("reliable", published + 1))
      /\ ~(c \in Registered /\ ~IsFull(c)) => queue'[c] = queue[c]
  BY <1>2, Zenon
<1>7. CASE c \in Registered /\ ~IsFull(c)
  BY <1>1, <1>2, <1>4, <1>6, <1>7, Zenon
<1>8. CASE c \in Registered /\ IsFull(c)
  BY <1>1, <1>2, <1>5, <1>6, <1>8, Zenon
<1>9. CASE c \notin Registered
  BY <1>1, <1>2, <1>4, <1>6, <1>9, Zenon
<1> QED BY <1>7, <1>8, <1>9

LEMMA PublishLatestFacts ==
    ASSUME Typed, NEW kind \in Conflated, PublishLatest(kind), NEW c \in Clients
    PROVE  LET e == Message(kind, version[kind] + 1)
           IN  /\ UNCHANGED <<handler, queue, overflowed, sender, wire, sent, published>>
               /\ version' = [version EXCEPT ![kind] = @ + 1]
               /\ version \in [Conflated -> Nat] /\ e \in Messages
               /\ latest'[c] = IF handler[c] = "open" THEN Replace(latest[c], e) ELSE latest[c]
<1>1. /\ version \in [Conflated -> Nat] /\ version[kind] + 1 \in Nat
  BY DEF Typed
<1>2. Message(kind, version[kind] + 1) \in Messages
  BY <1>1, KindFacts
<1> QED BY <1>1, <1>2 DEF Registered, PublishLatest

LEMMA NextTidy == IInv /\ [Next]_vars => Tidy'
<1> SUFFICES ASSUME IInv, [Next]_vars, NEW c \in Clients
             PROVE  /\ handler'[c] # "open" => queue'[c] = <<>> /\ latest'[c] = <<>> /\ sender'[c] = "waiting"
                    /\ handler'[c] \in {"new", "refused"} => sent'[c] = <<>>
                    /\ sender'[c] # "sending" => wire'[c] = <<>>
                    /\ overflowed'[c] => handler'[c] = "open" /\ Len(queue'[c]) >= MaxPending
                    /\ \A m \in ToSet(queue'[c]) : m.kind \in ReliableKinds
                    /\ \A m \in ToSet(latest'[c]) : m.kind \in Conflated
  BY DEF Tidy, IsFull, ToSet
<1> DEFINE Good == /\ handler'[c] # "open" => queue'[c] = <<>> /\ latest'[c] = <<>> /\ sender'[c] = "waiting"
                   /\ handler'[c] \in {"new", "refused"} => sent'[c] = <<>>
                   /\ sender'[c] # "sending" => wire'[c] = <<>>
                   /\ overflowed'[c] => handler'[c] = "open" /\ Len(queue'[c]) >= MaxPending
                   /\ \A m \in ToSet(queue'[c]) : m.kind \in ReliableKinds
                   /\ \A m \in ToSet(latest'[c]) : m.kind \in Conflated
<1>0. Typed /\ Tidy /\ queue[c] \in Seq(Messages) /\ latest[c] \in Slots
  BY DEF IInv, Typed
<1>a. /\ handler[c] # "open" => queue[c] = <<>> /\ latest[c] = <<>> /\ sender[c] = "waiting"
      /\ handler[c] \in {"new", "refused"} => sent[c] = <<>>
      /\ sender[c] # "sending" => wire[c] = <<>>
      /\ overflowed[c] => handler[c] = "open" /\ Len(queue[c]) >= MaxPending
      /\ \A m \in ToSet(queue[c]) : m.kind \in ReliableKinds
      /\ \A m \in ToSet(latest[c]) : m.kind \in Conflated
  BY <1>0 DEF Tidy, IsFull
<1>1. ASSUME NEW d \in Clients, ClientStep(d), d # c PROVE Good
  <2>1. /\ handler'[c] = handler[c] /\ queue'[c] = queue[c] /\ latest'[c] = latest[c]
        /\ overflowed'[c] = overflowed[c] /\ sender'[c] = sender[c]
        /\ wire'[c] = wire[c] /\ sent'[c] = sent[c]
    BY <1>0, <1>1, OthersStill
  <2> QED BY <1>a, <2>1
<1>2. CASE Refuse(c) \/ Leave(c)
  BY <1>0, <1>a, <1>2 DEF Typed, Refuse, Leave
<1>3. CASE WakeUp(c) \/ GiveUp(c) \/ GoIdle(c)
  BY <1>0, <1>a, <1>3 DEF Typed, WakeUp, GiveUp, GoIdle
<1>4. CASE Connect(c)
  <2>1. /\ handler'[c] = "open" /\ queue'[c] = <<Message("hello", published)>> /\ latest'[c] = FirstMail
        /\ wire'[c] = <<>> /\ ~overflowed'[c]
    BY <1>0, <1>4, ConnectFacts
  <2>2. \A m \in ToSet(queue'[c]) : m.kind \in ReliableKinds
    BY <2>1, ToSetSingleton, KindFacts DEF ReliableKinds
  <2>3. \A m \in ToSet(latest'[c]) : m.kind \in Conflated
    BY <1>0, <2>1, FirstMailFacts, KindFacts
  <2> QED BY <2>1, <2>2, <2>3
<1>5. CASE Unregister(c)
  BY <1>0, <1>5, UnregisterFacts, ToSetEmpty
<1>6. CASE StartSend(c)
  <2>1. /\ handler'[c] = "open" /\ sender'[c] = "sending" /\ ~overflowed'[c]
        /\ \/ queue[c] # <<>> /\ queue'[c] = Tail(queue[c]) /\ latest'[c] = latest[c]
           \/ latest[c] # <<>> /\ latest'[c] = Tail(latest[c]) /\ queue'[c] = queue[c]
    BY <1>0, <1>6, StartFacts
  <2>2. queue[c] # <<>> => ToSet(Tail(queue[c])) \subseteq ToSet(queue[c])
    BY <1>0, ToSetHeadTail
  <2>3. latest[c] # <<>> => ToSet(Tail(latest[c])) \subseteq ToSet(latest[c])
    BY <1>0, TakeSlot
  <2>4. \A m \in ToSet(queue'[c]) : m.kind \in ReliableKinds
    BY <1>a, <2>1, <2>2
  <2>5. \A m \in ToSet(latest'[c]) : m.kind \in Conflated
    BY <1>a, <2>1, <2>3
  <2> QED BY <2>1, <2>4, <2>5
<1>7. CASE SendCompletes(c) \/ SendFails(c)
  <2>1. /\ handler[c] = "open" /\ wire'[c] = <<>>
        /\ UNCHANGED <<handler, overflowed, queue, latest>>
    BY <1>0, <1>7, EndFacts
  <2> QED BY <1>a, <2>1
<1>8. CASE Publish
  <2>0. /\ UNCHANGED <<handler, latest, sender, wire, sent>>
        /\ \/ /\ handler[c] = "open" /\ ~IsFull(c) /\ overflowed'[c] = overflowed[c]
              /\ queue'[c] = Append(queue[c], Message("reliable", published + 1))
           \/ handler[c] = "open" /\ IsFull(c) /\ overflowed'[c] /\ queue'[c] = queue[c]
           \/ handler[c] # "open" /\ overflowed'[c] = overflowed[c] /\ queue'[c] = queue[c]
    BY <1>0, <1>8, PublishFacts
  <2>1. CASE handler[c] = "open" /\ ~IsFull(c) /\ overflowed'[c] = overflowed[c]
             /\ queue'[c] = Append(queue[c], Message("reliable", published + 1))
    <3>1. ~overflowed'[c]
      BY <1>a, <2>1 DEF IsFull
    <3>2. Message("reliable", published + 1) \in Messages /\ Message("reliable", published + 1).kind \in ReliableKinds
      <4>1. published + 1 \in Nat
        BY <1>0 DEF Typed
      <4> QED BY <4>1, KindFacts DEF ReliableKinds
    <3>3. \A m \in ToSet(queue'[c]) : m.kind \in ReliableKinds
      BY <1>0, <1>a, <2>1, <3>2, ToSetAppend
    <3> QED BY <1>a, <2>0, <2>1, <3>1, <3>3
  <2>2. CASE handler[c] = "open" /\ IsFull(c) /\ overflowed'[c] /\ queue'[c] = queue[c]
    BY <1>a, <2>0, <2>2 DEF IsFull
  <2>3. CASE handler[c] # "open" /\ overflowed'[c] = overflowed[c] /\ queue'[c] = queue[c]
    BY <1>a, <2>0, <2>3
  <2> QED BY <2>0, <2>1, <2>2, <2>3
<1>9. ASSUME NEW kind \in Conflated, PublishLatest(kind) PROVE Good
  <2> DEFINE e == Message(kind, version[kind] + 1)
  <2>1. /\ UNCHANGED <<handler, queue, overflowed, sender, wire, sent>> /\ e \in Messages
        /\ latest'[c] = IF handler[c] = "open" THEN Replace(latest[c], e) ELSE latest[c]
    BY <1>0, <1>9, PublishLatestFacts
  <2>2. e.kind \in Conflated
    BY KindFacts
  <2> HIDE DEF e
  <2>3. \A m \in ToSet(latest'[c]) : m.kind \in Conflated
    BY <1>0, <1>a, <2>1, <2>2, ReplaceFacts
  <2>4. handler[c] # "open" => latest'[c] = latest[c]
    BY <2>1
  <2> QED BY <1>a, <2>1, <2>3, <2>4
<1>10. CASE UNCHANGED vars
  BY <1>a, <1>10 DEF vars
<1> QED BY <1>1, <1>2, <1>3, <1>4, <1>5, <1>6, <1>7, <1>8, <1>9, <1>10 DEF Next, ClientStep, SenderStep

-----------------------------------------------------------------------------
(* No gap.                                                                 *)

LEMMA Regroup ==
    \A s, t, u \in Seq(Messages) : (s \o t) \o u = s \o (t \o u)
BY ConcatAssociative

\* A message appended to the last of three is appended to the whole.
LEMMA AppendToLog ==
    ASSUME NEW s \in Seq(Messages), NEW t \in Seq(Messages), NEW u \in Seq(Messages), NEW e \in Messages
    PROVE  s \o (t \o Append(u, e)) = Append(s \o (t \o u), e)
<1> DEFINE v == <<e>>
           tu == t \o u
           stu == s \o tu
<1>1. v \in Seq(Messages) /\ Append(u, e) = u \o v
  BY AppendIsConcat
<1>2. tu \in Seq(Messages)
  BY ConcatProperties
<1> HIDE DEF v
<1>3. tu \o v = t \o (u \o v)
  <2>1. v \in Seq(Messages)
    BY <1>1
  <2>2. \A b, c \in Seq(Messages) : (t \o b) \o c = t \o (b \o c)
    BY ONLY t \in Seq(Messages), Regroup
  <2>3. (t \o u) \o v = t \o (u \o v)
    BY ONLY <2>1, <2>2, u \in Seq(Messages)
  <2> QED BY ONLY <2>3 DEF tu
<1> HIDE DEF tu
<1>4. stu \in Seq(Messages)
  BY <1>2, ConcatProperties
<1>5. stu \o v = s \o (tu \o v)
  <2>1. v \in Seq(Messages)
    BY <1>1
  <2>2. (s \o tu) \o v = s \o (tu \o v)
    <3>1. \A b, c \in Seq(Messages) : (s \o b) \o c = s \o (b \o c)
      BY ONLY s \in Seq(Messages), Regroup
    <3> HIDE DEF stu
    <3> QED BY ONLY <1>2, <2>1, <3>1
  <2> QED BY ONLY <2>2 DEF stu
<1> HIDE DEF stu
<1>6. stu \o v = Append(stu, e)
  BY <1>4, AppendIsConcat DEF v
<1>7. s \o (t \o Append(u, e)) = Append(stu, e)
  BY ONLY <1>1, <1>3, <1>5, <1>6
<1> QED BY <1>7 DEF stu, tu

LogOf(ph, s, w, q) == s \o (IF ph = "failed" THEN <<>> ELSE w \o q)

LEMMA NextComplete == IInv /\ [Next]_vars => Complete'
<1> SUFFICES ASSUME IInv, [Next]_vars, NEW c \in Clients
             PROVE  LET next == LogOf(sender'[c], sent'[c], wire'[c], queue'[c])
                    IN  /\ handler'[c] \in {"open", "gone"} => next \in GaplessLogs
                        /\ handler'[c] = "open" /\ ~overflowed'[c] /\ sender'[c] # "failed" =>
                              next \in LogsUpTo(published')
  BY DEF Complete, Log, Upcoming, LogOf
<1> DEFINE log == LogOf(sender[c], sent[c], wire[c], queue[c])
           next == LogOf(sender'[c], sent'[c], wire'[c], queue'[c])
           Good == /\ handler'[c] \in {"open", "gone"} => next \in GaplessLogs
                   /\ handler'[c] = "open" /\ ~overflowed'[c] /\ sender'[c] # "failed" =>
                         next \in LogsUpTo(published')
<1>0. /\ Typed /\ Tidy /\ sent[c] \in Seq(Messages) /\ wire[c] \in Seq(Messages) /\ queue[c] \in Seq(Messages)
      /\ sent[c] \o wire[c] \in Seq(Messages) /\ published \in Nat /\ <<>> \in Seq(Messages)
      /\ latest[c] \in Slots
  BY ConcatProperties DEF IInv, Typed
<1>a. /\ handler[c] \in {"open", "gone"} => log \in GaplessLogs
      /\ handler[c] = "open" /\ ~overflowed[c] /\ sender[c] # "failed" => log \in LogsUpTo(published)
  BY DEF IInv, Complete, Log, Upcoming, LogOf
<1>b. \A s \in Seq(Messages) : s \o <<>> = s /\ <<>> \o s = s
  BY ConcatEmptySeq
\* The log is as it was, and the client no more in touch with the server.
<1>1. ASSUME next = log, published' = published, handler'[c] \in {"open", "gone"} => handler[c] \in {"open", "gone"},
             handler'[c] = "open" /\ ~overflowed'[c] /\ sender'[c] # "failed" =>
                handler[c] = "open" /\ ~overflowed[c] /\ sender[c] # "failed"
      PROVE  Good
  BY <1>1, <1>a
<1>2. ASSUME NEW d \in Clients, ClientStep(d), d # c PROVE Good
  <2>1. /\ handler'[c] = handler[c] /\ queue'[c] = queue[c]
        /\ overflowed'[c] = overflowed[c] /\ sender'[c] = sender[c]
        /\ wire'[c] = wire[c] /\ sent'[c] = sent[c] /\ published' = published
    BY <1>0, <1>2, OthersStill
  <2> QED BY <1>1, <2>1
<1>3. CASE Refuse(c) \/ Leave(c) \/ WakeUp(c) \/ GiveUp(c) \/ GoIdle(c)
  <2>1. /\ UNCHANGED <<overflowed, queue, wire, sent>>
        /\ (handler'[c] = "open") <=> (handler[c] = "open")
        /\ (handler'[c] = "gone") <=> (handler[c] = "gone")
        /\ (sender'[c] = "failed") <=> (sender[c] = "failed")
    BY <1>0, <1>3, QuietFacts
  <2>2. published' = published
    BY <1>3 DEF Refuse, Leave, WakeUp, GiveUp, GoIdle
  <2>3. next = log
    BY <2>1 DEF LogOf
  <2> QED BY <1>1, <2>1, <2>2, <2>3
<1>4. CASE Connect(c)
  <2>1. /\ next = <<>> \o (<<>> \o <<Message("hello", published)>>) /\ published' = published
    BY <1>0, <1>4, ConnectFacts DEF LogOf
  <2>2. <<Message("hello", published)>> \in Seq(Messages)
    BY <1>0, KindFacts DEF ReliableKinds
  <2>3. next = <<Message("hello", published)>>
    BY <1>b, <2>1, <2>2
  <2> QED BY <1>0, <2>1, <2>3, FirstHello
<1>5. CASE Unregister(c)
  <2>1. handler[c] = "open" /\ handler'[c] = "gone" /\ next = sent[c]
    <3>1. next = sent[c] \o (<<>> \o <<>>)
      BY <1>0, <1>5, UnregisterFacts DEF LogOf
    <3> QED BY <1>0, <1>5, <1>b, <3>1, UnregisterFacts
  <2>2. sent[c] \in GaplessLogs
    <3> DEFINE more == IF sender[c] = "failed" THEN <<>> ELSE wire[c] \o queue[c]
    <3>1. more \in Seq(Messages)
      BY <1>0, ConcatProperties
    <3>2. sent[c] \o more \in GaplessLogs
      BY <1>a, <2>1 DEF LogOf
    <3> HIDE DEF more
    <3> QED BY <1>0, <3>1, <3>2, GaplessPrefix
  <2> QED BY <2>1, <2>2
<1>6. CASE StartSend(c)
  <2>1. /\ sender[c] = "draining" /\ sender'[c] = "sending" /\ wire[c] = <<>>
        /\ handler[c] = "open" /\ ~overflowed[c] /\ sent'[c] = sent[c]
        /\ \/ queue[c] # <<>> /\ wire'[c] = <<Head(queue[c])>> /\ queue'[c] = Tail(queue[c])
           \/ /\ queue[c] = <<>> /\ latest[c] # <<>> /\ wire'[c] = <<Head(latest[c])>>
              /\ queue'[c] = queue[c]
    BY <1>0, <1>6, StartFacts
  <2>2. published' = published
    BY <1>6 DEF StartSend
  <2>3. log = sent[c] \o (<<>> \o queue[c]) /\ next = sent[c] \o (wire'[c] \o queue'[c])
    BY <2>1 DEF LogOf
  <2>4. log = sent[c] \o queue[c] /\ log \in GaplessLogs /\ log \in LogsUpTo(published)
    BY <1>0, <1>a, <1>b, <2>1, <2>3
  <2>5. CASE queue[c] # <<>> /\ wire'[c] = <<Head(queue[c])>> /\ queue'[c] = Tail(queue[c])
    <3>1. <<Head(queue[c])>> \o Tail(queue[c]) = queue[c]
      BY <1>0, <2>5
    <3>2. next = log
      BY <2>3, <2>4, <2>5, <3>1
    <3> QED BY <2>2, <2>4, <3>2
  <2>6. CASE queue[c] = <<>> /\ latest[c] # <<>> /\ wire'[c] = <<Head(latest[c])>> /\ queue'[c] = queue[c]
    <3> DEFINE e == Head(latest[c])
    <3>1. e \in Messages /\ e \in ToSet(latest[c])
      BY <1>0, <2>6, TakeSlot
    <3>2. e.kind \in Conflated
      BY <1>0, <3>1 DEF Tidy
    <3>3. wire'[c] = <<e>> /\ queue'[c] = <<>> /\ queue[c] = <<>>
      BY <2>6
    <3> HIDE DEF e
    <3>4. log = sent[c] /\ next = Append(sent[c], e)
      <4>1. <<e>> \in Seq(Messages)
        BY <3>1
      <4>2. next = sent[c] \o <<e>>
        BY <1>b, <2>3, <3>3, <4>1
      <4>3. log = sent[c]
        BY <1>0, <1>b, <2>4, <3>3
      <4> QED BY <1>0, <3>1, <4>2, <4>3, AppendIsConcat
    <3>5. next \in GaplessLogs /\ next \in LogsUpTo(published)
      BY <1>0, <2>4, <3>1, <3>2, <3>4, AppendOther
    <3> QED BY <2>2, <3>5
  <2> QED BY <2>1, <2>5, <2>6
<1>7. CASE SendCompletes(c) \/ SendFails(c)
  <2>1. /\ handler[c] = "open" /\ sender[c] = "sending" /\ wire'[c] = <<>>
        /\ UNCHANGED <<handler, overflowed, queue>>
        /\ \/ sender'[c] = "draining" /\ sent'[c] = sent[c] \o wire[c]
           \/ sender'[c] = "failed" /\ sent'[c] \in {sent[c], sent[c] \o wire[c]}
    BY <1>0, <1>7, EndFacts
  <2>2. published' = published
    BY <1>7 DEF SendCompletes, SendFails
  <2>3. log = sent[c] \o (wire[c] \o queue[c]) /\ log \in GaplessLogs
    BY <1>a, <2>1 DEF LogOf
  <2>4. log = (sent[c] \o wire[c]) \o queue[c]
    <3>1. (sent[c] \o wire[c]) \o queue[c] = sent[c] \o (wire[c] \o queue[c])
      <4> DEFINE a == sent[c]
                 w == wire[c]
                 q == queue[c]
      <4>1. a \in Seq(Messages) /\ w \in Seq(Messages) /\ q \in Seq(Messages)
        BY <1>0
      <4> HIDE DEF a, w, q
      <4>2. (a \o w) \o q = a \o (w \o q)
        BY ONLY <4>1, Regroup
      <4> QED BY <4>2 DEF a, w, q
    <3> QED BY <2>3, <3>1
  <2>5. CASE sender'[c] = "draining" /\ sent'[c] = sent[c] \o wire[c]
    <3>1. next = (sent[c] \o wire[c]) \o (<<>> \o queue[c])
      BY <2>1, <2>5 DEF LogOf
    <3>2. next = log
      BY <1>0, <1>b, <2>4, <3>1
    <3> QED BY <1>1, <2>1, <2>2, <2>5, <3>2
  <2>6. CASE sender'[c] = "failed" /\ sent'[c] \in {sent[c], sent[c] \o wire[c]}
    <3>1. next = sent'[c]
      <4>1. next = sent'[c] \o <<>>
        BY <2>6 DEF LogOf
      <4> QED BY <1>0, <1>b, <2>6, <4>1
    <3>2. sent[c] \o wire[c] \in GaplessLogs
      BY <1>0, <2>3, <2>4, GaplessPrefix
    <3>3. sent[c] \in GaplessLogs
      BY <1>0, <3>2, GaplessPrefix
    <3> QED BY <2>6, <3>1, <3>2, <3>3
  <2> QED BY <2>1, <2>5, <2>6
<1>8. CASE Publish
  <2>1. UNCHANGED <<handler, sender, wire, sent>> /\ published' = published + 1
    BY <1>0, <1>8, PublishFacts
  <2>2. CASE handler[c] = "open" /\ ~IsFull(c) /\ overflowed'[c] = overflowed[c]
             /\ queue'[c] = Append(queue[c], Message("reliable", published + 1))
    <3> DEFINE e == Message("reliable", published + 1)
    <3>1. ~overflowed[c]
      BY <1>0, <2>2 DEF Tidy
    <3>2. e \in Messages
      <4>1. published + 1 \in Nat
        BY <1>0
      <4> QED BY <4>1, KindFacts DEF ReliableKinds
    <3>3. CASE sender[c] = "failed"
      <4>1. next = log
        BY <2>1, <3>3 DEF LogOf
      <4> QED BY <1>a, <2>1, <2>2, <3>3, <4>1
    <3>4. CASE sender[c] # "failed"
      <4>1. log = sent[c] \o (wire[c] \o queue[c]) /\ next = sent[c] \o (wire[c] \o Append(queue[c], e))
        BY <2>1, <2>2, <3>4 DEF LogOf
      <4>2. log \in GaplessLogs /\ log \in LogsUpTo(published)
        BY <1>a, <2>2, <3>1, <3>4
      <4> HIDE DEF e
      <4>6. next = Append(log, e)
        <5> DEFINE a == sent[c]
                   w == wire[c]
                   q == queue[c]
        <5>1. a \in Seq(Messages) /\ w \in Seq(Messages) /\ q \in Seq(Messages)
          BY <1>0
        <5>2. log = a \o (w \o q) /\ next = a \o (w \o Append(q, e))
          BY <4>1
        <5> HIDE DEF a, w, q, log, next
        <5>3. a \o (w \o Append(q, e)) = Append(a \o (w \o q), e)
          BY ONLY <3>2, <5>1, AppendToLog
        <5> QED BY <5>2, <5>3
      <4>7. next \in GaplessLogs /\ next \in LogsUpTo(published + 1)
        BY <1>0, <4>2, <4>6, AppendNext DEF e
      <4> QED BY <2>1, <4>7
    <3> QED BY <3>3, <3>4
  <2>3. CASE queue'[c] = queue[c] /\ (handler[c] # "open" \/ overflowed'[c])
    <3>1. next = log
      BY <2>1, <2>3 DEF LogOf
    <3> QED BY <1>a, <2>1, <2>3, <3>1
  <2> QED BY <1>0, <1>8, <2>2, <2>3, PublishFacts
<1>9. ASSUME NEW kind \in Conflated, PublishLatest(kind) PROVE Good
  <2>1. UNCHANGED <<handler, queue, overflowed, sender, wire, sent, published>>
    BY <1>0, <1>9, PublishLatestFacts
  <2> QED BY <1>1, <2>1
<1>10. CASE UNCHANGED vars
  <2>1. UNCHANGED <<handler, queue, overflowed, sender, wire, sent, published>>
    BY <1>10 DEF vars
  <2> QED BY <1>1, <2>1
<1>11. Good
  BY <1>2, <1>3, <1>4, <1>5, <1>6, <1>7, <1>8, <1>9, <1>10 DEF Next, ClientStep, SenderStep
<1> QED BY <1>11

-----------------------------------------------------------------------------
(* Nothing stale.                                                          *)

LEMMA NextFresh == IInv /\ [Next]_vars => Fresh'
<1> SUFFICES ASSUME IInv, [Next]_vars, NEW c \in Clients
             PROVE  LET gone == sent'[c] \o wire'[c]
                        all == ToSet(gone) \cup ToSet(latest'[c])
                    IN  /\ gone \in RisingLogs
                        /\ Newer(ToSet(gone), ToSet(latest'[c]))
                        /\ \A m \in all : m.kind \in Conflated => m.n <= version'[m.kind]
                        /\ handler'[c] = "open" /\ sender'[c] # "failed" /\ version'["snapshot"] > 0 =>
                              Message("snapshot", version'["snapshot"]) \in all
  BY DEF Fresh, Done, Newer, Message, ToSet
<1> DEFINE was == sent[c] \o wire[c]
           gone == sent'[c] \o wire'[c]
           all == ToSet(gone) \cup ToSet(latest'[c])
           Bound == \A m \in all : m.kind \in Conflated => m.n <= version'[m.kind]
           Newest == handler'[c] = "open" /\ sender'[c] # "failed" /\ version'["snapshot"] > 0 =>
                        Message("snapshot", version'["snapshot"]) \in all
           Good == gone \in RisingLogs /\ Newer(ToSet(gone), ToSet(latest'[c])) /\ Bound /\ Newest
<1>0. /\ Typed /\ Tidy /\ sent[c] \in Seq(Messages) /\ wire[c] \in Seq(Messages) /\ queue[c] \in Seq(Messages)
      /\ latest[c] \in Slots /\ version \in [Conflated -> Nat] /\ was \in Seq(Messages)
      /\ ToSet(was) \subseteq Messages /\ ToSet(latest[c]) \subseteq Messages
      /\ ToSet(was) = ToSet(sent[c]) \cup ToSet(wire[c])
  <2>1. sent[c] \in Seq(Messages) /\ wire[c] \in Seq(Messages) /\ latest[c] \in Seq(Messages)
    BY DEF IInv, Typed, Slots
  <2>2. was \in Seq(Messages) /\ ToSet(was) = ToSet(sent[c]) \cup ToSet(wire[c])
    BY <2>1, ToSetConcat
  <2>3. ToSet(was) \subseteq Messages /\ ToSet(latest[c]) \subseteq Messages
    BY <2>1, <2>2, ToSetRange
  <2> QED BY <2>1, <2>2, <2>3 DEF IInv, Typed
<1>a. /\ was \in RisingLogs
      /\ Newer(ToSet(was), ToSet(latest[c]))
      /\ \A m \in ToSet(was) \cup ToSet(latest[c]) : m.kind \in Conflated => m.n <= version[m.kind]
      /\ handler[c] = "open" /\ sender[c] # "failed" /\ version["snapshot"] > 0 =>
            Message("snapshot", version["snapshot"]) \in ToSet(was) \cup ToSet(latest[c])
  BY DEF IInv, Fresh, Done
<1>b. \A s \in Seq(Messages) : s \o <<>> = s /\ <<>> \o s = s
  BY ConcatEmptySeq
<1>c. sent[c] \in RisingLogs /\ ToSet(sent[c]) \subseteq ToSet(was)
  BY <1>0, <1>a, RisingConcat
<1> HIDE DEF was
<1>1. ASSUME gone = was, latest'[c] = latest[c], version' = version,
             handler'[c] = "open" /\ sender'[c] # "failed" => handler[c] = "open" /\ sender[c] # "failed"
      PROVE  Good
  BY <1>1, <1>a
\* Less is on its way, to a client that nothing is promised any more.
<1>2. ASSUME gone \in {was, sent[c]}, ToSet(latest'[c]) \subseteq ToSet(latest[c]), version' = version,
             handler'[c] # "open" \/ sender'[c] = "failed"
      PROVE  Good
  <2>1. gone \in RisingLogs /\ ToSet(gone) \subseteq ToSet(was)
    BY <1>2, <1>a, <1>c
  <2> HIDE DEF gone
  <2>2. Newer(ToSet(gone), ToSet(latest'[c])) /\ Bound
    BY <1>2, <1>a, <2>1 DEF Newer
  <2> QED BY <1>2, <2>1, <2>2
<1>3. ASSUME NEW d \in Clients, ClientStep(d), d # c PROVE Good
  <2>1. /\ handler'[c] = handler[c] /\ latest'[c] = latest[c] /\ sender'[c] = sender[c]
        /\ wire'[c] = wire[c] /\ sent'[c] = sent[c] /\ version' = version
    BY <1>0, <1>3, OthersStill
  <2>2. gone = was
    BY <2>1 DEF was
  <2> HIDE DEF Good
  <2> QED BY <1>1, <2>1, <2>2
<1>4. ASSUME Refuse(c) \/ Leave(c) \/ WakeUp(c) \/ GiveUp(c) \/ GoIdle(c) PROVE Good
  <2>1. /\ UNCHANGED <<latest, wire, sent>>
        /\ (handler'[c] = "open") <=> (handler[c] = "open")
        /\ (sender'[c] = "failed") <=> (sender[c] = "failed")
    BY <1>0, <1>4, QuietFacts
  <2>2. version' = version
    BY <1>4 DEF Refuse, Leave, WakeUp, GiveUp, GoIdle
  <2>3. gone = was /\ latest'[c] = latest[c]
    BY <2>1 DEF was
  <2> HIDE DEF Good, gone
  <2> QED BY <1>1, <2>1, <2>2, <2>3
<1>5. ASSUME Connect(c) PROVE Good
  <2>1. /\ gone = <<>> /\ latest'[c] = FirstMail /\ version' = version
    <3>1. gone = <<>> \o <<>>
      BY <1>0, <1>5, ConnectFacts
    <3> QED BY <1>0, <1>5, <1>b, <3>1, ConnectFacts
  <2>2. all = IF version["snapshot"] > 0 THEN {Message("snapshot", version["snapshot"])} ELSE {}
    BY <1>0, <2>1, FirstMailFacts, ToSetEmpty
  <2>3. gone \in RisingLogs /\ Newer(ToSet(gone), ToSet(latest'[c]))
    BY <2>1, ToSetEmpty, SlotFacts DEF Newer
  <2>4. version["snapshot"] \in Nat
    BY <1>0, KindFacts
  <2> HIDE DEF gone, all
  <2>5. Bound /\ Newest
    BY <2>1, <2>2, <2>4, KindFacts
  <2> QED BY <2>3, <2>5 DEF all, gone
<1>6. ASSUME Unregister(c) PROVE Good
  <2>1. gone = sent[c] /\ handler'[c] = "gone" /\ latest'[c] = <<>> /\ version' = version
    <3>1. gone = sent[c] \o <<>>
      BY <1>0, <1>6, UnregisterFacts
    <3> QED BY <1>0, <1>6, <1>b, <3>1, UnregisterFacts
  <2>2. ToSet(latest'[c]) \subseteq ToSet(latest[c]) /\ handler'[c] # "open"
    BY <2>1, ToSetEmpty
  <2> HIDE DEF Good, gone
  <2> QED BY <1>2, <2>1, <2>2
<1>7. ASSUME StartSend(c) PROVE Good
  <2>1. /\ sender[c] = "draining" /\ wire[c] = <<>> /\ handler[c] = "open" /\ sent'[c] = sent[c]
        /\ \/ queue[c] # <<>> /\ wire'[c] = <<Head(queue[c])>> /\ latest'[c] = latest[c]
           \/ latest[c] # <<>> /\ wire'[c] = <<Head(latest[c])>> /\ latest'[c] = Tail(latest[c])
    BY <1>0, <1>7, StartFacts
  <2>2. version' = version
    BY <1>7 DEF StartSend
  <2>3. was = sent[c]
    BY <1>0, <1>b, <2>1 DEF was
  <2>4. \A e \in Messages : wire'[c] = <<e>> =>
           /\ gone = Append(was, e) /\ ToSet(gone) = ToSet(was) \cup {e}
           /\ Newer(ToSet(was), {e}) => gone \in RisingLogs
    <3> SUFFICES ASSUME NEW e \in Messages, wire'[c] = <<e>>
                 PROVE  /\ gone = Append(was, e) /\ ToSet(gone) = ToSet(was) \cup {e}
                        /\ Newer(ToSet(was), {e}) => gone \in RisingLogs
      OBVIOUS
    <3>1. gone = was \o <<e>>
      BY <2>1, <2>3
    <3>2. gone = Append(was, e)
      BY <1>0, <3>1, AppendIsConcat
    <3> HIDE DEF gone
    <3>3. ToSet(gone) = ToSet(was) \cup {e}
      BY <1>0, <3>2, ToSetAppend
    <3>4. Newer(ToSet(was), {e}) => gone \in RisingLogs
      BY <1>a, <3>2, RisingAppend
    <3> QED BY <3>2, <3>3, <3>4
  <2>5. CASE queue[c] # <<>> /\ wire'[c] = <<Head(queue[c])>> /\ latest'[c] = latest[c]
    <3> DEFINE e == Head(queue[c])
    <3>1. e \in Messages /\ e \in ToSet(queue[c])
      BY <1>0, <2>5, ToSetHeadTail
    <3>2. e.kind \notin Conflated
      BY <1>0, <3>1, KindFacts DEF Tidy
    <3>3. wire'[c] = <<e>>
      BY <2>5
    <3> HIDE DEF e
    <3>4. Newer(ToSet(was), {e})
      BY <3>2 DEF Newer
    <3>5. gone \in RisingLogs /\ ToSet(gone) = ToSet(was) \cup {e}
      BY <2>4, <3>1, <3>3, <3>4
    <3> HIDE DEF gone
    <3>6. Newer(ToSet(gone), ToSet(latest'[c]))
      BY <1>a, <2>5, <3>2, <3>5 DEF Newer
    <3>7. Bound
      BY <1>a, <2>2, <2>5, <3>2, <3>5
    <3>8. Newest
      BY <1>a, <2>1, <2>2, <2>5, <3>5
    <3> HIDE DEF all, Bound, Newest
    <3> QED BY <3>5, <3>6, <3>7, <3>8
  <2>6. CASE latest[c] # <<>> /\ wire'[c] = <<Head(latest[c])>> /\ latest'[c] = Tail(latest[c])
    <3> DEFINE e == Head(latest[c])
    <3>1. /\ e \in Messages /\ ToSet(latest[c]) = {e} \cup ToSet(latest'[c])
          /\ \A m \in ToSet(latest'[c]) : m.kind # e.kind
      BY <1>0, <2>6, TakeSlot
    <3>2. wire'[c] = <<e>>
      BY <2>6
    <3> HIDE DEF e
    <3>3. Newer(ToSet(was), {e})
      BY <1>a, <3>1 DEF Newer
    <3>4. gone \in RisingLogs /\ ToSet(gone) = ToSet(was) \cup {e}
      BY <2>4, <3>1, <3>2, <3>3
    <3> HIDE DEF gone
    <3>5. Newer(ToSet(gone), ToSet(latest'[c]))
      BY <1>a, <3>1, <3>4 DEF Newer
    <3>6. all = ToSet(was) \cup ToSet(latest[c])
      BY <3>1, <3>4
    <3> HIDE DEF all
    <3>7. Bound /\ Newest
      BY <1>a, <2>1, <2>2, <3>6
    <3> HIDE DEF all, Bound, Newest
    <3> QED BY <3>4, <3>5, <3>7
  <2> QED BY <2>1, <2>5, <2>6
<1>8. ASSUME SendCompletes(c) \/ SendFails(c) PROVE Good
  <2>1. /\ handler[c] = "open" /\ sender[c] = "sending" /\ wire'[c] = <<>>
        /\ UNCHANGED <<handler, latest>>
        /\ \/ sender'[c] = "draining" /\ sent'[c] = sent[c] \o wire[c]
           \/ sender'[c] = "failed" /\ sent'[c] \in {sent[c], sent[c] \o wire[c]}
    BY <1>0, <1>8, EndFacts
  <2>2. version' = version
    BY <1>8 DEF SendCompletes, SendFails
  <2>3. gone = sent'[c] \o <<>> /\ sent'[c] \in {sent[c], was}
    BY <2>1 DEF was
  <2>4. gone = sent'[c]
    BY <1>0, <1>b, <2>3
  <2>5. CASE sender'[c] = "draining" /\ sent'[c] = sent[c] \o wire[c]
    <3>1. gone = was
      BY <2>4, <2>5 DEF was
    <3>2. latest'[c] = latest[c] /\ handler'[c] = handler[c] /\ sender[c] # "failed"
      BY <2>1
    <3> HIDE DEF Good, gone
    <3> QED BY <1>1, <2>2, <3>1, <3>2
  <2>6. CASE sender'[c] = "failed"
    <3>1. gone \in {was, sent[c]}
      BY <2>3, <2>4
    <3>2. ToSet(latest'[c]) \subseteq ToSet(latest[c])
      BY <2>1
    <3> HIDE DEF Good, gone
    <3> QED BY <1>2, <2>2, <2>6, <3>1, <3>2
  <2> QED BY <2>1, <2>5, <2>6
<1>9. ASSUME Publish \/ UNCHANGED vars PROVE Good
  <2>1. UNCHANGED <<handler, latest, sender, wire, sent, version>>
    BY <1>9 DEF Publish, vars
  <2>2. gone = was
    BY <2>1 DEF was
  <2>3. latest'[c] = latest[c] /\ handler'[c] = handler[c] /\ sender'[c] = sender[c] /\ version' = version
    BY <2>1
  <2> HIDE DEF Good, gone
  <2> QED BY <1>1, <2>2, <2>3
<1>10. ASSUME NEW kind \in Conflated, PublishLatest(kind) PROVE Good
  <2> DEFINE e == Message(kind, version[kind] + 1)
  <2>1. /\ UNCHANGED <<handler, sender, wire, sent>> /\ e \in Messages
        /\ version' = [version EXCEPT ![kind] = @ + 1]
        /\ latest'[c] = IF handler[c] = "open" THEN Replace(latest[c], e) ELSE latest[c]
    BY <1>0, <1>10, PublishLatestFacts
  <2>2. gone = was
    BY <2>1 DEF was
  <2>3. e.kind = kind /\ e.n = version[kind] + 1 /\ version[kind] \in Nat
    BY <1>0, KindFacts
  <2>4. /\ version'[kind] = e.n /\ version'[kind] \in Nat
        /\ \A k \in Conflated : version[k] <= version'[k] /\ version[k] \in Nat /\ version'[k] \in Nat
        /\ \A k \in Conflated \ {kind} : version'[k] = version[k]
    BY <1>0, <2>1, <2>3
  <2>5. CASE handler[c] # "open"
    <3>1. latest'[c] = latest[c] /\ handler'[c] # "open"
      BY <2>1, <2>5
    <3>2. \A m \in ToSet(was) \cup ToSet(latest[c]) : m.kind \in Conflated => m.n <= version'[m.kind]
      <4> SUFFICES ASSUME NEW m \in ToSet(was) \cup ToSet(latest[c]), m.kind \in Conflated
                   PROVE  m.n <= version'[m.kind]
        OBVIOUS
      <4>1. m.n <= version[m.kind] /\ m.n \in Nat
        BY <1>0, <1>a, KindFacts
      <4> QED BY <2>4, <4>1
    <3> QED BY <1>a, <2>2, <3>1, <3>2
  <2>6. CASE handler[c] = "open"
    <3> HIDE DEF e
    <3>1. ToSet(latest'[c]) = {e} \cup {m \in ToSet(latest[c]) : m.kind # e.kind}
      BY <1>0, <2>1, <2>6, ReplaceFacts
    <3> HIDE DEF gone
    <3>2. \A m \in ToSet(was) \cup ToSet(latest[c]) :
             m.kind \in Conflated => m.n <= version[m.kind] /\ m.n \in Nat
      BY <1>0, <1>a, KindFacts
    <3>3. Newer(ToSet(gone), ToSet(latest'[c]))
      <4> SUFFICES ASSUME NEW m \in ToSet(was), NEW o \in ToSet(latest'[c]), m.kind = o.kind, m.kind \in Conflated
                   PROVE  m.n < o.n
        BY <2>2 DEF Newer
      <4>1. CASE o = e
        <5>1. m.n <= version[kind] /\ m.n \in Nat
          BY <2>3, <3>2, <4>1
        <5> QED BY <2>3, <4>1, <5>1
      <4>2. CASE o \in ToSet(latest[c])
        BY <1>a, <4>2 DEF Newer
      <4> QED BY <3>1, <4>1, <4>2
    <3>4. Bound
      <4> SUFFICES ASSUME NEW m \in ToSet(was) \cup ToSet(latest'[c]), m.kind \in Conflated
                   PROVE  m.n <= version'[m.kind]
        BY <2>2
      <4>1. CASE m = e
        BY <2>3, <2>4, <4>1
      <4>2. CASE m \in ToSet(was) \cup ToSet(latest[c])
        <5>1. m.n <= version[m.kind] /\ m.n \in Nat
          BY <3>2, <4>2
        <5> QED BY <2>4, <5>1
      <4> QED BY <3>1, <4>1, <4>2
    <3>5. Newest
      <4> SUFFICES ASSUME sender[c] # "failed", version'["snapshot"] > 0
                   PROVE  Message("snapshot", version'["snapshot"]) \in ToSet(was) \cup ToSet(latest'[c])
        BY <2>1, <2>2
      <4>1. CASE kind = "snapshot"
        <5>1. Message("snapshot", version'["snapshot"]) = e
          BY <2>3, <2>4, <4>1 DEF e
        <5> QED BY <3>1, <5>1
      <4>2. CASE kind # "snapshot"
        <5>1. version'["snapshot"] = version["snapshot"]
          BY <2>4, <4>2, KindFacts
        <5>2. Message("snapshot", version["snapshot"]) \in ToSet(was) \cup ToSet(latest[c])
          BY <1>a, <2>6, <5>1
        <5>3. Message("snapshot", version["snapshot"]).kind # e.kind
          BY <2>3, <4>2, KindFacts
        <5> QED BY <3>1, <5>1, <5>2, <5>3
      <4> QED BY <4>1, <4>2
    <3> QED BY <1>a, <2>2, <3>3, <3>4, <3>5
  <2> QED BY <2>5, <2>6
<1>11. Good
  BY <1>3, <1>4, <1>5, <1>6, <1>7, <1>8, <1>9, <1>10 DEF Next, ClientStep, SenderStep
<1> QED BY <1>11

-----------------------------------------------------------------------------

LEMMA SpecIInv == Spec => []IInv
<1>1. IInv /\ [Next]_vars => IInv'
  BY NextTyped, NextRoomy, NextTidy, NextComplete, NextFresh DEF IInv
<1> QED BY InitIInv, <1>1, PTL DEF Spec

\* Every variable stays in its type; the memory of the hub is bounded by its limits,
\* for any number of clients however slow.
THEOREM TypeCorrect == Spec => []TypeOK
<1>1. IInv => TypeOK
  <2> SUFFICES ASSUME IInv PROVE TypeOK
    OBVIOUS
  <2>1. \A s \in Slots : s \in Seq(Messages) /\ \A i, j \in DOMAIN s : s[i].kind = s[j].kind => i = j
    BY DEF Slots, Distinct
  <2>2. /\ latest \in [Clients -> Seq(Messages)]
        /\ \A c \in Clients : \A i, j \in DOMAIN latest[c] : latest[c][i].kind = latest[c][j].kind => i = j
    BY <2>1 DEF IInv, Typed
  <2> QED BY <2>2 DEF IInv, Typed, Roomy, TypeOK
<1> QED BY SpecIInv, <1>1, PTL

\* Hello and every alert and ping since reach a client without a gap, or an overflow
\* ends its connection first.
THEOREM NoGap == Spec => []ReliableGapless
<1>1. IInv => ReliableGapless
  <2> SUFFICES ASSUME IInv, NEW c \in Clients, handler[c] \in {"open", "gone"}
               PROVE  /\ Gapless(sent[c] \o Upcoming(c, queue))
                      /\ handler[c] = "open" /\ ~overflowed[c] /\ sender[c] # "failed" =>
                            UpTo(sent[c] \o Upcoming(c, queue), published)
    BY DEF ReliableGapless
  <2> QED BY DEF IInv, Complete, Log, GaplessLogs, LogsUpTo
<1> QED BY SpecIInv, <1>1, PTL

\* Snapshots never go backwards and the newest is never lost, for any number of
\* clients and of conflated messages.
THEOREM NewestOnItsWay == Spec => []SnapshotsConverge
<1>1. IInv => SnapshotsConverge
  <2> SUFFICES ASSUME IInv, NEW c \in Clients
               PROVE  LET log == sent[c] \o Upcoming(c, latest)
                      IN  /\ Rising(log)
                          /\ handler[c] = "open" /\ sender[c] # "failed" /\ version["snapshot"] > 0 =>
                                EndsWith(log, Message("snapshot", version["snapshot"]))
    BY DEF SnapshotsConverge
  <2> DEFINE log == sent[c] \o Upcoming(c, latest)
             done == sent[c] \o wire[c]
             newest == Message("snapshot", version["snapshot"])
  <2>0. /\ sent[c] \in Seq(Messages) /\ wire[c] \in Seq(Messages) /\ latest[c] \in Slots
        /\ latest[c] \in Seq(Messages) /\ done \in Seq(Messages) /\ latest[c] \in RisingLogs
        /\ version \in [Conflated -> Nat]
    BY SlotFacts, ConcatProperties DEF IInv, Typed
  <2>1. /\ done \in RisingLogs /\ Newer(ToSet(done), ToSet(latest[c]))
        /\ \A m \in ToSet(done) \cup ToSet(latest[c]) : m.kind \in Conflated => m.n <= version[m.kind]
        /\ handler[c] = "open" /\ sender[c] # "failed" /\ version["snapshot"] > 0 =>
              newest \in ToSet(done) \cup ToSet(latest[c])
    BY DEF IInv, Fresh, Done
  <2>2. sender[c] # "failed" => log = done \o latest[c]
    <3> DEFINE s == sent[c]
               w == wire[c]
               q == latest[c]
    <3>1. s \in Seq(Messages) /\ w \in Seq(Messages) /\ q \in Seq(Messages)
      BY <2>0
    <3>2. sender[c] # "failed" => log = s \o (w \o q)
      BY DEF Upcoming
    <3>3. done = s \o w
      OBVIOUS
    <3> HIDE DEF s, w, q, log, done
    <3>4. (s \o w) \o q = s \o (w \o q)
      BY ONLY <3>1, Regroup
    <3> QED BY <3>2, <3>3, <3>4 DEF q
  <2>3. CASE sender[c] = "failed"
    <3>1. log = sent[c] \o <<>>
      BY <2>3 DEF Upcoming
    <3>2. log = sent[c]
      BY <2>0, <3>1, ConcatEmptySeq
    <3>3. sent[c] \in RisingLogs
      BY <2>0, <2>1, RisingConcat
    <3> QED BY <2>3, <3>2, <3>3 DEF RisingLogs
  <2>4. CASE sender[c] # "failed"
    <3>1. log = done \o latest[c]
      BY <2>2, <2>4
    <3> HIDE DEF log, done, newest
    <3>2. log \in Seq(Messages) /\ ToSet(log) = ToSet(done) \cup ToSet(latest[c]) /\ Rising(log)
      <4>1. log \in RisingLogs
        BY <2>0, <2>1, <3>1, RisingConcat
      <4>2. ToSet(log) = ToSet(done) \cup ToSet(latest[c])
        BY <2>0, <3>1, ToSetConcat
      <4> QED BY <4>1, <4>2 DEF RisingLogs
    <3>3. ASSUME handler[c] = "open", version["snapshot"] > 0 PROVE EndsWith(log, newest)
      <4>1. newest.kind = "snapshot" /\ newest.n = version["snapshot"] /\ "snapshot" \in Conflated
        BY KindFacts DEF newest
      <4>2. PICK i \in DOMAIN log : log[i] = newest
        <5>1. newest \in ToSet(log)
          BY <2>1, <2>4, <3>2, <3>3
        <5> QED BY <5>1 DEF ToSet
      <4>3. ASSUME NEW j \in DOMAIN log, i < j, log[j].kind = newest.kind PROVE FALSE
        <5>1. log[i].n < log[j].n
          BY <3>2, <4>1, <4>2, <4>3 DEF Rising
        <5>2. log[j] \in ToSet(log) /\ log[j] \in Messages
          BY <3>2 DEF ToSet
        <5>3. log[j].n <= version["snapshot"] /\ log[j].n \in Nat
          BY <2>1, <3>2, <4>1, <4>3, <5>2, KindFacts
        <5>4. version["snapshot"] \in Nat
          BY <2>0, KindFacts
        <5> QED BY <4>1, <4>2, <5>1, <5>3, <5>4
      <4> QED BY <4>2, <4>3 DEF EndsWith
    <3> QED BY <3>2, <3>3 DEF newest, log
  <2> QED BY <2>3, <2>4
<1> QED BY SpecIInv, <1>1, PTL
=============================================================================
