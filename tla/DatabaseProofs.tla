--------------------------- MODULE DatabaseProofs ---------------------------
(***************************************************************************)
(* Proofs about Database: migrations that do not collide, deduplication    *)
(* that outlives retention, and partitions that are ready in time.         *)
(***************************************************************************)
EXTENDS Database, SequenceFacts

USE DEF dataVars, jobVars

-----------------------------------------------------------------------------
(* Ticks and days.                                                         *)

LEMMA DivisionFacts ==
    ASSUME NEW t \in Int, NEW k \in Nat \ {0}
    PROVE  t \div k \in Int /\ (t \div k) * k <= t /\ t < (t \div k + 1) * k
OBVIOUS

LEMMA SqueezeFacts ==
    ASSUME NEW a \in Int, NEW b \in Int, NEW t \in Int, NEW k \in Nat \ {0},
           a * k <= t, t < (b + 1) * k
    PROVE  a <= b
OBVIOUS

LEMMA DayFacts ==
    /\ TicksPerDay \in Nat \ {0}
    /\ \A t \in Int : /\ Day(t) \in Int
                      /\ Day(t) * TicksPerDay <= t /\ t < (Day(t) + 1) * TicksPerDay
BY DatabaseAssumption, DivisionFacts DEF DatabaseAssumption, Day

LEMMA DayMonotone ==
    ASSUME NEW t \in Int, NEW u \in Int, t <= u PROVE Day(t) <= Day(u)
<1>1. /\ Day(t) \in Int /\ Day(u) \in Int /\ TicksPerDay \in Nat \ {0}
      /\ Day(t) * TicksPerDay <= t /\ u < (Day(u) + 1) * TicksPerDay
  BY DayFacts
<1>2. Day(t) * TicksPerDay <= u
  BY <1>1
<1> QED BY <1>1, <1>2, SqueezeFacts

LEMMA DayShift ==
    ASSUME NEW t \in Int, NEW n \in Int PROVE Day(t + n * TicksPerDay) = Day(t) + n
<1> DEFINE u == t + n * TicksPerDay
<1>1. TicksPerDay \in Nat \ {0} /\ u \in Int
  BY DayFacts
<1>2. /\ Day(t) \in Int /\ Day(t) * TicksPerDay <= t /\ t < (Day(t) + 1) * TicksPerDay
      /\ Day(u) \in Int /\ Day(u) * TicksPerDay <= u /\ u < (Day(u) + 1) * TicksPerDay
  BY <1>1, DayFacts
<1>3. /\ (Day(t) + n) * TicksPerDay <= u /\ u < (Day(t) + n + 1) * TicksPerDay
      /\ Day(t) + n \in Int
  BY <1>1, <1>2
<1> HIDE DEF u
<1>4. Day(t) + n <= Day(u) /\ Day(u) <= Day(t) + n
  BY <1>1, <1>2, <1>3, SqueezeFacts
<1>5. Day(u) = Day(t) + n
  <2>1. Day(u) \in Int /\ Day(t) + n \in Int
    BY <1>2, <1>3
  <2> QED BY <1>4, <2>1
<1> QED BY <1>5 DEF u

LEMMA DaysBackFacts == DaysBack \in Nat /\ DaysBack * TicksPerDay = MaxAge
<1>1. TicksPerDay \in Nat \ {0} /\ MaxAge \in Nat /\ MaxAge % TicksPerDay = 0
  BY DatabaseAssumption DEF DatabaseAssumption
<1> QED BY <1>1 DEF DaysBack

\* An age in days.
LEMMA DayBack == ASSUME NEW t \in Int PROVE Day(t - MaxAge) = Day(t) - DaysBack
<1>1. t - MaxAge = t + (0 - DaysBack) * TicksPerDay /\ 0 - DaysBack \in Int
  BY DaysBackFacts, DayFacts
<1>2. Day(t + (0 - DaysBack) * TicksPerDay) = Day(t) + (0 - DaysBack)
  BY <1>1, DayShift
<1> QED BY <1>1, <1>2, DayFacts, DaysBackFacts

LEMMA ConstantFacts ==
    /\ MaxAge \in Nat /\ MaxSkew \in Nat /\ MaxWait \in Nat /\ DaysAhead \in Nat
    /\ Start \in Nat /\ End \in Nat /\ Start <= End /\ MaxAge <= Start
    /\ MaxFaults \in Nat
BY DatabaseAssumption DEF DatabaseAssumption

\* The days of the clock, of what is accepted, and of the window.
LEMMA DaysFacts ==
    /\ \A t \in 0..(End + MaxSkew) : Day(t) \in Days
    /\ \A t \in Start..End : Window(t) \subseteq Days
    /\ \A t \in Start..End : Day(t) - DaysBack \in Nat
    /\ Days \subseteq Nat /\ \A m \in Days : 0..m \subseteq Days
<1> DEFINE last == End + MaxSkew + DaysAhead * TicksPerDay
<1>1. /\ last \in Int /\ End + MaxSkew <= last /\ End + DaysAhead * TicksPerDay <= last
      /\ End + DaysAhead * TicksPerDay \in Int
  <2>1. DaysAhead * TicksPerDay \in Nat
    BY ConstantFacts, DayFacts
  <2> QED BY <2>1, ConstantFacts
<1>2. \A t \in Nat : Day(t) \in Nat
  <2> SUFFICES ASSUME NEW t \in Nat PROVE Day(t) \in Nat
    OBVIOUS
  <2>1. Day(t) \in Int /\ t < (Day(t) + 1) * TicksPerDay /\ TicksPerDay \in Nat \ {0}
    BY DayFacts
  <2>2. 0 * TicksPerDay <= t
    BY <2>1
  <2>3. 0 <= Day(t)
    BY ONLY <2>1, <2>2, SqueezeFacts, t \in Nat
  <2> QED BY <2>1, <2>3
<1>3. Days = 0..Day(last) /\ Day(last) \in Int
  BY <1>1, DayFacts DEF Days
<1> HIDE DEF last
<1>4. \A t \in 0..(End + MaxSkew) : Day(t) \in Days
  <2> SUFFICES ASSUME NEW t \in 0..(End + MaxSkew) PROVE Day(t) \in Days
    OBVIOUS
  <2>1. t \in Nat /\ t \in Int /\ last \in Int /\ t <= last
    BY <1>1, ConstantFacts
  <2>2. Day(t) <= Day(last)
    BY ONLY <2>1, DayMonotone
  <2> QED BY <1>2, <1>3, <2>1, <2>2
<1>5. \A t \in Start..End : Day(t) - DaysBack \in Nat
  <2> SUFFICES ASSUME NEW t \in Start..End PROVE Day(t) - DaysBack \in Nat
    OBVIOUS
  <2>1. t \in Int /\ t - MaxAge \in Nat
    BY ConstantFacts
  <2> QED BY <1>2, <2>1, DayBack
<1>6. \A t \in Start..End : Window(t) \subseteq Days
  <2> SUFFICES ASSUME NEW t \in Start..End PROVE Window(t) \subseteq Days
    OBVIOUS
  <2>1. t \in Int /\ t <= End
    BY ConstantFacts
  <2>2. Day(End) + DaysAhead = Day(End + DaysAhead * TicksPerDay)
    BY DayShift, ConstantFacts
  <2>3. Day(t) <= Day(End) /\ Day(End + DaysAhead * TicksPerDay) <= Day(last)
    BY <1>1, <2>1, DayMonotone, ConstantFacts
  <2>4. Day(t) + DaysAhead <= Day(last) /\ Day(t) \in Int /\ Day(End) \in Int
    <3>1. Day(t) \in Int /\ Day(End) \in Int /\ DaysAhead \in Nat
      BY <2>1, DayFacts, ConstantFacts
    <3> QED BY <1>3, <2>2, <2>3, <3>1
  <2> QED BY <1>3, <1>5, <2>4, ConstantFacts DEF Window
<1> QED BY <1>3, <1>4, <1>5, <1>6

\* What has expired is of no day that is accepted, and too old to be written.
LEMMA ExpiredFacts ==
    ASSUME NEW t \in Int, NEW u \in Int, u <= t, NEW d \in Int
    PROVE  /\ Raw(u) < t - MaxAge - MaxWait /\ Minute(u) < t - MaxAge - MaxWait
           /\ Expired(d, Raw(u)) => d < Day(t) - DaysBack
           /\ Expired(d, Raw(u)) => \A o \in Int : Day(o) = d => o < t - MaxAge - MaxWait
<1> DEFINE raw == RawDays * TicksPerDay
           minute == MinuteDays * TicksPerDay
<1>1. /\ raw \in Int /\ minute \in Int /\ raw > MaxAge + MaxWait /\ minute > MaxAge + MaxWait
      /\ Raw(u) = u - raw /\ Minute(u) = u - minute
  BY DatabaseAssumption DEF DatabaseAssumption, Raw, Minute
<1> HIDE DEF raw, minute
<1>2. Raw(u) < t - MaxAge - MaxWait /\ Minute(u) < t - MaxAge - MaxWait /\ Raw(u) \in Int
  BY <1>1, ConstantFacts
<1>3. ASSUME Expired(d, Raw(u))
      PROVE  d < Day(t) - DaysBack /\ \A o \in Int : Day(o) = d => o < t - MaxAge - MaxWait
  <2>1. (d + 1) * TicksPerDay <= Raw(u)
    BY <1>3 DEF Expired
  <2>2. \A o \in Int : Day(o) = d => o < (d + 1) * TicksPerDay
    BY DayFacts
  <2>3. (d + 1) * TicksPerDay \in Int
    BY DayFacts
  <2>4. \A o \in Int : Day(o) = d => o < t - MaxAge - MaxWait
    BY <1>2, <2>1, <2>2, <2>3, ConstantFacts
  <2>5. d < Day(t) - DaysBack
    <3>1. (d + 1) * TicksPerDay < t - MaxAge
      BY <1>2, <2>1, <2>3, ConstantFacts
    <3>2. t - MaxAge \in Int /\ t - MaxAge < (Day(t - MaxAge) + 1) * TicksPerDay /\ Day(t - MaxAge) \in Int
      BY ConstantFacts, DayFacts
    <3>3. d + 1 <= Day(t - MaxAge)
      <4>1. (d + 1) * TicksPerDay <= t - MaxAge
        BY <2>3, <3>1, <3>2
      <4>2. d + 1 \in Int /\ TicksPerDay \in Nat \ {0}
        BY DayFacts
      <4> QED BY ONLY <3>2, <4>1, <4>2, SqueezeFacts
    <3>4. d < Day(t - MaxAge)
      BY <3>2, <3>3
    <3> QED BY <3>4, DayBack
  <2> QED BY <2>4, <2>5
<1> QED BY <1>2, <1>3

\* A run that began a tick ago, and even the run before it, left partitions for what
\* is accepted after the next tick.
LEMMA AheadFacts ==
    ASSUME NEW t \in Int, NEW u \in Int, t <= u + 2
    PROVE  Day(t + MaxSkew) <= Day(u) + DaysAhead
<1>1. MaxSkew + 2 <= DaysAhead * TicksPerDay /\ DaysAhead * TicksPerDay \in Int
  BY DatabaseAssumption DEF DatabaseAssumption
<1>2. t + MaxSkew <= u + DaysAhead * TicksPerDay /\ t + MaxSkew \in Int
  BY <1>1, ConstantFacts
<1>3. Day(t + MaxSkew) <= Day(u + DaysAhead * TicksPerDay)
  BY <1>1, <1>2, DayMonotone
<1> QED BY <1>3, DayShift, ConstantFacts

LEMMA LeastIn ==
    ASSUME NEW S \in SUBSET Nat, S # {}
    PROVE  Min(S) \in S /\ \A y \in S : Min(S) <= y
<1>1. \E x \in S : \A y \in S : x <= y
  BY LeastNumber
<1> QED BY <1>1 DEF Min

-----------------------------------------------------------------------------
(* The inductive invariant.                                                *)

Phases == {"down", "locking", "migrating", "starting", "idle", "creating", "dropping",
           "events_default", "agg_minute"}
Served == Phases \ {"down", "locking", "migrating"}

\* The advisory lock is held by the one process that migrates, what it found to do
\* is still to do, and nobody gets past it before all is done.
LockInv ==
    /\ lock = {p \in Processes : phase[p] = "migrating"}
    /\ \A p, q \in lock : p = q
    /\ \A p \in lock : todo[p] = Files \ applied
    /\ \A p \in Processes : phase[p] \in Served => applied = Files
    /\ pending # {} => applied = Files

ExpiredDays(t) == {d \in Days : Expired(d, Raw(t))}

\* A run's clock is behind, and by no more than a tick while the process serves; the
\* days it drops were expired by it.
ClockInv ==
    \A p \in Processes :
        /\ at[p] <= now
        /\ phase[p] \in Served => now <= at[p] + 1
        /\ phase[p] \in Served => todo[p] \subseteq Days
        /\ phase[p] = "dropping" => todo[p] \subseteq ExpiredDays(at[p])

\* What waits was of an accepted age when it came, and has not waited long.
PendingInv ==
    \A w \in pending :
        /\ occurred[w[1]] # NotYet
        /\ w[2] <= now /\ now <= w[2] + MaxWait
        /\ w[2] - MaxAge <= occurred[w[1]] /\ occurred[w[1]] <= w[2] + MaxSkew

\* As long as an event can still be written, the aggregates include it if and only
\* if its row is there to refuse it.
CountInv ==
    \A e \in Events :
        /\ counted[e] \in {0, 1}
        /\ occurred[e] = NotYet => e \notin rows \cup spill /\ counted[e] = 0
        /\ occurred[e] >= now - MaxAge - MaxWait => (counted[e] = 1 <=> e \in rows \cup spill)

IInv == TypeOK /\ LockInv /\ ClockInv /\ PendingInv /\ CountInv

\* The last day a process that serves has partitions up to: while it creates, what
\* the run before left.
Horizon(p) == Day(IF phase[p] = "creating" THEN at[p] - 1 ELSE at[p]) + DaysAhead

\* Without failures, a day of which nothing was stranded has its partition, for as
\* long as it is accepted and what waits is of that day.
ReadyInv ==
    faults = 0 =>
        \A d \in Days \ stranded :
            /\ d \notin SpillDays
            /\ \A p \in Up : Day(now) - DaysBack <= d /\ d <= Horizon(p) => d \in partitions
            /\ \A p \in Processes :
                  /\ phase[p] \in {"starting", "creating"}
                  /\ Day(now) - DaysBack <= d /\ d <= Day(at[p]) + DaysAhead
                  => d \in partitions \cup todo[p]
            /\ \A w \in pending : Day(occurred[w[1]]) = d => d \in partitions

-----------------------------------------------------------------------------
(* Types.                                                                  *)

LEMMA GotoFacts ==
    ASSUME TypeOK, NEW p \in Processes, NEW ph, NEW work, Goto(p, ph, work)
    PROVE  /\ phase'[p] = ph /\ todo'[p] = work
           /\ \A q \in Processes \ {p} : phase'[q] = phase[q] /\ todo'[q] = todo[q]
           /\ ph \in Phases => phase' \in [Processes -> Phases]
           /\ work \subseteq Files \cup Days => todo' \in [Processes -> SUBSET (Files \cup Days)]
BY DEF TypeOK, Phases, Goto

\* The steps of a process that serves move it only.
Serves(p) == RunOnce(p) \/ Create(p) \/ Created(p) \/ Drop(p) \/ Dropped(p) \/ SweepDefault(p) \/ SweepMinutes(p)

LEMMA ServesFacts ==
    ASSUME TypeOK, NEW p \in Processes, Serves(p)
    PROVE  /\ UNCHANGED <<now, applied, lock, occurred, pending, stranded, faults>>
           /\ phase[p] \in Served /\ phase'[p] \in Served
           /\ phase' \in [Processes -> Phases]
           /\ \A q \in Processes \ {p} : phase'[q] = phase[q] /\ todo'[q] = todo[q]
<1>1. UNCHANGED <<now, applied, lock, occurred, pending, stranded, faults>>
  BY DEF Serves, RunOnce, Create, Created, Drop, Dropped, SweepDefault, SweepMinutes
<1>2. PICK ph, work : Goto(p, ph, work) /\ phase[p] \in Served /\ ph \in Served
  <2>0. {"starting", "idle", "creating", "dropping", "events_default", "agg_minute"} \subseteq Served
    BY DEF Served, Phases
  <2>1. CASE RunOnce(p)
    BY <2>0, <2>1 DEF RunOnce
  <2>2. CASE Create(p) \/ Drop(p)
    BY <2>0, <2>2 DEF Create, Drop
  <2>3. CASE Created(p)
    BY <2>0, <2>3 DEF Created
  <2>4. CASE Dropped(p)
    BY <2>0, <2>4 DEF Dropped
  <2>5. CASE SweepDefault(p)
    BY <2>0, <2>5 DEF SweepDefault
  <2>6. CASE SweepMinutes(p)
    BY <2>0, <2>6 DEF SweepMinutes
  <2> QED BY <2>1, <2>2, <2>3, <2>4, <2>5, <2>6 DEF Serves
<1>3. ph \in Phases
  BY <1>2 DEF Served
<1> QED BY <1>1, <1>2, <1>3, GotoFacts

LEMMA InitIInv == Init => IInv
<1> SUFFICES ASSUME Init PROVE IInv
  OBVIOUS
<1>0. /\ Start \in Int /\ 0 <= Start /\ Start \in Start..End /\ Start <= End + MaxSkew
      /\ MaxFaults \in Nat /\ Files = {1, 2}
  BY ConstantFacts DEF Files
<1>1. /\ occurred \in [Events -> {NotYet} \cup 0..Start] /\ rows \subseteq Events
      /\ spill \subseteq Events \ rows /\ rows \cup spill = {e \in Events : occurred[e] # NotYet}
      /\ counted = [e \in Events |-> IF occurred[e] # NotYet THEN 1 ELSE 0]
      /\ \A e \in spill : occurred[e] \in 0..Start
  <2>1. occurred \in [Events -> {NotYet} \cup 0..Start]
    BY DEF Init
  <2> QED BY <2>1 DEF Init
<1>2. \A t \in 0..Start : Day(t) \in Days /\ Day(t) \in 0..Day(Start)
  <2> SUFFICES ASSUME NEW t \in 0..Start PROVE Day(t) \in Days /\ Day(t) \in 0..Day(Start)
    OBVIOUS
  <2>1. t \in 0..(End + MaxSkew) /\ t \in Int
    BY <1>0, ConstantFacts
  <2>2. Day(t) \in Nat /\ Day(t) \in Days
    BY <2>1, DaysFacts
  <2>3. Day(t) <= Day(Start) /\ Day(Start) \in Int
    BY <1>0, <2>1, DayMonotone, DayFacts
  <2> QED BY <2>2, <2>3
<1>3. partitions \subseteq Days
  <2>1. Day(Start) \in Days
    BY <1>0, <1>2
  <2>2. 0..Day(Start) \subseteq Days
    BY <2>1, DaysFacts
  <2> QED BY <2>2 DEF Init
<1>4. stranded \subseteq Days
  BY <1>1, <1>2 DEF Init, SpillDays
<1>5. TypeOK
  <2>1. /\ now \in Start..End /\ applied \in {{}, {1}, Files} /\ lock \subseteq Processes
        /\ pending \subseteq Events \X (Start..End)
        /\ phase \in [Processes -> Phases] /\ todo \in [Processes -> SUBSET (Files \cup Days)]
        /\ at \in [Processes -> Start..End] /\ faults \in 0..MaxFaults
    BY <1>0 DEF Init, Phases
  <2>2. Cardinality(lock) <= 1
    BY FS_EmptySet DEF Init
  <2>3. occurred \in [Events -> {NotYet} \cup 0..(End + MaxSkew)] /\ counted \in [Events -> Nat]
    <3>1. 0..Start \subseteq 0..(End + MaxSkew)
      BY <1>0, ConstantFacts
    <3> QED BY <1>1, <3>1
  <2> QED BY <1>1, <1>3, <1>4, <2>1, <2>2, <2>3 DEF TypeOK, Phases
<1>6. LockInv
  BY DEF Init, LockInv, Served, Phases
<1>7. ClockInv
  BY <1>0 DEF Init, ClockInv, Served, Phases
<1>8. PendingInv
  BY DEF Init, PendingInv
<1>9. CountInv
  BY <1>1 DEF CountInv
<1> QED BY <1>5, <1>6, <1>7, <1>8, <1>9 DEF IInv

\* What a migration leaves is a range of days the clock allows.
LEMMA MigrateFacts ==
    ASSUME IInv, NEW p \in Processes, Migrate(p)
    PROVE  /\ todo[p] = Files \ applied /\ phase[p] = "migrating" /\ applied # Files
           /\ applied' \in {{}, {1}, Files} /\ todo'[p] = Files \ applied'
           /\ partitions' \subseteq Days
<1>1. todo[p] = Files \ applied /\ applied \in {{}, {1}, Files} /\ todo[p] # {}
  BY DEF IInv, LockInv, Migrate, TypeOK
<1> DEFINE file == Min(todo[p])
           first == {Day(now) - DaysBack} \cup {Day(occurred[e]) : e \in rows}
<1>2. /\ applied' = applied \cup {file} /\ todo'[p] = todo[p] \ {file}
      /\ partitions' = IF file = 1 THEN partitions ELSE Min(first)..(Day(now) + DaysAhead)
  BY GotoFacts DEF Migrate, IInv
<1>3. file \in todo[p] /\ \A n \in todo[p] : file <= n
  BY <1>1, LeastIn DEF Files
<1>4. applied' \in {{}, {1}, Files} /\ todo'[p] = Files \ applied'
  <2>1. CASE applied = {}
    <3>1. file = 1
      BY <1>1, <1>3, <2>1 DEF Files
    <3> QED BY <1>1, <1>2, <2>1, <3>1
  <2>2. CASE applied = {1}
    <3>1. file = 2
      BY <1>1, <1>3, <2>2 DEF Files
    <3> QED BY <1>1, <1>2, <2>2, <3>1 DEF Files
  <2> QED BY <1>1, <2>1, <2>2
<1>5. partitions' \subseteq Days
  <2>1. partitions \subseteq Days /\ now \in Start..End
    BY DEF IInv, TypeOK
  <2>2. ASSUME NEW e \in rows PROVE Day(occurred[e]) \in Nat
    <3>1. occurred[e] \in 0..(End + MaxSkew)
      BY <2>2 DEF IInv, TypeOK, CountInv
    <3> QED BY <3>1, DaysFacts
  <2>3. first \in SUBSET Nat /\ first # {}
    BY <2>1, <2>2, DaysFacts
  <2>4. Min(first) \in Nat
    BY ONLY <2>3, LeastIn
  <2>5. Day(now) + DaysAhead \in Window(now) /\ Day(now) + DaysAhead \in Int
    <3>1. Day(now) \in Int /\ DaysBack \in Nat /\ DaysAhead \in Nat
      BY <2>1, ConstantFacts, DayFacts, DaysBackFacts
    <3> QED BY <3>1 DEF Window
  <2>6. Day(now) + DaysAhead \in Days
    BY <2>1, <2>5, DaysFacts
  <2> HIDE DEF first
  <2>7. Min(first)..(Day(now) + DaysAhead) \subseteq Days
    <3>1. Min(first)..(Day(now) + DaysAhead) \subseteq 0..(Day(now) + DaysAhead)
      BY <2>4, <2>5
    <3> QED BY <2>6, <3>1, DaysFacts
  <2> QED BY <1>2, <2>1, <2>7
<1> QED BY <1>1, <1>4, <1>5 DEF Migrate

LEMMA NextType == IInv /\ [Next]_vars => TypeOK'
<1> SUFFICES ASSUME IInv, [Next]_vars PROVE TypeOK'
  OBVIOUS
<1>0. TypeOK /\ LockInv
  BY DEF IInv
<1>1. /\ now \in Start..End /\ applied \in {{}, {1}, Files}
      /\ lock \subseteq Processes /\ Cardinality(lock) <= 1
      /\ partitions \subseteq Days /\ occurred \in [Events -> {NotYet} \cup 0..(End + MaxSkew)]
      /\ rows \subseteq Events /\ spill \subseteq Events \ rows
      /\ counted \in [Events -> Nat] /\ pending \subseteq Events \X (Start..End)
      /\ phase \in [Processes -> Phases]
      /\ todo \in [Processes -> SUBSET (Files \cup Days)] /\ at \in [Processes -> Start..End]
      /\ stranded \subseteq Days /\ faults \in 0..MaxFaults
  BY <1>0 DEF TypeOK, Phases
<1>2. Start \in Int /\ End \in Int /\ MaxFaults \in Nat /\ MaxSkew \in Nat /\ MaxAge \in Nat /\ MaxAge <= Start
  BY ConstantFacts
<1>3. ASSUME NEW p \in Processes, Boot(p) PROVE TypeOK'
  <2>1. phase' \in [Processes -> Phases] /\ todo' \in [Processes -> SUBSET (Files \cup Days)]
    BY <1>0, <1>3, GotoFacts DEF Boot, Phases
  <2> QED BY <1>1, <1>3, <2>1 DEF Boot, TypeOK, Phases
<1>4. ASSUME NEW p \in Processes, ReadApplied(p) PROVE TypeOK'
  <2>1. phase' \in [Processes -> Phases] /\ todo' \in [Processes -> SUBSET (Files \cup Days)]
    BY <1>0, <1>4, GotoFacts DEF ReadApplied, Phases
  <2>2. lock' = {p} /\ lock' \subseteq Processes
    BY <1>4 DEF ReadApplied, LockTaken
  <2>3. Cardinality(lock') <= 1
    <3>1. Cardinality({p}) = 1
      BY FS_Singleton
    <3> QED BY <2>2, <3>1
  <2> QED BY <1>1, <1>4, <2>1, <2>2, <2>3 DEF ReadApplied, TypeOK, Phases
<1>5. ASSUME NEW p \in Processes, Migrate(p) PROVE TypeOK'
  <2>1. applied' \in {{}, {1}, Files} /\ partitions' \subseteq Days
    BY <1>5, MigrateFacts
  <2>2. phase' \in [Processes -> Phases] /\ todo' \in [Processes -> SUBSET (Files \cup Days)]
    <3>1. todo[p] \ {Min(todo[p])} \subseteq Files \cup Days
      BY <1>1
    <3> QED BY <1>0, <1>5, <3>1, GotoFacts DEF Migrate, Phases
  <2> QED BY <1>1, <1>5, <2>1, <2>2 DEF Migrate, TypeOK, Phases
<1>6. ASSUME NEW p \in Processes, Unlock(p) PROVE TypeOK'
  <2>1. phase' \in [Processes -> Phases] /\ todo' \in [Processes -> SUBSET (Files \cup Days)]
    <3>1. Window(now) \ partitions \subseteq Files \cup Days
      BY <1>1, DaysFacts
    <3> QED BY <1>0, <1>6, <3>1, GotoFacts DEF Unlock, Phases
  <2>2. lock' \subseteq lock /\ IsFiniteSet(lock)
    <3>1. \A q, r \in lock : q = r
      BY <1>0 DEF LockInv
    <3>2. lock = {} \/ \E q \in lock : lock = {q}
      BY <3>1
    <3>3. IsFiniteSet(lock)
      BY <3>2, FS_EmptySet, FS_Singleton
    <3> QED BY <1>6, <3>3 DEF Unlock
  <2>3. Cardinality(lock') <= 1
    BY <1>1, <2>2, FS_Subset, FS_CardinalityType
  <2>4. lock' \subseteq Processes /\ at' \in [Processes -> Start..End]
    BY <1>1, <1>6, <2>2 DEF Unlock
  <2> QED BY <1>1, <1>6, <2>1, <2>3, <2>4 DEF Unlock, TypeOK, Phases
<1>7. ASSUME NEW p \in Processes, Serves(p) PROVE TypeOK'
  <2>0. /\ UNCHANGED <<now, applied, lock, occurred, pending, stranded, faults>>
        /\ phase' \in [Processes -> Phases]
    BY <1>0, <1>7, ServesFacts
  <2>1. at' \in [Processes -> Start..End]
    BY <1>1, <1>7 DEF Serves, RunOnce, Create, Created, Drop, Dropped, SweepDefault, SweepMinutes
  <2>2. todo' \in [Processes -> SUBSET (Files \cup Days)]
    <3>1. Window(now) \subseteq Days
      BY <1>1, DaysFacts
    <3>2. \E ph, work : Goto(p, ph, work) /\ work \subseteq Files \cup Days
      <4>1. CASE RunOnce(p)
        BY <3>1, <4>1 DEF RunOnce
      <4>2. CASE Create(p) \/ Drop(p)
        <5>1. todo[p] \ {Min(todo[p])} \subseteq Files \cup Days
          BY <1>1
        <5> QED BY <4>2, <5>1 DEF Create, Drop
      <4>3. CASE Created(p)
        <5>1. {d \in partitions : Expired(d, Raw(at[p]))} \subseteq Days
          BY <1>1
        <5> QED BY <4>3, <5>1 DEF Created
      <4>4. CASE Dropped(p)
        BY <4>4 DEF Dropped
      <4>5. CASE SweepDefault(p)
        BY <4>5 DEF SweepDefault
      <4>6. CASE SweepMinutes(p)
        BY <4>6 DEF SweepMinutes
      <4> QED BY <1>7, <4>1, <4>2, <4>3, <4>4, <4>5, <4>6 DEF Serves
    <3> QED BY <1>0, <3>2, GotoFacts
  <2>3. partitions' \subseteq Days
    <3>1. CASE Create(p)
      <4>1. todo[p] \in SUBSET Nat /\ todo[p] # {} /\ todo[p] \subseteq Days
        BY <3>1, DaysFacts DEF Create, IInv, ClockInv, Served, Phases
      <4>2. Min(todo[p]) \in Days
        BY <4>1, LeastIn
      <4> QED BY <1>1, <3>1, <4>2 DEF Create
    <3> QED BY <1>1, <1>7, <3>1 DEF Serves, RunOnce, Create, Created, Drop, Dropped, SweepDefault, SweepMinutes
  <2>4. rows' \subseteq Events /\ spill' \subseteq Events \ rows' /\ counted' \in [Events -> Nat]
    <3>1. rows' \subseteq rows /\ spill' \subseteq spill
      BY <1>7 DEF Serves, RunOnce, Create, Created, Drop, Dropped, SweepDefault, SweepMinutes
    <3>2. counted' \in [Events -> Nat]
      <4>1. CASE SweepMinutes(p)
        BY <1>1, <4>1 DEF SweepMinutes
      <4> QED BY <1>1, <1>7, <4>1 DEF Serves, RunOnce, Create, Created, Drop, Dropped, SweepDefault
    <3> QED BY <1>1, <3>1, <3>2
  <2> QED BY <1>1, <2>0, <2>1, <2>2, <2>3, <2>4 DEF TypeOK, Phases
<1>8. ASSUME NEW p \in Processes, Fails(p) PROVE TypeOK'
  <2>1. phase' \in [Processes -> Phases] /\ todo' \in [Processes -> SUBSET (Files \cup Days)]
    <3>1. PICK ph \in {"idle", "down"} : Goto(p, ph, {})
      BY <1>8 DEF Fails
    <3> QED BY <1>0, <3>1, GotoFacts DEF Phases
  <2>2. lock' \subseteq lock /\ IsFiniteSet(lock)
    <3>1. \A q, r \in lock : q = r
      BY <1>0 DEF LockInv
    <3>2. lock = {} \/ \E q \in lock : lock = {q}
      BY <3>1
    <3>3. IsFiniteSet(lock)
      BY <3>2, FS_EmptySet, FS_Singleton
    <3> QED BY <1>8, <3>3 DEF Fails
  <2>3. Cardinality(lock') <= 1
    BY <1>1, <2>2, FS_Subset, FS_CardinalityType
  <2>4. pending' \subseteq pending /\ faults' \in 0..MaxFaults
    BY <1>1, <1>2, <1>8 DEF Fails
  <2> QED BY <1>1, <1>8, <2>1, <2>2, <2>3, <2>4 DEF Fails, TypeOK, Phases
<1>9. CASE Accept
  <2>1. PICK e \in Events, t \in (now - MaxAge)..(now + MaxSkew) :
           /\ occurred' = [occurred EXCEPT ![e] = t] \/ occurred' = occurred
           /\ pending' = pending \cup {<<e, now>>}
    BY <1>9 DEF Accept
  <2>2. t \in 0..(End + MaxSkew)
    BY <1>1, <1>2
  <2>3. occurred' \in [Events -> {NotYet} \cup 0..(End + MaxSkew)]
    BY <1>1, <2>1, <2>2
  <2>4. pending' \subseteq Events \X (Start..End)
    BY <1>1, <2>1
  <2> QED BY <1>1, <1>9, <2>3, <2>4 DEF Accept, TypeOK, Phases
<1>10. CASE Write
  <2>1. PICK w \in pending :
           /\ pending' = pending \ {w}
           /\ \/ UNCHANGED <<rows, spill, counted>>
              \/ /\ w[1] \notin rows \cup spill
                 /\ counted' = [counted EXCEPT ![w[1]] = @ + 1]
                 /\ \/ rows' = rows \cup {w[1]} /\ UNCHANGED spill
                    \/ spill' = spill \cup {w[1]} /\ UNCHANGED rows
    BY <1>10 DEF Write
  <2>2. w[1] \in Events
    BY <1>1
  <2>3. rows' \subseteq Events /\ spill' \subseteq Events \ rows' /\ counted' \in [Events -> Nat]
    BY <1>1, <2>1, <2>2
  <2>4. pending' \subseteq pending
    BY <2>1
  <2> QED BY <1>1, <1>10, <2>3, <2>4 DEF Write, TypeOK, Phases
<1>11. CASE Tick
  <2>1. now' \in Start..End
    BY <1>1, <1>2, <1>11 DEF Tick
  <2> QED BY <1>1, <1>11, <2>1 DEF Tick, TypeOK, Phases
<1>12. CASE UNCHANGED vars
  BY <1>1, <1>12 DEF vars, TypeOK, Phases
<1> QED BY <1>3, <1>4, <1>5, <1>6, <1>7, <1>8, <1>9, <1>10, <1>11, <1>12 DEF Next, Upkeep, Serves

-----------------------------------------------------------------------------
(* The lock, the clock and what waits.                                     *)

LEMMA NextLock == IInv /\ [Next]_vars => LockInv'
<1> SUFFICES ASSUME IInv, [Next]_vars PROVE LockInv'
  OBVIOUS
<1>0. /\ TypeOK /\ LockInv /\ lock \subseteq Processes /\ phase \in [Processes -> Phases]
      /\ "starting" \in Served /\ "idle" \in Served /\ "down" \notin Served /\ "locking" \notin Served
      /\ "migrating" \notin Served
  BY DEF IInv, TypeOK, Phases, Served
<1>1. ASSUME NEW p \in Processes, Boot(p) PROVE LockInv'
  <2>1. /\ phase[p] = "down" /\ phase'[p] = "locking" /\ UNCHANGED <<lock, applied, pending>>
        /\ \A q \in Processes \ {p} : phase'[q] = phase[q] /\ todo'[q] = todo[q]
    BY <1>0, <1>1, GotoFacts DEF Boot
  <2> QED BY <1>0, <2>1 DEF LockInv
<1>2. ASSUME NEW p \in Processes, ReadApplied(p) PROVE LockInv'
  <2>1. /\ phase[p] = "locking" /\ phase'[p] = "migrating" /\ todo'[p] = Files \ applied
        /\ lock = {} /\ lock' = {p} /\ UNCHANGED <<applied, pending>>
        /\ \A q \in Processes \ {p} : phase'[q] = phase[q] /\ todo'[q] = todo[q]
    BY <1>0, <1>2, GotoFacts DEF ReadApplied, LockTaken
  <2> QED BY <1>0, <2>1 DEF LockInv
<1>3. ASSUME NEW p \in Processes, Migrate(p) PROVE LockInv'
  <2>1. /\ phase[p] = "migrating" /\ phase'[p] = "migrating" /\ todo'[p] = Files \ applied'
        /\ applied # Files /\ UNCHANGED <<lock, pending>>
        /\ \A q \in Processes \ {p} : phase'[q] = phase[q] /\ todo'[q] = todo[q]
    BY <1>0, <1>3, GotoFacts, MigrateFacts DEF Migrate
  <2> QED BY <1>0, <2>1 DEF LockInv
<1>4. ASSUME NEW p \in Processes, Unlock(p) PROVE LockInv'
  <2>1. /\ phase[p] = "migrating" /\ phase'[p] = "starting" /\ todo[p] = {}
        /\ lock' = lock \ {p} /\ UNCHANGED <<applied, pending>>
        /\ \A q \in Processes \ {p} : phase'[q] = phase[q] /\ todo'[q] = todo[q]
    BY <1>0, <1>4, GotoFacts DEF Unlock
  <2>2. p \in lock /\ applied \subseteq Files
    BY <1>0, <2>1 DEF LockInv, TypeOK, Files
  <2>3. applied = Files
    BY <1>0, <2>1, <2>2 DEF LockInv
  <2> QED BY <1>0, <2>1, <2>2, <2>3 DEF LockInv
<1>5. ASSUME NEW p \in Processes, Serves(p) PROVE LockInv'
  <2>1. /\ UNCHANGED <<lock, applied, pending>> /\ phase[p] \in Served /\ phase'[p] \in Served
        /\ \A q \in Processes \ {p} : phase'[q] = phase[q] /\ todo'[q] = todo[q]
    BY <1>0, <1>5, ServesFacts
  <2> QED BY <1>0, <2>1 DEF LockInv
<1>6. ASSUME NEW p \in Processes, Fails(p) PROVE LockInv'
  <2>1. /\ \/ phase[p] \in Served /\ phase'[p] = "idle" /\ UNCHANGED lock
           \/ phase'[p] = "down" /\ lock' = lock \ {p}
        /\ UNCHANGED applied /\ pending' \subseteq pending
        /\ \A q \in Processes \ {p} : phase'[q] = phase[q] /\ todo'[q] = todo[q]
    BY <1>0, <1>6, GotoFacts DEF Fails, Served, Phases
  <2> QED BY <1>0, <2>1 DEF LockInv
<1>7. CASE Accept
  <2>1. UNCHANGED <<lock, applied, phase, todo>> /\ \E p \in Processes : phase[p] \in Served
    BY <1>0, <1>7 DEF Accept, Up, Served
  <2> QED BY <1>0, <2>1 DEF LockInv
<1>8. CASE Write
  <2>1. UNCHANGED <<lock, applied, phase, todo>> /\ pending' \subseteq pending
    BY <1>8 DEF Write
  <2> QED BY <1>0, <2>1 DEF LockInv
<1>9. CASE Tick \/ UNCHANGED vars
  <2>1. UNCHANGED <<lock, applied, phase, todo, pending>>
    BY <1>9 DEF Tick, vars
  <2> QED BY <1>0, <2>1 DEF LockInv
<1> QED BY <1>1, <1>2, <1>3, <1>4, <1>5, <1>6, <1>7, <1>8, <1>9 DEF Next, Upkeep, Serves

LEMMA NextClock == IInv /\ [Next]_vars => ClockInv'
<1> SUFFICES ASSUME IInv, [Next]_vars, NEW q \in Processes
             PROVE  /\ at'[q] <= now'
                    /\ phase'[q] \in Served => now' <= at'[q] + 1
                    /\ phase'[q] \in Served => todo'[q] \subseteq Days
                    /\ phase'[q] = "dropping" => todo'[q] \subseteq ExpiredDays(at'[q])
  BY DEF ClockInv, ExpiredDays, Expired, Raw, Days, Day
<1>0. /\ TypeOK /\ now \in Start..End /\ now \in Int /\ at \in [Processes -> Start..End] /\ at[q] \in Int
      /\ at[q] <= now
      /\ phase[q] \in Served => now <= at[q] + 1
      /\ phase[q] \in Served => todo[q] \subseteq Days
      /\ phase[q] = "dropping" => todo[q] \subseteq ExpiredDays(at[q])
      /\ partitions \subseteq Days /\ phase \in [Processes -> Phases]
  BY ConstantFacts DEF IInv, ClockInv, TypeOK, Phases
<1> DEFINE Good == /\ at'[q] <= now'
                   /\ phase'[q] \in Served => now' <= at'[q] + 1
                   /\ phase'[q] \in Served => todo'[q] \subseteq Days
                   /\ phase'[q] = "dropping" => todo'[q] \subseteq ExpiredDays(at'[q])
<1>1. ASSUME UNCHANGED now, at'[q] = at[q], phase'[q] \notin Served PROVE Good
  BY <1>0, <1>1 DEF Served, Phases
<1>2. ASSUME UNCHANGED now, at'[q] = at[q], phase'[q] = phase[q], todo'[q] \subseteq todo[q] PROVE Good
  BY <1>0, <1>2
<1>3. ASSUME UNCHANGED now, at'[q] = now, todo'[q] \subseteq Days, phase'[q] # "dropping" PROVE Good
  BY <1>0, <1>3
<1>4. ASSUME UNCHANGED now, at'[q] = at[q], phase[q] \in Served, todo'[q] = {} PROVE Good
  BY <1>0, <1>4
<1>5. ASSUME NEW p \in Processes, Boot(p) \/ ReadApplied(p) \/ Migrate(p) \/ Unlock(p) PROVE Good
  <2>1. CASE p # q
    <3>1. UNCHANGED now /\ at'[q] = at[q] /\ phase'[q] = phase[q] /\ todo'[q] = todo[q]
      BY <1>0, <1>5, <2>1, GotoFacts DEF Boot, ReadApplied, Migrate, Unlock
    <3> QED BY <1>2, <3>1
  <2>2. CASE p = q /\ Unlock(p)
    <3>1. UNCHANGED now /\ at'[q] = now /\ phase'[q] = "starting" /\ todo'[q] \subseteq Days
      BY <1>0, <2>2, GotoFacts, DaysFacts DEF Unlock
    <3> QED BY <1>3, <3>1
  <2>3. CASE p = q /\ ~Unlock(p)
    <3>1. UNCHANGED now /\ at'[q] = at[q] /\ phase'[q] \notin Served
      BY <1>0, <1>5, <2>3, GotoFacts DEF Boot, ReadApplied, Migrate, Served, Phases
    <3> QED BY <1>1, <3>1
  <2> QED BY <2>1, <2>2, <2>3
<1>6. ASSUME NEW p \in Processes, Serves(p), p # q PROVE Good
  <2>1. UNCHANGED now /\ phase'[q] = phase[q] /\ todo'[q] = todo[q]
    BY <1>0, <1>6, ServesFacts
  <2>2. at'[q] = at[q]
    BY <1>0, <1>6 DEF Serves, RunOnce, Create, Created, Drop, Dropped, SweepDefault, SweepMinutes
  <2> QED BY <1>2, <2>1, <2>2
<1>7. CASE RunOnce(q)
  <2>1. UNCHANGED now /\ at'[q] = now /\ phase'[q] = "creating" /\ todo'[q] \subseteq Days
    BY <1>0, <1>7, GotoFacts, DaysFacts DEF RunOnce
  <2> QED BY <1>3, <2>1
<1>8. CASE Create(q) \/ Drop(q)
  <2>1. UNCHANGED <<now, at>> /\ phase'[q] = phase[q] /\ todo'[q] \subseteq todo[q]
    BY <1>0, <1>8, GotoFacts DEF Create, Drop
  <2> QED BY <1>2, <2>1
<1>9. CASE Dropped(q) \/ SweepDefault(q) \/ SweepMinutes(q)
  <2>1. UNCHANGED <<now, at>> /\ phase[q] \in Served /\ todo'[q] = {}
    BY <1>0, <1>9, GotoFacts DEF Dropped, SweepDefault, SweepMinutes, Served, Phases
  <2> QED BY <1>4, <2>1
<1>10. CASE Created(q)
  <2>1. UNCHANGED <<now, at>> /\ phase[q] \in Served
    BY <1>10 DEF Created, Served, Phases
  <2>2. todo'[q] = {} \/ todo'[q] \subseteq ExpiredDays(at[q])
    BY <1>0, <1>10, GotoFacts DEF Created, ExpiredDays
  <2>3. ExpiredDays(at[q]) \subseteq Days
    BY DEF ExpiredDays
  <2> QED BY <1>0, <2>1, <2>2, <2>3
<1>11. ASSUME NEW p \in Processes, Fails(p) PROVE Good
  <2>1. CASE p # q
    <3>1. UNCHANGED now /\ at'[q] = at[q] /\ phase'[q] = phase[q] /\ todo'[q] = todo[q]
      BY <1>0, <1>11, <2>1, GotoFacts DEF Fails
    <3> QED BY <1>2, <3>1
  <2>2. CASE p = q
    <3>1. /\ UNCHANGED <<now, at>> /\ todo'[q] = {}
          /\ phase[q] \in Served \/ phase'[q] = "down"
      BY <1>0, <1>11, <2>2, GotoFacts DEF Fails, Served, Phases
    <3> QED BY <1>1, <1>4, <3>1 DEF Served, Phases
  <2> QED BY <2>1, <2>2
<1>12. CASE Accept \/ Write \/ UNCHANGED vars
  <2>1. UNCHANGED <<now, at, phase, todo>>
    BY <1>12 DEF Accept, Write, vars
  <2> QED BY <1>2, <2>1
<1>13. CASE Tick
  <2>1. /\ now' = now + 1 /\ UNCHANGED <<at, phase, todo>>
        /\ phase[q] \in Served => at[q] = now
    BY <1>0, <1>13 DEF Tick, Up, Served, Phases
  <2> QED BY <1>0, <2>1
<1> QED BY <1>5, <1>6, <1>7, <1>8, <1>9, <1>10, <1>11, <1>12, <1>13 DEF Next, Upkeep, Serves

LEMMA NextPending == IInv /\ [Next]_vars => PendingInv'
<1> SUFFICES ASSUME IInv, [Next]_vars, NEW w \in pending'
             PROVE  /\ occurred'[w[1]] # NotYet
                    /\ w[2] <= now' /\ now' <= w[2] + MaxWait
                    /\ w[2] - MaxAge <= occurred'[w[1]] /\ occurred'[w[1]] <= w[2] + MaxSkew
  BY DEF PendingInv
<1>0. /\ TypeOK /\ PendingInv /\ now \in Start..End /\ now \in Int
      /\ occurred \in [Events -> {NotYet} \cup 0..(End + MaxSkew)]
      /\ pending \subseteq Events \X (Start..End)
      /\ MaxAge \in Nat /\ MaxSkew \in Nat /\ MaxWait \in Nat /\ Start \in Nat /\ End \in Nat /\ MaxAge <= Start
  BY ConstantFacts DEF IInv, TypeOK
<1>1. CASE w \in pending /\ UNCHANGED <<now, occurred>>
  BY <1>0, <1>1 DEF PendingInv
<1>2. CASE Accept
  <2>1. PICK e \in Events, t \in (now - MaxAge)..(now + MaxSkew) :
           /\ \/ occurred[e] = NotYet /\ occurred' = [occurred EXCEPT ![e] = t]
              \/ t = occurred[e] /\ occurred' = occurred
           /\ pending' = pending \cup {<<e, now>>}
           /\ now' = now
    BY <1>2 DEF Accept
  <2>2. t \in Int /\ t # NotYet /\ now - MaxAge <= t /\ t <= now + MaxSkew /\ occurred'[e] = t
    BY <1>0, <2>1 DEF NotYet
  <2>3. CASE w = <<e, now>>
    BY <1>0, <2>1, <2>2, <2>3
  <2>4. CASE w \in pending
    <3>1. occurred'[w[1]] = occurred[w[1]]
      BY <1>0, <2>1, <2>4 DEF PendingInv
    <3> QED BY <1>0, <2>1, <2>4, <3>1 DEF PendingInv
  <2> QED BY <2>1, <2>3, <2>4
<1>3. CASE Write
  BY <1>1, <1>3 DEF Write
<1>4. CASE Tick
  <2>1. w \in pending /\ UNCHANGED occurred /\ now' = now + 1 /\ now - w[2] < MaxWait
    BY <1>4 DEF Tick
  <2>2. w[2] \in Int
    BY <1>0, <2>1
  <2> QED BY <1>0, <2>1, <2>2 DEF PendingInv
<1>5. ASSUME NEW p \in Processes, Upkeep(p) \/ Fails(p) PROVE w \in pending /\ UNCHANGED <<now, occurred>>
  <2>1. CASE Upkeep(p)
    BY <2>1 DEF Upkeep, Boot, ReadApplied, Migrate, Unlock, RunOnce, Create, Created, Drop, Dropped,
                SweepDefault, SweepMinutes
  <2>2. CASE Fails(p)
    BY <2>2 DEF Fails
  <2> QED BY <1>5, <2>1, <2>2
<1>6. CASE UNCHANGED vars
  BY <1>1, <1>6 DEF vars
<1> QED BY <1>1, <1>2, <1>3, <1>4, <1>5, <1>6 DEF Next

-----------------------------------------------------------------------------
(* Deduplication.                                                          *)

LEMMA NextCount == IInv /\ [Next]_vars => CountInv'
<1> SUFFICES ASSUME IInv, [Next]_vars, NEW e \in Events
             PROVE  /\ counted'[e] \in {0, 1}
                    /\ occurred'[e] = NotYet => e \notin rows' \cup spill' /\ counted'[e] = 0
                    /\ occurred'[e] >= now' - MaxAge - MaxWait =>
                          (counted'[e] = 1 <=> e \in rows' \cup spill')
  BY DEF CountInv
<1> DEFINE Good == /\ counted'[e] \in {0, 1}
                   /\ occurred'[e] = NotYet => e \notin rows' \cup spill' /\ counted'[e] = 0
                   /\ occurred'[e] >= now' - MaxAge - MaxWait =>
                         (counted'[e] = 1 <=> e \in rows' \cup spill')
<1>0. /\ TypeOK /\ now \in Int /\ occurred \in [Events -> {NotYet} \cup 0..(End + MaxSkew)]
      /\ occurred[e] \in Int /\ counted \in [Events -> Nat] /\ rows \subseteq Events /\ spill \subseteq Events
      /\ pending \subseteq Events \X (Start..End)
      /\ counted[e] \in {0, 1}
      /\ occurred[e] = NotYet => e \notin rows \cup spill /\ counted[e] = 0
      /\ occurred[e] >= now - MaxAge - MaxWait => (counted[e] = 1 <=> e \in rows \cup spill)
      /\ MaxAge \in Nat /\ MaxWait \in Nat /\ MaxSkew \in Nat /\ Start \in Nat /\ MaxAge <= Start /\ Start <= now
  BY ConstantFacts DEF IInv, CountInv, TypeOK, NotYet
<1>1. ASSUME UNCHANGED <<now, occurred, rows, spill, counted>> PROVE Good
  BY <1>0, <1>1
\* An event too old to be written may lose its row or its count.
<1>2. ASSUME UNCHANGED <<now, occurred>>, rows' \subseteq rows, spill' \subseteq spill,
             counted'[e] \in {0, counted[e]},
             e \in rows \cup spill /\ e \notin rows' \cup spill' =>
                occurred[e] < now - MaxAge - MaxWait,
             counted'[e] # counted[e] => occurred[e] < now - MaxAge - MaxWait
      PROVE  Good
  BY <1>0, <1>2
<1>3. ASSUME NEW p \in Processes, Drop(p) PROVE Good
  <2>1. todo[p] \subseteq ExpiredDays(at[p]) /\ todo[p] # {} /\ at[p] \in Int /\ at[p] <= now
    <3>1. at[p] \in Start..End
      BY DEF IInv, TypeOK
    <3> QED BY <1>3, <3>1, ConstantFacts DEF Drop, IInv, ClockInv
  <2>2. todo[p] \in SUBSET Nat
    BY <2>1, DaysFacts DEF ExpiredDays
  <2>3. Min(todo[p]) \in Int /\ Expired(Min(todo[p]), Raw(at[p]))
    BY <2>1, <2>2, LeastIn DEF ExpiredDays
  <2>4. Day(occurred[e]) = Min(todo[p]) => occurred[e] < now - MaxAge - MaxWait
    BY <1>0, <2>1, <2>3, ExpiredFacts
  <2>5. /\ UNCHANGED <<now, occurred, spill, counted>>
        /\ rows' = {x \in rows : Day(occurred[x]) # Min(todo[p])}
    BY <1>3 DEF Drop
  <2> QED BY <1>0, <1>2, <2>4, <2>5
<1>4. ASSUME NEW p \in Processes, SweepDefault(p) PROVE Good
  <2>1. at[p] \in Int /\ at[p] <= now
    <3>1. at[p] \in Start..End
      BY DEF IInv, TypeOK
    <3> QED BY <3>1, ConstantFacts DEF IInv, ClockInv
  <2>2. Raw(at[p]) < now - MaxAge - MaxWait /\ Raw(at[p]) \in Int
    <3>1. Raw(at[p]) \in Int
      BY <2>1, DatabaseAssumption DEF Raw, DatabaseAssumption
    <3> QED BY <1>0, <2>1, <3>1, ExpiredFacts
  <2>3. PICK b : b \subseteq {x \in spill : occurred[x] < Raw(at[p])} /\ spill' = spill \ b
    BY <1>4 DEF SweepDefault, Batches
  <2>4. UNCHANGED <<now, occurred, rows, counted>>
    BY <1>4 DEF SweepDefault
  <2> QED BY <1>0, <1>2, <2>2, <2>3, <2>4
<1>5. ASSUME NEW p \in Processes, SweepMinutes(p) PROVE Good
  <2>1. at[p] \in Int /\ at[p] <= now
    <3>1. at[p] \in Start..End
      BY DEF IInv, TypeOK
    <3> QED BY <3>1, ConstantFacts DEF IInv, ClockInv
  <2>2. Minute(at[p]) < now - MaxAge - MaxWait /\ Minute(at[p]) \in Int
    <3>1. Minute(at[p]) \in Int
      BY <2>1, DatabaseAssumption DEF Minute, DatabaseAssumption
    <3> QED BY <1>0, <2>1, <3>1, ExpiredFacts
  <2>3. PICK b : /\ b \subseteq {x \in Events : counted[x] > 0 /\ occurred[x] < Minute(at[p])}
                 /\ counted' = [x \in Events |-> IF x \in b THEN 0 ELSE counted[x]]
    BY <1>5 DEF SweepMinutes, Batches
  <2>4. UNCHANGED <<now, occurred, rows, spill>>
    BY <1>5 DEF SweepMinutes
  <2> QED BY <1>0, <1>2, <2>2, <2>3, <2>4
<1>6. CASE Accept
  <2>1. PICK x \in Events, t \in (now - MaxAge)..(now + MaxSkew) :
           \/ occurred[x] = NotYet /\ occurred' = [occurred EXCEPT ![x] = t]
           \/ occurred' = occurred
    BY <1>6 DEF Accept
  <2>2. UNCHANGED <<now, rows, spill, counted>>
    BY <1>6 DEF Accept
  <2>3. CASE occurred'[e] = occurred[e]
    BY <1>0, <2>2, <2>3
  <2>4. CASE occurred'[e] # occurred[e]
    <3>1. occurred[e] = NotYet /\ occurred'[e] = t
      BY <1>0, <2>1, <2>4
    <3>2. t # NotYet
      BY <1>0 DEF NotYet
    <3> QED BY <1>0, <2>2, <3>1, <3>2
  <2> QED BY <2>3, <2>4
<1>7. CASE Write
  <2>1. PICK w \in pending :
           \/ w[1] \in rows \cup spill /\ UNCHANGED <<rows, spill, counted>>
           \/ /\ w[1] \notin rows \cup spill
              /\ counted' = [counted EXCEPT ![w[1]] = @ + 1]
              /\ \/ rows' = rows \cup {w[1]} /\ UNCHANGED spill
                 \/ spill' = spill \cup {w[1]} /\ UNCHANGED rows
    BY <1>7 DEF Write
  <2>2. UNCHANGED <<now, occurred>>
    BY <1>7 DEF Write
  <2>3. CASE w[1] # e \/ w[1] \in rows \cup spill
    BY <1>0, <1>1, <2>1, <2>2, <2>3
  <2>4. CASE w[1] = e /\ w[1] \notin rows \cup spill
    <3>1. occurred[e] # NotYet /\ occurred[e] >= now - MaxAge - MaxWait
      <4>1. w[2] \in Int
        BY <1>0, ConstantFacts
      <4>2. /\ occurred[e] # NotYet /\ now <= w[2] + MaxWait /\ w[2] - MaxAge <= occurred[e]
        BY <2>4 DEF IInv, PendingInv
      <4> QED BY <1>0, <4>1, <4>2
    <3>2. counted[e] = 0
      BY <1>0, <2>4, <3>1
    <3>3. counted'[e] = 1 /\ e \in rows' \cup spill'
      BY <1>0, <2>1, <2>4, <3>2
    <3> QED BY <2>2, <3>1, <3>3
  <2> QED BY <2>3, <2>4
<1>8. CASE Tick
  <2>1. UNCHANGED <<occurred, rows, spill, counted>> /\ now' = now + 1
    BY <1>8 DEF Tick
  <2> QED BY <1>0, <2>1
<1>9. ASSUME NEW p \in Processes,
             \/ Boot(p) \/ ReadApplied(p) \/ Migrate(p) \/ Unlock(p) \/ Fails(p)
             \/ RunOnce(p) \/ Create(p) \/ Created(p) \/ Dropped(p)
      PROVE  Good
  <2>1. UNCHANGED <<now, occurred, rows, spill, counted>>
    BY <1>9 DEF Boot, ReadApplied, Migrate, Unlock, Fails, RunOnce, Create, Created, Dropped
  <2> QED BY <1>1, <2>1
<1>10. CASE UNCHANGED vars
  BY <1>1, <1>10 DEF vars
<1> QED BY <1>3, <1>4, <1>5, <1>6, <1>7, <1>8, <1>9, <1>10 DEF Next, Upkeep

LEMMA SpecIInv == Spec => []IInv
<1>1. IInv /\ [Next]_vars => IInv'
  BY NextType, NextLock, NextClock, NextPending, NextCount DEF IInv
<1> QED BY InitIInv, <1>1, PTL DEF Spec

\* Every variable of the upkeep stays in its type; one process at a time migrates.
THEOREM TypeCorrect == Spec => []TypeOK
<1>1. IInv => TypeOK
  BY DEF IInv
<1> QED BY SpecIInv, <1>1, PTL

\* Processes that start together, and end at any moment, never apply a file twice.
THEOREM NoCollision == Spec => []MigrationsNeverCollide
<1>1. IInv => MigrationsNeverCollide
  BY DEF IInv, LockInv, MigrationsNeverCollide
<1> QED BY SpecIInv, <1>1, PTL

\* Deduplication outlives retention, for every setting that keeps rows and minutes
\* for longer than an event may be old and wait.
THEOREM CountedExactlyOnce == Spec => []CountedOnce
<1>1. IInv => CountedOnce
  <2> SUFFICES ASSUME IInv, NEW e \in Events
               PROVE  /\ counted[e] <= 1
                      /\ e \in rows \cup spill /\ occurred[e] >= now - MaxAge => counted[e] = 1
                      /\ counted[e] = 1 /\ occurred[e] >= now - MaxAge => e \in rows \cup spill
    BY DEF CountedOnce
  <2>1. /\ counted[e] \in {0, 1}
        /\ occurred[e] >= now - MaxAge - MaxWait => (counted[e] = 1 <=> e \in rows \cup spill)
    BY DEF IInv, CountInv
  <2>2. occurred[e] \in Int /\ now \in Int /\ MaxAge \in Nat /\ MaxWait \in Nat
    BY ConstantFacts DEF IInv, TypeOK, NotYet
  <2> QED BY <2>1, <2>2
<1> QED BY SpecIInv, <1>1, PTL

-----------------------------------------------------------------------------
(* Partitions are ready in time.                                           *)

\* What an upkeep run found to do covers what it did not find.
LEMMA WindowFacts ==
    ASSUME NEW t \in Start..End, NEW d \in Int, Day(t) - DaysBack <= d, d <= Day(t) + DaysAhead
    PROVE  d \in partitions \cup (Window(t) \ partitions)
<1>1. t \in Int /\ Day(t) \in Int /\ DaysBack \in Nat /\ DaysAhead \in Nat
  <2>1. t \in Int
    BY ConstantFacts
  <2> QED BY <2>1, DayFacts, DaysBackFacts, ConstantFacts
<1> QED BY <1>1 DEF Window

LEMMA InitReady == Init => ReadyInv
<1> SUFFICES ASSUME Init PROVE ReadyInv
  OBVIOUS
<1>1. /\ stranded = SpillDays /\ pending = {}
      /\ \A p \in Processes : phase[p] = "down"
  BY DEF Init
<1>2. Up = {}
  BY <1>1 DEF Up
<1> QED BY <1>1, <1>2 DEF ReadyInv

Serving(ph) == ph \notin {"down", "locking", "migrating", "starting"}

\* A run that creates counts on what the run before left.
LastRun(ph, t) == IF ph = "creating" THEN t - 1 ELSE t

LEMMA NextReady == IInv /\ ReadyInv /\ [Next]_vars => ReadyInv'
<1> DEFINE Back(t) == Day(t) - DaysBack
           Ready(d, q) == Serving(phase[q]) /\ Back(now) <= d
                          /\ d <= Day(LastRun(phase[q], at[q])) + DaysAhead => d \in partitions
           Found(d, q) == phase[q] \in {"starting", "creating"} /\ Back(now) <= d
                          /\ d <= Day(at[q]) + DaysAhead => d \in partitions \cup todo[q]
<1> SUFFICES ASSUME IInv, ReadyInv, [Next]_vars, faults' = 0, NEW d \in Days \ stranded'
             PROVE  /\ \A e \in spill' : Day(occurred'[e]) # d
                    /\ \A q \in Processes :
                          (Serving(phase'[q]) /\ Back(now') <= d
                           /\ d <= Day(LastRun(phase'[q], at'[q])) + DaysAhead) => d \in partitions'
                    /\ \A q \in Processes :
                          (phase'[q] \in {"starting", "creating"} /\ Back(now') <= d
                           /\ d <= Day(at'[q]) + DaysAhead) => d \in partitions' \cup todo'[q]
                    /\ \A w \in pending' : Day(occurred'[w[1]]) = d => d \in partitions'
  BY DEF ReadyInv, SpillDays, Up, Horizon, Serving, LastRun, Days, Day, DaysBack
<1> DEFINE Clean == \A e \in spill' : Day(occurred'[e]) # d
           ReadyNext(q) == (Serving(phase'[q]) /\ Back(now') <= d
                            /\ d <= Day(LastRun(phase'[q], at'[q])) + DaysAhead) => d \in partitions'
           FoundNext(q) == (phase'[q] \in {"starting", "creating"} /\ Back(now') <= d
                            /\ d <= Day(at'[q]) + DaysAhead) => d \in partitions' \cup todo'[q]
           Kept == \A w \in pending' : Day(occurred'[w[1]]) = d => d \in partitions'
<1>0. /\ TypeOK /\ now \in Start..End /\ now \in Int /\ d \in Int /\ d \in Nat /\ at \in [Processes -> Start..End]
      /\ occurred \in [Events -> {NotYet} \cup 0..(End + MaxSkew)]
      /\ \A q \in Processes : at[q] \in Int /\ at[q] <= now
      /\ \A q \in Processes : phase[q] \in Served => now <= at[q] + 1
      /\ pending \subseteq Events \X (Start..End) /\ spill \subseteq Events
      /\ phase \in [Processes -> Phases]
  BY ConstantFacts, DaysFacts DEF IInv, ClockInv, TypeOK, Phases
<1>a. faults = 0 /\ stranded' = stranded /\ (\A p \in Processes : ~Fails(p))
  <2>1. faults \in Nat
    BY <1>0, ConstantFacts DEF TypeOK
  <2>2. \A p \in Processes : ~Fails(p)
    BY <2>1 DEF Fails
  <2>3. stranded' = stranded /\ faults' = faults
    BY <2>2 DEF Next, Upkeep, Boot, ReadApplied, Migrate, Unlock, RunOnce, Create, Created, Drop, Dropped,
                SweepDefault, SweepMinutes, Accept, Write, Tick, vars
  <2> QED BY <2>2, <2>3
<1>b. /\ \A e \in spill : Day(occurred[e]) # d
      /\ \A q \in Processes : Ready(d, q) /\ Found(d, q)
      /\ \A w \in pending : Day(occurred[w[1]]) = d => d \in partitions
  BY <1>a DEF ReadyInv, SpillDays, Up, Horizon, Serving, LastRun
<1>c. \A t \in Int : Day(t) \in Int /\ Back(t) \in Int
  BY DayFacts, DaysBackFacts
\* Who does not move keeps what it has.
<1>1. ASSUME NEW q \in Processes, UNCHANGED now, partitions \subseteq partitions',
             phase'[q] = phase[q], at'[q] = at[q], todo'[q] = todo[q]
      PROVE  ReadyNext(q) /\ FoundNext(q)
  BY <1>1, <1>b
<1>2. ASSUME UNCHANGED <<occurred, pending>>, spill' \subseteq spill, partitions \subseteq partitions'
      PROVE  Clean /\ Kept
  BY <1>2, <1>b
<1> DEFINE Goal == Clean /\ (\A q \in Processes : ReadyNext(q)) /\ (\A q \in Processes : FoundNext(q)) /\ Kept
<1>3. ASSUME NEW p \in Processes, ReadyNext(p), FoundNext(p),
             UNCHANGED <<now, occurred, pending>>, spill' \subseteq spill, partitions \subseteq partitions',
             \A q \in Processes \ {p} : phase'[q] = phase[q] /\ at'[q] = at[q] /\ todo'[q] = todo[q]
      PROVE  Goal
  <2>1. \A q \in Processes : ReadyNext(q) /\ FoundNext(q)
    <3> SUFFICES ASSUME NEW q \in Processes PROVE ReadyNext(q) /\ FoundNext(q)
      OBVIOUS
    <3>1. CASE q = p
      BY <1>3, <3>1
    <3>2. CASE q # p
      BY <1>1, <1>3, <3>2
    <3> QED BY <3>1, <3>2
  <2> QED BY <1>2, <1>3, <2>1
<1>4. ASSUME NEW p \in Processes, Boot(p) \/ ReadApplied(p) PROVE Goal
  <2>1. /\ UNCHANGED <<now, occurred, pending, spill, partitions, at>>
        /\ phase'[p] \in {"locking", "migrating"}
        /\ \A q \in Processes \ {p} : phase'[q] = phase[q] /\ todo'[q] = todo[q]
    BY <1>0, <1>4, GotoFacts DEF Boot, ReadApplied
  <2>2. ReadyNext(p) /\ FoundNext(p)
    BY <2>1 DEF Serving
  <2> QED BY <1>3, <2>1, <2>2
<1>5. ASSUME NEW p \in Processes, Migrate(p) PROVE Goal
  <2>1. applied # Files
    BY <1>5, MigrateFacts
  <2>2. pending = {} /\ \A q \in Processes : phase[q] \notin Served
    BY <2>1 DEF IInv, LockInv
  <2>3. /\ UNCHANGED <<occurred, pending, spill>> /\ phase'[p] = "migrating"
        /\ \A q \in Processes \ {p} : phase'[q] = phase[q]
    BY <1>0, <1>5, GotoFacts DEF Migrate
  <2>4. \A q \in Processes : phase'[q] \notin Served /\ phase'[q] \in Phases
    BY <1>0, <2>2, <2>3 DEF Served, Phases
  <2>5. \A q \in Processes : ReadyNext(q) /\ FoundNext(q)
    BY <2>4 DEF Served, Serving, Phases
  <2>6. Clean /\ Kept
    BY <1>b, <2>2, <2>3
  <2> QED BY <2>5, <2>6
<1>6. ASSUME NEW p \in Processes, Unlock(p) PROVE Goal
  <2>1. /\ UNCHANGED <<now, occurred, pending, spill, partitions>>
        /\ phase'[p] = "starting" /\ todo'[p] = Window(now) \ partitions /\ at'[p] = now
        /\ \A q \in Processes \ {p} : phase'[q] = phase[q] /\ todo'[q] = todo[q] /\ at'[q] = at[q]
    BY <1>0, <1>6, GotoFacts DEF Unlock
  <2>2. ReadyNext(p)
    BY <2>1 DEF Serving
  <2>3. FoundNext(p)
    BY <1>0, <2>1, WindowFacts
  <2> QED BY <1>3, <2>1, <2>2, <2>3
<1>7. ASSUME NEW p \in Processes, RunOnce(p) PROVE Goal
  <2>1. /\ UNCHANGED <<now, occurred, pending, spill, partitions>> /\ phase[p] = "idle"
        /\ phase'[p] = "creating" /\ todo'[p] = Window(now) \ partitions /\ at'[p] = now
        /\ \A q \in Processes \ {p} : phase'[q] = phase[q] /\ todo'[q] = todo[q] /\ at'[q] = at[q]
    BY <1>0, <1>7, GotoFacts DEF RunOnce
  <2>2. ReadyNext(p)
    <3>1. now - 1 <= at[p] /\ now - 1 \in Int /\ at[p] \in Int
      BY <1>0, <2>1 DEF Served, Phases
    <3>2. Day(now - 1) <= Day(at[p])
      BY <3>1, DayMonotone
    <3>3. (Back(now) <= d /\ d <= Day(at[p]) + DaysAhead) => d \in partitions
      BY <1>b, <2>1 DEF Serving, LastRun
    <3>4. LastRun(phase'[p], at'[p]) = now - 1
      BY <2>1 DEF LastRun
    <3>5. d <= Day(now - 1) + DaysAhead => d <= Day(at[p]) + DaysAhead
      BY <1>0, <1>c, <3>1, <3>2, ConstantFacts
    <3> QED BY <2>1, <3>3, <3>4, <3>5
  <2>3. FoundNext(p)
    BY <1>0, <2>1, WindowFacts
  <2> QED BY <1>3, <2>1, <2>2, <2>3
<1>8. ASSUME NEW p \in Processes, Create(p) PROVE Goal
  <2>1. /\ UNCHANGED <<now, occurred, pending, spill, at>> /\ phase'[p] = phase[p]
        /\ \A q \in Processes \ {p} : phase'[q] = phase[q] /\ todo'[q] = todo[q]
        /\ todo'[p] = todo[p] \ {Min(todo[p])}
        /\ partitions \subseteq partitions'
        /\ (\A e \in spill : Day(occurred[e]) # Min(todo[p])) => Min(todo[p]) \in partitions'
    BY <1>0, <1>8, GotoFacts DEF Create
  <2>2. ReadyNext(p)
    BY <1>b, <2>1
  <2>3. FoundNext(p)
    <3>1. d = Min(todo[p]) => d \in partitions'
      BY <1>b, <2>1
    <3> QED BY <1>b, <2>1, <3>1
  <2> QED BY <1>3, <2>1, <2>2, <2>3
<1>9. ASSUME NEW p \in Processes, Created(p) PROVE Goal
  <2>1. /\ UNCHANGED <<now, occurred, pending, spill, partitions, at>>
        /\ phase[p] \in {"starting", "creating"} /\ todo[p] = {}
        /\ phase'[p] \in {"idle", "dropping"}
        /\ \A q \in Processes \ {p} : phase'[q] = phase[q] /\ todo'[q] = todo[q]
    BY <1>0, <1>9, GotoFacts DEF Created
  <2>2. ReadyNext(p)
    <3>1. LastRun(phase'[p], at'[p]) = at[p]
      BY <2>1 DEF LastRun
    <3> QED BY <1>b, <2>1, <3>1
  <2>3. FoundNext(p)
    BY <2>1
  <2> QED BY <1>3, <2>1, <2>2, <2>3
<1>10. ASSUME NEW p \in Processes, Drop(p) PROVE Goal
  <2>1. /\ UNCHANGED <<now, occurred, pending, spill, at>>
        /\ phase[p] = "dropping" /\ todo[p] # {} /\ phase'[p] = "dropping"
        /\ \A q \in Processes \ {p} : phase'[q] = phase[q] /\ todo'[q] = todo[q]
        /\ partitions' = partitions \ {Min(todo[p])}
    BY <1>0, <1>10, GotoFacts DEF Drop
  <2>2. Min(todo[p]) \in Int /\ Expired(Min(todo[p]), Raw(at[p]))
    <3>1. todo[p] \subseteq ExpiredDays(at[p])
      BY <2>1 DEF IInv, ClockInv
    <3>2. todo[p] \in SUBSET Nat
      BY <3>1, DaysFacts DEF ExpiredDays
    <3> QED BY <2>1, <3>1, <3>2, LeastIn DEF ExpiredDays
  <2>3. Back(now) <= d => d # Min(todo[p])
    <3>1. Min(todo[p]) < Back(now)
      BY <1>0, <2>2, ExpiredFacts
    <3> QED BY <1>0, <1>c, <2>2, <3>1
  <2>4. \A q \in Processes : ReadyNext(q)
    <3> SUFFICES ASSUME NEW q \in Processes PROVE ReadyNext(q)
      OBVIOUS
    <3>1. phase'[q] = phase[q] /\ at'[q] = at[q]
      BY <2>1
    <3> QED BY <1>b, <2>1, <2>3, <3>1
  <2>5. \A q \in Processes : FoundNext(q)
    <3> SUFFICES ASSUME NEW q \in Processes PROVE FoundNext(q)
      OBVIOUS
    <3>1. CASE q = p
      BY <2>1, <3>1
    <3>2. CASE q # p
      BY <1>b, <2>1, <2>3, <3>2
    <3> QED BY <3>1, <3>2
  <2>6. Kept
    <3> SUFFICES ASSUME NEW w \in pending, Day(occurred[w[1]]) = d PROVE d # Min(todo[p])
      BY <1>b, <2>1
    <3>1. occurred[w[1]] \in Int /\ w[2] \in Int
      BY <1>0, ConstantFacts DEF NotYet
    <3>2. now <= w[2] + MaxWait /\ w[2] - MaxAge <= occurred[w[1]]
      BY DEF IInv, PendingInv
    <3>3. ~(occurred[w[1]] < now - MaxAge - MaxWait)
      BY <1>0, <3>1, <3>2, ConstantFacts
    <3> QED BY <1>0, <2>2, <3>1, <3>3, ExpiredFacts
  <2>7. Clean
    BY <1>b, <2>1
  <2> QED BY <2>4, <2>5, <2>6, <2>7
<1>11. ASSUME NEW p \in Processes, Dropped(p) \/ SweepDefault(p) \/ SweepMinutes(p) PROVE Goal
  <2>1. /\ UNCHANGED <<now, occurred, pending, partitions, at>> /\ spill' \subseteq spill
        /\ phase[p] \in {"dropping", "events_default", "agg_minute"}
        /\ phase'[p] \in {"events_default", "agg_minute", "idle"}
        /\ \A q \in Processes \ {p} : phase'[q] = phase[q] /\ todo'[q] = todo[q]
    BY <1>0, <1>11, GotoFacts DEF Dropped, SweepDefault, SweepMinutes
  <2>2. ReadyNext(p)
    <3>1. /\ LastRun(phase'[p], at'[p]) = at[p] /\ LastRun(phase[p], at[p]) = at[p]
          /\ Serving(phase[p])
      BY <2>1 DEF LastRun, Serving
    <3> QED BY <1>b, <2>1, <3>1
  <2>3. FoundNext(p)
    BY <2>1
  <2> QED BY <1>3, <2>1, <2>2, <2>3
<1>12. CASE Accept
  <2>1. PICK p \in Processes : Serving(phase[p])
    BY <1>12 DEF Accept, Up, Serving
  <2>2. PICK e \in Events, t \in (now - MaxAge)..(now + MaxSkew) :
           /\ \/ occurred[e] = NotYet /\ occurred' = [occurred EXCEPT ![e] = t]
              \/ t = occurred[e] /\ occurred' = occurred
           /\ pending' = pending \cup {<<e, now>>}
    BY <1>12 DEF Accept
  <2>3. UNCHANGED <<now, partitions, spill, phase, todo, at>>
    BY <1>12 DEF Accept
  <2>4. /\ \A x \in Events : occurred[x] # NotYet => occurred'[x] = occurred[x]
        /\ occurred'[e] = t /\ t \in Int /\ now - MaxAge <= t /\ t <= now + MaxSkew
    BY <1>0, <2>2, ConstantFacts
  <2>5. Clean
    <3>1. \A x \in spill : x \in Events /\ occurred[x] # NotYet
      BY <1>0 DEF IInv, CountInv
    <3> QED BY <1>b, <2>3, <2>4, <3>1
  <2>6. Day(t) = d => d \in partitions
    <3>1. now - MaxAge \in Int /\ now + MaxSkew \in Int
      BY <1>0, ConstantFacts
    <3>2. Day(now - MaxAge) <= Day(t) /\ Day(t) <= Day(now + MaxSkew)
      BY <2>4, <3>1, DayMonotone
    <3>3. Day(now - MaxAge) = Back(now)
      BY <1>0, DayBack
    <3>4. LastRun(phase[p], at[p]) \in Int /\ now <= LastRun(phase[p], at[p]) + 2
      BY <1>0, <2>1 DEF LastRun, Serving, Served, Phases
    <3>5. Day(now + MaxSkew) <= Day(LastRun(phase[p], at[p])) + DaysAhead
      BY <1>0, <3>4, AheadFacts
    <3>6. Day(t) <= Day(LastRun(phase[p], at[p])) + DaysAhead
      <4>1. Day(t) \in Int /\ Day(now + MaxSkew) \in Int /\ Day(LastRun(phase[p], at[p])) \in Int /\ DaysAhead \in Int
        BY <1>c, <2>4, <3>1, <3>4, ConstantFacts
      <4> QED BY <3>2, <3>5, <4>1
    <3> QED BY <1>b, <2>1, <3>2, <3>3, <3>6
  <2>7. Kept
    <3> SUFFICES ASSUME NEW w \in pending', Day(occurred'[w[1]]) = d PROVE d \in partitions
      BY <2>3
    <3>1. CASE w = <<e, now>>
      BY <2>4, <2>6, <3>1
    <3>2. CASE w \in pending
      <4>1. occurred[w[1]] # NotYet /\ w[1] \in Events
        BY <1>0, <3>2 DEF IInv, PendingInv
      <4> QED BY <1>b, <2>4, <3>2, <4>1
    <3> QED BY <2>2, <3>1, <3>2
  <2>8. \A q \in Processes : ReadyNext(q) /\ FoundNext(q)
    BY <1>1, <2>3
  <2> QED BY <2>5, <2>7, <2>8
<1>13. CASE Write
  <2>1. UNCHANGED <<now, partitions, occurred, phase, todo, at>> /\ pending' \subseteq pending
    BY <1>13 DEF Write
  <2>2. PICK w \in pending :
           spill' = spill \/ (Day(occurred[w[1]]) \notin partitions /\ spill' = spill \cup {w[1]})
    BY <1>13 DEF Write
  <2>3. Clean
    BY <1>b, <2>1, <2>2
  <2>4. \A q \in Processes : ReadyNext(q) /\ FoundNext(q)
    BY <1>1, <2>1
  <2>5. Kept
    BY <1>b, <2>1
  <2> QED BY <2>3, <2>4, <2>5
<1>14. CASE Tick
  <2>1. UNCHANGED <<partitions, occurred, spill, pending, phase, todo, at>> /\ now' = now + 1
    BY <1>14 DEF Tick
  <2>2. Back(now') <= d => Back(now) <= d
    <3>1. now' \in Int /\ now <= now'
      BY <1>0, <2>1
    <3>2. Day(now) <= Day(now')
      BY <1>0, <3>1, DayMonotone
    <3> QED BY <1>0, <3>1, <3>2, DayFacts, DaysBackFacts
  <2>3. \A q \in Processes : ReadyNext(q) /\ FoundNext(q)
    BY <1>b, <2>1, <2>2
  <2>4. Clean /\ Kept
    BY <1>2, <2>1
  <2> QED BY <2>3, <2>4
<1>15. CASE UNCHANGED vars
  <2>1. UNCHANGED <<now, partitions, occurred, spill, pending, phase, todo, at>>
    BY <1>15 DEF vars
  <2>2. \A q \in Processes : ReadyNext(q) /\ FoundNext(q)
    BY <1>1, <2>1
  <2>3. Clean /\ Kept
    BY <1>2, <2>1
  <2> QED BY <2>2, <2>3
<1>16. Goal
  BY <1>a, <1>4, <1>5, <1>6, <1>7, <1>8, <1>9, <1>10, <1>11, <1>12, <1>13, <1>14, <1>15 DEF Next, Upkeep
<1> QED BY <1>16

\* Without failures every day the API accepts has its partition before an event of it
\* is written, at startup, while an upkeep run creates, and also past midnight.
THEOREM PartitionsInTime == Spec => []DefaultGetsNothing
<1>1. IInv /\ ReadyInv => DefaultGetsNothing
  <2> SUFFICES ASSUME IInv, ReadyInv, faults = 0, NEW e \in spill PROVE Day(occurred[e]) \in stranded
    BY DEF DefaultGetsNothing, SpillDays
  <2>1. /\ e \in Events /\ occurred[e] # NotYet
        /\ occurred \in [Events -> {NotYet} \cup 0..(End + MaxSkew)]
    BY DEF IInv, TypeOK, CountInv
  <2>2. Day(occurred[e]) \in Days
    BY <2>1, DaysFacts
  <2> QED BY <2>2 DEF ReadyInv, SpillDays
<1> QED BY InitReady, NextReady, SpecIInv, <1>1, PTL DEF Spec
=============================================================================
