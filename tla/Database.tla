------------------------------ MODULE Database ------------------------------
(***************************************************************************)
(* The upkeep of the database by one or more API processes: migrations at  *)
(* startup (db/migrate.py), daily partitions (processing/partitions.py)    *)
(* and retention (processing/retention.py), next to the events they must   *)
(* not lose or count twice.                                                *)
(*                                                                         *)
(* Time is counted in ticks, a few to a day.  A statement or transaction   *)
(* of the database is a step; a process may end between any two.           *)
(***************************************************************************)
EXTENDS Integers, FiniteSets, FiniteSetsExt

CONSTANTS
    Processes,
    Events,       \* event identities
    TicksPerDay,
    MaxAge,       \* settings.max_event_age_s, in ticks
    MaxSkew,      \* settings.max_future_skew_s, rounded up to ticks
    RawDays,      \* policy.raw_days
    MinuteDays,   \* policy.minute_days
    DaysAhead,    \* policy.partition_days_ahead
    BatchSize,    \* policy.batch_size
    Start, End,   \* bounds: the clock
    MaxWait,      \* bound: ticks an accepted event may wait for the writer
    MaxFaults     \* bound: crashes and failed statements

DaysBack == MaxAge \div TicksPerDay

\* The floor of DaysBack loses a day otherwise; "raw rows must outlive
\* max_event_age_s", and here also the wait in the queue.
ASSUME DatabaseAssumption ==
    /\ TicksPerDay \in Nat \ {0} /\ MaxAge \in Nat /\ MaxAge % TicksPerDay = 0
    /\ MaxSkew \in Nat /\ RawDays \in Nat /\ MinuteDays \in Nat /\ DaysAhead \in Nat
    /\ MaxSkew + 2 <= DaysAhead * TicksPerDay
    /\ RawDays * TicksPerDay > MaxAge + MaxWait /\ MinuteDays * TicksPerDay > MaxAge + MaxWait
    /\ BatchSize \in Nat \ {0} /\ MaxFaults \in Nat /\ MaxWait \in Nat
    /\ Start \in Nat /\ End \in Nat /\ Start - MaxAge >= 0 /\ Start <= End

VARIABLES
    now,
    applied,     \* schema_migrations
    lock,        \* the processes that hold the advisory lock
    partitions,  \* the days that have a partition
    occurred,    \* occurred_at of each event, NotYet before it happens
    rows,        \* the events in daily partitions
    spill,       \* the events in events_default
    counted,     \* how many times the aggregates include each event
    pending,     \* accepted and not yet written: <<event, tick of its validation>>
    phase,       \* what each process is at
    todo,        \* the migrations, days or partitions it found to do
    at,          \* the "now" of its last upkeep run
    stranded,    \* history: the days of which the default partition held events at first
    faults

dataVars == <<occurred, rows, spill, counted, pending>>
jobVars == <<phase, todo, at>>
vars == <<now, applied, lock, partitions, dataVars, jobVars, stranded, faults>>

NotYet == 0 - 1
Files == {1, 2}  \* 001_init.sql, 002_partition_events.sql

Day(t) == t \div TicksPerDay
WindowShort(t) == (Day(t) - DaysBack)..(Day(t) + DaysAhead - 1)       \* mutant
Window(t) == (Day(t) - DaysBack)..(Day(t) + DaysAhead)

SpillDays == {Day(occurred[e]) : e \in spill}

Up == {p \in Processes : phase[p] \notin {"down", "locking", "migrating", "starting"}}

\* The database is empty, or older than the partitions, or was left behind by
\* processes that ran, and failed, before.
Init ==
    /\ now = Start /\ applied \in {{}, {1}, Files}
    /\ lock = {} /\ partitions \in IF applied = Files THEN SUBSET (0..Day(Start)) ELSE {{}}
    /\ occurred \in [Events -> {NotYet} \cup IF applied = {} THEN {} ELSE 0..Start]
    /\ spill = {e \in Events : applied = Files /\ occurred[e] # NotYet
                                /\ Day(occurred[e]) \notin partitions}
    /\ rows = {e \in Events : occurred[e] # NotYet} \ spill
    /\ counted = [e \in Events |-> IF occurred[e] # NotYet THEN 1 ELSE 0]
    /\ pending = {}
    /\ phase = [p \in Processes |-> "down"] /\ todo = [p \in Processes |-> {}]
    /\ at = [p \in Processes |-> Start] /\ stranded = SpillDays /\ faults = 0

Goto(p, ph, work) == phase' = [phase EXCEPT ![p] = ph] /\ todo' = [todo EXCEPT ![p] = work]

-----------------------------------------------------------------------------
(* apply_migrations().                                                     *)

LockFree(p) == TRUE                                                  \* mutant
LockTaken(p) == lock = {}

Boot(p) ==
    /\ phase[p] = "down" /\ Goto(p, "locking", {})
    /\ UNCHANGED <<now, applied, lock, partitions, dataVars, at, stranded, faults>>

ReadApplied(p) ==
    /\ phase[p] = "locking" /\ LockTaken(p) /\ lock' = lock \cup {p}
    /\ Goto(p, "migrating", Files \ applied)
    /\ UNCHANGED <<now, applied, partitions, dataVars, at, stranded, faults>>

\* One file, in order, and its row of schema_migrations.  The second moves what is
\* stored into daily partitions from its first day on.
Migrate(p) ==
    /\ phase[p] = "migrating" /\ todo[p] # {}
    /\ LET file == Min(todo[p])
       IN  /\ applied' = applied \cup {file}
           /\ Goto(p, "migrating", todo[p] \ {file})
           /\ partitions' =
                IF file = 1 THEN partitions
                ELSE Min({Day(now) - DaysBack} \cup {Day(occurred[e]) : e \in rows})
                       ..(Day(now) + DaysAhead)
    /\ UNCHANGED <<now, lock, dataVars, at, stranded, faults>>

Unlock(p) ==
    /\ phase[p] = "migrating" /\ todo[p] = {} /\ lock' = lock \ {p}
    /\ Goto(p, "starting", Window(now) \ partitions) /\ at' = [at EXCEPT ![p] = now]
    /\ UNCHANGED <<now, applied, partitions, dataVars, stranded, faults>>

-----------------------------------------------------------------------------
(* Partitions and retention.                                               *)

Raw(t) == t - RawDays * TicksPerDay
Minute(t) == t - MinuteDays * TicksPerDay

\* run_once() begins: what it will create comes from a listing made now.
RunOnce(p) ==
    /\ phase[p] = "idle"
    /\ at' = [at EXCEPT ![p] = now]
    /\ Goto(p, "creating", Window(now) \ partitions)
    /\ UNCHANGED <<now, applied, lock, partitions, dataVars, stranded, faults>>

\* ensure_daily_partitions(): a day whose rows are in the default partition is passed over.
Create(p) ==
    /\ phase[p] \in {"starting", "creating"} /\ todo[p] # {}
    /\ LET day == Min(todo[p])
       IN  /\ partitions' = IF \E e \in spill : Day(occurred[e]) = day THEN partitions
                            ELSE partitions \cup {day}
           /\ Goto(p, phase[p], todo[p] \ {day})
    /\ UNCHANGED <<now, applied, lock, dataVars, at, stranded, faults>>

\* Mutants: a day expires when it begins, and not when it ends, before the cutoff;
\* or only when the day after it has ended too.
ExpiredEarly(day, cutoff) == day * TicksPerDay <= cutoff
ExpiredLate(day, cutoff) == (day + 2) * TicksPerDay <= cutoff
Expired(day, cutoff) == (day + 1) * TicksPerDay <= cutoff

\* Startup goes on to serve; an upkeep run lists the partitions again.
Created(p) ==
    /\ phase[p] \in {"starting", "creating"} /\ todo[p] = {}
    /\ IF phase[p] = "starting" THEN Goto(p, "idle", {})
       ELSE Goto(p, "dropping", {d \in partitions : Expired(d, Raw(at[p]))})
    /\ UNCHANGED <<now, applied, lock, partitions, dataVars, at, stranded, faults>>

Drop(p) ==
    /\ phase[p] = "dropping" /\ todo[p] # {}
    /\ LET day == Min(todo[p])
       IN  /\ partitions' = partitions \ {day}
           /\ rows' = {e \in rows : Day(occurred[e]) # day}
           /\ Goto(p, "dropping", todo[p] \ {day})
    /\ UNCHANGED <<now, applied, lock, occurred, spill, counted, pending, at, stranded, faults>>

Dropped(p) ==
    /\ phase[p] = "dropping" /\ todo[p] = {} /\ Goto(p, "events_default", {})
    /\ UNCHANGED <<now, applied, lock, partitions, dataVars, at, stranded, faults>>

\* _delete_before(): the batches that may be deleted, and whether one is the last.
Batches(expired) ==
    {b \in SUBSET expired : Cardinality(b) = BatchSize \/ (b = expired /\ Cardinality(b) < BatchSize)}
IsLast(batch) == Cardinality(batch) < BatchSize

SweepDefault(p) ==
    /\ phase[p] = "events_default"
    /\ \E b \in Batches({e \in spill : occurred[e] < Raw(at[p])}) :
         /\ spill' = spill \ b
         /\ Goto(p, IF IsLast(b) THEN "agg_minute" ELSE "events_default", {})
    /\ UNCHANGED <<now, applied, lock, partitions, occurred, rows, counted, pending, at, stranded, faults>>

SweepMinutes(p) ==
    /\ phase[p] = "agg_minute"
    /\ \E b \in Batches({e \in Events : counted[e] > 0 /\ occurred[e] < Minute(at[p])}) :
         /\ counted' = [e \in Events |-> IF e \in b THEN 0 ELSE counted[e]]
         /\ Goto(p, IF IsLast(b) THEN "idle" ELSE "agg_minute", {})
    /\ UNCHANGED <<now, applied, lock, partitions, occurred, rows, spill, pending, at, stranded, faults>>

\* A statement of an upkeep run fails: the run is over.  A crash, or a failure
\* while starting, ends the process, and with it the lock and what it had not written.
Fails(p) ==
    /\ faults < MaxFaults /\ faults' = faults + 1
    /\ \/ /\ phase[p] \in {"creating", "dropping", "events_default", "agg_minute"}
          /\ Goto(p, "idle", {}) /\ UNCHANGED <<lock, pending>>
       \/ /\ phase[p] # "down" /\ Goto(p, "down", {})
          /\ lock' = lock \ {p}
          /\ \E kept \in SUBSET pending : pending' = kept
    /\ UNCHANGED <<now, applied, partitions, occurred, rows, spill, counted, at, stranded>>

-----------------------------------------------------------------------------
(* Events.                                                                 *)

\* A producer sends an event, for the first time or again; its age is checked.
Accept ==
    /\ Up # {}
    /\ \E e \in Events, t \in (now - MaxAge)..(now + MaxSkew) :
         /\ IF occurred[e] = NotYet THEN occurred' = [occurred EXCEPT ![e] = t]
            ELSE t = occurred[e] /\ UNCHANGED occurred
         /\ pending' = pending \cup {<<e, now>>}
    /\ UNCHANGED <<now, applied, lock, partitions, rows, spill, counted, jobVars, stranded, faults>>

\* INSERT ... ON CONFLICT DO NOTHING, with the aggregates, in one statement; the
\* row goes to the partition of its day or to the default one.  The queue is FIFO.
Write ==
    /\ Up # {}
    /\ \E w \in pending : LET e == w[1] IN
         /\ \A v \in pending : w[2] <= v[2]
         /\ pending' = pending \ {w}
         /\ IF e \in rows \cup spill THEN UNCHANGED <<rows, spill, counted>>
            ELSE /\ counted' = [counted EXCEPT ![e] = @ + 1]
                 /\ IF Day(occurred[e]) \in partitions
                    THEN rows' = rows \cup {e} /\ UNCHANGED spill
                    ELSE spill' = spill \cup {e} /\ UNCHANGED rows
    /\ UNCHANGED <<now, applied, lock, partitions, occurred, jobVars, stranded, faults>>

\* Upkeep runs every hour: a tick finds each process that got as far in its run of
\* this tick, done or not, and no event waits longer than MaxWait.
Tick ==
    /\ now < End /\ now' = now + 1
    /\ \A p \in Processes : p \in Up \/ phase[p] = "starting" => at[p] = now
    /\ \A w \in pending : now - w[2] < MaxWait
    /\ UNCHANGED <<applied, lock, partitions, dataVars, jobVars, stranded, faults>>

Upkeep(p) ==
    \/ Boot(p) \/ ReadApplied(p) \/ Migrate(p) \/ Unlock(p)
    \/ RunOnce(p) \/ Create(p) \/ Created(p) \/ Drop(p) \/ Dropped(p)
    \/ SweepDefault(p) \/ SweepMinutes(p)

Next == (\E p \in Processes : Upkeep(p) \/ Fails(p)) \/ Accept \/ Write \/ Tick

Spec == Init /\ [][Next]_vars

\* Processes are restarted, and a process that runs goes on; the clock too.
FairSpec ==
    /\ Spec /\ WF_vars(Tick) /\ WF_vars(Write) /\ \A p \in Processes : WF_vars(Upkeep(p))

-----------------------------------------------------------------------------

Days == 0..Day(End + MaxSkew + DaysAhead * TicksPerDay)

\* Every variable stays in its type.
TypeOK ==
    /\ now \in Start..End /\ applied \in {{}, {1}, Files}
    /\ lock \subseteq Processes /\ Cardinality(lock) <= 1
    /\ partitions \subseteq Days /\ occurred \in [Events -> {NotYet} \cup 0..(End + MaxSkew)]
    /\ rows \subseteq Events /\ spill \subseteq Events \ rows
    /\ counted \in [Events -> Nat] /\ pending \subseteq Events \X (Start..End)
    /\ phase \in [Processes -> {"down", "locking", "migrating", "starting", "idle", "creating",
                                "dropping", "events_default", "agg_minute"}]
    /\ todo \in [Processes -> SUBSET (Files \cup Days)] /\ at \in [Processes -> Start..End]
    /\ stranded \subseteq Days /\ faults \in 0..MaxFaults

\* Two processes that start together never collide: no runner is about to apply a
\* file that is applied already, which the database would refuse and which would
\* end its startup (migrate.py:3-5, 27-46).
MigrationsNeverCollide ==
    \A p \in Processes : phase[p] = "migrating" => todo[p] \cap applied = {}

\* Deduplication survives retention: an event that may be sent again, or waits in
\* the queue, is counted exactly once if its row is stored, and a row is never
\* dropped while its event is young enough to be accepted (retention.py:11-14).
CountedOnce ==
    \A e \in Events :
        /\ counted[e] <= 1
        /\ e \in rows \cup spill /\ occurred[e] >= now - MaxAge => counted[e] = 1
        /\ counted[e] = 1 /\ occurred[e] >= now - MaxAge => e \in rows \cup spill

\* "Every day the API accepts must have a partition", from the first event on and
\* also past midnight: without failures the default partition gets no event of a day
\* of which earlier failures left none there (services.py:97-99, partitions.py:5-7).
DefaultGetsNothing == faults = 0 => SpillDays \subseteq stranded

\* What has expired leaves, wherever it was stored (retention.py:91-122).
RowsExpire ==
    <>[]\A e \in Events :
        /\ e \in rows => Day(occurred[e]) >= Day(Raw(End))
        /\ e \in spill => occurred[e] >= Raw(End)
        /\ counted[e] > 0 => occurred[e] >= Minute(End)
=============================================================================
