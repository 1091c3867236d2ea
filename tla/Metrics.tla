------------------------------- MODULE Metrics -------------------------------
(***************************************************************************)
(* From events to numbers: the incremental aggregates of a batch           *)
(* (processing/aggregates.py), the snapshot read from them                 *)
(* (processing/metrics.py), the rate meter (processing/rate_meter.py) and  *)
(* the inputs and verdicts of the alert rules (alerts/evaluator.py,        *)
(* alerts/rules.py).                                                       *)
(*                                                                         *)
(* Time is counted in ticks, a few to a minute.  What the code reads from  *)
(* its tables is an operator of the current state here: a snapshot, or an  *)
(* evaluation, may happen at any moment.                                   *)
(***************************************************************************)
EXTENDS Integers, FiniteSets, FiniteSetsExt, Functions, Sequences, SequencesExt

CONSTANTS
    Kinds,          \* the events there are: [id, type, amount, dims]
    Dimensions,     \* "category", "city", "payment_method"
    Minute, Hour,   \* ticks in a minute and in an hour
    MaxAge, MaxSkew,         \* bounds of occurred_at, in ticks
    WindowMinutes,           \* settings.metrics_window_minutes
    HourlyHours,             \* settings.hourly_series_hours
    RateWindow,              \* RateMeter's window_s, in ticks
    AlertMinutes,            \* settings.alert_window_minutes
    CancellationAt, DropAt, DeadLetterAt,  \* thresholds, percent
    ResolveRatio,            \* settings.alert_resolve_ratio, percent
    MinOrders, MinBaseline, MinReceived,
    StallAfter,              \* settings.alert_stall_seconds, in ticks
    ClockStart, ClockEnd,    \* bounds: the clock
    MaxRows, MaxDuplicates, MaxRejected    \* bounds

ASSUME MetricsAssumption ==
    /\ \A k \in Kinds :
          k.amount \in Nat /\ \A d \in Dimensions : k.dims[d] \in Int  \* names, in their order
    /\ "all" \notin Dimensions
    /\ Minute \in Nat \ {0} /\ Hour \in Nat \ {0} /\ Hour % Minute = 0 /\ ClockStart \in Nat
    /\ {MaxAge, MaxSkew} \subseteq Nat
    /\ {WindowMinutes, HourlyHours, RateWindow, AlertMinutes} \subseteq Nat \ {0}
    /\ {MinOrders, MinBaseline, MinReceived} \subseteq Nat \ {0}   \* the rules divide by them
    /\ {CancellationAt, DropAt, DeadLetterAt, ResolveRatio} \subseteq 1..100
    /\ StallAfter \in Nat \ {0}

VARIABLES
    now,
    rows,        \* table events: [kind, at], and the tick of their commit
    aggMinute, aggHour,  \* <<dimension, bucket, dim_value, event_type>> -> [count, amount]
    stats,       \* ingest_stats_minute: bucket -> [accepted, duplicates, rejected]
    samples, total,      \* RateMeter
    lastCommit   \* writer.last_commit_monotonic

metricsVars == <<now, rows, aggMinute, aggHour, stats, samples, total, lastCommit>>

None == 0 - 1

Bucket(unit, t) == t \div unit
Now(unit) == Bucket(unit, now)

-----------------------------------------------------------------------------
(* INSERT_BATCH_SQL.                                                       *)

At(table, key, default) == IF key \in DOMAIN table THEN table[key] ELSE default
AddUp(a, b) == [f \in DOMAIN a |-> a[f] + b[f]]
Empty == [count |-> 0, amount |-> 0]
NoStats == [accepted |-> 0, duplicates |-> 0, rejected |-> 0]

\* ON CONFLICT DO UPDATE SET x = agg.x + EXCLUDED.x; mutant: SET x = EXCLUDED.x.
Overwrite(table, new, default) ==
    [k \in DOMAIN table \cup DOMAIN new |-> IF k \in DOMAIN new THEN new[k] ELSE table[k]]
Upsert(table, new, default) ==
    [k \in DOMAIN table \cup DOMAIN new |-> AddUp(At(table, k, default), At(new, k, default))]

\* GROUPING SETS: the rows an event counts in.
Keys(row, unit) ==
    {<<"all", Bucket(unit, row.at), "", row.kind.type>>} \cup
    {<<d, Bucket(unit, row.at), row.kind.dims[d], row.kind.type>> : d \in Dimensions}

Amount(group) == SumFunction([row \in group |-> row.kind.amount])

Rollup(inserted, unit) ==
    [k \in UNION {Keys(row, unit) : row \in inserted} |->
        LET group == {row \in inserted : k \in Keys(row, unit)}
        IN  [count |-> Cardinality(group), amount |-> Amount(group)]]

Stored(row) == \E r \in rows : r.kind = row.kind /\ r.at = row.at

\* Only what was really new comes out of RETURNING.
Inserted(batch) == {row \in ToSet(batch) : ~Stored(row)}

Count(accepted, duplicates, rejected) ==
    stats' = Upsert(stats,
        [b \in {Now(Minute)} |->
            [accepted |-> accepted, duplicates |-> duplicates, rejected |-> rejected]], NoStats)

-----------------------------------------------------------------------------
(* RateMeter.                                                              *)

InWindow(sample) == sample.at >= now - RateWindow

\* _prune(): from the left, up to the first sample that is still in the window.
Expired(log) ==
    LET young == {i \in DOMAIN log : InWindow(log[i])}
    IN  IF young = {} THEN Len(log) ELSE Min(young) - 1
Remaining(log, sum) ==
    sum - SumFunction([i \in 1..Expired(log) |-> log[i].count])
Prune(log, sum) ==
    samples' = SubSeq(log, Expired(log) + 1, Len(log)) /\ total' = Remaining(log, sum)

Observed == Min({RateWindow, Max({now - ClockStart, 1})})

-----------------------------------------------------------------------------
(* The snapshot: pure functions of what the queries return.                *)

\* WHERE dimension IN dims AND bucket BETWEEN first AND last.
Read(table, dims, first, last) ==
    {k \in DOMAIN table : k[1] \in dims /\ k[2] \in first..last}
CountOf(table, keys) == SumFunction([k \in keys |-> table[k].count])
AmountOf(table, keys) == SumFunction([k \in keys |-> table[k].amount])
OfType(keys, type) == {k \in keys : k[4] = type}

\* Window.ending_at(): the current minute is the last of the window, and the window
\* before it is as long.  Mutant: it is a minute shorter.
WindowStart(minute) == minute - (WindowMinutes - 1)
PreviousStartLate(minute) == WindowStart(minute) - (WindowMinutes - 1)
PreviousStart(minute) == WindowStart(minute) - WindowMinutes

compute_kpis(keys) ==
    LET n(type) == CountOf(aggMinute, OfType(keys, type))
        revenue == AmountOf(aggMinute, OfType(keys, "order_paid"))
    IN  [revenue |-> revenue, orders |-> n("order_placed"), paid |-> n("order_paid"),
         shipped |-> n("order_shipped"), cancelled |-> n("order_cancelled"),
         averageOrder |-> IF n("order_paid") > 0 THEN <<revenue, n("order_paid")>> ELSE <<>>,
         cancellationRate |-> IF n("order_placed") > 0
                              THEN <<n("order_cancelled"), n("order_placed")>> ELSE <<>>]

dense_series(table, keys, first, last) ==
    [b \in first..last |->
        LET bucket == {k \in keys : k[2] = b}
        IN  [revenue |-> AmountOf(table, OfType(bucket, "order_paid")),
             orders |-> CountOf(table, OfType(bucket, "order_placed")),
             cancelled |-> CountOf(table, OfType(bucket, "order_cancelled"))]]

\* By revenue, then orders, then name.
Outranks(a, b) ==
    \/ a.revenue > b.revenue
    \/ a.revenue = b.revenue /\ a.orders > b.orders
    \/ a.revenue = b.revenue /\ a.orders = b.orders /\ a.name < b.name

rank_dimension(keys) ==
    LET paid(name) == {k \in OfType(keys, "order_paid") : k[3] = name}
        placed(name) == {k \in OfType(keys, "order_placed") : k[3] = name}
        names == {k[3] : k \in OfType(keys, "order_paid") \cup OfType(keys, "order_placed")}
        items == {[name |-> n, revenue |-> AmountOf(aggMinute, paid(n)),
                   orders |-> CountOf(aggMinute, placed(n))] : n \in names}
    IN  [i \in 1..Cardinality(items) |->
            CHOOSE item \in items : Cardinality({o \in items : Outranks(o, item)}) = i - 1]

StatsOf(field, first, last) ==
    SumFunction([b \in DOMAIN stats \cap first..last |-> stats[b][field]])

Snapshot ==
    LET minute == Now(Minute)
        current == Read(aggMinute, {"all"}, WindowStart(minute), minute)
        previous == Read(aggMinute, {"all"}, PreviousStart(minute), WindowStart(minute) - 1)
        hour == Now(Hour)
        hours == Read(aggHour, {"all"}, hour - (HourlyHours - 1), hour)
    IN  [kpis |-> compute_kpis(current),
         previousKpis |-> compute_kpis(previous),
         perMinute |-> dense_series(aggMinute, current, WindowStart(minute), minute),
         perHour |-> dense_series(aggHour, hours, hour - (HourlyHours - 1), hour),
         top |-> [d \in Dimensions |->
                    rank_dimension(Read(aggMinute, {d}, WindowStart(minute), minute))],
         accepted |-> StatsOf("accepted", WindowStart(minute), minute),
         rejected |-> StatsOf("rejected", WindowStart(minute), minute),
         rate |-> <<Remaining(samples, total), Observed>>]

-----------------------------------------------------------------------------

MetricsInit ==
    /\ now = ClockStart /\ rows = {} /\ aggMinute = <<>> /\ aggHour = <<>> /\ stats = <<>>
    /\ samples = <<>> /\ total = 0 /\ lastCommit = None

Valid == [kind : Kinds, at : (now - MaxAge)..(now + MaxSkew)]

\* A batch commits, and the commit is recorded: total_inserted and the rate meter
\* count what was inserted, last_commit_monotonic also moves for duplicates.
Commit ==
    /\ \E batch \in {<<a>> : a \in Valid} \cup {<<a, b>> : a, b \in Valid} :
         LET new == Inserted(batch)
             repeated == Len(batch) - Cardinality(new)
         IN  /\ Cardinality(rows) + Cardinality(new) <= MaxRows
             /\ repeated = 0 \/ \A b \in DOMAIN stats : stats[b].duplicates + repeated <= MaxDuplicates
             /\ rows' = rows \cup {[kind |-> r.kind, at |-> r.at, wrote |-> now] : r \in new}
             /\ aggMinute' = Upsert(aggMinute, Rollup(new, Minute), Empty)
             /\ aggHour' = Upsert(aggHour, Rollup(new, Hour), Empty)
             /\ Count(Cardinality(new), repeated, 0)
             /\ Prune(Append(samples, [at |-> now, count |-> Cardinality(new)]),
                      total + Cardinality(new))
    /\ lastCommit' = now
    /\ UNCHANGED now

\* Dead letters are counted in the minute they are written.
Reject ==
    /\ \A b \in DOMAIN stats : stats[b].rejected < MaxRejected
    /\ Count(0, 0, 1)
    /\ UNCHANGED <<now, rows, aggMinute, aggHour, samples, total, lastCommit>>

\* broadcast_once() reads the rate, which prunes.
Broadcast ==
    /\ Prune(samples, total)
    /\ UNCHANGED <<now, rows, aggMinute, aggHour, stats, lastCommit>>

Tick ==
    /\ now < ClockEnd /\ now' = now + 1
    /\ UNCHANGED <<rows, aggMinute, aggHour, stats, samples, total, lastCommit>>

MetricsNext == Commit \/ Reject \/ Broadcast \/ Tick

MetricsSpec == MetricsInit /\ [][MetricsNext]_metricsVars
=============================================================================
