------------------------- MODULE MetricsProperties -------------------------
(***************************************************************************)
(* The numbers agree with the events they are made from.                   *)
(***************************************************************************)
EXTENDS AlertRules

SentBetween(first, end) == {r \in rows : first <= r.at /\ r.at < end}
Of(type, group) == {r \in group : r.kind.type = type}
WrittenSince(t) == {r \in rows : r.wrote >= t}

-----------------------------------------------------------------------------

\* REBUILD_EXPECTED_SQL: what the aggregate tables should contain, computed from all
\* events at once, is what batch after batch, with repeated, late and future events,
\* has left in them; and the events a minute counts as accepted are those written in
\* it, repeated ones not (aggregates.py:3-13, 122-144).
AggregatesMatchEvents ==
    /\ aggMinute = Rollup(rows, Minute) /\ aggHour = Rollup(rows, Hour)
    /\ \A b \in Bucket(Minute, ClockStart)..Now(Minute) :
          At(stats, b, NoStats).accepted
              = Cardinality({r \in rows : Bucket(Minute, r.wrote) = b})

-----------------------------------------------------------------------------

KpisOf(k, group) ==
    /\ k.revenue = Amount(Of("order_paid", group))
    /\ k.orders = Cardinality(Of("order_placed", group))
    /\ k.paid = Cardinality(Of("order_paid", group))
    /\ k.shipped = Cardinality(Of("order_shipped", group))
    /\ k.cancelled = Cardinality(Of("order_cancelled", group))

\* One point per bucket, each with the events of its span, also where there are none.
SeriesOf(series, length, unit) ==
    /\ Cardinality(DOMAIN series) = length /\ Max(DOMAIN series) = Now(unit)
    /\ \A b \in DOMAIN series :
          LET group == SentBetween(b * unit, (b + 1) * unit)
          IN  /\ series[b].revenue = Amount(Of("order_paid", group))
              /\ series[b].orders = Cardinality(Of("order_placed", group))
              /\ series[b].cancelled = Cardinality(Of("order_cancelled", group))

\* "All numbers in a snapshot come from the same instant": cards, chart and rankings
\* of a window of WindowMinutes, the one in progress included, are those of the
\* events in it, add up to each other, and the window before it is as long and
\* touches it; events ahead of the clock wait for their minute.  The rate counts what
\* was inserted in the last RateWindow, however the samples were pruned before
\* (metrics.py:10-11, 66-78, 106-209, rate_meter.py:18-36).
SnapshotAddsUp ==
    LET s == Snapshot
        end == (Now(Minute) + 1) * Minute
        span == WindowMinutes * Minute
    IN  /\ KpisOf(s.kpis, SentBetween(end - span, end))
        /\ KpisOf(s.previousKpis, SentBetween(end - 2 * span, end - span))
        /\ SeriesOf(s.perMinute, WindowMinutes, Minute) /\ SeriesOf(s.perHour, HourlyHours, Hour)
        /\ \A d \in Dimensions :
              /\ SumFunction([i \in DOMAIN s.top[d] |-> s.top[d][i].revenue]) = s.kpis.revenue
              /\ SumFunction([i \in DOMAIN s.top[d] |-> s.top[d][i].orders]) = s.kpis.orders
              /\ \A i, j \in DOMAIN s.top[d] : i < j =>
                    /\ s.top[d][i].name # s.top[d][j].name
                    /\ s.top[d][i].revenue >= s.top[d][j].revenue
        /\ s.rate[1] = Cardinality(WrittenSince(now - RateWindow))

-----------------------------------------------------------------------------

MinuteRevenue(m) == Amount(Of("order_paid", SentBetween(m * Minute, (m + 1) * Minute)))

\* The rules see what the comments promise.  With the same revenue in every complete
\* minute there is no drop, whatever the minute in progress holds so far, and with
\* none at all after a baseline there is one (rules.py:36-39).  A rule that lacks the
\* data says so, none is breached and recovered at once, and an order is judged with
\* the minute it was cancelled in, also while that minute lasts (rules.py:6-13, 31-35).
VerdictsSound ==
    LET inputs == read_inputs
        past == (Now(Minute) - 2 * AlertMinutes)..(Now(Minute) - 1)
        recent == SentBetween((Now(Minute) - AlertMinutes + 1) * Minute, (Now(Minute) + 1) * Minute)
    IN  /\ (\A m, n \in past : MinuteRevenue(m) = MinuteRevenue(n)) => ~RevenueDrop(inputs).breached
        /\ /\ \A m \in past : m >= Now(Minute) - AlertMinutes => MinuteRevenue(m) = 0
           /\ \E m \in past : MinuteRevenue(m) >= MinBaseline
           => RevenueDrop(inputs).breached
        /\ CancellationRate(inputs).data = (Cardinality(Of("order_placed", recent)) >= MinOrders)
        /\ CancellationRate(inputs).data /\ Of("order_cancelled", recent) = {} =>
              CancellationRate(inputs).recovered
        /\ \A verdict \in {CancellationRate(inputs), RevenueDrop(inputs), DeadLetterRate(inputs),
                           IngestionStalled(inputs)} :
              /\ ~(verdict.breached /\ verdict.recovered)
              /\ ~verdict.data => ~verdict.breached /\ ~verdict.recovered
        /\ IngestionStalled(inputs).breached => WrittenSince(now - StallAfter + 1) = {}
=============================================================================
