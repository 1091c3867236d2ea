----------------------------- MODULE AlertRules -----------------------------
(***************************************************************************)
(* What AlertEvaluator.read_inputs() reads (alerts/evaluator.py) and the   *)
(* verdicts of the four rules (alerts/rules.py).  A rate is a fraction     *)
(* here, thresholds are percentages.  What the evaluator does with the     *)
(* verdicts is in AlertEvaluator.                                          *)
(***************************************************************************)
EXTENDS Metrics

\* Two windows of complete minutes for the revenue; the minute in progress counts
\* for the orders.  Mutant: the revenue window starts where that of the orders does.
CurrentStartLate(minute) == minute - AlertMinutes + 1
CurrentStart(minute) == minute - AlertMinutes
RecentStart(minute) == minute - AlertMinutes + 1

Revenue(first, end) ==
    AmountOf(aggMinute, OfType(Read(aggMinute, {"all"}, first, end - 1), "order_paid"))

read_inputs ==
    LET minute == Now(Minute)
        recent == Read(aggMinute, {"all"}, RecentStart(minute), minute)
    IN  [placed |-> CountOf(aggMinute, OfType(recent, "order_placed")),
         cancelled |-> CountOf(aggMinute, OfType(recent, "order_cancelled")),
         accepted |-> StatsOf("accepted", RecentStart(minute), Now(Minute)),
         rejected |-> StatsOf("rejected", RecentStart(minute), Now(Minute)),
         revenueCurrent |-> Revenue(CurrentStart(minute), minute),
         revenuePrevious |-> Revenue(CurrentStart(minute) - AlertMinutes, CurrentStart(minute)),
         silence |-> IF lastCommit = None THEN None ELSE now - lastCommit]

_no_data == [data |-> FALSE, breached |-> FALSE, recovered |-> FALSE]

\* At or over the threshold; under the lower one.
Judged(part, whole, threshold) ==
    [data |-> TRUE,
     breached |-> part * 100 >= threshold * whole,
     recovered |-> part * 10000 < threshold * ResolveRatio * whole]

CancellationRate(inputs) ==
    IF inputs.placed < MinOrders THEN _no_data
    ELSE Judged(inputs.cancelled, inputs.placed, CancellationAt)

RevenueDrop(inputs) ==
    IF inputs.revenuePrevious < MinBaseline THEN _no_data
    ELSE Judged(inputs.revenuePrevious - inputs.revenueCurrent, inputs.revenuePrevious, DropAt)

DeadLetterRate(inputs) ==
    LET received == inputs.accepted + inputs.rejected
    IN  IF received < MinReceived THEN _no_data
        ELSE Judged(inputs.rejected, received, DeadLetterAt)

IngestionStalled(inputs) ==
    IF inputs.silence = None THEN _no_data
    ELSE [data |-> TRUE, breached |-> inputs.silence >= StallAfter,
          recovered |-> inputs.silence < StallAfter]
=============================================================================
