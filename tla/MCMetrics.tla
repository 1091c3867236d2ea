----------------------------- MODULE MCMetrics -----------------------------
(***************************************************************************)
(* An instance of Metrics for TLC.                                         *)
(***************************************************************************)
EXTENDS MetricsProperties

\* One name in both dimensions, and two in one of them; a cancellation in a third.
Kind(type, amount, city) ==
    [type |-> type, amount |-> amount, dims |-> ("category" :> 1 @@ "city" :> city)]
MCKinds ==
    {Kind("order_placed", 3, 1), Kind("order_paid", 3, 1), Kind("order_paid", 2, 2),
     Kind("order_cancelled", 3, 2)}
MCDimensions == {"category", "city"}
=============================================================================
