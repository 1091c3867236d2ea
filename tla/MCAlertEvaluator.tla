-------------------------- MODULE MCAlertEvaluator --------------------------
(***************************************************************************)
(* Instances of AlertEvaluator for TLC.                                    *)
(***************************************************************************)
EXTENDS AlertProperties

CONSTANTS i1, i2, stalled

OneInstance == {i1}
TwoInstances == {i1, i2}
OneRule == <<stalled>>

AllVerdicts == {"no_data", "breached", "between", "recovered"}
\* ingestion_stalled has a single threshold.
SharpVerdicts == {"breached", "recovered"}
=============================================================================
