---------------------------- MODULE MCIngestion ----------------------------
(***************************************************************************)
(* Instances of Ingestion for TLC.                                         *)
(***************************************************************************)
EXTENDS IngestionProperties

CONSTANTS r1, r2, r3, r4, r5, r6, e1, e2, e3

\* r1 holds the same event twice; r2 resends it next to an event the database
\* refuses, and needs two levels of bisection; r3 repeats an event of r2 and
\* carries an invalid item.  r1 and r2 fill the queue, r1 and r3 fit into one
\* batch of three, r2 does not fit into a batch of two.
MCRequests == {r1, r2, r3}
MCEvents == {e1, e2, e3}
MCBad == {e3}
MCRows == 1..6
MCRequestOf == <<r1, r1, r2, r2, r2, r3>>
MCEventOf == <<e1, e1, e1, e3, e2, e2>>
MCForm == [r \in MCRequests |-> "batch"]
MCInvalid == [r \in MCRequests |-> IF r = r3 THEN 1 ELSE 0]

\* Every form a body can take, next to a request larger than a batch of one:
\* r1 is a single event, r2 a batch that repeats it next to an event the
\* database refuses, r3 a single invalid event, r4 a batch of invalid items
\* only, r5 and r6 never reach validation.
EdgeRequests == {r1, r2, r3, r4, r5, r6}
EdgeEvents == {e1, e2}
EdgeBad == {e2}
EdgeRows == 1..3
EdgeRequestOf == <<r1, r2, r2>>
EdgeEventOf == <<e1, e1, e2>>
EdgeForm == [r \in EdgeRequests |->
    CASE r \in {r1, r3} -> "single"
      [] r \in {r2, r4} -> "batch"
      [] r = r5 -> "malformed"
      [] r = r6 -> "oversized"]
EdgeInvalid == [r \in EdgeRequests |-> IF r \in {r2, r3} THEN 1 ELSE IF r = r4 THEN 2 ELSE 0]
=============================================================================
