------------------------ MODULE IngestionProperties ------------------------
(***************************************************************************)
(* What makes the ingestion path correct, stated over the variables of     *)
(* Ingestion, and its refinement of ExactlyOnceStore.                      *)
(***************************************************************************)
EXTENDS Ingestion

\* Every variable stays in its type.
TypeOK ==
    /\ pending \in Seq(Requests) /\ items \in Seq(Requests)
    /\ queued \in Int /\ hasWork \in BOOLEAN /\ stopping \in BOOLEAN
    /\ writer \in {"ready", "parked", "executing", "backoff", "exited", "cancelled", "down"}
    /\ todo \in Seq(SUBSET Rows)
    /\ result \in [inserted : Nat, maxSeq : Nat]
    /\ committedSeq \in Nat /\ totalInserted \in Nat
    /\ future \in [Requests -> {"none", "pending", "done", "stopped", "lost"}]
    /\ reply \in [Requests -> [status : {"none", "202", "400", "413", "422", "429", "503", "lost"},
                               through : Nat]]
    /\ deadLettered \in [Requests -> Nat]
    /\ refused \in [Rows -> Nat]
    /\ stamp \in [Events -> Nat] /\ lastStamp \in Nat
    /\ rollup \in [Events -> Nat]
    /\ faults \in 0..MaxFaults /\ crashes \in 0..MaxCrashes

-----------------------------------------------------------------------------

InFlight == ToSet(pending) \cup ToSet(items)

\* The counter the 429 decision reads equals the rows that wait or are being
\* written, through batching, bisection, retries, shutdown and restart, and it
\* never exceeds the configured bound (writer.py:120-123, 160).
QueueAccounting ==
    /\ queued = Cardinality(RowsOf(InFlight))
    /\ queued <= MaxQueued

\* The writer never sleeps through work or through shutdown: clearing the
\* has_work event cannot lose a submit() or a stop() (writer.py:124, 133, 151-156).
NoLostWakeup ==
    writer = "parked" /\ (pending # <<>> \/ stopping) => hasWork

\* A commit future that is still open belongs to exactly one place of the
\* writer, the queue or the batch, which will complete it; a batch is never
\* dropped on an error (writer.py:122, 157, 164-166, 183-187).
OpenFuturesAreHeld ==
    /\ \A r \in Requests : future[r] = "pending" => r \in InFlight
    /\ ToSet(pending) \cap ToSet(items) = {}
    /\ writer \notin {"cancelled", "down"} => \A r \in InFlight : future[r] = "pending"

\* The aggregate tables count exactly the events stored, once each, whatever
\* was resent, retried or half committed (aggregates.py:46-75, 82-87).
AggregatesMatchRows ==
    \A e \in Events : rollup[e] = IF e \in Stored THEN 1 ELSE 0

\* Rows that the database accepts or refuses for good: nothing left to do.
Settled(x) == EventOf[x] \in Stored \/ (EventOf[x] \in Bad /\ refused[x] > 0)

\* 202 is only returned once every valid event of the request is committed, or
\* was refused by the database and dead-lettered; it stays true after crashes
\* (router.py:8-9, writer.py:183-211).
AckedDurable ==
    \A r \in Requests : reply[r].status = "202" => \A x \in RowsOf({r}) : Settled(x)

\* An event the database refuses never reaches the tables, however the batch
\* around it was bisected (writer.py:196-211).
BadNeverStored == Stored \cap Bad = {}

\* Every invalid item is handed to the dead letters once and only if its request
\* is answered for: a request refused with 429 or 503 at submission records
\* nothing, so that its resend does not record it twice (router.py:104-109,
\* 123-127, 145-148).
InvalidItemsRecordedOnce ==
    \A r \in Requests :
        deadLettered[r] = CASE reply[r].status = "400" -> 1
                            [] reply[r].status = "422" \/ future[r] # "none" -> Invalid[r]
                            [] OTHER -> 0

\* "each 202 can report a through_seq that already includes its own events"
\* (writer.py:161-162) and "Every WebSocket snapshot with through_seq >= this
\* value includes these events" (router.py:43).
AckCoversOwnRows ==
    \A r \in Requests : reply[r].status = "202" =>
        \A x \in RowsOf({r}) : stamp[EventOf[x]] <= reply[r].through

\* The watermark never runs ahead of the store: it is a stamp that a committed
\* statement really got, and the running total never counts an event that is
\* not stored.  As long as no statement fails and no process dies it does not
\* run behind either: watermark and total have caught up whenever no batch is
\* being written, and acknowledgements cover their own rows, also through
\* bisection (writer.py:210-211, 219-221).
WatermarkFollowsStore ==
    /\ committedSeq > 0 => \E e \in Events : stamp[e] = committedSeq
    /\ totalInserted <= Cardinality(Stored)
    /\ faults = 0 /\ crashes = 0 =>
          /\ writer \in {"ready", "parked", "exited"} =>
                committedSeq = lastStamp /\ totalInserted = Cardinality(Stored)
          /\ AckCoversOwnRows

-----------------------------------------------------------------------------

\* What is stored stays stored under the same seq, across retries and crashes,
\* and while a process lives its watermark only grows, which is what
\* subscribers compare through_seq against (writer.py:12-13, 219-220).
StoreOnlyGrows ==
    [][/\ \A e \in Stored : stamp'[e] = stamp[e]
       /\ writer' # "down" => committedSeq' >= committedSeq]_vars

\* Unless the task is cancelled or the process dies, the writer completes every
\* future it took on, so that no request relies on its timeout, and stop() drains what
\* is queued and ends (writer.py:130-145, 149-187).
WriterFinishes ==
    /\ \A r \in Requests : future[r] = "pending" ~>
          future[r] \in {"done", "stopped", "lost"} \/ writer = "cancelled"
    /\ stopping ~> writer \in {"exited", "cancelled", "down"}

-----------------------------------------------------------------------------

\* Retries, bisection, batching, shutdown and crashes are invisible: seen
\* through its tables and its 202s, the ingestion path is the exactly-once store.
Store == INSTANCE ExactlyOnceStore WITH
    Needs <- [r \in Requests |-> EventsOf(RowsOf({r})) \ Bad],
    stored <- Stored,
    counted <- rollup,
    acked <- {r \in Requests : reply[r].status = "202"}

ImplementsStore == Store!Spec
=============================================================================
