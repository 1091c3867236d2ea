----------------------------- MODULE Ingestion -----------------------------
(***************************************************************************)
(* POST /api/events and /api/events/batch (ingestion/router.py) together   *)
(* with the BatchWriter (ingestion/writer.py) and the one SQL statement    *)
(* that stores a batch and its aggregates (processing/aggregates.py).      *)
(*                                                                         *)
(* A row is one validated event inside one request.  Two rows carrying the *)
(* same event are a duplicate: within a request, or because a producer     *)
(* sent the event again in another request.                                *)
(*                                                                         *)
(* The identity column events.seq is abstracted to the rank of the         *)
(* statement that stored the row (stamp).  The rows of one statement       *)
(* become visible together and the writer only ever looks at their         *)
(* maximum, so nothing the code compares can tell the two apart.           *)
(*                                                                         *)
(* Between two awaits the code runs alone.  Here a loop turn of the writer *)
(* is split where its state is already consistent ("ready" and an          *)
(* exhausted todo), which only adds interleavings.                         *)
(***************************************************************************)
EXTENDS Integers, Sequences, FiniteSets, SequencesExt

CONSTANTS
    Requests,    \* HTTP requests, each made once; a resend is another request
    Events,      \* event identities: (event_id, occurred_at)
    Rows,        \* rows of validated events, numbered in body order
    RequestOf,   \* the request a row came in
    EventOf,     \* the event a row carries
    Bad,         \* events that pass validation and that the database refuses
    Form,        \* "batch" and "single" endpoint bodies, "malformed", "oversized"
    Invalid,     \* Invalid[r]: how many items of r fail validation
    MaxQueued,   \* settings.ingest_queue_max_events
    MaxBatch,    \* settings.writer_batch_max_events
    MaxFaults,   \* bound: transient statement failures
    MaxCrashes   \* bound: process deaths

ASSUME RowsAssumption ==
    /\ Rows \subseteq Nat /\ IsFiniteSet(Rows)
    /\ IsFiniteSet(Events) /\ Bad \subseteq Events
    /\ RequestOf \in [Rows -> Requests] /\ EventOf \in [Rows -> Events]

ASSUME RequestAssumption ==
    /\ Form \in [Requests -> {"batch", "single", "malformed", "oversized"}]
    /\ Invalid \in [Requests -> Nat]

ASSUME BoundAssumption ==
    /\ MaxQueued \in Nat /\ MaxBatch \in Nat
    /\ MaxFaults \in Nat /\ MaxCrashes \in Nat

VARIABLES
    pending,        \* _pending: requests waiting for the writer
    queued,         \* _queued_events: rows waiting or being written
    hasWork,        \* _has_work
    stopping,       \* _stopping
    writer,         \* where the writer task is; "down" when there is no process
    items,          \* the requests of the batch being written
    todo,           \* segments of the batch still to be executed (bisection)
    result,         \* what the executed segments add up to
    committedSeq,   \* committed_seq
    totalInserted,  \* total_inserted
    future,         \* the commit future of each request
    reply,          \* what each request was answered
    deadLettered,   \* items of each request handed to the dead letters by the router
    refused,        \* times each row was dead-lettered as database_rejected
    stamp,          \* table events: rank of the statement that stored it, 0 if absent
    lastStamp,      \* last rank given out
    rollup,         \* times each event was added to the aggregate tables
    faults,         \* transient failures so far
    crashes         \* process deaths so far

writerVars == <<pending, queued, hasWork, stopping, writer, items, todo, result,
                committedSeq, totalInserted>>
dbVars == <<stamp, lastStamp, rollup>>
boundVars == <<faults, crashes>>
vars == <<writerVars, future, reply, deadLettered, refused, dbVars, boundVars>>

-----------------------------------------------------------------------------

RowsOf(reqs) == {x \in Rows : RequestOf[x] \in reqs}
EventsOf(segment) == {EventOf[x] : x \in segment}

Stored == {e \in Events : stamp[e] > 0}
Refusable(segment) == EventsOf(segment) \cap Bad # {}

NoResult == [inserted |-> 0, maxSeq |-> 0]      \* maxSeq 0 stands for None
NoReply == [status |-> "none", through |-> 0]
Answer(status) == [status |-> status, through |-> 0]
Waiting(r) == future[r] # "none" /\ reply[r] = NoReply

Init ==
    /\ pending = <<>> /\ queued = 0 /\ hasWork = FALSE /\ stopping = FALSE
    /\ writer = "ready" /\ items = <<>> /\ todo = <<>> /\ result = NoResult
    /\ committedSeq = 0 /\ totalInserted = 0
    /\ future = [r \in Requests |-> "none"]
    /\ reply = [r \in Requests |-> NoReply]
    /\ deadLettered = [r \in Requests |-> 0]
    /\ refused = [x \in Rows |-> 0]
    /\ stamp = [e \in Events |-> 0] /\ lastStamp = 0
    /\ rollup = [e \in Events |-> 0]
    /\ faults = 0 /\ crashes = 0

-----------------------------------------------------------------------------
(* The request handlers.                                                   *)

New(r) == writer # "down" /\ future[r] = "none" /\ reply[r] = NoReply

Reply(r, answer) == reply' = [reply EXCEPT ![r] = answer]

DeadLetterItems(r) ==
    deadLettered' = [deadLettered EXCEPT ![r] = @ + Invalid[r]]

\* The body never reaches validation: too large, or not the JSON expected.
DeclineBody(r) ==
    /\ New(r)
    /\ \/ /\ Form[r] = "oversized"
          /\ Reply(r, Answer("413"))
          /\ UNCHANGED deadLettered
       \/ /\ Form[r] = "malformed"
          /\ Reply(r, Answer("400"))
          /\ deadLettered' = [deadLettered EXCEPT ![r] = @ + 1]
    /\ UNCHANGED <<writerVars, future, refused, dbVars, boundVars>>

\* The single-event endpoint reports an invalid event instead of submitting.
DeclineSingle(r) ==
    /\ New(r)
    /\ Form[r] = "single" /\ Invalid[r] > 0
    /\ DeadLetterItems(r)
    /\ Reply(r, Answer("422"))
    /\ UNCHANGED <<writerVars, future, refused, dbVars, boundVars>>

Submittable(r) ==
    /\ New(r)
    /\ Form[r] = "batch" \/ (Form[r] = "single" /\ Invalid[r] = 0)

FitsWhenNotFull(r) == queued < MaxQueued                             \* mutant
Fits(r) == queued + Cardinality(RowsOf({r})) <= MaxQueued

\* Mutant: the invalid items are recorded before the submission is refused.
RefuseSubmitLate(r) ==
    /\ Submittable(r)
    /\ stopping \/ (RowsOf({r}) # {} /\ ~Fits(r))
    /\ Reply(r, Answer(IF stopping THEN "503" ELSE "429"))
    /\ DeadLetterItems(r)
    /\ UNCHANGED <<writerVars, future, refused, dbVars, boundVars>>

RefuseSubmit(r) ==
    /\ Submittable(r)
    /\ \/ /\ stopping
          /\ Reply(r, Answer("503"))
       \/ /\ ~stopping /\ RowsOf({r}) # {} /\ ~Fits(r)
          /\ Reply(r, Answer("429"))
    /\ UNCHANGED <<writerVars, future, deadLettered, refused, dbVars, boundVars>>

SubmitNothing(r) ==
    /\ Submittable(r) /\ ~stopping /\ RowsOf({r}) = {}
    /\ future' = [future EXCEPT ![r] = "done"]
    /\ DeadLetterItems(r)
    /\ UNCHANGED <<writerVars, reply, refused, dbVars, boundVars>>

Submit(r) ==
    /\ Submittable(r) /\ ~stopping /\ RowsOf({r}) # {} /\ Fits(r)
    /\ pending' = Append(pending, r)
    /\ queued' = queued + Cardinality(RowsOf({r}))
    /\ hasWork' = TRUE
    /\ future' = [future EXCEPT ![r] = "pending"]
    /\ DeadLetterItems(r)
    /\ UNCHANGED <<stopping, writer, items, todo, result, committedSeq, totalInserted,
                   reply, refused, dbVars, boundVars>>

\* The handler resumes some time after its future completed and reads the
\* watermark only then.
Acknowledge(r) ==
    /\ Waiting(r) /\ future[r] = "done"
    /\ Reply(r, [status |-> "202", through |-> committedSeq])
    /\ UNCHANGED <<writerVars, future, deadLettered, refused, dbVars, boundVars>>

AnswerStopped(r) ==
    /\ Waiting(r) /\ future[r] = "stopped"
    /\ Reply(r, Answer("503"))
    /\ UNCHANGED <<writerVars, future, deadLettered, refused, dbVars, boundVars>>

\* wait_for gives up.  The shielded future stays with the writer; the timer
\* may also win against a future that completed in the same loop turn.
AckTimeout(r) ==
    /\ Waiting(r)
    /\ Reply(r, Answer("503"))
    /\ UNCHANGED <<writerVars, future, deadLettered, refused, dbVars, boundVars>>

-----------------------------------------------------------------------------
(* The writer task.                                                        *)

Idle == pending = <<>> /\ ~stopping

Park ==
    /\ writer = "ready" /\ Idle
    /\ hasWork' = FALSE
    /\ writer' = "parked"
    /\ UNCHANGED <<pending, queued, stopping, items, todo, result, committedSeq,
                   totalInserted, future, reply, deadLettered, refused, dbVars, boundVars>>

Wake ==
    /\ writer = "parked" /\ hasWork
    /\ writer' = "ready"
    /\ UNCHANGED <<pending, queued, hasWork, stopping, items, todo, result, committedSeq,
                   totalInserted, future, reply, deadLettered, refused, dbVars, boundVars>>

Exit ==
    /\ writer = "ready" /\ pending = <<>> /\ stopping
    /\ writer' = "exited"
    /\ UNCHANGED <<pending, queued, hasWork, stopping, items, todo, result, committedSeq,
                   totalInserted, future, reply, deadLettered, refused, dbVars, boundVars>>

\* Whole requests, always at least one, as many as fit into a batch.
PrefixRows(n) == RowsOf({pending[i] : i \in 1..n})
TakesFittingOnly(n) ==                                               \* mutant
    /\ Cardinality(PrefixRows(n)) <= MaxBatch
    /\ n < Len(pending) => Cardinality(PrefixRows(n + 1)) > MaxBatch
TakesFirst(n) ==
    /\ n > 1 => Cardinality(PrefixRows(n)) <= MaxBatch
    /\ n < Len(pending) => Cardinality(PrefixRows(n + 1)) > MaxBatch

TakeBatch ==
    /\ writer = "ready" /\ pending # <<>>
    /\ \E n \in 1..Len(pending) :
          /\ TakesFirst(n)
          /\ items' = SubSeq(pending, 1, n)
          /\ pending' = SubSeq(pending, n + 1, Len(pending))
          /\ todo' = <<PrefixRows(n)>>
    /\ writer' = "executing"
    /\ result' = NoResult
    /\ UNCHANGED <<queued, hasWork, stopping, committedSeq, totalInserted,
                   future, reply, deadLettered, refused, dbVars, boundVars>>

\* The order of the rows of a batch: by request, then as in the body.
Place(r) == CHOOSE i \in DOMAIN items : items[i] = r
Precedes(x, y) ==
    \/ Place(RequestOf[x]) < Place(RequestOf[y])
    \/ RequestOf[x] = RequestOf[y] /\ x < y
LeftHalf(segment) ==
    {x \in segment : Cardinality({y \in segment : Precedes(y, x)}) < Cardinality(segment) \div 2}

\* INSERT_BATCH_SQL commits: new events are stored and, in the same statement,
\* added to the aggregates; duplicates do nothing.
Fresh(segment) == EventsOf(segment) \ Stored
Apply(segment) ==
    /\ lastStamp' = IF Fresh(segment) = {} THEN lastStamp ELSE lastStamp + 1
    /\ stamp' = [e \in Events |-> IF e \in Fresh(segment) THEN lastStamp + 1 ELSE stamp[e]]
    /\ rollup' = [e \in Events |-> rollup[e] + IF e \in Fresh(segment) THEN 1 ELSE 0]

Executing == writer = "executing" /\ todo # <<>>

\* max(seq) of the segments so far, if any of them inserted anything.
MaxSeqOfLeft(segment) ==                                             \* mutant
    IF Fresh(segment) = {} \/ result.maxSeq > 0 THEN result.maxSeq ELSE lastStamp + 1
MaxSeqWith(segment) == IF Fresh(segment) = {} THEN result.maxSeq ELSE lastStamp + 1

StatementCommits ==
    /\ Executing /\ ~Refusable(Head(todo))
    /\ Apply(Head(todo))
    /\ result' = [inserted |-> result.inserted + Cardinality(Fresh(Head(todo))),
                  maxSeq |-> MaxSeqWith(Head(todo))]
    /\ todo' = Tail(todo)
    /\ UNCHANGED <<pending, queued, hasWork, stopping, writer, items, committedSeq,
                   totalInserted, future, reply, deadLettered, refused, boundVars>>

\* A permanent error: bisect, or dead-letter the one row that is left.
StatementRefused ==
    /\ Executing /\ Refusable(Head(todo))
    /\ \/ /\ Cardinality(Head(todo)) > 1
          /\ LET left == LeftHalf(Head(todo))
             IN  todo' = <<left, Head(todo) \ left>> \o Tail(todo)
          /\ UNCHANGED refused
       \/ /\ Cardinality(Head(todo)) = 1
          /\ todo' = Tail(todo)
          /\ refused' = [x \in Rows |-> refused[x] + IF x \in Head(todo) THEN 1 ELSE 0]
    /\ UNCHANGED <<pending, queued, hasWork, stopping, writer, items, result, committedSeq,
                   totalInserted, future, reply, deadLettered, dbVars, boundVars>>

\* Any other exception ends the attempt, and with it the results of the
\* segments done so far.  The statement may have been committed all the same:
\* the error can be the loss of its answer.
SettleStatement == \/ UNCHANGED dbVars
                   \/ ~Refusable(Head(todo)) /\ Apply(Head(todo))

StatementFails ==
    /\ Executing
    /\ faults < MaxFaults
    /\ faults' = faults + 1
    /\ SettleStatement
    /\ writer' = "backoff"
    /\ todo' = <<>>
    /\ result' = NoResult
    /\ UNCHANGED <<pending, queued, hasWork, stopping, items, committedSeq,
                   totalInserted, future, reply, deadLettered, refused, crashes>>

Retry ==
    /\ writer = "backoff"
    /\ writer' = "executing"
    /\ todo' = <<RowsOf(ToSet(items))>>
    /\ UNCHANGED <<pending, queued, hasWork, stopping, items, result, committedSeq,
                   totalInserted, future, reply, deadLettered, refused, dbVars, boundVars>>

\* Watermark and totals first, then the futures that nobody cancelled.
FinishedAndWaiting == ToSet(items) \cup ToSet(pending)               \* mutant
Finished == ToSet(items)

FinishBatch ==
    /\ writer = "executing" /\ todo = <<>>
    /\ queued' = queued - Cardinality(RowsOf(ToSet(items)))
    /\ committedSeq' = IF result.maxSeq > committedSeq THEN result.maxSeq ELSE committedSeq
    /\ totalInserted' = totalInserted + result.inserted
    /\ future' = [r \in Requests |-> IF r \in Finished THEN "done" ELSE future[r]]
    /\ items' = <<>>
    /\ result' = NoResult
    /\ writer' = "ready"
    /\ UNCHANGED <<pending, hasWork, stopping, todo, reply, deadLettered, refused,
                   dbVars, boundVars>>

-----------------------------------------------------------------------------
(* Shutdown, process death and restart.                                    *)

Stop ==
    /\ writer # "down" /\ ~stopping
    /\ stopping' = TRUE
    /\ hasWork' = TRUE
    /\ UNCHANGED <<pending, queued, writer, items, todo, result, committedSeq,
                   totalInserted, future, reply, deadLettered, refused, dbVars, boundVars>>

\* The drain takes longer than stop() waits: the task is cancelled inside a
\* statement or a backoff sleep.  Only the futures still in _pending hear of it.
StopTimeout ==
    /\ stopping
    /\ \/ Executing /\ SettleStatement
       \/ writer = "backoff" /\ UNCHANGED dbVars
    /\ writer' = "cancelled"
    /\ todo' = <<>>
    /\ result' = NoResult
    /\ future' = [r \in Requests |-> IF r \in ToSet(pending) THEN "stopped" ELSE future[r]]
    /\ UNCHANGED <<pending, queued, hasWork, stopping, items, committedSeq, totalInserted,
                   reply, deadLettered, refused, boundVars>>

\* The process ends, whatever it was doing: connections break, memory is gone.
Crash ==
    /\ writer # "down"
    /\ crashes < MaxCrashes
    /\ crashes' = crashes + 1
    /\ IF Executing THEN SettleStatement ELSE UNCHANGED dbVars
    /\ pending' = <<>> /\ queued' = 0 /\ hasWork' = FALSE /\ stopping' = FALSE
    /\ writer' = "down" /\ items' = <<>> /\ todo' = <<>> /\ result' = NoResult
    /\ committedSeq' = 0 /\ totalInserted' = 0
    /\ future' = [r \in Requests |-> IF future[r] = "none" THEN "none" ELSE "lost"]
    /\ reply' = [r \in Requests |-> IF Waiting(r) THEN Answer("lost") ELSE reply[r]]
    /\ UNCHANGED <<deadLettered, refused, faults>>

Restart ==
    /\ writer = "down"
    /\ writer' = "ready"
    /\ UNCHANGED <<pending, queued, hasWork, stopping, items, todo, result, committedSeq,
                   totalInserted, future, reply, deadLettered, refused, dbVars, boundVars>>

-----------------------------------------------------------------------------

Arrive(r) == \/ DeclineBody(r) \/ DeclineSingle(r) \/ RefuseSubmit(r)
             \/ SubmitNothing(r) \/ Submit(r)
Resume(r) == Acknowledge(r) \/ AnswerStopped(r) \/ AckTimeout(r)
WriterStep == \/ Park \/ Wake \/ Exit \/ TakeBatch
              \/ StatementCommits \/ StatementRefused \/ FinishBatch \/ Retry

Next ==
    \/ \E r \in Requests : Arrive(r) \/ Resume(r)
    \/ WriterStep \/ StatementFails
    \/ Stop \/ StopTimeout \/ Crash \/ Restart

Spec == Init /\ [][Next]_vars

\* The event loop runs every ready task, timers fire, and the database answers
\* once it has stopped failing (MaxFaults).
Fairness == /\ WF_vars(WriterStep)
            /\ \A r \in Requests : WF_vars(Resume(r))
FairSpec == Spec /\ Fairness
=============================================================================
