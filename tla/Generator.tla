----------------------------- MODULE Generator ------------------------------
(***************************************************************************)
(* The synthetic producer (generator/src/event_generator): the simulator   *)
(* of order lifecycles, the sender with its buffer and its retries, and    *)
(* the main loop, against an API that keeps the promise of                 *)
(* ExactlyOnceStore: an event is stored at most once, and 202 means that   *)
(* the whole batch is stored.                                              *)
(*                                                                         *)
(* An event is <<order, step>>: the step-th event of the order's course.   *)
(* Amounts, rates and corrupted items are left out: an item the API        *)
(* rejects is answered for like a stored one.                              *)
(***************************************************************************)
EXTENDS SequencesExt, FiniteSetsExt

CONSTANTS
    Orders,      \* the orders that may be simulated
    Kinds,       \* the courses they may take, of "prepaid", "cod" and "cancelled"
    MaxPending,  \* OrderSimulator._max_pending
    MaxBatch,    \* settings.max_batch
    MaxBuffer,   \* settings.max_buffer
    MaxDue,      \* bound: follow-ups that fall due in one tick
    MaxRefusals  \* bound: answers that make the sender drop a batch

ASSUME GeneratorAssumption ==
    /\ IsFiniteSet(Orders) /\ Kinds \subseteq {"prepaid", "cod", "cancelled"}
    /\ MaxPending \in Nat \ {0}
    /\ MaxBatch \in Nat \ {0} /\ MaxBuffer \in Nat \ {0}
    /\ MaxDue \in Nat /\ MaxRefusals \in Nat

VARIABLES
    course,     \* the course each order takes
    heap,       \* _heap: the follow-ups scheduled, as events
    generated,  \* the events handed to enqueue()
    main,       \* main loop: "starting" (wait_for_api), "running", "joining", "exited"
    stopSet,    \* stop.is_set()
    sender,     \* the sender task
    buffer,     \* _buffer
    batch,      \* the batch being sent
    dropped,    \* stats.dropped_buffer_full + stats.dropped_unretryable
    refusals,
    requests,   \* batches the API received and may still store
    stored      \* the events of the store, in the order of seq

simVars == <<course, heap, generated>>
sendVars == <<sender, buffer, batch, dropped, refusals>>
apiVars == <<requests, stored>>
generatorVars == <<simVars, main, stopSet, sendVars, apiVars>>

Course(kind) ==
    CASE kind = "prepaid" -> <<"order_placed", "order_paid", "order_shipped">>
      [] kind = "cod" -> <<"order_placed", "order_shipped", "order_paid">>
      [] kind = "cancelled" -> <<"order_placed", "order_cancelled">>

GeneratorInit ==
    /\ course = [o \in Orders |-> "new"] /\ heap = {} /\ generated = {}
    /\ main = "starting" /\ stopSet = FALSE
    /\ sender = "new" /\ buffer = <<>> /\ batch = <<>> /\ dropped = 0 /\ refusals = 0
    /\ requests = {} /\ stored = <<>>

-----------------------------------------------------------------------------
(* The simulator.                                                          *)

\* _schedule(): the follow-up is skipped, and with it the rest of its course,
\* when the heap is full.
ScheduleAlways(followUps, e) == followUps \cup {e}                   \* mutant
Schedule(followUps, e) ==
    IF Cardinality(followUps) >= MaxPending THEN followUps ELSE followUps \cup {e}

\* The heap after due_events() popped due, one after the other.
Popped(followUps, e) ==
    IF e[2] < Len(Course(course[e[1]]))
    THEN Schedule(followUps \ {e}, <<e[1], e[2] + 1>>)
    ELSE followUps \ {e}
Pop(followUps, due) ==
    LET left[i \in 0..Len(due)] == IF i = 0 THEN followUps ELSE Popped(left[i - 1], due[i])
    IN  left[Len(due)]

\* Mutant: the newest events are dropped, and nobody counts them.
EnqueueUncounted(items) ==
    LET all == buffer \o items
    IN  /\ buffer' = SubSeq(all, 1, IF Len(all) < MaxBuffer THEN Len(all) ELSE MaxBuffer)
        /\ UNCHANGED dropped
\* enqueue(): beyond max_buffer the oldest events are dropped and counted.
Enqueue(items) ==
    LET all == buffer \o items
        overflow == IF Len(all) > MaxBuffer THEN Len(all) - MaxBuffer ELSE 0
    IN  /\ buffer' = SubSeq(all, overflow + 1, Len(all))
        /\ dropped' = dropped + overflow

\* The ways follow-ups can fall due in one tick; the order is that of their due times.
DueNow == {due \in SetToAllKPermutations(heap) : Len(due) <= MaxDue}

\* One turn of the main loop, also the last one, which runs when stop is set.
Tick ==
    /\ main = "running" /\ main' = IF stopSet THEN "joining" ELSE "running"
    /\ \E due \in DueNow :
         \/ /\ heap' = Pop(heap, due) /\ UNCHANGED course
            /\ generated' = generated \cup ToSet(due) /\ Enqueue(due)
         \/ \E o \in Orders, kind \in Kinds :
              /\ course[o] = "new" /\ course' = [course EXCEPT ![o] = kind]
              /\ heap' = Pop(Schedule(heap, <<o, 2>>), due)
              /\ generated' = generated \cup {<<o, 1>>} \cup ToSet(due)
              /\ Enqueue(<<<<o, 1>>>> \o due)
    /\ UNCHANGED <<stopSet, sender, batch, refusals, apiVars>>

-----------------------------------------------------------------------------
(* The main program.                                                       *)

\* wait_for_api() looks at nothing but the API's answer.
ApiAnswers ==
    /\ main = "starting" /\ main' = "running" /\ sender' = "ready"
    /\ UNCHANGED <<simVars, stopSet, buffer, batch, dropped, refusals, apiVars>>

\* SIGINT or SIGTERM.
Signal == ~stopSet /\ stopSet' = TRUE /\ UNCHANGED <<simVars, main, sendVars, apiVars>>

Join ==
    /\ main = "joining" /\ sender = "ended" /\ main' = "exited"
    /\ UNCHANGED <<simVars, stopSet, sendVars, apiVars>>

-----------------------------------------------------------------------------
(* The sender: run() and send_with_retry().                                *)

\* The top of the loop.
Turn ==
    /\ sender = "ready" /\ UNCHANGED <<dropped, refusals, stored>>
    /\ \/ /\ buffer = <<>> /\ sender' = (IF stopSet THEN "ended" ELSE "sleeping")
          /\ UNCHANGED <<buffer, batch, requests>>
       \/ /\ buffer # <<>> /\ sender' = "posting"
          /\ LET n == IF Len(buffer) < MaxBatch THEN Len(buffer) ELSE MaxBatch
             IN  /\ batch' = SubSeq(buffer, 1, n)
                 /\ buffer' = SubSeq(buffer, n + 1, Len(buffer))
          /\ requests' = requests \cup {batch'}
    /\ UNCHANGED <<simVars, main, stopSet>>

SleepOver ==
    /\ sender = "sleeping" /\ sender' = "ready"
    /\ UNCHANGED <<simVars, main, stopSet, buffer, batch, dropped, refusals, apiVars>>

\* send_with_retry() returned; a full buffer is sent on without a pause.
BatchDone ==
    /\ batch' = <<>>
    /\ sender' = IF Len(buffer) < MaxBatch THEN "sleeping" ELSE "ready"

\* 202: the batch that was sent last is stored.
Accepted ==
    /\ sender = "posting" /\ ToSet(batch) \subseteq ToSet(stored)
    /\ BatchDone
    /\ UNCHANGED <<simVars, main, stopSet, buffer, dropped, refusals, apiVars>>

\* Mutants: the batch goes back behind what came since; nobody stops retrying.
RetryRequeue ==
    IF stopSet THEN BatchDone /\ UNCHANGED buffer
    ELSE batch' = <<>> /\ buffer' = buffer \o batch /\ sender' = "ready"
RetryForever == sender' = "backoff" /\ UNCHANGED <<batch, buffer>>
\* The same batch is sent again after a pause, or given up, uncounted, once stop is set.
Retry ==
    /\ IF stopSet THEN BatchDone ELSE sender' = "backoff" /\ UNCHANGED batch
    /\ UNCHANGED buffer

\* 429, 502, 503, 504 or no answer at all: the API took the batch or did not.
Retryable ==
    /\ sender = "posting" /\ Retry
    /\ \/ UNCHANGED requests
       \/ requests' = requests \ {batch}
    /\ UNCHANGED <<simVars, main, stopSet, dropped, refusals, stored>>

\* Any other status, 500 among them: the batch is dropped and counted.
Refused ==
    /\ sender = "posting" /\ refusals < MaxRefusals /\ refusals' = refusals + 1
    /\ BatchDone /\ dropped' = dropped + Len(batch)
    /\ \/ UNCHANGED requests
       \/ requests' = requests \ {batch}
    /\ UNCHANGED <<simVars, main, stopSet, buffer, stored>>

BackoffOver ==
    /\ sender = "backoff" /\ sender' = "posting"
    /\ requests' = requests \cup {batch}
    /\ UNCHANGED <<simVars, main, stopSet, buffer, batch, dropped, refusals, stored>>

-----------------------------------------------------------------------------
(* The API, also long after the sender stopped waiting for its answer.     *)

\* Row by row, what is there already is passed over.
Inserted(table, b) ==
    LET rows[i \in 0..Len(b)] ==
            IF i = 0 THEN table
            ELSE IF Contains(rows[i - 1], b[i]) THEN rows[i - 1] ELSE Append(rows[i - 1], b[i])
    IN  rows[Len(b)]
Store ==
    /\ \E b \in requests : stored' = Inserted(stored, b) /\ requests' = requests \ {b}
    /\ UNCHANGED <<simVars, main, stopSet, sendVars>>

GeneratorNext ==
    \/ Tick \/ ApiAnswers \/ Signal \/ Join
    \/ Turn \/ SleepOver \/ Accepted \/ Retryable \/ Refused \/ BackoffOver
    \/ Store

GeneratorSpec == GeneratorInit /\ [][GeneratorNext]_generatorVars

\* The event loop runs what is ready, every request ends (http_timeout_s), and an
\* API that is asked again and again stores and answers at last; once stop is set
\* nothing is assumed of it any more.
GeneratorFairSpec ==
    /\ GeneratorSpec
    /\ WF_generatorVars(Tick) /\ WF_generatorVars(Join)
    /\ WF_generatorVars(Turn) /\ WF_generatorVars(SleepOver)
    /\ WF_generatorVars(BackoffOver) /\ WF_generatorVars(Accepted \/ Retryable)
    /\ SF_generatorVars(~stopSet /\ Store) /\ SF_generatorVars(~stopSet /\ Accepted)

-----------------------------------------------------------------------------

OrderEvents == Orders \X (1..3)

\* Every variable stays in its type, and memory within max_pending and max_buffer.
GeneratorTypeOK ==
    /\ course \in [Orders -> Kinds \cup {"new"}]
    /\ heap \subseteq OrderEvents /\ Cardinality(heap) <= MaxPending
    /\ generated \subseteq OrderEvents
    /\ main \in {"starting", "running", "joining", "exited"} /\ stopSet \in BOOLEAN
    /\ sender \in {"new", "ready", "sleeping", "posting", "backoff", "ended"}
    /\ buffer \in Seq(OrderEvents) /\ Len(buffer) <= MaxBuffer
    /\ batch \in Seq(OrderEvents) /\ Len(batch) <= MaxBatch
    /\ (batch # <<>>) = (sender \in {"posting", "backoff"})
    /\ dropped \in Nat /\ refusals \in 0..MaxRefusals
    /\ requests \subseteq Seq(OrderEvents) /\ stored \in Seq(OrderEvents)

\* What is neither stored nor still to be sent.
Missing == generated \ (ToSet(stored) \cup ToSet(buffer) \cup ToSet(batch))

\* Until stop is set no event disappears without being counted, however often a
\* batch is resent, its answer lost or the buffer overrun while it is out
\* (sender.py:65-70, 82-118).
LossesCounted == ~stopSet => Cardinality(Missing) <= dropped

\* Retries do not reorder: unless a batch was refused or given up, the events of
\* an order reach the store in the order of its course, each once, so an order is
\* never paid before it was placed; an overrun buffer may lose the first ones
\* (sender.py:76-94, lifecycle.py:76-85).
CoursesKept ==
    ~stopSet /\ refusals = 0 =>
        \A i, j \in DOMAIN stored :
            i < j /\ stored[i][1] = stored[j][1] => stored[i][2] < stored[j][2]

\* Once the API has been seen, a stop ends the program, whether or not the API
\* still answers; without one everything generated is sent and answered for
\* (sender.py:73-94, __main__.py:78, 114).
Settles ==
    <>[](main = "starting" \/ IF stopSet THEN main = "exited" ELSE buffer = <<>> /\ batch = <<>>)
=============================================================================
