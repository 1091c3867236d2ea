---------------------------- MODULE Broadcaster ----------------------------
(***************************************************************************)
(* The Broadcaster (realtime/broadcaster.py): snapshots of the aggregate   *)
(* tables, built by its own loop after commits and on an idle timer, and   *)
(* by GET /api/metrics/snapshot while there is none yet                    *)
(* (realtime/router.py).                                                   *)
(*                                                                         *)
(* The batch writer appears as its caller: a batch is in the database      *)
(* first and reported to the watermark and to on_commit() later.  Batch n  *)
(* stores the rows with seq n.  A snapshot is the through_seq it promises  *)
(* and the number of batches that its one REPEATABLE READ transaction      *)
(* (processing/metrics.py) saw.                                            *)
(***************************************************************************)
EXTENDS Integers, Sequences, SequencesExt, FiniteSets

CONSTANTS
    RestCalls,   \* GET /api/metrics/snapshot requests, each made once
    FeedLength,  \* settings.feed_events_per_tick
    MaxBatches,  \* bound: batches stored
    MaxFaults    \* bound: builds that fail

ASSUME BroadcasterAssumption ==
    /\ IsFiniteSet(RestCalls) /\ "loop" \notin RestCalls
    /\ FeedLength \in Nat \ {0} /\ MaxBatches \in Nat /\ MaxFaults \in Nat

\* Who runs broadcast_once().
Builders == RestCalls \cup {"loop"}

VARIABLES
    stored,        \* batches in the database
    report,        \* the batch the writer has yet to report, 0 for none
    committedSeq,  \* writer.committed_seq
    dirty,         \* _dirty
    pendingFeed,   \* _pending_feed: the batches whose events it holds
    builder,       \* where each builder is
    through,       \* the watermark each builder read
    view,          \* what the transaction of each builder sees
    latest,        \* latest_snapshot; NoSnapshot for None
    feed,          \* batches shown in events messages, in order
    answer,        \* what each REST call returned
    faults         \* failed builds so far

writerVars == <<stored, report, committedSeq>>
buildVars == <<builder, through, view>>
outVars == <<latest, feed, answer>>
vars == <<writerVars, dirty, pendingFeed, buildVars, outVars, faults>>

NoSnapshot == [through |-> 0, rows |-> 0 - 1]

\* Earlier processes may have stored batches; the watermark starts at 0.
Init ==
    /\ stored \in 0..MaxBatches /\ report = 0 /\ committedSeq = 0
    /\ dirty = FALSE /\ pendingFeed = <<>>
    /\ builder = [b \in Builders |-> IF b = "loop" THEN "waiting" ELSE "new"]
    /\ through = [b \in Builders |-> 0] /\ view = [b \in Builders |-> 0]
    /\ latest = NoSnapshot /\ feed = <<>>
    /\ answer = [r \in RestCalls |-> NoSnapshot]
    /\ faults = 0

-----------------------------------------------------------------------------
(* The batch writer.                                                       *)

Commit ==
    /\ report = 0 /\ stored < MaxBatches
    /\ stored' = stored + 1
    /\ report' = stored + 1
    /\ UNCHANGED <<committedSeq, dirty, pendingFeed, buildVars, outVars, faults>>

LastEvents(events) ==
    SubSeq(events, IF Len(events) > FeedLength THEN Len(events) - FeedLength + 1 ELSE 1,
           Len(events))

OnCommit ==
    /\ report > 0
    /\ committedSeq' = report /\ report' = 0
    /\ pendingFeed' = LastEvents(Append(pendingFeed, report))
    /\ dirty' = TRUE
    /\ UNCHANGED <<stored, buildVars, outVars, faults>>

\* A batch of duplicates, or one stored by a statement whose answer was lost:
\* nothing inserted, no max_seq.
OnDuplicates ==
    /\ dirty' = TRUE
    /\ report' = 0
    /\ UNCHANGED <<stored, committedSeq, pendingFeed, buildVars, outVars, faults>>

-----------------------------------------------------------------------------
(* broadcast_once().                                                       *)

Begin(b) ==
    /\ through' = [through EXCEPT ![b] = committedSeq]
    /\ builder' = [builder EXCEPT ![b] = "querying"]

WakeLoop ==
    /\ builder["loop"] = "waiting" /\ dirty
    /\ dirty' = FALSE
    /\ Begin("loop")
    /\ UNCHANGED <<writerVars, pendingFeed, view, outVars, faults>>

IdleTick ==
    /\ builder["loop"] = "waiting" /\ ~dirty
    /\ Begin("loop")
    /\ UNCHANGED <<writerVars, dirty, pendingFeed, view, outVars, faults>>

\* The transaction begins: from here on it sees one instant of the database.
Query(b) ==
    /\ builder[b] = "querying"
    /\ view' = [view EXCEPT ![b] = stored]
    /\ builder' = [builder EXCEPT ![b] = "reading"]
    /\ UNCHANGED <<writerVars, dirty, pendingFeed, through, outVars, faults>>

AfterBuild(b) == IF b = "loop" THEN "sleeping" ELSE "answered"

PromiseOfNow(b) == committedSeq                                      \* mutant
PromiseBefore(b) == through[b] - 1                                   \* mutant
Promise(b) == through[b]

Built(b) == [through |-> Promise(b), rows |-> view[b]]

FeedAfterPublish == <<>>

\* Mutant: _dirty is cleared when the build is over.
PublishClearing(b) ==
    /\ builder[b] = "reading"
    /\ latest' = Built(b)
    /\ feed' = feed \o pendingFeed
    /\ pendingFeed' = FeedAfterPublish
    /\ dirty' = FALSE
    /\ builder' = [builder EXCEPT ![b] = AfterBuild(b)]
    /\ answer' = [r \in RestCalls |-> IF r = b THEN Built(b) ELSE answer[r]]
    /\ UNCHANGED <<writerVars, through, view, faults>>

Publish(b) ==
    /\ builder[b] = "reading"
    /\ latest' = Built(b)
    /\ feed' = feed \o pendingFeed
    /\ pendingFeed' = FeedAfterPublish
    /\ builder' = [builder EXCEPT ![b] = AfterBuild(b)]
    /\ answer' = [r \in RestCalls |-> IF r = b THEN Built(b) ELSE answer[r]]
    /\ UNCHANGED <<writerVars, dirty, through, view, faults>>

\* The loop carries on after its sleep; a REST call fails.
LoopDies(b) == "answered"                                            \* mutant
AfterFailure(b) == AfterBuild(b)

BuildFails(b) ==
    /\ builder[b] \in {"querying", "reading"}
    /\ faults < MaxFaults
    /\ faults' = faults + 1
    /\ builder' = [builder EXCEPT ![b] = AfterFailure(b)]
    /\ UNCHANGED <<writerVars, dirty, pendingFeed, through, view, outVars>>

\* min_interval has passed since the build started.
SleepOver ==
    /\ builder["loop"] = "sleeping"
    /\ builder' = [builder EXCEPT !["loop"] = "waiting"]
    /\ UNCHANGED <<writerVars, dirty, pendingFeed, through, view, outVars, faults>>

Stop ==
    /\ builder["loop"] # "stopped"
    /\ builder' = [builder EXCEPT !["loop"] = "stopped"]
    /\ UNCHANGED <<writerVars, dirty, pendingFeed, through, view, outVars, faults>>

-----------------------------------------------------------------------------
(* GET /api/metrics/snapshot.                                              *)

AnswerFromLatest(r) ==
    /\ builder[r] = "new" /\ latest # NoSnapshot
    /\ builder' = [builder EXCEPT ![r] = "answered"]
    /\ answer' = [answer EXCEPT ![r] = latest]
    /\ UNCHANGED <<writerVars, dirty, pendingFeed, through, view, latest, feed, faults>>

BuildForRest(r) ==
    /\ builder[r] = "new" /\ latest = NoSnapshot
    /\ Begin(r)
    /\ UNCHANGED <<writerVars, dirty, pendingFeed, view, outVars, faults>>

-----------------------------------------------------------------------------

Build(b) == Query(b) \/ Publish(b)

Next ==
    \/ Commit \/ OnCommit \/ OnDuplicates
    \/ WakeLoop \/ IdleTick \/ SleepOver \/ Stop
    \/ \E b \in Builders : Build(b) \/ BuildFails(b)
    \/ \E r \in RestCalls : AnswerFromLatest(r) \/ BuildForRest(r)

Spec == Init /\ [][Next]_vars

\* The event loop runs and timers fire; queries end.
Fairness == /\ WF_vars(WakeLoop \/ IdleTick \/ SleepOver \/ Build("loop"))
            /\ \A r \in RestCalls : WF_vars(Build(r))
FairSpec == Spec /\ Fairness
=============================================================================
