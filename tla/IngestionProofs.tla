-------------------------- MODULE IngestionProofs --------------------------
(***************************************************************************)
(* Proofs about Ingestion: type correctness, the queue and its accounting, *)
(* the wakeup protocol, exactly-once aggregates, durable acknowledgements, *)
(* and the refinement of ExactlyOnceStore.                                 *)
(***************************************************************************)
EXTENDS IngestionProperties, SequenceFacts, FiniteSetTheorems

USE RowsAssumption, RequestAssumption, BoundAssumption
    DEF RowsAssumption, RequestAssumption, BoundAssumption

LEMMA RowsFinite ==
    ASSUME NEW S \in SUBSET Rows
    PROVE  IsFiniteSet(S) /\ Cardinality(S) \in Nat
BY FS_Subset, FS_CardinalityType

LEMMA EventsFinite ==
    ASSUME NEW S \in SUBSET Events
    PROVE  IsFiniteSet(S) /\ Cardinality(S) \in Nat
BY FS_Subset, FS_CardinalityType

LEMMA RowsOfSubset == \A R : RowsOf(R) \subseteq Rows
BY DEF RowsOf

LEMMA FreshOfSubset == \A S \in SUBSET Rows : Fresh(S) \subseteq Events
BY DEF Fresh, EventsOf

-----------------------------------------------------------------------------
(* Type correctness.                                                       *)

LEMMA InitTypeOK == Init => TypeOK
<1> SUFFICES ASSUME Init PROVE TypeOK
  OBVIOUS
<1>1. reply \in [Requests -> [status : {"none", "202", "400", "413", "422", "429", "503", "lost"},
                             through : Nat]]
  BY DEF Init, NoReply
<1>2. result \in [inserted : Nat, maxSeq : Nat]
  BY DEF Init, NoResult
<1>3. pending \in Seq(Requests) /\ items \in Seq(Requests) /\ todo \in Seq(SUBSET Rows)
  BY DEF Init
<1>4. /\ future \in [Requests -> {"none", "pending", "done", "stopped", "lost"}]
      /\ deadLettered \in [Requests -> Nat] /\ refused \in [Rows -> Nat]
      /\ stamp \in [Events -> Nat] /\ rollup \in [Events -> Nat]
  BY DEF Init
<1>5. faults \in 0..MaxFaults /\ crashes \in 0..MaxCrashes
  BY DEF Init
<1>6. hasWork \in BOOLEAN /\ stopping \in BOOLEAN
  BY Zenon DEF Init
<1>7. queued \in Int /\ committedSeq \in Nat /\ totalInserted \in Nat /\ lastStamp \in Nat
  BY DEF Init
<1>8. writer \in {"ready", "parked", "executing", "backoff", "exited", "cancelled", "down"}
  BY DEF Init
<1> QED BY <1>1, <1>2, <1>3, <1>4, <1>5, <1>6, <1>7, <1>8, Zenon DEF TypeOK

LEMMA ApplyTypeOK ==
    ASSUME TypeOK, NEW segment, Apply(segment)
    PROVE  stamp' \in [Events -> Nat] /\ lastStamp' \in Nat /\ rollup' \in [Events -> Nat]
BY DEF TypeOK, Apply

LEMMA SettleTypeOK ==
    ASSUME TypeOK, SettleStatement
    PROVE  stamp' \in [Events -> Nat] /\ lastStamp' \in Nat /\ rollup' \in [Events -> Nat]
<1>1. CASE UNCHANGED dbVars
  BY <1>1 DEF TypeOK, dbVars
<1>2. CASE Apply(Head(todo))
  BY <1>2, ApplyTypeOK
<1> QED BY <1>1, <1>2 DEF SettleStatement

LEMMA NextTypeOK == TypeOK /\ [Next]_vars => TypeOK'
<1> SUFFICES ASSUME TypeOK, [Next]_vars PROVE TypeOK'
  OBVIOUS
<1> USE DEF TypeOK, writerVars, dbVars, boundVars
<1>1. ASSUME NEW r \in Requests, DeclineBody(r) PROVE TypeOK'
  <2>1. deadLettered' \in [Requests -> Nat]
    <3>1. CASE UNCHANGED deadLettered
      BY <3>1
    <3>2. CASE deadLettered' = [deadLettered EXCEPT ![r] = @ + 1]
      BY <3>2
    <3> QED BY <1>1, <3>1, <3>2 DEF DeclineBody
  <2>2. CASE Reply(r, Answer("413"))
    BY <1>1, <2>1, <2>2 DEF DeclineBody, Reply, Answer
  <2>3. CASE Reply(r, Answer("400"))
    BY <1>1, <2>1, <2>3 DEF DeclineBody, Reply, Answer
  <2> QED BY <1>1, <2>2, <2>3 DEF DeclineBody
<1>2. ASSUME NEW r \in Requests, DeclineSingle(r) PROVE TypeOK'
  <2>1. deadLettered' \in [Requests -> Nat]
    BY <1>2 DEF DeclineSingle, DeadLetterItems
  <2> QED BY <1>2, <2>1 DEF DeclineSingle, Reply, Answer
<1>3. ASSUME NEW r \in Requests, RefuseSubmit(r) PROVE TypeOK'
  <2>1. Reply(r, Answer("503")) \/ Reply(r, Answer("429"))
    BY <1>3, Zenon DEF RefuseSubmit
  <2>2. reply' \in [Requests -> [status : {"none", "202", "400", "413", "422", "429", "503", "lost"},
                                through : Nat]]
    <3>1. CASE Reply(r, Answer("503"))
      BY <3>1 DEF Reply, Answer
    <3>2. CASE Reply(r, Answer("429"))
      BY <3>2 DEF Reply, Answer
    <3> QED BY <2>1, <3>1, <3>2
  <2> QED BY <1>3, <2>2 DEF RefuseSubmit
<1>4. ASSUME NEW r \in Requests, SubmitNothing(r) PROVE TypeOK'
  <2>1. /\ deadLettered' \in [Requests -> Nat]
        /\ future' \in [Requests -> {"none", "pending", "done", "stopped", "lost"}]
    BY <1>4 DEF SubmitNothing, DeadLetterItems
  <2> QED BY <1>4, <2>1 DEF SubmitNothing
<1>5. ASSUME NEW r \in Requests, Submit(r) PROVE TypeOK'
  <2>1. pending' \in Seq(Requests)
    BY <1>5 DEF Submit
  <2>2. queued' \in Int
    BY <1>5, RowsOfSubset, RowsFinite DEF Submit
  <2>3. /\ deadLettered' \in [Requests -> Nat]
        /\ future' \in [Requests -> {"none", "pending", "done", "stopped", "lost"}]
    BY <1>5 DEF Submit, DeadLetterItems
  <2>4. hasWork' \in BOOLEAN
    BY <1>5 DEF Submit
  <2> QED BY <1>5, <2>1, <2>2, <2>3, <2>4 DEF Submit
<1>6. ASSUME NEW r \in Requests, Acknowledge(r) PROVE TypeOK'
  BY <1>6 DEF Acknowledge, Reply
<1>7. ASSUME NEW r \in Requests, AnswerStopped(r) PROVE TypeOK'
  BY <1>7 DEF AnswerStopped, Reply, Answer
<1>8. ASSUME NEW r \in Requests, AckTimeout(r) PROVE TypeOK'
  BY <1>8 DEF AckTimeout, Reply, Answer
<1>9. CASE Park
  BY <1>9 DEF Park
<1>10. CASE Wake
  BY <1>10 DEF Wake
<1>11. CASE Exit
  BY <1>11 DEF Exit
<1>12. CASE TakeBatch
  <2> PICK n \in 1..Len(pending) : /\ items' = SubSeq(pending, 1, n)
                                   /\ pending' = SubSeq(pending, n + 1, Len(pending))
                                   /\ todo' = <<PrefixRows(n)>>
    BY <1>12 DEF TakeBatch
  <2>1. items' \in Seq(Requests) /\ pending' \in Seq(Requests)
    BY PrefixSplit
  <2>2. todo' \in Seq(SUBSET Rows)
    BY RowsOfSubset DEF PrefixRows
  <2> QED BY <1>12, <2>1, <2>2 DEF TakeBatch, NoResult
<1>13. CASE StatementCommits
  <2>1. todo' \in Seq(SUBSET Rows) /\ Head(todo) \subseteq Rows
    <3>1. todo \in Seq(SUBSET Rows)
      OBVIOUS
    <3>2. todo # <<>> /\ todo' = Tail(todo)
      BY <1>13 DEF StatementCommits, Executing
    <3>3. Tail(todo) \in Seq(SUBSET Rows) /\ Head(todo) \in SUBSET Rows
      BY ONLY <3>1, <3>2, ToSetHeadTail
    <3> QED BY ONLY <3>2, <3>3
  <2>2. Fresh(Head(todo)) \subseteq Events
    BY ONLY <2>1, FreshOfSubset
  <2>3. Cardinality(Fresh(Head(todo))) \in Nat
    BY ONLY <2>2, EventsFinite
  <2>4. stamp' \in [Events -> Nat] /\ lastStamp' \in Nat /\ rollup' \in [Events -> Nat]
    BY <1>13, ApplyTypeOK DEF StatementCommits
  <2>5. result' \in [inserted : Nat, maxSeq : Nat]
    BY <1>13, <2>3 DEF StatementCommits, MaxSeqWith
  <2> QED BY <1>13, <2>1, <2>4, <2>5 DEF StatementCommits
<1>14. CASE StatementRefused
  <2>1. Tail(todo) \in Seq(SUBSET Rows) /\ Head(todo) \subseteq Rows
    <3>1. todo \in Seq(SUBSET Rows)
      OBVIOUS
    <3>2. todo # <<>>
      BY <1>14 DEF StatementRefused, Executing
    <3>3. Tail(todo) \in Seq(SUBSET Rows) /\ Head(todo) \in SUBSET Rows
      BY ONLY <3>1, <3>2, ToSetHeadTail
    <3> QED BY ONLY <3>3
  <2>2. LeftHalf(Head(todo)) \subseteq Rows
    BY <2>1 DEF LeftHalf
  <2>3. <<LeftHalf(Head(todo)), Head(todo) \ LeftHalf(Head(todo))>> \in Seq(SUBSET Rows)
    BY <2>1, <2>2
  <2> DEFINE halves == <<LeftHalf(Head(todo)), Head(todo) \ LeftHalf(Head(todo))>>
  <2>4. halves \o Tail(todo) \in Seq(SUBSET Rows)
    BY <2>1, <2>3, ToSetConcat
  <2>5. todo' \in {halves \o Tail(todo), Tail(todo)}
    BY <1>14 DEF StatementRefused
  <2>6. todo' \in Seq(SUBSET Rows)
    BY <2>1, <2>4, <2>5
  <2>7. refused' \in [Rows -> Nat]
    <3>1. CASE UNCHANGED refused
      BY <3>1
    <3>2. CASE refused' = [x \in Rows |-> refused[x] + IF x \in Head(todo) THEN 1 ELSE 0]
      BY <3>2
    <3> QED BY <1>14, <3>1, <3>2 DEF StatementRefused
  <2> QED BY <1>14, <2>6, <2>7 DEF StatementRefused
<1>15. CASE StatementFails
  <2>1. stamp' \in [Events -> Nat] /\ lastStamp' \in Nat /\ rollup' \in [Events -> Nat]
    BY <1>15, SettleTypeOK DEF StatementFails
  <2> QED BY <1>15, <2>1 DEF StatementFails, NoResult
<1>16. CASE Retry
  <2>1. todo' \in Seq(SUBSET Rows)
    BY <1>16, RowsOfSubset DEF Retry
  <2> QED BY <1>16, <2>1 DEF Retry
<1>17. CASE FinishBatch
  <2>1. queued' \in Int
    BY <1>17, RowsOfSubset, RowsFinite DEF FinishBatch
  <2> QED BY <1>17, <2>1 DEF FinishBatch, Finished, NoResult
<1>18. CASE Stop
  BY <1>18 DEF Stop
<1>19. CASE StopTimeout
  <2>1. stamp' \in [Events -> Nat] /\ lastStamp' \in Nat /\ rollup' \in [Events -> Nat]
    BY <1>19, SettleTypeOK DEF StopTimeout
  <2>2. /\ items' \in Seq(Requests) /\ todo' \in Seq(SUBSET Rows)
        /\ result' \in [inserted : Nat, maxSeq : Nat]
    BY <1>19 DEF StopTimeout, NoResult
  <2> QED BY <1>19, <2>1, <2>2 DEF StopTimeout
<1>20. CASE Crash
  <2>1. stamp' \in [Events -> Nat] /\ lastStamp' \in Nat /\ rollup' \in [Events -> Nat]
    BY <1>20, SettleTypeOK DEF Crash
  <2>2. reply' \in [Requests -> [status : {"none", "202", "400", "413", "422", "429", "503", "lost"},
                                through : Nat]]
    BY <1>20 DEF Crash, Answer
  <2>3. future' \in [Requests -> {"none", "pending", "done", "stopped", "lost"}]
    BY <1>20 DEF Crash
  <2>4. /\ pending' \in Seq(Requests) /\ items' \in Seq(Requests)
        /\ todo' \in Seq(SUBSET Rows) /\ result' \in [inserted : Nat, maxSeq : Nat]
    BY <1>20 DEF Crash, NoResult
  <2>5. crashes' \in 0..MaxCrashes
    BY <1>20 DEF Crash
  <2>6. hasWork' \in BOOLEAN /\ stopping' \in BOOLEAN
    BY <1>20, Zenon DEF Crash
  <2>7. UNCHANGED <<deadLettered, refused, faults>>
    BY <1>20 DEF Crash
  <2>8. queued' = 0 /\ committedSeq' = 0 /\ totalInserted' = 0 /\ writer' = "down"
    BY <1>20 DEF Crash
  <2>9. /\ deadLettered' \in [Requests -> Nat] /\ refused' \in [Rows -> Nat]
        /\ faults' \in 0..MaxFaults
    BY <2>7
  <2>10. /\ queued' \in Int /\ committedSeq' \in Nat /\ totalInserted' \in Nat
         /\ writer' \in {"ready", "parked", "executing", "backoff", "exited", "cancelled", "down"}
    BY <2>8
  <2> QED BY <2>1, <2>2, <2>3, <2>4, <2>5, <2>6, <2>9, <2>10, Zenon
<1>21. CASE Restart
  BY <1>21 DEF Restart
<1>22. CASE UNCHANGED vars
  BY <1>22 DEF vars
<1> QED
  BY <1>1, <1>2, <1>3, <1>4, <1>5, <1>6, <1>7, <1>8, <1>9, <1>10, <1>11, <1>12, <1>13,
     <1>14, <1>15, <1>16, <1>17, <1>18, <1>19, <1>20, <1>21, <1>22
  DEF Next, Arrive, Resume, WriterStep

\* Every reachable state is well typed: the sequences hold requests and rows,
\* the counters of the writer stay numbers, faults and crashes keep their bounds.
THEOREM TypeCorrect == Spec => []TypeOK
BY InitTypeOK, NextTypeOK, PTL DEF Spec

-----------------------------------------------------------------------------
(* The queue, the batch and the futures.                                   *)

\* Open futures are held in one place; the batch is empty between batches and
\* everything is empty without a process; only stop() cancels the writer.
QueueInv ==
    /\ IsInjective(pending)
    /\ OpenFuturesAreHeld
    /\ writer \in {"ready", "parked", "exited", "down"} => items = <<>>
    /\ writer = "down" => pending = <<>>
    /\ writer = "cancelled" => stopping

LEMMA InitQueueInv == Init => QueueInv
BY ToSetEmpty DEF Init, QueueInv, OpenFuturesAreHeld, InFlight, IsInjective

\* An action that touches neither queue nor batch nor futures, and moves the
\* writer between states that ask the same of them, keeps the invariant.
LEMMA QueueFrame ==
    ASSUME QueueInv, UNCHANGED <<pending, items, future>>, stopping => stopping',
           writer' \in {"ready", "parked", "exited", "down"} =>
               writer \in {"ready", "parked", "exited", "down"},
           writer' # writer => writer \notin {"cancelled", "down"},
           writer' # writer => writer' \notin {"cancelled", "down"}
    PROVE  QueueInv'
<1> USE DEF QueueInv
<1>1. OpenFuturesAreHeld'
  BY DEF OpenFuturesAreHeld, InFlight
<1>2. IsInjective(pending)'
  OBVIOUS
<1> QED BY <1>1, <1>2

LEMMA SubmitQueueInv ==
    ASSUME TypeOK, QueueInv, NEW r \in Requests, Submit(r)
    PROVE  /\ r \notin InFlight
           /\ InFlight' = InFlight \cup {r}
           /\ QueueInv'
<1>1. /\ pending \in Seq(Requests) /\ items' = items
      /\ pending' = Append(pending, r) /\ future' = [future EXCEPT ![r] = "pending"]
      /\ writer' = writer /\ stopping' = stopping /\ ~stopping /\ writer # "down"
      /\ future[r] = "none" /\ future \in [Requests -> {"none", "pending", "done", "stopped", "lost"}]
  BY Zenon DEF Submit, Submittable, New, TypeOK
<1>2. writer # "cancelled"
  BY <1>1 DEF QueueInv
<1>3. r \notin InFlight
  BY <1>1, <1>2 DEF QueueInv, OpenFuturesAreHeld
<1>4. ToSet(pending') = ToSet(pending) \cup {r}
  BY <1>1, ToSetAppend
<1>5. InFlight' = InFlight \cup {r}
  BY <1>1, <1>4 DEF InFlight
<1>6. OpenFuturesAreHeld'
  BY <1>1, <1>2, <1>3, <1>4, <1>5 DEF QueueInv, OpenFuturesAreHeld, InFlight
<1>7. IsInjective(pending')
  <2>1. /\ DOMAIN pending' = 1..Len(pending) + 1 /\ Len(pending) \in Nat
        /\ \A i \in 1..Len(pending) : pending'[i] = pending[i]
        /\ pending'[Len(pending) + 1] = r
        /\ DOMAIN pending = 1..Len(pending)
    BY <1>1
  <2>2. \A i \in 1..Len(pending) : pending[i] # r
    BY <1>3, <2>1 DEF InFlight, ToSet
  <2>3. \A i, j \in 1..Len(pending) : pending[i] = pending[j] => i = j
    BY <2>1 DEF QueueInv, IsInjective
  <2> SUFFICES ASSUME NEW i \in 1..Len(pending) + 1, NEW j \in 1..Len(pending) + 1,
                      pending'[i] = pending'[j]
               PROVE  i = j
    BY <2>1 DEF IsInjective
  <2>4. i \in 1..Len(pending) \/ i = Len(pending) + 1
    BY <2>1
  <2>5. j \in 1..Len(pending) \/ j = Len(pending) + 1
    BY <2>1
  <2> QED BY <2>1, <2>2, <2>3, <2>4, <2>5
<1> QED BY <1>1, <1>2, <1>3, <1>5, <1>6, <1>7 DEF QueueInv

LEMMA TakeBatchQueueInv ==
    ASSUME TypeOK, QueueInv, TakeBatch
    PROVE  /\ InFlight' = InFlight
           /\ todo' = <<RowsOf(ToSet(items'))>>
           /\ QueueInv'
<1>1. /\ pending \in Seq(Requests) /\ items = <<>> /\ writer = "ready"
      /\ writer' = "executing" /\ UNCHANGED <<future, stopping>>
  BY DEF TakeBatch, QueueInv, TypeOK
<1>2. PICK n \in 1..Len(pending) : /\ items' = SubSeq(pending, 1, n)
                                   /\ pending' = SubSeq(pending, n + 1, Len(pending))
                                   /\ todo' = <<PrefixRows(n)>>
  BY DEF TakeBatch
<1>3. /\ ToSet(items') = {pending[i] : i \in 1..n}
      /\ ToSet(pending) = ToSet(items') \cup ToSet(pending')
      /\ IsInjective(pending')
      /\ ToSet(items') \cap ToSet(pending') = {}
  BY <1>1, <1>2, PrefixSplit DEF QueueInv
<1>4. InFlight' = InFlight
  BY <1>1, <1>3, ToSetEmpty DEF InFlight
<1>5. OpenFuturesAreHeld'
  BY <1>1, <1>3, <1>4 DEF QueueInv, OpenFuturesAreHeld
<1> QED BY <1>1, <1>2, <1>3, <1>4, <1>5 DEF QueueInv, PrefixRows

LEMMA FinishBatchQueueInv ==
    ASSUME TypeOK, QueueInv, FinishBatch
    PROVE  /\ InFlight' = InFlight \ ToSet(items)
           /\ QueueInv'
<1>1. /\ future \in [Requests -> {"none", "pending", "done", "stopped", "lost"}]
      /\ writer = "executing" /\ writer' = "ready" /\ items' = <<>>
      /\ UNCHANGED <<pending, stopping>>
      /\ future' = [r \in Requests |-> IF r \in ToSet(items) THEN "done" ELSE future[r]]
      /\ ToSet(pending) \subseteq Requests
  BY ToSetRange DEF FinishBatch, Finished, TypeOK
<1>2. InFlight' = ToSet(pending) /\ InFlight' = InFlight \ ToSet(items)
  BY <1>1, ToSetEmpty DEF InFlight, QueueInv, OpenFuturesAreHeld
<1>3. OpenFuturesAreHeld'
  <2>1. \A r \in Requests : future'[r] = "pending" => r \in InFlight'
    BY <1>1, <1>2 DEF QueueInv, OpenFuturesAreHeld
  <2>2. ToSet(pending') \cap ToSet(items') = {}
    BY <1>1, ToSetEmpty
  <2>3. \A r \in InFlight' : future'[r] = "pending"
    BY <1>1, <1>2 DEF QueueInv, OpenFuturesAreHeld
  <2> QED BY <2>1, <2>2, <2>3 DEF OpenFuturesAreHeld
<1> QED BY <1>1, <1>2, <1>3 DEF QueueInv

LEMMA NextQueueInv == TypeOK /\ QueueInv /\ [Next]_vars => QueueInv'
<1> SUFFICES ASSUME TypeOK, QueueInv, [Next]_vars PROVE QueueInv'
  OBVIOUS
<1> USE DEF writerVars, dbVars, boundVars
<1>1. ASSUME NEW r \in Requests, DeclineBody(r) PROVE QueueInv'
  BY <1>1, QueueFrame DEF DeclineBody
<1>2. ASSUME NEW r \in Requests, DeclineSingle(r) PROVE QueueInv'
  BY <1>2, QueueFrame DEF DeclineSingle
<1>3. ASSUME NEW r \in Requests, RefuseSubmit(r) PROVE QueueInv'
  BY <1>3, QueueFrame DEF RefuseSubmit
<1>4. ASSUME NEW r \in Requests, SubmitNothing(r) PROVE QueueInv'
  <2>1. /\ UNCHANGED <<pending, items, stopping, writer>>
        /\ future' = [future EXCEPT ![r] = "done"] /\ future[r] = "none"
        /\ ~stopping /\ writer # "down"
        /\ future \in [Requests -> {"none", "pending", "done", "stopped", "lost"}]
    BY <1>4, Zenon DEF SubmitNothing, Submittable, New, TypeOK
  <2>2. writer # "cancelled"
    BY <2>1 DEF QueueInv
  <2>3. r \notin InFlight
    BY <2>1, <2>2 DEF QueueInv, OpenFuturesAreHeld
  <2>4. OpenFuturesAreHeld'
    BY <2>1, <2>3 DEF QueueInv, OpenFuturesAreHeld, InFlight
  <2> QED BY <2>1, <2>2, <2>4 DEF QueueInv
<1>5. ASSUME NEW r \in Requests, Submit(r) PROVE QueueInv'
  BY <1>5, SubmitQueueInv
<1>6. ASSUME NEW r \in Requests, Acknowledge(r) PROVE QueueInv'
  BY <1>6, QueueFrame DEF Acknowledge
<1>7. ASSUME NEW r \in Requests, AnswerStopped(r) PROVE QueueInv'
  BY <1>7, QueueFrame DEF AnswerStopped
<1>8. ASSUME NEW r \in Requests, AckTimeout(r) PROVE QueueInv'
  BY <1>8, QueueFrame DEF AckTimeout
<1>9. CASE Park
  BY <1>9, QueueFrame DEF Park
<1>10. CASE Wake
  BY <1>10, QueueFrame DEF Wake
<1>11. CASE Exit
  BY <1>11, QueueFrame DEF Exit
<1>12. CASE TakeBatch
  BY <1>12, TakeBatchQueueInv
<1>13. CASE StatementCommits
  BY <1>13, QueueFrame DEF StatementCommits
<1>14. CASE StatementRefused
  BY <1>14, QueueFrame DEF StatementRefused
<1>15. CASE StatementFails
  BY <1>15, QueueFrame DEF StatementFails, Executing
<1>16. CASE Retry
  BY <1>16, QueueFrame DEF Retry
<1>17. CASE FinishBatch
  BY <1>17, FinishBatchQueueInv
<1>18. CASE Stop
  <2>1. UNCHANGED <<pending, items, future, writer>> /\ stopping'
    BY <1>18, Zenon DEF Stop
  <2> QED BY <2>1, QueueFrame
<1>19. CASE StopTimeout
  <2>1. /\ stopping /\ UNCHANGED <<pending, items, stopping>> /\ writer' = "cancelled"
        /\ future' = [r \in Requests |-> IF r \in ToSet(pending) THEN "stopped" ELSE future[r]]
    BY <1>19, Zenon DEF StopTimeout
  <2>2. OpenFuturesAreHeld'
    BY <2>1 DEF QueueInv, OpenFuturesAreHeld, InFlight
  <2> QED BY <2>1, <2>2 DEF QueueInv
<1>20. CASE Crash
  <2>1. /\ pending' = <<>> /\ items' = <<>> /\ writer' = "down"
        /\ future' = [r \in Requests |-> IF future[r] = "none" THEN "none" ELSE "lost"]
    BY <1>20, Zenon DEF Crash
  <2>2. OpenFuturesAreHeld'
    BY <2>1, ToSetEmpty DEF OpenFuturesAreHeld, InFlight
  <2> QED BY <2>1, <2>2 DEF QueueInv, IsInjective
<1>21. CASE Restart
  <2>1. UNCHANGED <<pending, items, future>> /\ writer' = "ready" /\ writer = "down"
    BY <1>21, Zenon DEF Restart
  <2>2. InFlight = {} /\ InFlight' = {}
    BY <2>1, ToSetEmpty DEF QueueInv, InFlight
  <2>3. OpenFuturesAreHeld'
    BY <2>1, <2>2 DEF QueueInv, OpenFuturesAreHeld
  <2> QED BY <2>1, <2>3 DEF QueueInv
<1>22. CASE UNCHANGED vars
  BY <1>22, QueueFrame DEF vars
<1> QED
  BY <1>1, <1>2, <1>3, <1>4, <1>5, <1>6, <1>7, <1>8, <1>9, <1>10, <1>11, <1>12, <1>13,
     <1>14, <1>15, <1>16, <1>17, <1>18, <1>19, <1>20, <1>21, <1>22
  DEF Next, Arrive, Resume, WriterStep

\* An open commit future is always in the queue or in the batch being written,
\* never in both, so nothing that was accepted can be forgotten by the writer.
THEOREM FuturesHeld == Spec => []OpenFuturesAreHeld
<1>1. Init => TypeOK /\ QueueInv
  BY InitTypeOK, InitQueueInv
<1>2. TypeOK /\ QueueInv /\ [Next]_vars => TypeOK' /\ QueueInv'
  BY NextTypeOK, NextQueueInv
<1>3. QueueInv => OpenFuturesAreHeld
  BY DEF QueueInv
<1> QED BY <1>1, <1>2, <1>3, PTL DEF Spec

-----------------------------------------------------------------------------
(* The row counter behind the 429 decision.                                *)

LEMMA RowsOfUnion == \A A, B : RowsOf(A \cup B) = RowsOf(A) \cup RowsOf(B)
BY DEF RowsOf

LEMMA DisjointRows ==
    ASSUME NEW A, NEW B, A \cap B = {}
    PROVE  Cardinality(RowsOf(A \cup B)) = Cardinality(RowsOf(A)) + Cardinality(RowsOf(B))
<1>1. /\ IsFiniteSet(RowsOf(A)) /\ IsFiniteSet(RowsOf(B))
      /\ Cardinality(RowsOf(A)) \in Nat /\ Cardinality(RowsOf(B)) \in Nat
  BY RowsOfSubset, RowsFinite
<1>2. RowsOf(A) \cap RowsOf(B) = {}
  BY DEF RowsOf
<1>3. Cardinality(RowsOf(A) \cup RowsOf(B)) =
        Cardinality(RowsOf(A)) + Cardinality(RowsOf(B)) - Cardinality(RowsOf(A) \cap RowsOf(B))
  BY <1>1, FS_Union
<1>4. Cardinality(RowsOf(A) \cap RowsOf(B)) = 0
  BY <1>2, FS_EmptySet
<1>5. RowsOf(A \cup B) = RowsOf(A) \cup RowsOf(B)
  BY RowsOfUnion
<1>6. Cardinality(RowsOf(A) \cup RowsOf(B)) = Cardinality(RowsOf(A)) + Cardinality(RowsOf(B))
  BY <1>1, <1>3, <1>4
<1> QED BY <1>5, <1>6, Zenon

LEMMA InitAccounting == Init => QueueAccounting
<1> SUFFICES ASSUME Init PROVE QueueAccounting
  OBVIOUS
<1>1. InFlight = {}
  BY ToSetEmpty DEF Init, InFlight
<1>2. RowsOf(InFlight) = {}
  BY <1>1 DEF RowsOf
<1> QED BY <1>2, FS_EmptySet DEF Init, QueueAccounting

\* An action that moves no request in or out keeps the counter right.
LEMMA AccountingFrame ==
    ASSUME QueueAccounting, UNCHANGED queued, InFlight' = InFlight
    PROVE  QueueAccounting'
BY DEF QueueAccounting

LEMMA NextAccounting == TypeOK /\ QueueInv /\ QueueAccounting /\ [Next]_vars => QueueAccounting'
<1> SUFFICES ASSUME TypeOK, QueueInv, QueueAccounting, [Next]_vars PROVE QueueAccounting'
  OBVIOUS
<1> USE DEF writerVars, dbVars, boundVars
<1>1. ASSUME UNCHANGED <<pending, queued, items>> PROVE QueueAccounting'
  BY <1>1, AccountingFrame DEF InFlight
<1>2. ASSUME NEW r \in Requests, DeclineBody(r) PROVE QueueAccounting'
  BY <1>1, <1>2 DEF DeclineBody
<1>3. ASSUME NEW r \in Requests, DeclineSingle(r) PROVE QueueAccounting'
  BY <1>1, <1>3 DEF DeclineSingle
<1>4. ASSUME NEW r \in Requests, RefuseSubmit(r) PROVE QueueAccounting'
  BY <1>1, <1>4 DEF RefuseSubmit
<1>5. ASSUME NEW r \in Requests, SubmitNothing(r) PROVE QueueAccounting'
  BY <1>1, <1>5 DEF SubmitNothing
<1>6. ASSUME NEW r \in Requests, Submit(r) PROVE QueueAccounting'
  <2>1. InFlight' = InFlight \cup {r} /\ r \notin InFlight
    BY <1>6, SubmitQueueInv
  <2>2. Cardinality(RowsOf(InFlight \cup {r})) =
          Cardinality(RowsOf(InFlight)) + Cardinality(RowsOf({r}))
    BY <2>1, DisjointRows
  <2>3. queued' = queued + Cardinality(RowsOf({r})) /\ queued' <= MaxQueued
    BY <1>6 DEF Submit, Fits
  <2> QED BY <2>1, <2>2, <2>3 DEF QueueAccounting
<1>7. ASSUME NEW r \in Requests, Acknowledge(r) PROVE QueueAccounting'
  BY <1>1, <1>7 DEF Acknowledge
<1>8. ASSUME NEW r \in Requests, AnswerStopped(r) PROVE QueueAccounting'
  BY <1>1, <1>8 DEF AnswerStopped
<1>9. ASSUME NEW r \in Requests, AckTimeout(r) PROVE QueueAccounting'
  BY <1>1, <1>9 DEF AckTimeout
<1>10. CASE Park
  BY <1>1, <1>10 DEF Park
<1>11. CASE Wake
  BY <1>1, <1>11 DEF Wake
<1>12. CASE Exit
  BY <1>1, <1>12 DEF Exit
<1>13. CASE TakeBatch
  BY <1>13, TakeBatchQueueInv, AccountingFrame DEF TakeBatch
<1>14. CASE StatementCommits
  BY <1>1, <1>14 DEF StatementCommits
<1>15. CASE StatementRefused
  BY <1>1, <1>15 DEF StatementRefused
<1>16. CASE StatementFails
  BY <1>1, <1>16 DEF StatementFails
<1>17. CASE Retry
  BY <1>1, <1>17 DEF Retry
<1>18. CASE FinishBatch
  <2>1. InFlight' = InFlight \ ToSet(items) /\ ToSet(items) \subseteq InFlight
    BY <1>18, FinishBatchQueueInv DEF InFlight
  <2>2. InFlight = InFlight' \cup ToSet(items) /\ InFlight' \cap ToSet(items) = {}
    BY <2>1
  <2>3. Cardinality(RowsOf(InFlight)) =
          Cardinality(RowsOf(InFlight')) + Cardinality(RowsOf(ToSet(items)))
    BY <2>2, DisjointRows
  <2>4. Cardinality(RowsOf(ToSet(items))) \in Nat /\ Cardinality(RowsOf(InFlight')) \in Nat
    BY RowsOfSubset, RowsFinite
  <2>5. queued' = queued - Cardinality(RowsOf(ToSet(items)))
    BY <1>18 DEF FinishBatch
  <2>6. queued' = Cardinality(RowsOf(InFlight'))
    BY <2>3, <2>4, <2>5 DEF QueueAccounting
  <2>7. queued' <= MaxQueued
    BY <2>4, <2>5 DEF QueueAccounting, TypeOK
  <2> QED BY <2>6, <2>7 DEF QueueAccounting
<1>19. CASE Stop
  BY <1>1, <1>19 DEF Stop
<1>20. CASE StopTimeout
  BY <1>1, <1>20 DEF StopTimeout
<1>21. CASE Crash
  <2>1. InFlight' = {} /\ queued' = 0
    BY <1>21, ToSetEmpty DEF Crash, InFlight
  <2>2. RowsOf(InFlight') = {}
    BY <2>1 DEF RowsOf
  <2> QED BY <2>1, <2>2, FS_EmptySet DEF QueueAccounting
<1>22. CASE Restart
  BY <1>1, <1>22 DEF Restart
<1>23. CASE UNCHANGED vars
  BY <1>1, <1>23 DEF vars
<1> QED
  BY <1>2, <1>3, <1>4, <1>5, <1>6, <1>7, <1>8, <1>9, <1>10, <1>11, <1>12, <1>13,
     <1>14, <1>15, <1>16, <1>17, <1>18, <1>19, <1>20, <1>21, <1>22, <1>23
  DEF Next, Arrive, Resume, WriterStep

\* The counter behind every 429 equals the rows actually waiting or being
\* written, and the queue never holds more than it may.
THEOREM QueueBounded == Spec => []QueueAccounting
<1>1. Init => TypeOK /\ QueueInv /\ QueueAccounting
  BY InitTypeOK, InitQueueInv, InitAccounting
<1>2. TypeOK /\ QueueInv /\ QueueAccounting /\ [Next]_vars
        => TypeOK' /\ QueueInv' /\ QueueAccounting'
  BY NextTypeOK, NextQueueInv, NextAccounting
<1> QED BY <1>1, <1>2, PTL DEF Spec

-----------------------------------------------------------------------------
(* Wakeup: has_work is set whenever a parked writer has a reason to run.   *)

LEMMA NextNoLostWakeup == NoLostWakeup /\ [Next]_vars => NoLostWakeup'
<1> SUFFICES ASSUME NoLostWakeup, [Next]_vars PROVE NoLostWakeup'
  OBVIOUS
<1> USE DEF NoLostWakeup
<1>1. ASSUME UNCHANGED <<writer, pending, stopping, hasWork>> PROVE NoLostWakeup'
  BY <1>1
<1>2. ASSUME hasWork' PROVE NoLostWakeup'
  BY <1>2
<1>3. ASSUME writer' # "parked" PROVE NoLostWakeup'
  BY <1>3
<1>4. ASSUME NEW r \in Requests, Arrive(r) PROVE NoLostWakeup'
  <2>1. CASE Submit(r)
    <3>1. hasWork'
      BY <2>1, Zenon DEF Submit
    <3> QED BY <3>1, <1>2
  <2>2. CASE DeclineBody(r) \/ DeclineSingle(r) \/ RefuseSubmit(r) \/ SubmitNothing(r)
    BY <1>1, <2>2 DEF DeclineBody, DeclineSingle, RefuseSubmit, SubmitNothing, writerVars
  <2> QED BY <1>4, <2>1, <2>2 DEF Arrive
<1>5. ASSUME NEW r \in Requests, Resume(r) PROVE NoLostWakeup'
  BY <1>1, <1>5 DEF Resume, Acknowledge, AnswerStopped, AckTimeout, writerVars
<1>6. CASE Park
  <2>1. pending' = <<>> /\ ~stopping'
    BY <1>6, Zenon DEF Park, Idle
  <2> QED BY <2>1
<1>7. CASE Wake
  BY <1>3, <1>7 DEF Wake
<1>8. CASE Exit
  BY <1>3, <1>8 DEF Exit
<1>9. CASE TakeBatch
  BY <1>3, <1>9 DEF TakeBatch
<1>10. CASE StatementCommits
  BY <1>3, <1>10 DEF StatementCommits, Executing
<1>11. CASE StatementRefused
  BY <1>3, <1>11 DEF StatementRefused, Executing
<1>12. CASE StatementFails
  BY <1>3, <1>12 DEF StatementFails
<1>13. CASE Retry
  BY <1>3, <1>13 DEF Retry
<1>14. CASE FinishBatch
  BY <1>3, <1>14 DEF FinishBatch
<1>15. CASE Stop
  <2>1. hasWork'
    BY <1>15, Zenon DEF Stop
  <2> QED BY <2>1, <1>2
<1>16. CASE StopTimeout
  BY <1>3, <1>16 DEF StopTimeout
<1>17. CASE Crash
  BY <1>3, <1>17 DEF Crash
<1>18. CASE Restart
  BY <1>3, <1>18 DEF Restart
<1>19. CASE UNCHANGED vars
  BY <1>1, <1>19 DEF vars, writerVars
<1> QED
  BY <1>4, <1>5, <1>6, <1>7, <1>8, <1>9, <1>10, <1>11, <1>12, <1>13,
     <1>14, <1>15, <1>16, <1>17, <1>18, <1>19
  DEF Next, WriterStep

\* Clearing has_work before sleeping loses no submit() and no stop().
THEOREM WakeupNeverLost == Spec => []NoLostWakeup
<1>1. Init => NoLostWakeup
  BY DEF Init, NoLostWakeup
<1> QED BY <1>1, NextNoLostWakeup, PTL DEF Spec

-----------------------------------------------------------------------------
(* The tables.                                                             *)

\* Aggregates and rows agree, and nothing the database refuses is stored.
TableInv == AggregatesMatchRows /\ BadNeverStored

LEMMA ApplyStored ==
    ASSUME TypeOK, NEW segment \in SUBSET Rows, Apply(segment)
    PROVE  /\ Fresh(segment) \subseteq Events
           /\ Stored' = Stored \cup Fresh(segment)
           /\ Stored \cap Fresh(segment) = {}
           /\ EventsOf(segment) \subseteq Stored'
           /\ \A e \in Stored : stamp'[e] = stamp[e]
<1>1. EventsOf(segment) \subseteq Events
  BY DEF EventsOf
<1>2. stamp' = [e \in Events |-> IF e \in Fresh(segment) THEN lastStamp + 1 ELSE stamp[e]]
  BY DEF Apply
<1>3. stamp \in [Events -> Nat] /\ lastStamp + 1 > 0
  BY DEF TypeOK
<1> QED BY <1>1, <1>2, <1>3 DEF Stored, Fresh

LEMMA ApplyTableInv ==
    ASSUME TypeOK, TableInv, NEW segment \in SUBSET Rows, ~Refusable(segment), Apply(segment)
    PROVE  TableInv'
<1>1. BadNeverStored'
  BY ApplyStored DEF TableInv, BadNeverStored, Refusable, Fresh
<1>2. AggregatesMatchRows'
  <2> SUFFICES ASSUME NEW e \in Events
               PROVE  rollup'[e] = IF e \in Stored' THEN 1 ELSE 0
    BY DEF AggregatesMatchRows
  <2>1. rollup'[e] = rollup[e] + IF e \in Fresh(segment) THEN 1 ELSE 0
    BY DEF Apply
  <2>2. rollup[e] = IF e \in Stored THEN 1 ELSE 0
    BY DEF TableInv, AggregatesMatchRows
  <2> QED BY <2>1, <2>2, ApplyStored
<1> QED BY <1>1, <1>2 DEF TableInv

LEMMA HeadOfTodo ==
    ASSUME TypeOK, Executing
    PROVE  /\ Head(todo) \subseteq Rows /\ Tail(todo) \in Seq(SUBSET Rows)
           /\ ToSet(todo) = {Head(todo)} \cup ToSet(Tail(todo))
<1>1. todo \in Seq(SUBSET Rows) /\ todo # <<>>
  BY DEF TypeOK, Executing
<1> QED BY <1>1, ToSetHeadTail

LEMMA SettleTableInv ==
    ASSUME TypeOK, TableInv, Executing, SettleStatement
    PROVE  TableInv'
<1>1. CASE UNCHANGED dbVars
  BY <1>1 DEF TableInv, AggregatesMatchRows, BadNeverStored, Stored, dbVars
<1>2. CASE ~Refusable(Head(todo)) /\ Apply(Head(todo))
  BY <1>2, HeadOfTodo, ApplyTableInv
<1> QED BY <1>1, <1>2 DEF SettleStatement

\* The actions that can change a table: each executes one statement.
LEMMA TableSteps ==
    ASSUME [Next]_vars
    PROVE  \/ UNCHANGED dbVars
           \/ Executing /\ SettleStatement
<1> USE DEF vars, SettleStatement
<1>1. CASE \E r \in Requests : Arrive(r) \/ Resume(r)
  BY <1>1 DEF Arrive, Resume, DeclineBody, DeclineSingle, RefuseSubmit, SubmitNothing, Submit,
              Acknowledge, AnswerStopped, AckTimeout
<1>2. CASE WriterStep
  BY <1>2 DEF WriterStep, Park, Wake, Exit, TakeBatch, StatementCommits, StatementRefused,
              FinishBatch, Retry
<1>3. CASE StatementFails
  BY <1>3 DEF StatementFails
<1>4. CASE Stop
  BY <1>4 DEF Stop
<1>5. CASE StopTimeout
  BY <1>5 DEF StopTimeout
<1>6. CASE Crash
  BY <1>6 DEF Crash
<1>7. CASE Restart
  BY <1>7 DEF Restart
<1>8. CASE UNCHANGED vars
  BY <1>8
<1> QED BY <1>1, <1>2, <1>3, <1>4, <1>5, <1>6, <1>7, <1>8 DEF Next

LEMMA NextTableInv == TypeOK /\ TableInv /\ [Next]_vars => TableInv'
<1> SUFFICES ASSUME TypeOK, TableInv, [Next]_vars PROVE TableInv'
  OBVIOUS
<1>1. CASE UNCHANGED dbVars
  BY <1>1 DEF TableInv, AggregatesMatchRows, BadNeverStored, Stored, dbVars
<1>2. CASE Executing /\ SettleStatement
  BY <1>2, SettleTableInv
<1> QED BY <1>1, <1>2, TableSteps

LEMMA InitTableInv == Init => TableInv
BY DEF Init, TableInv, AggregatesMatchRows, BadNeverStored, Stored

\* Every stored event is in the aggregates exactly once, and no other event is,
\* through every resend, retry, lost answer, bisection and crash.
THEOREM AggregatesExact == Spec => []AggregatesMatchRows
<1>1. Init => TypeOK /\ TableInv
  BY InitTypeOK, InitTableInv
<1>2. TypeOK /\ TableInv /\ [Next]_vars => TypeOK' /\ TableInv'
  BY NextTypeOK, NextTableInv
<1>3. TableInv => AggregatesMatchRows
  BY DEF TableInv
<1> QED BY <1>1, <1>2, <1>3, PTL DEF Spec

\* An event the database refuses is never stored.
THEOREM RefusedStaysOut == Spec => []BadNeverStored
<1>1. Init => TypeOK /\ TableInv
  BY InitTypeOK, InitTableInv
<1>2. TypeOK /\ TableInv /\ [Next]_vars => TypeOK' /\ TableInv'
  BY NextTypeOK, NextTableInv
<1>3. TableInv => BadNeverStored
  BY DEF TableInv
<1> QED BY <1>1, <1>2, <1>3, PTL DEF Spec

-----------------------------------------------------------------------------
(* Durability of acknowledgements.                                         *)

\* Rows of completed requests are settled; a row of the batch being written is
\* settled or still in a segment to execute.
DurableInv ==
    /\ \A r \in Requests : future[r] = "done" => \A x \in RowsOf({r}) : Settled(x)
    /\ AckedDurable
    /\ writer = "executing" =>
          \A x \in RowsOf(ToSet(items)) : Settled(x) \/ \E s \in ToSet(todo) : x \in s

LEMMA StoredGrows ==
    ASSUME TypeOK, [Next]_vars
    PROVE  /\ Stored \subseteq Stored'
           /\ \A e \in Stored : stamp'[e] = stamp[e]
<1>1. CASE UNCHANGED dbVars
  BY <1>1 DEF dbVars, Stored
<1>2. CASE Executing /\ Apply(Head(todo))
  BY <1>2, HeadOfTodo, ApplyStored
<1> QED BY <1>1, <1>2, TableSteps DEF SettleStatement

LEMMA RefusedGrows ==
    ASSUME TypeOK, [Next]_vars
    PROVE  \A x \in Rows : refused[x] > 0 => refused'[x] > 0
<1>1. CASE UNCHANGED refused
  BY <1>1
<1>2. CASE StatementRefused
  <2>1. CASE refused' = [x \in Rows |-> refused[x] + IF x \in Head(todo) THEN 1 ELSE 0]
    BY <2>1 DEF TypeOK
  <2> QED BY <1>1, <1>2, <2>1 DEF StatementRefused
<1>3. UNCHANGED refused \/ StatementRefused
  <2>1. CASE \E r \in Requests : Arrive(r) \/ Resume(r)
    BY <2>1 DEF Arrive, Resume, DeclineBody, DeclineSingle, RefuseSubmit, SubmitNothing, Submit,
                Acknowledge, AnswerStopped, AckTimeout
  <2>2. CASE WriterStep
    BY <2>2 DEF WriterStep, Park, Wake, Exit, TakeBatch, StatementCommits, FinishBatch, Retry
  <2>3. CASE StatementFails \/ Stop \/ StopTimeout \/ Crash \/ Restart \/ UNCHANGED vars
    BY <2>3 DEF StatementFails, Stop, StopTimeout, Crash, Restart, vars
  <2> QED BY <2>1, <2>2, <2>3 DEF Next
<1> QED BY <1>1, <1>2, <1>3

LEMMA SettledStable ==
    ASSUME TypeOK, [Next]_vars, NEW x \in Rows, Settled(x)
    PROVE  Settled(x)'
BY StoredGrows, RefusedGrows DEF Settled

LEMMA RowsOfMember ==
    \A R : \A r \in R : RowsOf({r}) \subseteq RowsOf(R)
BY DEF RowsOf

\* An action that completes no future, answers no 202 and leaves the batch alone.
LEMMA DurableFrame ==
    ASSUME TypeOK, DurableInv, [Next]_vars,
           \A r \in Requests : future'[r] = "done" => future[r] = "done",
           \A r \in Requests : reply'[r].status = "202" => reply[r].status = "202",
           writer' = "executing" => writer = "executing" /\ UNCHANGED <<items, todo>>
    PROVE  DurableInv'
<1>1. \A r \in Requests : \A x \in RowsOf({r}) : Settled(x) => Settled(x)'
  BY SettledStable, RowsOfSubset
<1>2. \A x \in RowsOf(ToSet(items)) : Settled(x) => Settled(x)'
  BY SettledStable, RowsOfSubset
<1>3. AckedDurable'
  BY <1>1 DEF DurableInv, AckedDurable
<1>4. \A r \in Requests : future'[r] = "done" => \A x \in RowsOf({r}) : Settled(x)'
  BY <1>1 DEF DurableInv
<1>5. writer' = "executing" =>
        \A x \in RowsOf(ToSet(items')) : Settled(x)' \/ \E s \in ToSet(todo') : x \in s
  <2> SUFFICES ASSUME writer' = "executing", NEW x \in RowsOf(ToSet(items))
               PROVE  Settled(x)' \/ \E s \in ToSet(todo) : x \in s
    OBVIOUS
  <2>1. Settled(x) \/ \E s \in ToSet(todo) : x \in s
    BY DEF DurableInv
  <2> QED BY <2>1, <1>2
<1> QED BY <1>3, <1>4, <1>5 DEF DurableInv

\* A step of the bisection: rows leave todo only settled.
LEMMA BisectionStep ==
    ASSUME TypeOK, DurableInv, [Next]_vars, writer = "executing",
           UNCHANGED <<items, future, reply>>,
           \A x \in Rows : (\E s \in ToSet(todo) : x \in s)
                           => Settled(x)' \/ \E s \in ToSet(todo') : x \in s
    PROVE  DurableInv'
<1>1. \A r \in Requests : \A x \in RowsOf({r}) : Settled(x) => Settled(x)'
  BY SettledStable, RowsOfSubset
<1>2. \A x \in RowsOf(ToSet(items)) : Settled(x) => Settled(x)'
  BY SettledStable, RowsOfSubset
<1>3. AckedDurable'
  BY <1>1 DEF DurableInv, AckedDurable
<1>4. \A r \in Requests : future'[r] = "done" => \A x \in RowsOf({r}) : Settled(x)'
  BY <1>1 DEF DurableInv
<1>5. \A x \in RowsOf(ToSet(items')) : Settled(x)' \/ \E s \in ToSet(todo') : x \in s
  <2> SUFFICES ASSUME NEW x \in RowsOf(ToSet(items))
               PROVE  Settled(x)' \/ \E s \in ToSet(todo') : x \in s
    OBVIOUS
  <2>1. Settled(x) \/ \E s \in ToSet(todo) : x \in s
    BY DEF DurableInv
  <2>2. x \in Rows
    BY RowsOfSubset
  <2> QED BY <2>1, <2>2, <1>2
<1> QED BY <1>3, <1>4, <1>5 DEF DurableInv

LEMMA CommitsDurable ==
    ASSUME TypeOK, DurableInv, StatementCommits
    PROVE  DurableInv'
<1>1. /\ writer = "executing" /\ todo' = Tail(todo) /\ UNCHANGED <<items, future, reply>>
      /\ Executing /\ Apply(Head(todo))
  BY DEF StatementCommits, Executing
<1>2. [Next]_vars
  BY DEF Next, WriterStep
<1>3. EventsOf(Head(todo)) \subseteq Stored'
  BY <1>1, HeadOfTodo, ApplyStored
<1>4. \A x \in Head(todo) : Settled(x)'
  BY <1>3 DEF Settled, EventsOf
<1>5. ToSet(todo) = {Head(todo)} \cup ToSet(todo')
  BY <1>1, HeadOfTodo
<1> QED BY <1>1, <1>2, <1>4, <1>5, BisectionStep

LEMMA RefusedDurable ==
    ASSUME TypeOK, DurableInv, StatementRefused
    PROVE  DurableInv'
<1>1. /\ writer = "executing" /\ UNCHANGED <<items, future, reply>>
      /\ Executing /\ Refusable(Head(todo))
  BY DEF StatementRefused, Executing
<1>2. [Next]_vars
  BY DEF Next, WriterStep
<1>3. /\ Head(todo) \subseteq Rows /\ Tail(todo) \in Seq(SUBSET Rows)
      /\ ToSet(todo) = {Head(todo)} \cup ToSet(Tail(todo))
  BY <1>1, HeadOfTodo
<1> DEFINE left == LeftHalf(Head(todo))
           right == Head(todo) \ left
<1>4. CASE todo' = <<left, right>> \o Tail(todo)
  <2> DEFINE halves == <<left, right>>
  <2>1. halves \in Seq(SUBSET Rows)
    BY <1>3 DEF LeftHalf
  <2>2. ToSet(halves) = {left, right}
    BY DEF ToSet
  <2>3. ToSet(todo') = {left, right} \cup ToSet(Tail(todo))
    <3> HIDE DEF halves
    <3>1. Tail(todo) \in Seq(SUBSET Rows)
      BY <1>3
    <3>2. ToSet(halves \o Tail(todo)) = ToSet(halves) \cup ToSet(Tail(todo))
      <4> DEFINE S == SUBSET Rows
                 rest == Tail(todo)
      <4>1. halves \in Seq(S) /\ rest \in Seq(S)
        BY <2>1, <3>1
      <4> HIDE DEF S, rest
      <4>2. ToSet(halves \o rest) = ToSet(halves) \cup ToSet(rest)
        BY ONLY <4>1, ToSetConcat
      <4> QED BY <4>2 DEF rest
    <3> QED BY <1>4, <2>2, <3>2 DEF halves
  <2>4. \A x \in Head(todo) : x \in left \/ x \in right
    OBVIOUS
  <2> QED BY <1>1, <1>2, <1>3, <2>3, <2>4, BisectionStep
<1>5. CASE /\ Cardinality(Head(todo)) = 1 /\ todo' = Tail(todo)
           /\ refused' = [x \in Rows |-> refused[x] + IF x \in Head(todo) THEN 1 ELSE 0]
  <2>1. PICK y : Head(todo) = {y}
    BY <1>3, <1>5, RowsFinite, FS_Singleton
  <2>2. EventOf[y] \in Bad /\ y \in Rows
    BY <1>1, <1>3, <2>1 DEF Refusable, EventsOf
  <2>3. refused'[y] > 0
    BY <1>5, <2>1, <2>2 DEF TypeOK
  <2>4. Settled(y)'
    BY <2>2, <2>3 DEF Settled
  <2> QED BY <1>1, <1>2, <1>3, <1>5, <2>1, <2>4, BisectionStep
<1> QED BY <1>4, <1>5 DEF StatementRefused

LEMMA FinishDurable ==
    ASSUME TypeOK, DurableInv, FinishBatch
    PROVE  DurableInv'
<1>1. /\ writer = "executing" /\ writer' = "ready" /\ UNCHANGED reply
      /\ future' = [r \in Requests |-> IF r \in ToSet(items) THEN "done" ELSE future[r]]
      /\ ToSet(todo) = {}
  BY ToSetEmpty DEF FinishBatch, Finished
<1>2. [Next]_vars
  BY DEF Next, WriterStep
<1>3. \A x \in RowsOf(ToSet(items)) : Settled(x)
  BY <1>1 DEF DurableInv
<1>4. \A r \in Requests : future'[r] = "done" => \A x \in RowsOf({r}) : Settled(x)
  <2> SUFFICES ASSUME NEW r \in Requests, future'[r] = "done", NEW x \in RowsOf({r})
               PROVE  Settled(x)
    OBVIOUS
  <2>1. CASE r \in ToSet(items)
    BY <1>3, <2>1, RowsOfMember
  <2>2. CASE r \notin ToSet(items)
    BY <1>1, <2>2 DEF DurableInv
  <2> QED BY <2>1, <2>2
<1>5. \A r \in Requests : \A x \in RowsOf({r}) : Settled(x) => Settled(x)'
  BY <1>2, SettledStable, RowsOfSubset
<1>6. AckedDurable'
  BY <1>1, <1>5 DEF DurableInv, AckedDurable
<1> QED BY <1>1, <1>4, <1>5, <1>6 DEF DurableInv

LEMMA NextDurableInv == TypeOK /\ QueueInv /\ DurableInv /\ [Next]_vars => DurableInv'
<1> SUFFICES ASSUME TypeOK, QueueInv, DurableInv, [Next]_vars PROVE DurableInv'
  OBVIOUS
<1>1. ASSUME NEW r \in Requests, DeclineBody(r) PROVE DurableInv'
  <2>1. \A q \in Requests : reply'[q].status = "202" => reply[q].status = "202"
    <3>1. CASE Reply(r, Answer("413"))
      BY <3>1 DEF Reply, Answer, TypeOK
    <3>2. CASE Reply(r, Answer("400"))
      BY <3>2 DEF Reply, Answer, TypeOK
    <3> QED BY <1>1, <3>1, <3>2 DEF DeclineBody
  <2> QED BY <1>1, <2>1, DurableFrame DEF DeclineBody, writerVars
<1>2. ASSUME NEW r \in Requests, DeclineSingle(r) PROVE DurableInv'
  <2>1. \A q \in Requests : reply'[q].status = "202" => reply[q].status = "202"
    BY <1>2 DEF DeclineSingle, Reply, Answer, TypeOK
  <2> QED BY <1>2, <2>1, DurableFrame DEF DeclineSingle, writerVars
<1>3. ASSUME NEW r \in Requests, RefuseSubmit(r) PROVE DurableInv'
  <2>1. Reply(r, Answer("503")) \/ Reply(r, Answer("429"))
    BY <1>3, Zenon DEF RefuseSubmit
  <2>2. \A q \in Requests : reply'[q].status = "202" => reply[q].status = "202"
    <3>1. CASE Reply(r, Answer("503"))
      BY <3>1 DEF Reply, Answer, TypeOK
    <3>2. CASE Reply(r, Answer("429"))
      BY <3>2 DEF Reply, Answer, TypeOK
    <3> QED BY <2>1, <3>1, <3>2
  <2> QED BY <1>3, <2>2, DurableFrame DEF RefuseSubmit, writerVars
<1>4. ASSUME NEW r \in Requests, SubmitNothing(r) PROVE DurableInv'
  <2>1. /\ future' = [future EXCEPT ![r] = "done"] /\ RowsOf({r}) = {}
        /\ UNCHANGED <<writerVars, reply>>
    BY <1>4 DEF SubmitNothing
  <2>2. \A q \in Requests : \A x \in RowsOf({q}) : Settled(x) => Settled(x)'
    BY SettledStable, RowsOfSubset
  <2>3. \A q \in Requests : future'[q] = "done" => \A x \in RowsOf({q}) : Settled(x)'
    BY <2>1, <2>2 DEF DurableInv, TypeOK
  <2>4. AckedDurable'
    BY <2>1, <2>2 DEF DurableInv, AckedDurable
  <2>5. \A x \in RowsOf(ToSet(items)) : Settled(x) => Settled(x)'
    BY SettledStable, RowsOfSubset
  <2> QED BY <2>1, <2>3, <2>4, <2>5 DEF DurableInv, writerVars
<1>5. ASSUME NEW r \in Requests, Submit(r) PROVE DurableInv'
  <2>1. \A q \in Requests : future'[q] = "done" => future[q] = "done"
    BY <1>5 DEF Submit, TypeOK
  <2> QED BY <1>5, <2>1, DurableFrame DEF Submit
<1>6. ASSUME NEW r \in Requests, Acknowledge(r) PROVE DurableInv'
  <2>1. /\ future[r] = "done" /\ UNCHANGED <<writerVars, future>>
        /\ reply' = [reply EXCEPT ![r] = [status |-> "202", through |-> committedSeq]]
    BY <1>6 DEF Acknowledge, Reply
  <2>2. \A q \in Requests : \A x \in RowsOf({q}) : Settled(x) => Settled(x)'
    BY SettledStable, RowsOfSubset
  <2>3. \A q \in Requests : future'[q] = "done" => \A x \in RowsOf({q}) : Settled(x)'
    BY <2>1, <2>2 DEF DurableInv
  <2>4. AckedDurable'
    BY <2>1, <2>2 DEF DurableInv, AckedDurable, TypeOK
  <2>5. \A x \in RowsOf(ToSet(items)) : Settled(x) => Settled(x)'
    BY SettledStable, RowsOfSubset
  <2> QED BY <2>1, <2>3, <2>4, <2>5 DEF DurableInv, writerVars
<1>7. ASSUME NEW r \in Requests, AnswerStopped(r) PROVE DurableInv'
  <2>1. \A q \in Requests : reply'[q].status = "202" => reply[q].status = "202"
    BY <1>7 DEF AnswerStopped, Reply, Answer, TypeOK
  <2> QED BY <1>7, <2>1, DurableFrame DEF AnswerStopped, writerVars
<1>8. ASSUME NEW r \in Requests, AckTimeout(r) PROVE DurableInv'
  <2>1. \A q \in Requests : reply'[q].status = "202" => reply[q].status = "202"
    BY <1>8 DEF AckTimeout, Reply, Answer, TypeOK
  <2> QED BY <1>8, <2>1, DurableFrame DEF AckTimeout, writerVars
<1>9. CASE Park
  BY <1>9, DurableFrame DEF Park
<1>10. CASE Wake
  BY <1>10, DurableFrame DEF Wake
<1>11. CASE Exit
  BY <1>11, DurableFrame DEF Exit
<1>12. CASE TakeBatch
  <2>1. todo' = <<RowsOf(ToSet(items'))>> /\ UNCHANGED <<future, reply>>
    BY <1>12, TakeBatchQueueInv DEF TakeBatch
  <2>2. \A q \in Requests : \A x \in RowsOf({q}) : Settled(x) => Settled(x)'
    BY SettledStable, RowsOfSubset
  <2>3. ToSet(todo') = {RowsOf(ToSet(items'))}
    BY <2>1, ToSetSingleton
  <2>4. AckedDurable'
    BY <2>1, <2>2 DEF DurableInv, AckedDurable
  <2> QED BY <2>1, <2>2, <2>3, <2>4 DEF DurableInv
<1>13. CASE StatementCommits
  BY <1>13, CommitsDurable
<1>14. CASE StatementRefused
  BY <1>14, RefusedDurable
<1>15. CASE StatementFails
  BY <1>15, DurableFrame DEF StatementFails
<1>16. CASE Retry
  <2>1. todo' = <<RowsOf(ToSet(items'))>> /\ UNCHANGED <<future, reply>>
    BY <1>16 DEF Retry
  <2>2. \A q \in Requests : \A x \in RowsOf({q}) : Settled(x) => Settled(x)'
    BY SettledStable, RowsOfSubset
  <2>3. ToSet(todo') = {RowsOf(ToSet(items'))}
    BY <2>1, ToSetSingleton
  <2>4. AckedDurable'
    BY <2>1, <2>2 DEF DurableInv, AckedDurable
  <2> QED BY <2>1, <2>2, <2>3, <2>4 DEF DurableInv
<1>17. CASE FinishBatch
  BY <1>17, FinishDurable
<1>18. CASE Stop
  BY <1>18, DurableFrame DEF Stop
<1>19. CASE StopTimeout
  <2>1. \A q \in Requests : future'[q] = "done" => future[q] = "done"
    BY <1>19 DEF StopTimeout
  <2> QED BY <1>19, <2>1, DurableFrame DEF StopTimeout
<1>20. CASE Crash
  <2>1. \A q \in Requests : future'[q] = "done" => future[q] = "done"
    BY <1>20 DEF Crash
  <2>2. \A q \in Requests : reply'[q].status = "202" => reply[q].status = "202"
    BY <1>20 DEF Crash, Answer
  <2> QED BY <1>20, <2>1, <2>2, DurableFrame DEF Crash
<1>21. CASE Restart
  BY <1>21, DurableFrame DEF Restart
<1>22. CASE UNCHANGED vars
  BY <1>22, DurableFrame DEF vars, writerVars
<1> QED
  BY <1>1, <1>2, <1>3, <1>4, <1>5, <1>6, <1>7, <1>8, <1>9, <1>10, <1>11, <1>12, <1>13,
     <1>14, <1>15, <1>16, <1>17, <1>18, <1>19, <1>20, <1>21, <1>22
  DEF Next, Arrive, Resume, WriterStep

LEMMA InitDurableInv == Init => DurableInv
BY DEF Init, DurableInv, AckedDurable, NoReply

\* The inductive invariant behind the theorems that follow.
StoreInv == TypeOK /\ QueueInv /\ TableInv /\ DurableInv

LEMMA InitStoreInv == Init => StoreInv
BY InitTypeOK, InitQueueInv, InitTableInv, InitDurableInv DEF StoreInv

LEMMA NextStoreInv == StoreInv /\ [Next]_vars => StoreInv'
BY NextTypeOK, NextQueueInv, NextTableInv, NextDurableInv DEF StoreInv

\* A request answered 202 has every valid event in the store, or refused by the
\* database and dead-lettered, at that moment and for ever after: through lost
\* answers, retried batches, bisection, shutdown and process death.
THEOREM AcknowledgedIsDurable == Spec => []AckedDurable
<1>1. StoreInv => AckedDurable
  BY DEF StoreInv, DurableInv
<1> QED BY <1>1, InitStoreInv, NextStoreInv, PTL DEF Spec

-----------------------------------------------------------------------------
(* Implementation of the exactly-once store.                               *)

Acked == {r \in Requests : reply[r].status = "202"}

LEMMA NeedsType == [r \in Requests |-> EventsOf(RowsOf({r})) \ Bad] \in [Requests -> SUBSET Events]
BY DEF EventsOf, RowsOf

LEMMA InitImplementsStore == Init => Store!Init
BY DEF Init, Store!Init, Stored, NoReply

\* A statement that commits new events is a Store step of the abstract store,
\* every other statement a stutter.
LEMMA ApplyImplementsStore ==
    ASSUME TypeOK, Executing, Apply(Head(todo)), UNCHANGED Acked
    PROVE  [Store!Next]_(Store!storeVars)
<1> DEFINE fresh == Fresh(Head(todo))
<1>1. /\ fresh \subseteq Events /\ Stored' = Stored \cup fresh /\ Stored \cap fresh = {}
  BY HeadOfTodo, ApplyStored
<1>2. rollup' = [e \in Events |-> rollup[e] + IF e \in fresh THEN 1 ELSE 0]
  BY DEF Apply
<1>3. CASE fresh = {}
  <2>1. rollup' = rollup
    BY <1>2, <1>3 DEF TypeOK
  <2>2. Stored' = Stored
    BY <1>1, <1>3
  <2> QED BY <2>1, <2>2 DEF Store!storeVars, Acked
<1>4. CASE fresh # {}
  <2>1. Store!Store(fresh)
    BY <1>1, <1>2, <1>4 DEF Store!Store, Acked
  <2> QED BY <1>1, <2>1 DEF Store!Next
<1> QED BY <1>3, <1>4

LEMMA AcknowledgeImplementsStore ==
    ASSUME StoreInv, NEW r \in Requests, Acknowledge(r)
    PROVE  Store!Acknowledge(r)
<1>1. /\ future[r] = "done" /\ UNCHANGED dbVars
      /\ reply' = [reply EXCEPT ![r] = [status |-> "202", through |-> committedSeq]]
  BY DEF Acknowledge, Reply
<1>2. \A x \in RowsOf({r}) : EventOf[x] \in Stored \/ EventOf[x] \in Bad
  BY <1>1 DEF StoreInv, DurableInv, Settled
<1>3. EventsOf(RowsOf({r})) \ Bad \subseteq Stored
  BY <1>2 DEF EventsOf
<1>4. Acked' = Acked \cup {r}
  BY <1>1 DEF Acked, StoreInv, TypeOK
<1>5. Stored' = Stored /\ rollup' = rollup
  BY <1>1 DEF dbVars, Stored
<1> QED BY <1>3, <1>4, <1>5 DEF Store!Acknowledge, Acked

\* Only Acknowledge answers 202, and it executes no statement.
LEMMA AckSteps ==
    ASSUME TypeOK, [Next]_vars
    PROVE  UNCHANGED Acked \/ \E r \in Requests : Acknowledge(r)
<1>1. ASSUME UNCHANGED reply PROVE UNCHANGED Acked
  BY <1>1 DEF Acked
<1>2. ASSUME NEW r \in Requests, NEW status, status # "202", Reply(r, Answer(status)),
             reply[r] = NoReply
      PROVE  UNCHANGED Acked
  BY <1>2 DEF Acked, Reply, Answer, NoReply, TypeOK
<1>3. CASE \E r \in Requests : Arrive(r)
  <2> PICK r \in Requests : Arrive(r)
    BY <1>3
  <2>1. CASE DeclineBody(r)
    <3>1. \E status \in {"413", "400"} : Reply(r, Answer(status)) /\ reply[r] = NoReply
      BY <2>1, Zenon DEF DeclineBody, New
    <3> QED BY <3>1, <1>2
  <2>2. CASE DeclineSingle(r)
    BY <2>2, <1>2 DEF DeclineSingle, New
  <2>3. CASE RefuseSubmit(r)
    <3>1. \E status \in {"503", "429"} : Reply(r, Answer(status)) /\ reply[r] = NoReply
      BY <2>3, Zenon DEF RefuseSubmit, Submittable, New
    <3> QED BY <3>1, <1>2
  <2>4. CASE SubmitNothing(r) \/ Submit(r)
    BY <2>4, <1>1 DEF SubmitNothing, Submit
  <2> QED BY <2>1, <2>2, <2>3, <2>4 DEF Arrive
<1>4. CASE \E r \in Requests : Resume(r)
  BY <1>2, <1>4 DEF Resume, AnswerStopped, AckTimeout, Waiting
<1>5. CASE WriterStep
  BY <1>1, <1>5 DEF WriterStep, Park, Wake, Exit, TakeBatch, StatementCommits, StatementRefused,
                    FinishBatch, Retry
<1>6. CASE Crash
  BY <1>6 DEF Crash, Acked, Waiting, NoReply, Answer, TypeOK
<1>7. CASE StatementFails \/ Stop \/ StopTimeout \/ Restart \/ UNCHANGED vars
  BY <1>1, <1>7 DEF StatementFails, Stop, StopTimeout, Restart, vars
<1> QED BY <1>3, <1>4, <1>5, <1>6, <1>7 DEF Next

LEMMA NextImplementsStore == StoreInv /\ [Next]_vars => [Store!Next]_(Store!storeVars)
<1> SUFFICES ASSUME StoreInv, [Next]_vars PROVE [Store!Next]_(Store!storeVars)
  OBVIOUS
<1>1. TypeOK
  BY DEF StoreInv
<1>2. CASE \E r \in Requests : Acknowledge(r)
  BY <1>2, AcknowledgeImplementsStore DEF Store!Next
<1>3. CASE UNCHANGED Acked
  <2>1. CASE UNCHANGED dbVars
    BY <1>3, <2>1 DEF dbVars, Stored, Acked, Store!storeVars
  <2>2. CASE Executing /\ Apply(Head(todo))
    BY <1>1, <1>3, <2>2, ApplyImplementsStore
  <2> QED BY <2>1, <2>2, TableSteps DEF SettleStatement
<1> QED BY <1>1, <1>2, <1>3, AckSteps

\* Seen through its tables and its 202s, the ingestion path is the exactly-once
\* store: retries, duplicates, bisection and crashes change nothing a producer
\* or a reader of the tables can see.
THEOREM IngestionImplementsStore == Spec => ImplementsStore
<1>1. Init => Store!Init
  BY InitImplementsStore
<1>2. StoreInv /\ [Next]_vars => [Store!Next]_(Store!storeVars)
  BY NextImplementsStore
<1> QED BY <1>1, <1>2, InitStoreInv, NextStoreInv, PTL DEF Spec, ImplementsStore, Store!Spec

-----------------------------------------------------------------------------
(* The watermark.                                                          *)

WatermarkGrows ==
    /\ \A e \in Stored : stamp'[e] = stamp[e]
    /\ writer' # "down" => committedSeq' >= committedSeq

LEMMA NextWatermarkGrows == TypeOK /\ [Next]_vars => WatermarkGrows
<1> SUFFICES ASSUME TypeOK, [Next]_vars PROVE WatermarkGrows
  OBVIOUS
<1>1. \A e \in Stored : stamp'[e] = stamp[e]
  BY StoredGrows
<1>2. ASSUME UNCHANGED committedSeq PROVE committedSeq' >= committedSeq
  BY <1>2 DEF TypeOK
<1>3. writer' # "down" => committedSeq' >= committedSeq
  <2>1. CASE \E r \in Requests : Arrive(r) \/ Resume(r)
    BY <1>2, <2>1 DEF Arrive, Resume, DeclineBody, DeclineSingle, RefuseSubmit, SubmitNothing,
                      Submit, Acknowledge, AnswerStopped, AckTimeout, writerVars
  <2>2. CASE WriterStep
    <3>1. CASE FinishBatch
      BY <3>1 DEF FinishBatch, TypeOK
    <3> QED BY <1>2, <2>2, <3>1 DEF WriterStep, Park, Wake, Exit, TakeBatch, StatementCommits,
                                    StatementRefused, Retry
  <2>3. CASE StatementFails \/ Stop \/ StopTimeout \/ Restart \/ UNCHANGED vars
    BY <1>2, <2>3 DEF StatementFails, Stop, StopTimeout, Restart, vars, writerVars
  <2>4. CASE Crash
    BY <2>4 DEF Crash
  <2> QED BY <2>1, <2>2, <2>3, <2>4 DEF Next
<1> QED BY <1>1, <1>3 DEF WatermarkGrows

\* A stored row keeps its seq for ever, and the watermark of a living process
\* never goes back.
THEOREM GrowsOnly == Spec => StoreOnlyGrows
<1>1. TypeOK /\ [Next]_vars => [WatermarkGrows]_vars
  BY NextWatermarkGrows
<1>2. StoreOnlyGrows <=> [][WatermarkGrows]_vars
  BY PTL DEF StoreOnlyGrows, WatermarkGrows
<1> QED BY <1>1, <1>2, InitTypeOK, NextTypeOK, PTL DEF Spec

-----------------------------------------------------------------------------
(* The items recorded as invalid.                                          *)

\* InvalidItemsRecordedOnce with the fact that a body answered 400 never gets a
\* commit future.
RecordedInv ==
    /\ InvalidItemsRecordedOnce
    /\ \A r \in Requests : reply[r].status = "400" => future[r] = "none"

LEMMA InitRecordedInv == Init => RecordedInv
BY DEF Init, RecordedInv, InvalidItemsRecordedOnce, NoReply

\* An action that records nothing, and leads neither to nor away from one of the
\* outcomes that do.
LEMMA RecordedFrame ==
    ASSUME RecordedInv, UNCHANGED deadLettered,
           \A r \in Requests :
               /\ future'[r] = "none" <=> future[r] = "none"
               /\ reply'[r].status = "400" <=> reply[r].status = "400"
               /\ reply'[r].status = "422" <=> reply[r].status = "422"
    PROVE  RecordedInv'
BY DEF RecordedInv, InvalidItemsRecordedOnce

\* A request without an answer and without a future has recorded nothing so far.
LEMMA NewRecordedNothing ==
    ASSUME RecordedInv, NEW r \in Requests, New(r)
    PROVE  deadLettered[r] = 0 /\ reply[r].status = "none"
BY DEF RecordedInv, InvalidItemsRecordedOnce, New, NoReply

LEMMA NextRecordedInv == TypeOK /\ QueueInv /\ RecordedInv /\ [Next]_vars => RecordedInv'
<1> SUFFICES ASSUME TypeOK, QueueInv, RecordedInv, [Next]_vars PROVE RecordedInv'
  OBVIOUS
<1> USE DEF writerVars, dbVars, boundVars
<1>0. /\ reply \in [Requests -> [status : {"none", "202", "400", "413", "422", "429", "503", "lost"},
                               through : Nat]]
      /\ future \in [Requests -> {"none", "pending", "done", "stopped", "lost"}]
      /\ deadLettered \in [Requests -> Nat] /\ Invalid \in [Requests -> Nat]
  BY DEF TypeOK
<1>1. ASSUME NEW r \in Requests, DeclineBody(r) PROVE RecordedInv'
  <2>1. deadLettered[r] = 0 /\ reply[r].status = "none" /\ future[r] = "none" /\ future' = future
    BY <1>1, NewRecordedNothing DEF DeclineBody, New
  <2>2. CASE Reply(r, Answer("413")) /\ UNCHANGED deadLettered
    BY <1>0, <2>1, <2>2, RecordedFrame DEF Reply, Answer
  <2>3. CASE Reply(r, Answer("400")) /\ deadLettered' = [deadLettered EXCEPT ![r] = @ + 1]
    <3>1. \A q \in Requests : IF q = r THEN reply'[q].status = "400" /\ deadLettered'[q] = 1
                              ELSE reply'[q] = reply[q] /\ deadLettered'[q] = deadLettered[q]
      BY <1>0, <2>1, <2>3 DEF Reply, Answer
    <3> QED BY <2>1, <3>1 DEF RecordedInv, InvalidItemsRecordedOnce
  <2> QED BY <1>1, <2>2, <2>3 DEF DeclineBody
<1>2. ASSUME NEW r \in Requests, DeclineSingle(r) PROVE RecordedInv'
  <2>1. deadLettered[r] = 0 /\ future' = future
    BY <1>2, NewRecordedNothing DEF DeclineSingle
  <2>2. \A q \in Requests : IF q = r THEN reply'[q].status = "422" /\ deadLettered'[q] = Invalid[q]
                            ELSE reply'[q] = reply[q] /\ deadLettered'[q] = deadLettered[q]
    BY <1>0, <1>2, <2>1 DEF DeclineSingle, Reply, Answer, DeadLetterItems
  <2> QED BY <2>1, <2>2 DEF RecordedInv, InvalidItemsRecordedOnce
<1>3. ASSUME NEW r \in Requests, RefuseSubmit(r) PROVE RecordedInv'
  <2>1. reply[r].status = "none" /\ UNCHANGED <<future, deadLettered>>
    BY <1>3, NewRecordedNothing DEF RefuseSubmit, Submittable
  <2>2. \E status \in {"503", "429"} : Reply(r, Answer(status))
    BY <1>3, Zenon DEF RefuseSubmit
  <2> QED BY <1>0, <2>1, <2>2, RecordedFrame DEF Reply, Answer
<1>4. ASSUME NEW r \in Requests, SubmitNothing(r) \/ Submit(r) PROVE RecordedInv'
  <2>1. deadLettered[r] = 0 /\ reply[r].status = "none" /\ reply' = reply
    BY <1>4, NewRecordedNothing DEF SubmitNothing, Submit, Submittable
  <2>2. DeadLetterItems(r) /\ \E state \in {"done", "pending"} : future' = [future EXCEPT ![r] = state]
    BY <1>4, Zenon DEF SubmitNothing, Submit
  <2>3. \A q \in Requests : IF q = r THEN future'[q] # "none" /\ deadLettered'[q] = Invalid[q]
                            ELSE future'[q] = future[q] /\ deadLettered'[q] = deadLettered[q]
    BY <1>0, <2>1, <2>2 DEF DeadLetterItems
  <2> QED BY <2>1, <2>3 DEF RecordedInv, InvalidItemsRecordedOnce
<1>5. ASSUME NEW r \in Requests, Resume(r) PROVE RecordedInv'
  <2>1. reply[r].status = "none" /\ UNCHANGED <<future, deadLettered>>
    BY <1>5 DEF Resume, Acknowledge, AnswerStopped, AckTimeout, Waiting, NoReply
  <2>2. \A q \in Requests :
            reply'[q] = reply[q] \/ (q = r /\ reply'[q].status \in {"202", "503"})
    <3>1. CASE reply' = [reply EXCEPT ![r] = [status |-> "202", through |-> committedSeq]]
      BY <1>0, <3>1
    <3>2. CASE reply' = [reply EXCEPT ![r] = [status |-> "503", through |-> 0]]
      BY <1>0, <3>2
    <3> QED BY <1>5, <3>1, <3>2, Zenon
            DEF Resume, Acknowledge, AnswerStopped, AckTimeout, Reply, Answer
  <2> QED BY <1>0, <2>1, <2>2, RecordedFrame
<1>6. CASE UNCHANGED <<future, reply, deadLettered>>
  BY <1>6, RecordedFrame
<1>7. CASE FinishBatch
  <2>1. \A r \in ToSet(items) : future[r] = "pending"
    BY <1>7 DEF FinishBatch, QueueInv, OpenFuturesAreHeld, InFlight
  <2>2. /\ UNCHANGED <<reply, deadLettered>>
        /\ future' = [r \in Requests |-> IF r \in ToSet(items) THEN "done" ELSE future[r]]
    BY <1>7 DEF FinishBatch, Finished
  <2> QED BY <2>1, <2>2, RecordedFrame
<1>8. CASE StopTimeout
  <2>1. \A r \in ToSet(pending) : future[r] = "pending"
    BY <1>8 DEF StopTimeout, Executing, QueueInv, OpenFuturesAreHeld, InFlight
  <2>2. /\ UNCHANGED <<reply, deadLettered>>
        /\ future' = [r \in Requests |-> IF r \in ToSet(pending) THEN "stopped" ELSE future[r]]
    BY <1>8, Zenon DEF StopTimeout
  <2> QED BY <2>1, <2>2, RecordedFrame
<1>9. CASE Crash
  BY <1>9, RecordedFrame DEF Crash, Waiting, NoReply, Answer
<1>10. CASE WriterStep \/ StatementFails \/ Stop \/ Restart \/ UNCHANGED vars
  BY <1>6, <1>7, <1>10, Zenon DEF WriterStep, Park, Wake, Exit, TakeBatch, StatementCommits,
     StatementRefused, Retry, StatementFails, Stop, Restart, vars
<1> QED BY <1>1, <1>2, <1>3, <1>4, <1>5, <1>8, <1>9, <1>10, Zenon DEF Next, Arrive

\* Every invalid item is recorded once, by the answer or the submission that accounts
\* for it; a refused submission records nothing, so neither does its resend twice.
THEOREM InvalidItemsOnce == Spec => []InvalidItemsRecordedOnce
<1>1. RecordedInv => InvalidItemsRecordedOnce
  BY DEF RecordedInv
<1> QED BY InitTypeOK, NextTypeOK, InitQueueInv, NextQueueInv, InitRecordedInv, NextRecordedInv,
           <1>1, PTL DEF Spec

-----------------------------------------------------------------------------
(* The watermark.                                                          *)

\* Stamps are given out in order; the watermark and the maximum the batch has
\* so far are stamps of stored events.
StampsInOrder ==
    /\ \A e \in Events : stamp[e] <= lastStamp
    /\ committedSeq > 0 => \E e \in Events : stamp[e] = committedSeq
    /\ result.maxSeq > 0 => \E e \in Events : stamp[e] = result.maxSeq

\* What the totals count, finished batches and the one being written, is stored.
TotalsStored == totalInserted + result.inserted <= Cardinality(Stored)

\* A batch under way is the only one with a result, and only a failure or a
\* death leads out of it otherwise than through FinishBatch.
ResultsOfBatch ==
    /\ writer # "executing" => result = NoResult
    /\ writer = "backoff" => faults > 0
    /\ writer = "down" => crashes > 0

Undisturbed == faults = 0 /\ crashes = 0

\* Without a failure, the watermark and the totals that finishing the batch
\* would lead to are those of the store.
CaughtUp ==
    Undisturbed /\ writer # "cancelled" =>
        /\ lastStamp = IF result.maxSeq > committedSeq THEN result.maxSeq ELSE committedSeq
        /\ totalInserted + result.inserted = Cardinality(Stored)

DoneCovered ==
    \A r \in Requests : future[r] = "done" =>
        \A x \in RowsOf({r}) : stamp[EventOf[x]] <= committedSeq

WatermarkInv ==
    /\ StampsInOrder /\ TotalsStored /\ ResultsOfBatch /\ CaughtUp
    /\ Undisturbed => DoneCovered /\ AckCoversOwnRows

LEMMA InitWatermarkInv == Init => WatermarkInv
<1> SUFFICES ASSUME Init PROVE WatermarkInv
  OBVIOUS
<1>1. Stored = {} /\ Cardinality(Stored) = 0
  <2>1. Stored = {}
    BY DEF Init, Stored
  <2> QED BY <2>1, FS_EmptySet
<1> QED BY <1>1 DEF Init, WatermarkInv, StampsInOrder, TotalsStored, ResultsOfBatch, CaughtUp,
               DoneCovered, AckCoversOwnRows, NoResult, NoReply, Undisturbed

\* An action that changes neither the tables nor what the writer counts.
LEMMA WatermarkFrame ==
    ASSUME WatermarkInv,
           UNCHANGED <<dbVars, boundVars, committedSeq, totalInserted, result>>,
           writer' # "executing" => result = NoResult,
           writer' \in {"backoff", "down", "cancelled"} \/ writer = "cancelled" => writer' = writer,
           \A r \in Requests : future'[r] = "done" => future[r] = "done" \/ RowsOf({r}) = {},
           \A r \in Requests : reply'[r].status = "202" => reply'[r] = reply[r]
    PROVE  WatermarkInv'
<1> USE DEF dbVars, boundVars
<1>1. Stored' = Stored /\ Undisturbed' = Undisturbed
  BY DEF Stored, Undisturbed
<1>2. (StampsInOrder /\ TotalsStored)'
  BY <1>1 DEF WatermarkInv, StampsInOrder, TotalsStored
<1>3. ResultsOfBatch'
  BY DEF WatermarkInv, ResultsOfBatch
<1>4. CaughtUp'
  BY <1>1 DEF WatermarkInv, CaughtUp
<1>5. Undisturbed => DoneCovered' /\ AckCoversOwnRows'
  BY DEF WatermarkInv, DoneCovered, AckCoversOwnRows
<1> QED BY <1>1, <1>2, <1>3, <1>4, <1>5 DEF WatermarkInv

\* Executing a statement moves the stamps and what is stored, in order; nothing
\* that was settled is stamped again.
LEMMA ApplyStamps ==
    ASSUME StoreInv, StampsInOrder, NEW segment \in SUBSET Rows, ~Refusable(segment), Apply(segment)
    PROVE  /\ lastStamp' >= lastStamp /\ \A e \in Events : stamp'[e] <= lastStamp'
           /\ \A e \in Stored : stamp'[e] = stamp[e]
           /\ \A x \in Rows : Settled(x) => stamp'[EventOf[x]] = stamp[EventOf[x]]
           /\ Fresh(segment) # {} => /\ lastStamp' = lastStamp + 1
                                    /\ \E e \in Events : stamp'[e] = lastStamp + 1
           /\ Cardinality(Stored') = Cardinality(Stored) + Cardinality(Fresh(segment))
           /\ Cardinality(Stored) \in Nat /\ Cardinality(Fresh(segment)) \in Nat
<1> DEFINE fresh == Fresh(segment)
<1>1. /\ fresh \subseteq Events /\ Stored' = Stored \cup fresh /\ Stored \cap fresh = {}
      /\ \A e \in Stored : stamp'[e] = stamp[e]
  BY ApplyStored DEF StoreInv
<1>2. /\ lastStamp' = IF fresh = {} THEN lastStamp ELSE lastStamp + 1
      /\ stamp' = [e \in Events |-> IF e \in fresh THEN lastStamp + 1 ELSE stamp[e]]
      /\ stamp \in [Events -> Nat] /\ lastStamp \in Nat
      /\ \A e \in Events : stamp[e] <= lastStamp
  BY DEF Apply, StoreInv, TypeOK, StampsInOrder
<1>3. \A x \in Rows : Settled(x) => stamp'[EventOf[x]] = stamp[EventOf[x]]
  <2> SUFFICES ASSUME NEW x \in Rows, Settled(x) PROVE EventOf[x] \in Events /\ EventOf[x] \notin fresh
    BY <1>2
  <2>1. EventOf[x] \in Stored \/ EventOf[x] \in Bad
    BY DEF Settled
  <2> QED BY <2>1 DEF Fresh, Refusable
<1>4. /\ IsFiniteSet(Stored) /\ Cardinality(Stored) \in Nat
      /\ IsFiniteSet(fresh) /\ Cardinality(fresh) \in Nat
  <2>1. Stored \subseteq Events
    BY DEF Stored
  <2> QED BY <1>1, <2>1, EventsFinite
<1>5. Cardinality(Stored') = Cardinality(Stored) + Cardinality(fresh)
  <2>1. Cardinality(Stored \cup fresh)
           = Cardinality(Stored) + Cardinality(fresh) - Cardinality(Stored \cap fresh)
    BY <1>4, FS_Union
  <2>2. Cardinality(Stored \cap fresh) = 0
    BY <1>1, FS_EmptySet
  <2> QED BY <1>1, <1>4, <2>1, <2>2
<1> HIDE DEF fresh
<1>6. fresh # {} => \E e \in Events : stamp'[e] = lastStamp + 1
  BY <1>1, <1>2
<1> QED BY <1>1, <1>2, <1>3, <1>4, <1>5, <1>6 DEF fresh

\* Rows of completed and of acknowledged requests are settled, so a statement
\* leaves them covered.
LEMMA ApplyKeepsCovered ==
    ASSUME StoreInv, DoneCovered, AckCoversOwnRows,
           \A x \in Rows : Settled(x) => stamp'[EventOf[x]] = stamp[EventOf[x]],
           committedSeq' = committedSeq, reply' = reply,
           \A r \in Requests : future'[r] = "done" => future[r] = "done"
    PROVE  DoneCovered' /\ AckCoversOwnRows'
<1>1. \A r \in Requests : future[r] = "done" \/ reply[r].status = "202" =>
          \A x \in RowsOf({r}) : stamp'[EventOf[x]] = stamp[EventOf[x]]
  BY RowsOfSubset DEF StoreInv, DurableInv, AckedDurable
<1> QED BY <1>1 DEF DoneCovered, AckCoversOwnRows

LEMMA CommitsWatermark ==
    ASSUME StoreInv, WatermarkInv, StatementCommits
    PROVE  WatermarkInv'
<1> DEFINE segment == Head(todo)
           fresh == Fresh(segment)
<1>1. /\ Executing /\ ~Refusable(segment) /\ Apply(segment)
      /\ result' = [inserted |-> result.inserted + Cardinality(fresh), maxSeq |-> MaxSeqWith(segment)]
      /\ UNCHANGED <<writer, committedSeq, totalInserted, future, reply, faults, crashes>>
      /\ writer = "executing"
  BY DEF StatementCommits, boundVars, Executing
<1>2. segment \in SUBSET Rows
  BY <1>1, HeadOfTodo DEF StoreInv
<1>3. /\ lastStamp' >= lastStamp /\ \A e \in Events : stamp'[e] <= lastStamp'
      /\ \A e \in Stored : stamp'[e] = stamp[e]
      /\ \A x \in Rows : Settled(x) => stamp'[EventOf[x]] = stamp[EventOf[x]]
      /\ fresh # {} => lastStamp' = lastStamp + 1 /\ \E e \in Events : stamp'[e] = lastStamp + 1
      /\ Cardinality(Stored') = Cardinality(Stored) + Cardinality(fresh)
      /\ Cardinality(Stored) \in Nat /\ Cardinality(fresh) \in Nat
  BY <1>1, <1>2, ApplyStamps DEF WatermarkInv
<1>4. /\ lastStamp \in Nat /\ committedSeq \in Nat /\ totalInserted \in Nat
      /\ result.inserted \in Nat /\ result.maxSeq \in Nat
      /\ \A e \in Events : stamp[e] \in Nat
  BY DEF StoreInv, TypeOK
<1>5. /\ result'.inserted = result.inserted + Cardinality(fresh)
      /\ result'.maxSeq = IF fresh = {} THEN result.maxSeq ELSE lastStamp + 1
  BY <1>1 DEF MaxSeqWith
<1>6. fresh = {} => lastStamp' = lastStamp
  BY <1>1 DEF Apply
<1> HIDE DEF fresh, segment
<1>7. \A n \in Nat : n > 0 /\ (\E e \in Events : stamp[e] = n) => \E e \in Events : stamp'[e] = n
  <2> SUFFICES ASSUME NEW n \in Nat, n > 0, NEW e \in Events, stamp[e] = n
               PROVE  stamp'[e] = n
    OBVIOUS
  <2> QED BY <1>3 DEF Stored
<1>8. StampsInOrder'
  BY <1>1, <1>3, <1>4, <1>5, <1>7 DEF WatermarkInv, StampsInOrder
<1>9. TotalsStored'
  BY <1>1, <1>3, <1>4, <1>5 DEF WatermarkInv, TotalsStored
<1>10. ResultsOfBatch'
  BY <1>1 DEF WatermarkInv, ResultsOfBatch
<1>11. CaughtUp'
  <2> SUFFICES ASSUME Undisturbed
               PROVE  /\ lastStamp' = IF result'.maxSeq > committedSeq
                                      THEN result'.maxSeq ELSE committedSeq
                      /\ totalInserted + result'.inserted = Cardinality(Stored')
    BY <1>1 DEF CaughtUp, Undisturbed
  <2>1. /\ lastStamp = IF result.maxSeq > committedSeq THEN result.maxSeq ELSE committedSeq
        /\ totalInserted + result.inserted = Cardinality(Stored)
    BY <1>1 DEF WatermarkInv, CaughtUp
  <2>2. CASE fresh = {}
    BY <1>3, <1>4, <1>5, <1>6, <2>1, <2>2
  <2>3. CASE fresh # {}
    BY <1>3, <1>4, <1>5, <2>1, <2>3
  <2> QED BY <2>2, <2>3
<1>12. Undisturbed' => DoneCovered' /\ AckCoversOwnRows'
  BY <1>1, <1>3, ApplyKeepsCovered DEF WatermarkInv, Undisturbed
<1> QED BY <1>8, <1>9, <1>10, <1>11, <1>12 DEF WatermarkInv

\* A statement that ends in a failure, a cancellation or a death: what it stored
\* is in no total.
LEMMA AbandonedWatermark ==
    ASSUME StoreInv, WatermarkInv, (Executing /\ SettleStatement) \/ UNCHANGED dbVars,
           result' = NoResult, committedSeq' \in {0, committedSeq},
           totalInserted' \in {0, totalInserted},
           writer' \in {"backoff", "cancelled", "down"},
           faults' >= faults /\ crashes' >= crashes,
           writer' = "backoff" => faults' > 0, writer' = "down" => crashes' > 0,
           Undisturbed' => committedSeq' = committedSeq /\ reply' = reply,
           \A r \in Requests : future'[r] = "done" => future[r] = "done"
    PROVE  WatermarkInv'
<1>1. /\ lastStamp \in Nat /\ committedSeq \in Nat /\ totalInserted \in Nat
      /\ result.inserted \in Nat /\ result.maxSeq \in Nat
      /\ \A e \in Events : stamp[e] \in Nat
      /\ faults \in Nat /\ crashes \in Nat
  BY DEF StoreInv, TypeOK
<1>2. Cardinality(Stored) \in Nat
  <2>1. Stored \subseteq Events
    BY DEF Stored
  <2> QED BY <2>1, EventsFinite
<1>3. /\ \A e \in Events : stamp'[e] <= lastStamp'
      /\ \A e \in Stored : stamp'[e] = stamp[e]
      /\ \A x \in Rows : Settled(x) => stamp'[EventOf[x]] = stamp[EventOf[x]]
      /\ Cardinality(Stored') >= Cardinality(Stored) /\ Cardinality(Stored') \in Nat
  <2>1. CASE UNCHANGED dbVars
    BY <1>2, <2>1 DEF dbVars, Stored, WatermarkInv, StampsInOrder
  <2>2. CASE Executing /\ ~Refusable(Head(todo)) /\ Apply(Head(todo))
    <3>1. Head(todo) \in SUBSET Rows
      BY <2>2, HeadOfTodo DEF StoreInv
    <3> QED BY <2>2, <3>1, ApplyStamps DEF WatermarkInv
  <2> QED BY <2>1, <2>2 DEF SettleStatement
<1>4. result'.inserted = 0 /\ result'.maxSeq = 0
  BY DEF NoResult
<1>5. StampsInOrder'
  <2>1. committedSeq > 0 => \E e \in Stored : stamp[e] = committedSeq
    BY DEF WatermarkInv, StampsInOrder, Stored
  <2>2. committedSeq' > 0 => \E e \in Events : stamp'[e] = committedSeq'
    BY <1>3, <2>1 DEF Stored
  <2> QED BY <1>3, <1>4, <2>2 DEF StampsInOrder
<1>6. TotalsStored'
  BY <1>1, <1>2, <1>3, <1>4 DEF WatermarkInv, TotalsStored
<1>7. ResultsOfBatch'
  BY DEF ResultsOfBatch
<1>8. CaughtUp'
  BY <1>1 DEF CaughtUp, Undisturbed
<1>9. Undisturbed' => DoneCovered' /\ AckCoversOwnRows'
  <2> SUFFICES ASSUME Undisturbed' PROVE DoneCovered' /\ AckCoversOwnRows'
    OBVIOUS
  <2>1. Undisturbed
    BY <1>1 DEF Undisturbed
  <2> QED BY <1>3, <2>1, ApplyKeepsCovered DEF WatermarkInv
<1> QED BY <1>5, <1>6, <1>7, <1>8, <1>9 DEF WatermarkInv

LEMMA FinishWatermark ==
    ASSUME StoreInv, WatermarkInv, FinishBatch
    PROVE  WatermarkInv'
<1>1. /\ committedSeq' = IF result.maxSeq > committedSeq THEN result.maxSeq ELSE committedSeq
      /\ totalInserted' = totalInserted + result.inserted
      /\ result' = NoResult /\ writer' = "ready" /\ writer = "executing"
      /\ UNCHANGED <<stamp, lastStamp, reply, faults, crashes>>
  BY DEF FinishBatch, dbVars, boundVars
<1>2. /\ lastStamp \in Nat /\ committedSeq \in Nat /\ totalInserted \in Nat
      /\ result.inserted \in Nat /\ result.maxSeq \in Nat
      /\ \A e \in Events : stamp[e] \in Nat
  BY DEF StoreInv, TypeOK
<1>3. result'.inserted = 0 /\ result'.maxSeq = 0 /\ Stored' = Stored
  BY <1>1 DEF NoResult, Stored
<1>4. StampsInOrder'
  BY <1>1, <1>2, <1>3 DEF WatermarkInv, StampsInOrder
<1>5. TotalsStored'
  BY <1>1, <1>2, <1>3 DEF WatermarkInv, TotalsStored
<1>6. ResultsOfBatch'
  BY <1>1 DEF ResultsOfBatch
<1>7. CaughtUp'
  BY <1>1, <1>2, <1>3 DEF WatermarkInv, CaughtUp, Undisturbed
<1>8. Undisturbed' => DoneCovered' /\ AckCoversOwnRows'
  <2> SUFFICES ASSUME Undisturbed PROVE DoneCovered' /\ AckCoversOwnRows'
    BY <1>1 DEF Undisturbed
  <2>1. committedSeq' = lastStamp
    BY <1>1 DEF WatermarkInv, CaughtUp
  <2>2. \A x \in Rows : stamp'[EventOf[x]] <= committedSeq'
    BY <1>1, <2>1 DEF WatermarkInv, StampsInOrder
  <2>3. DoneCovered'
    BY <2>2, RowsOfSubset DEF DoneCovered
  <2> QED BY <1>1, <2>3 DEF WatermarkInv, AckCoversOwnRows
<1> QED BY <1>4, <1>5, <1>6, <1>7, <1>8 DEF WatermarkInv

LEMMA AcknowledgeWatermark ==
    ASSUME StoreInv, WatermarkInv, NEW r \in Requests, Acknowledge(r)
    PROVE  WatermarkInv'
<1>1. /\ future[r] = "done" /\ UNCHANGED <<writerVars, dbVars, boundVars, future>>
      /\ reply' = [reply EXCEPT ![r] = [status |-> "202", through |-> committedSeq]]
  BY DEF Acknowledge, Reply
<1>2. /\ Stored' = Stored /\ Undisturbed' = Undisturbed /\ DoneCovered' = DoneCovered
      /\ (StampsInOrder /\ TotalsStored /\ ResultsOfBatch /\ CaughtUp)'
  BY <1>1 DEF writerVars, dbVars, boundVars, Stored, Undisturbed, DoneCovered,
              WatermarkInv, StampsInOrder, TotalsStored, ResultsOfBatch, CaughtUp
<1>3. DoneCovered /\ AckCoversOwnRows => AckCoversOwnRows'
  BY <1>1 DEF DoneCovered, AckCoversOwnRows, dbVars, StoreInv, TypeOK
<1> QED BY <1>2, <1>3 DEF WatermarkInv

LEMMA NextWatermarkInv == StoreInv /\ WatermarkInv /\ [Next]_vars => WatermarkInv'
<1> SUFFICES ASSUME StoreInv, WatermarkInv, [Next]_vars PROVE WatermarkInv'
  OBVIOUS
<1> USE DEF writerVars
<1>0. /\ reply \in [Requests -> [status : {"none", "202", "400", "413", "422", "429", "503", "lost"},
                               through : Nat]]
      /\ future \in [Requests -> {"none", "pending", "done", "stopped", "lost"}]
      /\ faults \in Nat /\ crashes \in Nat
      /\ ResultsOfBatch
  BY DEF StoreInv, TypeOK, WatermarkInv
<1>1. ASSUME NEW r \in Requests, NEW status, status # "202", Reply(r, Answer(status)),
             UNCHANGED <<writerVars, future, dbVars, boundVars>>
      PROVE  WatermarkInv'
  BY <1>0, <1>1, WatermarkFrame DEF Reply, Answer, ResultsOfBatch
<1>2. ASSUME NEW r \in Requests, DeclineBody(r) PROVE WatermarkInv'
  <2>1. \E status \in {"413", "400"} : Reply(r, Answer(status))
    BY <1>2, Zenon DEF DeclineBody
  <2> QED BY <1>1, <1>2, <2>1 DEF DeclineBody
<1>3. ASSUME NEW r \in Requests, DeclineSingle(r) PROVE WatermarkInv'
  BY <1>1, <1>3 DEF DeclineSingle
<1>4. ASSUME NEW r \in Requests, RefuseSubmit(r) PROVE WatermarkInv'
  <2>1. \E status \in {"503", "429"} : Reply(r, Answer(status))
    BY <1>4, Zenon DEF RefuseSubmit
  <2> QED BY <1>1, <1>4, <2>1 DEF RefuseSubmit
<1>5. ASSUME NEW r \in Requests, SubmitNothing(r) PROVE WatermarkInv'
  BY <1>0, <1>5, WatermarkFrame DEF SubmitNothing, ResultsOfBatch
<1>6. ASSUME NEW r \in Requests, Submit(r) PROVE WatermarkInv'
  BY <1>0, <1>6, WatermarkFrame DEF Submit, ResultsOfBatch
<1>7. ASSUME NEW r \in Requests, AnswerStopped(r) PROVE WatermarkInv'
  BY <1>1, <1>7 DEF AnswerStopped
<1>8. ASSUME NEW r \in Requests, AckTimeout(r) PROVE WatermarkInv'
  BY <1>1, <1>8 DEF AckTimeout
<1>9. CASE Park
  BY <1>0, <1>9, WatermarkFrame DEF Park, ResultsOfBatch
<1>10. CASE Wake
  BY <1>0, <1>10, WatermarkFrame DEF Wake, ResultsOfBatch
<1>11. CASE Exit
  BY <1>0, <1>11, WatermarkFrame DEF Exit, ResultsOfBatch
<1>12. CASE TakeBatch
  BY <1>0, <1>12, WatermarkFrame DEF TakeBatch, ResultsOfBatch
<1>13. CASE StatementRefused
  BY <1>0, <1>13, WatermarkFrame DEF StatementRefused, Executing, ResultsOfBatch
<1>14. CASE Retry
  BY <1>0, <1>14, WatermarkFrame DEF Retry, ResultsOfBatch
<1>15. CASE StatementFails
  BY <1>0, <1>15, AbandonedWatermark DEF StatementFails
<1>16. CASE Stop
  BY <1>0, <1>16, WatermarkFrame DEF Stop, ResultsOfBatch
<1>17. CASE StopTimeout
  <2>1. \A r \in Requests : future'[r] = "done" => future[r] = "done"
    BY <1>17 DEF StopTimeout
  <2>2. /\ (Executing /\ SettleStatement) \/ UNCHANGED dbVars
        /\ writer' = "cancelled" /\ result' = NoResult
        /\ UNCHANGED <<committedSeq, totalInserted, reply, faults, crashes>>
    BY <1>17 DEF StopTimeout, boundVars
  <2> QED BY <1>0, <2>1, <2>2, AbandonedWatermark
<1>18. CASE Crash
  <2>1. \A r \in Requests : future'[r] = "done" => future[r] = "done"
    BY <1>18 DEF Crash
  <2>2. /\ (Executing /\ SettleStatement) \/ UNCHANGED dbVars
        /\ writer' = "down" /\ result' = NoResult /\ committedSeq' = 0 /\ totalInserted' = 0
        /\ faults' = faults /\ crashes' = crashes + 1
    BY <1>18 DEF Crash
  <2>3. ~Undisturbed'
    BY <1>0, <2>2 DEF Undisturbed
  <2> QED BY <1>0, <2>1, <2>2, <2>3, AbandonedWatermark
<1>19. CASE Restart
  BY <1>0, <1>19, WatermarkFrame DEF Restart, ResultsOfBatch
<1>20. CASE UNCHANGED vars
  BY <1>0, <1>20, WatermarkFrame DEF vars, ResultsOfBatch
<1> QED
  BY <1>2, <1>3, <1>4, <1>5, <1>6, <1>7, <1>8, <1>9, <1>10, <1>11, <1>12, <1>13, <1>14, <1>15,
     <1>16, <1>17, <1>18, <1>19, <1>20, CommitsWatermark, FinishWatermark, AcknowledgeWatermark
  DEF Next, Arrive, Resume, WriterStep

\* The watermark is the stamp of something stored and the total counts nothing that
\* is not; without failures and deaths both have caught up between batches, and a 202
\* carries a through_seq that includes its own events.
THEOREM WatermarkTrue == Spec => []WatermarkFollowsStore
<1>1. StoreInv /\ WatermarkInv => WatermarkFollowsStore
  <2> SUFFICES ASSUME StoreInv, WatermarkInv PROVE WatermarkFollowsStore
    OBVIOUS
  <2>1. totalInserted \in Nat /\ committedSeq \in Nat /\ result \in [inserted : Nat, maxSeq : Nat]
    BY DEF StoreInv, TypeOK
  <2>2. Cardinality(Stored) \in Nat
    <3>1. Stored \subseteq Events
      BY DEF Stored
    <3> QED BY <3>1, EventsFinite
  <2>3. totalInserted <= Cardinality(Stored)
    BY <2>1, <2>2 DEF WatermarkInv, TotalsStored
  <2>4. Undisturbed /\ writer \in {"ready", "parked", "exited"} =>
            committedSeq = lastStamp /\ totalInserted = Cardinality(Stored)
    BY <2>1, <2>2 DEF WatermarkInv, ResultsOfBatch, CaughtUp, NoResult
  <2> QED BY <2>3, <2>4 DEF WatermarkInv, StampsInOrder, Undisturbed, WatermarkFollowsStore
<1> QED BY <1>1, InitStoreInv, NextStoreInv, InitWatermarkInv, NextWatermarkInv, PTL DEF Spec
=============================================================================
