------------------------- MODULE BroadcasterProofs -------------------------
(***************************************************************************)
(* Proofs about Broadcaster: type correctness, snapshots that cover their  *)
(* watermark, the order of the live feed, and commits that are never       *)
(* forgotten.                                                              *)
(***************************************************************************)
EXTENDS BroadcasterProperties, SequenceFacts

USE BroadcasterAssumption DEF BroadcasterAssumption

-----------------------------------------------------------------------------
(* The inductive invariant.  SnapshotCovers alone is not inductive: the    *)
(* snapshot about to be published is still in through and view.            *)

\* The writer reports a batch after it is stored, and one at a time.
WatermarkBehindStore ==
    /\ committedSeq <= stored
    /\ report > 0 => report = stored /\ committedSeq < report

\* A builder read the watermark of now or an earlier one, and its transaction
\* began later.
BuildsCover ==
    /\ \A b \in Builders : through[b] <= committedSeq
    /\ \A b \in Builders : builder[b] = "reading" => through[b] <= view[b]

\* A snapshot that exists has the rows it promises.
Covers(snapshot) == snapshot # NoSnapshot => snapshot.rows >= snapshot.through

PublishedCover ==
    /\ Covers(latest)
    /\ \A r \in RestCalls : Covers(answer[r])

\* The feed was, and will be, shown in the order of the commits; it holds no
\* batch the writer has yet to report.
FeedInOrder ==
    /\ Ascending(feed \o pendingFeed)
    /\ \A i \in DOMAIN feed : feed[i] <= committedSeq
    /\ \A i \in DOMAIN pendingFeed : pendingFeed[i] <= committedSeq

-----------------------------------------------------------------------------
(* Type correctness.                                                       *)

Batches == 1..MaxBatches

\* What on_commit() keeps of the events it has is a part of them, in their order.
LEMMA LastEventsPart ==
    ASSUME NEW events \in Seq(Batches), events # <<>>
    PROVE  /\ LastEvents(events) \in Seq(Batches)
           /\ \A i \in DOMAIN LastEvents(events) :
                  \E j \in DOMAIN events : LastEvents(events)[i] = events[j]
           /\ Ascending(events) => Ascending(LastEvents(events))
<1> DEFINE m == IF Len(events) > FeedLength THEN Len(events) - FeedLength + 1 ELSE 1
           n == Len(events)
           part == SubSeq(events, m, n)
<1>1. n \in Nat /\ n > 0 /\ DOMAIN events = 1..n
  OBVIOUS
<1>2. m \in 1..(Len(events) + 1) /\ n \in 0..Len(events) /\ Batches \in SUBSET Int
  BY <1>1 DEF Batches
<1> HIDE DEF m
<1>3. /\ part \in Seq(Batches)
      /\ \A i \in 1..Len(part) : m + i - 1 \in 1..Len(events) /\ part[i] = events[m + i - 1]
      /\ Ascending(events) => Ascending(part)
  BY <1>2, AscendingSubSeq
<1>4. DOMAIN part = 1..Len(part)
  BY <1>3, LenProperties
<1>5. LastEvents(events) = part
  BY DEF LastEvents, m
<1> HIDE DEF part, n
<1> QED BY <1>1, <1>3, <1>4, <1>5 DEF n

LEMMA BuiltType ==
    ASSUME TypeOK, NEW b \in Builders
    PROVE  Built(b) \in Snapshots
BY DEF TypeOK, Built, Promise, Snapshots

LEMMA InitTypeOK == Init => TypeOK
<1> SUFFICES ASSUME Init PROVE TypeOK
  OBVIOUS
<1>1. /\ stored \in 0..MaxBatches /\ report \in 0..MaxBatches /\ committedSeq \in 0..MaxBatches
      /\ faults \in 0..MaxFaults
  BY DEF Init
<1>6. dirty \in BOOLEAN
  BY Zenon DEF Init
<1>2. pendingFeed \in Seq(1..MaxBatches) /\ feed \in Seq(1..MaxBatches)
  BY DEF Init
<1>3. builder \in [Builders -> {"new", "waiting", "querying", "reading", "sleeping",
                              "stopped", "answered"}]
  BY DEF Init
<1>4. through \in [Builders -> Nat] /\ view \in [Builders -> Nat]
  BY DEF Init
<1>5. /\ latest \in Snapshots \cup {NoSnapshot}
      /\ answer \in [RestCalls -> Snapshots \cup {NoSnapshot}]
  BY DEF Init
<1> QED BY <1>1, <1>2, <1>3, <1>4, <1>5, <1>6 DEF TypeOK

LEMMA NextTypeOK == TypeOK /\ [Next]_vars => TypeOK'
<1> SUFFICES ASSUME TypeOK, [Next]_vars PROVE TypeOK'
  OBVIOUS
<1> USE DEF TypeOK, writerVars, buildVars, outVars
<1>0. "loop" \in Builders /\ RestCalls \subseteq Builders
  BY DEF Builders
<1>1. CASE Commit
  BY <1>1 DEF Commit
<1>2. CASE OnCommit
  <2>1. report \in Batches
    BY <1>2 DEF OnCommit, Batches
  <2>2. Append(pendingFeed, report) \in Seq(Batches) /\ Append(pendingFeed, report) # <<>>
    BY <2>1, AppendProperties DEF Batches
  <2>3. pendingFeed' \in Seq(Batches)
    BY <1>2, <2>2, LastEventsPart DEF OnCommit
  <2> QED BY <1>2, <2>3 DEF OnCommit, Batches
<1>3. CASE OnDuplicates
  BY <1>3 DEF OnDuplicates
<1>4. CASE WakeLoop
  <2>1. Begin("loop") /\ dirty' \in BOOLEAN
        /\ UNCHANGED <<writerVars, pendingFeed, view, outVars, faults>>
    BY <1>4, Zenon DEF WakeLoop
  <2> QED BY <1>0, <2>1 DEF Begin
<1>5. CASE IdleTick
  <2>1. Begin("loop") /\ dirty' \in BOOLEAN
        /\ UNCHANGED <<writerVars, pendingFeed, view, outVars, faults>>
    BY <1>5, Zenon DEF IdleTick
  <2> QED BY <1>0, <2>1 DEF Begin
<1>6. CASE SleepOver
  BY <1>6 DEF SleepOver
<1>7. CASE Stop
  BY <1>7 DEF Stop
<1>8. ASSUME NEW b \in Builders, Query(b) PROVE TypeOK'
  BY <1>8 DEF Query
<1>9. ASSUME NEW b \in Builders, Publish(b) PROVE TypeOK'
  <2>1. Built(b) \in Snapshots
    BY BuiltType
  <2>2. latest' \in Snapshots \cup {NoSnapshot}
    BY <1>9, <2>1 DEF Publish
  <2>3. answer' \in [RestCalls -> Snapshots \cup {NoSnapshot}]
    BY <1>9, <2>1 DEF Publish
  <2>4. feed' \in Seq(1..MaxBatches) /\ pendingFeed' \in Seq(1..MaxBatches)
    BY <1>9 DEF Publish, FeedAfterPublish
  <2>5. builder' \in [Builders -> {"new", "waiting", "querying", "reading", "sleeping",
                                 "stopped", "answered"}]
    BY <1>9 DEF Publish, AfterBuild
  <2> QED BY <1>9, <2>2, <2>3, <2>4, <2>5 DEF Publish
<1>10. ASSUME NEW b \in Builders, BuildFails(b) PROVE TypeOK'
  BY <1>10 DEF BuildFails, AfterFailure, AfterBuild
<1>11. ASSUME NEW r \in RestCalls, AnswerFromLatest(r) PROVE TypeOK'
  BY <1>11, <1>0 DEF AnswerFromLatest
<1>12. ASSUME NEW r \in RestCalls, BuildForRest(r) PROVE TypeOK'
  BY <1>12, <1>0 DEF BuildForRest, Begin
<1>13. CASE UNCHANGED vars
  BY <1>13 DEF vars
<1> QED BY <1>1, <1>2, <1>3, <1>4, <1>5, <1>6, <1>7, <1>8, <1>9, <1>10, <1>11, <1>12, <1>13
        DEF Next, Build

\* The broadcaster's state stays in its types in every run of it.
THEOREM TypeCorrect == Spec => []TypeOK
BY InitTypeOK, NextTypeOK, PTL DEF Spec

-----------------------------------------------------------------------------
(* Snapshots cover their watermark.                                        *)

CoverInv == WatermarkBehindStore /\ BuildsCover /\ PublishedCover

LEMMA InitCoverInv == Init => CoverInv
BY DEF Init, CoverInv, WatermarkBehindStore, BuildsCover, PublishedCover, Covers

LEMMA NextCoverInv == TypeOK /\ CoverInv /\ [Next]_vars => CoverInv'
<1> SUFFICES ASSUME TypeOK, CoverInv, [Next]_vars PROVE CoverInv'
  OBVIOUS
<1> USE DEF CoverInv, WatermarkBehindStore, BuildsCover, PublishedCover, writerVars, buildVars, outVars
<1>0. /\ "loop" \in Builders /\ RestCalls \subseteq Builders
      /\ stored \in Int /\ report \in Int /\ committedSeq \in Int
      /\ through \in [Builders -> Nat] /\ view \in [Builders -> Nat]
      /\ DOMAIN builder = Builders /\ DOMAIN answer = RestCalls
  BY DEF TypeOK, Builders
<1>1. CASE Commit
  BY <1>0, <1>1 DEF Commit
<1>2. CASE OnCommit
  BY <1>0, <1>2 DEF OnCommit
<1>3. CASE OnDuplicates
  BY <1>0, <1>3 DEF OnDuplicates
<1>4. ASSUME NEW b \in Builders, Begin(b),
             UNCHANGED <<writerVars, view, outVars>>
      PROVE  CoverInv'
  BY <1>0, <1>4 DEF Begin
<1>5. CASE WakeLoop
  BY <1>0, <1>4, <1>5, Zenon DEF WakeLoop
<1>6. CASE IdleTick
  BY <1>0, <1>4, <1>6, Zenon DEF IdleTick
<1>7. CASE SleepOver
  BY <1>0, <1>7 DEF SleepOver
<1>8. CASE Stop
  BY <1>0, <1>8 DEF Stop
<1>9. ASSUME NEW b \in Builders, Query(b) PROVE CoverInv'
  BY <1>0, <1>9 DEF Query
<1>10. ASSUME NEW b \in Builders, Publish(b) PROVE CoverInv'
  <2>1. Covers(Built(b))
    BY <1>10 DEF Publish, Covers, Built, Promise
  <2>2. Covers(latest)' /\ \A r \in RestCalls : Covers(answer[r])'
    BY <1>10, <2>1 DEF Publish, Covers
  <2> QED BY <1>0, <1>10, <2>2 DEF Publish, AfterBuild
<1>11. ASSUME NEW b \in Builders, BuildFails(b) PROVE CoverInv'
  BY <1>0, <1>11 DEF BuildFails, AfterFailure, AfterBuild
<1>12. ASSUME NEW r \in RestCalls, AnswerFromLatest(r) PROVE CoverInv'
  BY <1>0, <1>12 DEF AnswerFromLatest, Covers
<1>13. ASSUME NEW r \in RestCalls, BuildForRest(r) PROVE CoverInv'
  BY <1>0, <1>4, <1>13 DEF BuildForRest
<1>14. CASE UNCHANGED vars
  BY <1>14 DEF vars
<1> QED BY <1>1, <1>2, <1>3, <1>5, <1>6, <1>7, <1>8, <1>9, <1>10, <1>11, <1>12, <1>13, <1>14
        DEF Next, Build

-----------------------------------------------------------------------------
(* The order of the live feed.                                             *)

LEMMA InitFeedInOrder == Init => FeedInOrder
<1> SUFFICES ASSUME feed = <<>>, pendingFeed = <<>> PROVE FeedInOrder
  BY DEF Init
<1>1. feed \o pendingFeed = <<>>
  OBVIOUS
<1> QED BY <1>1 DEF FeedInOrder, Ascending

LEMMA NextFeedInOrder ==
    TypeOK /\ WatermarkBehindStore /\ FeedInOrder /\ [Next]_vars => FeedInOrder'
<1> SUFFICES ASSUME TypeOK, WatermarkBehindStore, FeedInOrder, [Next]_vars PROVE FeedInOrder'
  OBVIOUS
<1>0. /\ feed \in Seq(Batches) /\ pendingFeed \in Seq(Batches)
      /\ feed \in Seq(Int) /\ pendingFeed \in Seq(Int)
      /\ report \in 0..MaxBatches /\ committedSeq \in Int
  BY DEF TypeOK, Batches
<1>1. CASE UNCHANGED <<feed, pendingFeed, committedSeq>>
  BY <1>1 DEF FeedInOrder
<1>2. CASE OnCommit
  <2> DEFINE events == Append(pendingFeed, report)
  <2>1. /\ report \in Batches /\ committedSeq < report
        /\ committedSeq' = report /\ feed' = feed /\ pendingFeed' = LastEvents(events)
    BY <1>2, <1>0 DEF OnCommit, WatermarkBehindStore, Batches, outVars
  <2>2. /\ events \in Seq(Batches) /\ events \in Seq(Int) /\ events # <<>>
        /\ DOMAIN events = 1..Len(pendingFeed) + 1
        /\ \A i \in 1..Len(pendingFeed) : events[i] = pendingFeed[i]
        /\ events[Len(pendingFeed) + 1] = report
    BY <1>0, <2>1, AppendProperties DEF Batches
  <2>3. /\ DOMAIN pendingFeed = 1..Len(pendingFeed) /\ Len(pendingFeed) \in Nat
        /\ \A i \in DOMAIN pendingFeed : pendingFeed[i] < report
        /\ \A i \in DOMAIN feed : feed[i] < report
    BY <1>0, <2>1 DEF FeedInOrder
  <2>4. Ascending(feed) /\ Ascending(pendingFeed) /\ Before(feed, pendingFeed)
    BY <1>0, AscendingConcat DEF FeedInOrder
  <2>5. Ascending(events)
    BY <1>0, <2>1, <2>3, <2>4, AscendingAppend
  <2> HIDE DEF events
  <2>6. \A j \in DOMAIN events :
            events[j] <= report /\ \A i \in DOMAIN feed : feed[i] < events[j]
    <3> TAKE j \in DOMAIN events
    <3>1. CASE j = Len(pendingFeed) + 1
      BY <3>1, <1>0, <2>2, <2>3
    <3>2. CASE j # Len(pendingFeed) + 1
      <4>1. j \in 1..Len(pendingFeed)
        BY <3>2, <2>2, <2>3
      <4> QED BY <4>1, <1>0, <2>2, <2>3, <2>4 DEF Before
    <3> QED BY <3>1, <3>2
  <2>7. /\ pendingFeed' \in Seq(Batches) /\ Ascending(pendingFeed')
        /\ \A i \in DOMAIN pendingFeed' : \E j \in DOMAIN events : pendingFeed'[i] = events[j]
    BY <2>1, <2>2, <2>5, LastEventsPart
  <2>8. Before(feed, pendingFeed')
    BY <2>6, <2>7 DEF Before
  <2>9. pendingFeed' \in Seq(Int)
    BY <2>7 DEF Batches
  <2>10. Ascending(feed \o pendingFeed')
    BY <1>0, <2>4, <2>7, <2>8, <2>9, AscendingConcat
  <2>11. \A i \in DOMAIN feed : feed[i] <= report
    BY <1>0, <2>3
  <2> QED BY <2>1, <2>6, <2>7, <2>10, <2>11 DEF FeedInOrder
<1>3. ASSUME NEW b \in Builders, Publish(b) PROVE FeedInOrder'
  <2> DEFINE shown == feed \o pendingFeed
  <2>1. feed' = shown /\ pendingFeed' = <<>> /\ committedSeq' = committedSeq
    BY <1>3 DEF Publish, FeedAfterPublish, writerVars
  <2>2. /\ shown \in Seq(Int) /\ Len(shown) = Len(feed) + Len(pendingFeed)
        /\ \A i \in 1..Len(feed) + Len(pendingFeed) :
               shown[i] = IF i <= Len(feed) THEN feed[i] ELSE pendingFeed[i - Len(feed)]
    BY <1>0, ConcatProperties
  <2>3. shown \o <<>> = shown
    BY <2>2
  <2>4. /\ Len(feed) \in Nat /\ DOMAIN feed = 1..Len(feed)
        /\ Len(pendingFeed) \in Nat /\ DOMAIN pendingFeed = 1..Len(pendingFeed)
    BY <1>0
  <2>5. DOMAIN shown = 1..Len(feed) + Len(pendingFeed)
    BY <2>2, LenProperties
  <2> HIDE DEF shown
  <2>6. \A i \in DOMAIN shown : shown[i] <= committedSeq
    <3> TAKE i \in DOMAIN shown
    <3>1. CASE i <= Len(feed)
      BY <3>1, <2>2, <2>4, <2>5 DEF FeedInOrder
    <3>2. CASE ~(i <= Len(feed))
      <4>1. i - Len(feed) \in 1..Len(pendingFeed)
        BY <3>2, <2>4, <2>5
      <4> QED BY <3>2, <4>1, <2>2, <2>4, <2>5 DEF FeedInOrder
    <3> QED BY <3>1, <3>2
  <2>7. Ascending(shown)
    BY DEF FeedInOrder, shown
  <2> QED BY <2>1, <2>3, <2>6, <2>7 DEF FeedInOrder
<1> USE DEF writerVars, buildVars, outVars
<1>4. CASE Commit
  BY <1>1, <1>4 DEF Commit
<1>5. CASE OnDuplicates \/ WakeLoop \/ IdleTick \/ SleepOver \/ Stop
  BY <1>1, <1>5, Zenon DEF OnDuplicates, WakeLoop, IdleTick, SleepOver, Stop
<1>6. ASSUME NEW b \in Builders, Query(b) \/ BuildFails(b) PROVE FeedInOrder'
  BY <1>1, <1>6 DEF Query, BuildFails
<1>7. ASSUME NEW r \in RestCalls, AnswerFromLatest(r) \/ BuildForRest(r) PROVE FeedInOrder'
  BY <1>1, <1>7 DEF AnswerFromLatest, BuildForRest
<1>8. CASE UNCHANGED vars
  BY <1>1, <1>8 DEF vars
<1> QED BY <1>2, <1>3, <1>4, <1>5, <1>6, <1>7, <1>8 DEF Next, Build

\* A snapshot holds everything its watermark promises, whatever commits and
\* overlapping builds came between, and the feed shows every batch at most once and
\* in the order of the commits.
THEOREM SnapshotsCoverTheirWatermark == Spec => []SnapshotCovers
<1>1. CoverInv /\ FeedInOrder => SnapshotCovers
  BY DEF CoverInv, PublishedCover, Covers, FeedInOrder, Ascending, SnapshotCovers
<1>2. CoverInv => WatermarkBehindStore
  BY DEF CoverInv
<1> QED BY InitTypeOK, NextTypeOK, InitCoverInv, NextCoverInv, InitFeedInOrder, NextFeedInOrder,
           <1>1, <1>2, PTL DEF Spec

-----------------------------------------------------------------------------
(* Commits are not forgotten.                                              *)

LEMMA InitCommitRemembered == Init => CommitRemembered
BY DEF Init, CommitRemembered, Builders

LEMMA NextCommitRemembered ==
    TypeOK /\ CommitRemembered /\ [Next]_vars => CommitRemembered'
<1> SUFFICES ASSUME TypeOK, CommitRemembered, [Next]_vars PROVE CommitRemembered'
  OBVIOUS
<1> USE DEF CommitRemembered, Stopped, writerVars, buildVars, outVars
<1>0. /\ "loop" \in Builders /\ RestCalls \subseteq Builders /\ "loop" \notin RestCalls
      /\ committedSeq \in Int /\ through \in [Builders -> Nat] /\ DOMAIN builder = Builders
  BY DEF TypeOK, Builders
<1>1. CASE UNCHANGED <<dirty, committedSeq, through>> /\ (Stopped => Stopped')
  BY <1>1
<1>2. CASE dirty'
  BY <1>2
<1>3. CASE Stopped'
  BY <1>3
<1>4. CASE Commit
  BY <1>1, <1>4 DEF Commit
<1>5. CASE OnCommit \/ OnDuplicates
  BY <1>2, <1>5 DEF OnCommit, OnDuplicates
<1>6. CASE WakeLoop \/ IdleTick
  <2>1. Begin("loop") /\ committedSeq' = committedSeq
    BY <1>6, Zenon DEF WakeLoop, IdleTick
  <2>2. through'["loop"] = committedSeq'
    BY <1>0, <2>1 DEF Begin
  <2> QED BY <1>0, <2>1, <2>2
<1>7. CASE SleepOver
  BY <1>1, <1>7 DEF SleepOver
<1>8. CASE Stop
  BY <1>0, <1>3, <1>8 DEF Stop
<1>9. ASSUME NEW b \in Builders, Query(b) PROVE CommitRemembered'
  BY <1>0, <1>1, <1>9 DEF Query
<1>10. ASSUME NEW b \in Builders, Publish(b) PROVE CommitRemembered'
  BY <1>0, <1>1, <1>10 DEF Publish
<1>11. ASSUME NEW b \in Builders, BuildFails(b) PROVE CommitRemembered'
  BY <1>0, <1>1, <1>11 DEF BuildFails
<1>12. ASSUME NEW r \in RestCalls, AnswerFromLatest(r) PROVE CommitRemembered'
  BY <1>0, <1>1, <1>12 DEF AnswerFromLatest
<1>13. ASSUME NEW r \in RestCalls, BuildForRest(r) PROVE CommitRemembered'
  BY <1>0, <1>13 DEF BuildForRest, Begin
<1>14. CASE UNCHANGED vars
  BY <1>14 DEF vars
<1> QED BY <1>4, <1>5, <1>6, <1>7, <1>8, <1>9, <1>10, <1>11, <1>12, <1>13, <1>14
        DEF Next, Build

\* As long as no build that started after a reported commit exists, the loop has
\* been told to start one.
THEOREM CommitsAreRemembered == Spec => []CommitRemembered
BY InitTypeOK, NextTypeOK, InitCommitRemembered, NextCommitRemembered, PTL DEF Spec
=============================================================================
