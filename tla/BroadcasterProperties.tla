----------------------- MODULE BroadcasterProperties -----------------------
(***************************************************************************)
(* What subscribers may rely on about snapshots and the live feed.         *)
(***************************************************************************)
EXTENDS Broadcaster

Snapshots == [through : Nat, rows : Nat]

\* Every variable stays in its type.
TypeOK ==
    /\ stored \in 0..MaxBatches /\ report \in 0..MaxBatches /\ committedSeq \in 0..MaxBatches
    /\ dirty \in BOOLEAN
    /\ pendingFeed \in Seq(1..MaxBatches) /\ feed \in Seq(1..MaxBatches)
    /\ builder \in [Builders -> {"new", "waiting", "querying", "reading", "sleeping",
                                 "stopped", "answered"}]
    /\ through \in [Builders -> Nat] /\ view \in [Builders -> Nat]
    /\ latest \in Snapshots \cup {NoSnapshot}
    /\ answer \in [RestCalls -> Snapshots \cup {NoSnapshot}]
    /\ faults \in 0..MaxFaults

-----------------------------------------------------------------------------

\* "Every event with seq <= this is included": the watermark of a snapshot is
\* read before its transaction begins, however many batches are committed and
\* reported between the two, and whoever builds it (protocol.py:71,
\* broadcaster.py:144-146).  And the feed shows each batch at most once and in the
\* order of the commits, also when two builds overlap (broadcaster.py:101, 166-168).
SnapshotCovers ==
    /\ latest # NoSnapshot => latest.rows >= latest.through
    /\ \A r \in RestCalls : answer[r] # NoSnapshot => answer[r].rows >= answer[r].through
    /\ LET shown == feed \o pendingFeed
       IN  \A i, j \in DOMAIN shown : i < j => shown[i] < shown[j]

-----------------------------------------------------------------------------

Stopped == builder["loop"] = "stopped"

\* A reported commit is never forgotten: as long as no build that started after
\* it exists, _dirty makes the loop start one at its next turn, whatever was
\* being built, published or slept through when on_commit() came
\* (broadcaster.py:5-9, 92-102, 128-141).
CommitRemembered == ~Stopped /\ ~dirty => through["loop"] >= committedSeq

\* The idle timer repairs everything else: failed builds, commits that are not
\* reported and an older snapshot published last.  Once the commits end, the
\* snapshot and its watermark agree with the database and the writer for good
\* (broadcaster.py:13-14, 133-137).
SnapshotConverges ==
    <>[](Stopped \/ (latest.rows = stored /\ latest.through = committedSeq))
=============================================================================
