-------------------------- MODULE DeadLetterWriter --------------------------
(***************************************************************************)
(* The DeadLetterWriter (ingestion/dead_letter.py): a bounded buffer of    *)
(* rejected input, written to a table in batches by one task.              *)
(*                                                                         *)
(* Letters are numbered in the order add() sees them; what a letter says   *)
(* plays no part here.  Between two awaits the code runs alone; the turn   *)
(* that goes round the loop is split at "loop", where its state is already *)
(* consistent, which only adds interleavings.                              *)
(***************************************************************************)
EXTENDS Integers, Sequences, SequencesExt, FiniteSets

CONSTANTS
    MaxBuffer,       \* max_buffer
    FlushThreshold,  \* flush_threshold
    MaxAdds,         \* bound: calls of add()
    MaxFaults        \* bound: failed INSERT statements

ASSUME LimitAssumption ==
    /\ MaxBuffer \in Nat /\ FlushThreshold \in Nat
    /\ MaxAdds \in Nat /\ MaxFaults \in Nat

VARIABLES
    added,      \* calls of add() so far
    buffer,     \* _buffer
    items,      \* the letters flush() took and is writing
    wake,       \* _wake
    stopping,   \* _stopping
    task,       \* where the task is
    written,    \* written
    dropped,    \* dropped
    table,      \* dead_letter_events: copies of each letter
    faults      \* failed statements so far

vars == <<added, buffer, items, wake, stopping, task, written, dropped, table, faults>>

Letters == 1..MaxAdds

Init ==
    /\ added = 0 /\ buffer = <<>> /\ items = <<>>
    /\ wake = FALSE /\ stopping = FALSE /\ task = "loop"
    /\ written = 0 /\ dropped = 0
    /\ table = [n \in Letters |-> 0]
    /\ faults = 0

-----------------------------------------------------------------------------

\* Services.stop() ends every caller of add(), the batch writer last, before it
\* stops this one.
CallersAlways == TRUE                                                \* mutant
CallersRun == ~stopping

HasRoom == Len(buffer) < MaxBuffer

Add ==
    /\ CallersRun
    /\ added < MaxAdds
    /\ added' = added + 1
    /\ \/ /\ HasRoom
          /\ buffer' = Append(buffer, added + 1)
          /\ wake' = (wake \/ Len(buffer) + 1 >= FlushThreshold)
          /\ UNCHANGED dropped
       \/ /\ ~HasRoom
          /\ dropped' = dropped + 1
          /\ UNCHANGED <<buffer, wake>>
    /\ UNCHANGED <<items, stopping, task, written, table, faults>>

Stop ==
    /\ ~stopping
    /\ stopping' = TRUE
    /\ wake' = TRUE
    /\ UNCHANGED <<added, buffer, items, task, written, dropped, table, faults>>

-----------------------------------------------------------------------------

\* flush(): nothing to do, or the whole buffer is taken and written.
Flush(writing, idle) ==
    \/ /\ buffer = <<>>
       /\ task' = idle
       /\ UNCHANGED <<buffer, items>>
    \/ /\ buffer # <<>>
       /\ items' = buffer /\ buffer' = <<>>
       /\ task' = writing

Wait ==
    /\ task = "loop" /\ ~stopping
    /\ task' = "waiting"
    /\ UNCHANGED <<added, buffer, items, wake, stopping, written, dropped, table, faults>>

\* Mutant: the wait has no timeout.
FlushOnWake ==
    /\ task = "waiting" /\ wake
    /\ wake' = FALSE
    /\ Flush("writing", "loop")
    /\ UNCHANGED <<added, stopping, written, dropped, table, faults>>

\* The wait ends because _wake is set or because the flush interval is over.
FlushPeriodically ==
    /\ task = "waiting"
    /\ wake' = FALSE
    /\ Flush("writing", "loop")
    /\ UNCHANGED <<added, stopping, written, dropped, table, faults>>

FlushFinally ==
    /\ task = "loop" /\ stopping
    /\ Flush("final", "done")
    /\ UNCHANGED <<added, wake, stopping, written, dropped, table, faults>>

-----------------------------------------------------------------------------

AfterWrite == IF task = "final" THEN "done" ELSE "loop"

Insert == table' = [n \in Letters |-> table[n] + IF n \in ToSet(items) THEN 1 ELSE 0]

WriteSucceeds ==
    /\ task \in {"writing", "final"}
    /\ Insert
    /\ written' = written + Len(items)
    /\ items' = <<>>
    /\ task' = AfterWrite
    /\ UNCHANGED <<added, buffer, wake, stopping, dropped, faults>>

\* How many of the letters that failed go back in front of those that came
\* since, and how many are given up for lack of room.
KeptWithoutRoom == Len(items)                                        \* mutant
Kept == IF Len(items) <= MaxBuffer - Len(buffer) THEN Len(items) ELSE MaxBuffer - Len(buffer)

RestoreNothing == buffer                                             \* mutant
Restored == SubSeq(items, 1, Kept) \o buffer

GivenUp == Len(items) - Kept

\* The statement fails, or commits and its answer is lost.
WriteFails ==
    /\ task \in {"writing", "final"}
    /\ faults < MaxFaults
    /\ faults' = faults + 1
    /\ Insert \/ UNCHANGED table
    /\ dropped' = dropped + GivenUp
    /\ buffer' = Restored
    /\ items' = <<>>
    /\ task' = AfterWrite
    /\ UNCHANGED <<added, wake, stopping, written>>

-----------------------------------------------------------------------------

TaskStep == Wait \/ FlushPeriodically \/ FlushFinally \/ WriteSucceeds

Next == Add \/ Stop \/ TaskStep \/ WriteFails

Spec == Init /\ [][Next]_vars

\* The loop runs, the interval elapses and the database answers.
Fairness == WF_vars(TaskStep)
FairSpec == Spec /\ Fairness

-----------------------------------------------------------------------------
(* Properties.                                                             *)

\* Every variable stays in its type, and memory in its bound however many letters
\* come in while a statement runs and then fails (dead_letter.py:5-7, 119-121).
TypeOK ==
    /\ added \in 0..MaxAdds
    /\ buffer \in Seq(Letters) /\ items \in Seq(Letters)
    /\ Len(buffer) <= MaxBuffer /\ Len(items) <= MaxBuffer
    /\ wake \in BOOLEAN /\ stopping \in BOOLEAN
    /\ task \in {"loop", "waiting", "writing", "final", "done"}
    /\ written \in Nat /\ dropped \in Nat
    /\ table \in [Letters -> Nat]
    /\ faults \in 0..MaxFaults

\* Every letter is accounted for exactly once: written, dropped, buffered or
\* being written; one that is neither stored nor held is one that dropped counts,
\* so nothing is lost in silence; and those held are kept in the order they came,
\* also after a failed write put them back in front of later ones
\* (dead_letter.py:7, 81, 106, 116, 119-121).
LettersAccounted ==
    /\ added = written + dropped + Len(buffer) + Len(items)
    /\ Cardinality({n \in 1..added : table[n] = 0 /\ n \notin ToSet(buffer) \cup ToSet(items)})
           <= dropped
    /\ LET held == items \o buffer
       IN  \A i, j \in DOMAIN held : i < j => held[i] < held[j]

\* Once the task has ended, a letter is left in the buffer only if a statement
\* failed: nobody adds letters behind the last flush (dead_letter.py:103,
\* services.py:138-140).
StopFlushes == task = "done" /\ buffer # <<>> => faults > 0

\* As long as the task lives, every buffered letter is written or counted as
\* dropped in the end (dead_letter.py:97-121).
LettersLeaveBuffer ==
    \A n \in Letters :
        n \in ToSet(buffer) ~> n \notin ToSet(buffer) \cup ToSet(items) \/ task = "done"
=============================================================================
