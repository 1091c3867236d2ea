-------------------------- MODULE DeadLetterProofs --------------------------
(***************************************************************************)
(* Proofs about DeadLetterWriter: type correctness with the memory bound,  *)
(* the accounting of letters, and what the last flush leaves.              *)
(***************************************************************************)
EXTENDS DeadLetterWriter, SequenceFacts, FiniteSetTheorems

USE LimitAssumption DEF LimitAssumption

-----------------------------------------------------------------------------
(* A failed flush: the letters kept go in front of the buffer and fit.     *)

LEMMA KeptFits ==
    ASSUME TypeOK
    PROVE  /\ Kept \in 0..Len(items) /\ Len(items) \in Nat /\ Len(buffer) \in Nat
           /\ Kept + Len(buffer) <= MaxBuffer
           /\ GivenUp \in Nat /\ GivenUp = Len(items) - Kept
<1>1. Len(items) \in Nat /\ Len(buffer) \in Nat /\ Len(items) <= MaxBuffer /\ Len(buffer) <= MaxBuffer
  BY DEF TypeOK
<1> QED BY <1>1 DEF Kept, GivenUp

LEMMA RestoredParts ==
    ASSUME TypeOK
    PROVE  LET front == SubSeq(items, 1, Kept)
           IN  /\ front \in Seq(Letters) /\ Len(front) = Kept
               /\ \A i \in 1..Kept : i \in 1..Len(items) /\ front[i] = items[i]
               /\ Ascending(items) => Ascending(front)
               /\ Restored = front \o buffer
               /\ Restored \in Seq(Letters) /\ Len(Restored) = Kept + Len(buffer)
               /\ ToSet(Restored) = {items[i] : i \in 1..Kept} \cup ToSet(buffer)
<1> DEFINE front == SubSeq(items, 1, Kept)
<1>1. items \in Seq(Letters) /\ buffer \in Seq(Letters) /\ Letters \in SUBSET Int
  BY DEF TypeOK, Letters
<1>2. Kept \in 0..Len(items) /\ Kept \in Nat /\ Len(items) \in Nat
  BY KeptFits
<1>3. 1 \in 1..(Len(items) + 1)
  BY <1>2
<1>4. /\ front \in Seq(Letters)
      /\ Len(front) = IF 1 <= Kept THEN Kept - 1 + 1 ELSE 0
      /\ \A i \in 1..Len(front) : 1 + i - 1 \in 1..Len(items) /\ front[i] = items[1 + i - 1]
      /\ Ascending(items) => Ascending(front)
  BY ONLY <1>1, <1>2, <1>3, AscendingSubSeq
<1>5. Len(front) = Kept
  BY <1>2, <1>4
<1> HIDE DEF front
<1>6. \A i \in 1..Kept : i \in 1..Len(items) /\ front[i] = items[i]
  BY <1>2, <1>4, <1>5
<1>7. Restored = front \o buffer
  BY DEF Restored, front
<1>8. Restored \in Seq(Letters) /\ Len(Restored) = Kept + Len(buffer)
  BY <1>1, <1>4, <1>5, <1>7, ConcatProperties
<1>9. ToSet(Restored) = ToSet(front) \cup ToSet(buffer)
  BY <1>1, <1>4, <1>7, ToSetConcat
<1>10. ToSet(front) = {items[i] : i \in 1..Kept}
  <2>1. ToSet(front) = {front[i] : i \in 1..Kept}
    BY <1>4, <1>5, ToSetRange
  <2> QED BY <2>1, <1>6
<1> QED BY <1>4, <1>5, <1>6, <1>7, <1>8, <1>9, <1>10 DEF front

-----------------------------------------------------------------------------
(* Type correctness.                                                       *)

LEMMA InsertType ==
    ASSUME TypeOK, Insert \/ UNCHANGED table
    PROVE  table' \in [Letters -> Nat]
BY DEF TypeOK, Insert

LEMMA FlushType ==
    ASSUME TypeOK, NEW writing \in {"writing", "final"}, NEW idle \in {"loop", "done"},
           Flush(writing, idle)
    PROVE  /\ buffer' \in Seq(Letters) /\ items' \in Seq(Letters)
           /\ Len(buffer') <= MaxBuffer /\ Len(items') <= MaxBuffer
           /\ task' \in {"loop", "writing", "final", "done"}
<1>1. CASE UNCHANGED <<buffer, items>> /\ task' = idle
  BY <1>1 DEF TypeOK
<1>2. CASE items' = buffer /\ buffer' = <<>> /\ task' = writing
  BY <1>2 DEF TypeOK
<1> QED BY <1>1, <1>2 DEF Flush

LEMMA InitTypeOK == Init => TypeOK
<1> SUFFICES ASSUME Init PROVE TypeOK
  OBVIOUS
<1>1. wake \in BOOLEAN /\ stopping \in BOOLEAN
  BY Zenon DEF Init
<1>2. /\ added \in 0..MaxAdds /\ written \in Nat /\ dropped \in Nat /\ faults \in 0..MaxFaults
      /\ buffer \in Seq(Letters) /\ items \in Seq(Letters)
      /\ Len(buffer) <= MaxBuffer /\ Len(items) <= MaxBuffer
      /\ task \in {"loop", "waiting", "writing", "final", "done"}
      /\ table \in [Letters -> Nat]
  BY DEF Init
<1> QED BY <1>1, <1>2, Zenon DEF TypeOK

LEMMA NextBooleans ==
    TypeOK /\ [Next]_vars => wake' \in BOOLEAN /\ stopping' \in BOOLEAN
<1> SUFFICES ASSUME TypeOK, [Next]_vars PROVE wake' \in BOOLEAN /\ stopping' \in BOOLEAN
  OBVIOUS
<1>1. wake \in BOOLEAN /\ stopping \in BOOLEAN
  BY Zenon DEF TypeOK
<1>2. CASE Add
  BY <1>1, <1>2, Zenon DEF Add
<1>3. CASE Stop
  BY <1>1, <1>3, Zenon DEF Stop
<1>4. CASE TaskStep
  BY <1>1, <1>4, Zenon DEF TaskStep, Wait, FlushPeriodically, FlushFinally, WriteSucceeds
<1>5. CASE WriteFails
  BY <1>1, <1>5, Zenon DEF WriteFails
<1>6. CASE UNCHANGED vars
  BY <1>1, <1>6 DEF vars
<1> QED BY <1>2, <1>3, <1>4, <1>5, <1>6 DEF Next

\* TypeOK without its two flags.
Typed ==
    /\ added \in 0..MaxAdds
    /\ buffer \in Seq(Letters) /\ items \in Seq(Letters)
    /\ Len(buffer) <= MaxBuffer /\ Len(items) <= MaxBuffer
    /\ task \in {"loop", "waiting", "writing", "final", "done"}
    /\ written \in Nat /\ dropped \in Nat
    /\ table \in [Letters -> Nat]
    /\ faults \in 0..MaxFaults

LEMMA NextTypeOK == TypeOK /\ [Next]_vars => TypeOK'
<1> SUFFICES ASSUME TypeOK, [Next]_vars PROVE TypeOK'
  OBVIOUS
<1>0. Typed
  BY DEF TypeOK, Typed
<1>1. CASE Add
  <2>1. added + 1 \in Letters /\ added' = added + 1
    BY <1>0, <1>1 DEF Add, Typed, Letters
  <2>2. /\ buffer' \in Seq(Letters) /\ Len(buffer') <= MaxBuffer /\ dropped' \in Nat
    <3>1. CASE HasRoom /\ buffer' = Append(buffer, added + 1) /\ UNCHANGED dropped
      BY <1>0, <2>1, <3>1, AppendProperties DEF Typed, HasRoom
    <3>2. CASE UNCHANGED buffer /\ dropped' = dropped + 1
      BY <1>0, <3>2 DEF Typed
    <3> QED BY <1>1, <3>1, <3>2, Zenon DEF Add
  <2>3. added < MaxAdds /\ UNCHANGED <<items, task, written, table, faults>>
    BY <1>1, Zenon DEF Add
  <2> Typed'
    BY <1>0, <2>1, <2>2, <2>3 DEF Typed, Letters
  <2> QED BY NextBooleans, Zenon DEF Typed, TypeOK
<1>2. CASE Stop
  <2> Typed'
    BY <1>0, <1>2 DEF Stop, Typed
  <2> QED BY NextBooleans, Zenon DEF Typed, TypeOK
<1>3. CASE Wait
  <2> Typed'
    BY <1>0, <1>3 DEF Wait, Typed
  <2> QED BY NextBooleans, Zenon DEF Typed, TypeOK
<1>4. CASE FlushPeriodically
  <2>1. UNCHANGED <<added, written, dropped, table, faults>> /\ Flush("writing", "loop")
    BY <1>4, Zenon DEF FlushPeriodically
  <2> Typed'
    BY <1>0, <2>1, FlushType DEF Typed
  <2> QED BY NextBooleans, Zenon DEF Typed, TypeOK
<1>5. CASE FlushFinally
  <2>1. UNCHANGED <<added, written, dropped, table, faults>> /\ Flush("final", "done")
    BY <1>5, Zenon DEF FlushFinally
  <2> Typed'
    BY <1>0, <2>1, FlushType DEF Typed
  <2> QED BY NextBooleans, Zenon DEF Typed, TypeOK
<1>6. CASE WriteSucceeds
  <2>1. written' \in Nat /\ table' \in [Letters -> Nat]
    BY <1>0, <1>6, InsertType, KeptFits DEF WriteSucceeds, Typed
  <2> Typed'
    BY <1>0, <1>6, <2>1 DEF WriteSucceeds, AfterWrite, Typed
  <2> QED BY NextBooleans, Zenon DEF Typed, TypeOK
<1>7. CASE WriteFails
  <2>1. table' \in [Letters -> Nat]
    BY <1>7, InsertType DEF WriteFails
  <2>2. buffer' \in Seq(Letters) /\ Len(buffer') <= MaxBuffer
    BY <1>7, RestoredParts, KeptFits DEF WriteFails
  <2>3. dropped' \in Nat
    BY <1>0, <1>7, KeptFits DEF WriteFails, Typed
  <2>4. faults' \in 0..MaxFaults
    BY <1>0, <1>7 DEF WriteFails, Typed
  <2> Typed'
    BY <1>0, <1>7, <2>1, <2>2, <2>3, <2>4 DEF WriteFails, AfterWrite, Typed
  <2> QED BY NextBooleans, Zenon DEF Typed, TypeOK
<1>8. CASE UNCHANGED vars
  <2> Typed'
    BY <1>0, <1>8 DEF vars, Typed
  <2> QED BY NextBooleans, Zenon DEF Typed, TypeOK
<1> QED BY <1>1, <1>2, <1>3, <1>4, <1>5, <1>6, <1>7, <1>8 DEF Next, TaskStep

\* The dead letters' state stays in its types, and the buffer and the batch being
\* written within max_buffer each, however a flush fails.
THEOREM TypeCorrect == Spec => []TypeOK
BY InitTypeOK, NextTypeOK, PTL DEF Spec

-----------------------------------------------------------------------------
(* The last flush.                                                         *)

\* Letters are in flight only while a statement runs; the last flush starts
\* when nobody adds letters any more, and takes them all.
LastFlush ==
    /\ task \notin {"writing", "final"} => items = <<>>
    /\ task \in {"final", "done"} => stopping
    /\ task = "final" => buffer = <<>>
    /\ StopFlushes

LEMMA InitLastFlush == Init => LastFlush
BY DEF Init, LastFlush, StopFlushes

LEMMA NextLastFlush == TypeOK /\ LastFlush /\ [Next]_vars => LastFlush'
<1> SUFFICES ASSUME TypeOK, LastFlush, [Next]_vars PROVE LastFlush'
  OBVIOUS
<1> USE DEF LastFlush, StopFlushes
<1>0. faults \in Nat
  BY DEF TypeOK
<1>1. CASE Add
  BY <1>1 DEF Add, CallersRun
<1>2. CASE Stop
  BY <1>2 DEF Stop
<1>3. CASE Wait
  BY <1>3 DEF Wait
<1>4. CASE FlushPeriodically
  BY <1>4 DEF FlushPeriodically, Flush
<1>5. CASE FlushFinally
  BY <1>5 DEF FlushFinally, Flush
<1>6. CASE WriteSucceeds
  BY <1>6 DEF WriteSucceeds, AfterWrite
<1>7. CASE WriteFails
  <2>1. faults' > 0
    BY <1>0, <1>7 DEF WriteFails
  <2>2. /\ items' = <<>> /\ stopping' = stopping
        /\ (task' = "done" /\ task = "final") \/ task' = "loop"
    BY <1>7 DEF WriteFails, AfterWrite
  <2> QED BY <2>1, <2>2
<1>8. CASE UNCHANGED vars
  BY <1>8 DEF vars
<1> QED BY <1>1, <1>2, <1>3, <1>4, <1>5, <1>6, <1>7, <1>8 DEF Next, TaskStep

\* Nobody adds letters behind the last flush: one that is left in the buffer of a
\* task that has ended was put back by a failed statement.
THEOREM LastFlushTakesAll == Spec => []StopFlushes
<1>1. LastFlush => StopFlushes
  BY DEF LastFlush
<1> QED BY InitTypeOK, NextTypeOK, InitLastFlush, NextLastFlush, <1>1, PTL DEF Spec

-----------------------------------------------------------------------------
(* The accounting of letters.                                              *)

Held == items \o buffer
HeldLetters == ToSet(items) \cup ToSet(buffer)

\* Letters that are nowhere.
Missing == {n \in 1..added : table[n] = 0 /\ n \notin HeldLetters}

\* LettersAccounted is inductive with the bound on what is held: only letters
\* that came can be held, so the next one is newer than all of them.
Accounted ==
    /\ added = written + dropped + Len(buffer) + Len(items)
    /\ Cardinality(Missing) <= dropped
    /\ Ascending(Held)
    /\ HeldLetters \subseteq 1..added

LEMMA HeldFacts ==
    ASSUME TypeOK
    PROVE  /\ items \in Seq(Letters) /\ buffer \in Seq(Letters)
           /\ items \in Seq(Int) /\ buffer \in Seq(Int)
           /\ Held \in Seq(Int) /\ ToSet(Held) = HeldLetters
           /\ Ascending(Held) <=> Ascending(items) /\ Ascending(buffer) /\ Before(items, buffer)
<1>1. /\ items \in Seq(Letters) /\ buffer \in Seq(Letters)
      /\ items \in Seq(Int) /\ buffer \in Seq(Int)
  BY DEF TypeOK, Letters
<1>2. Held \in Seq(Int) /\ ToSet(Held) = HeldLetters
  BY <1>1, ToSetConcat DEF Held, HeldLetters
<1>3. Ascending(Held) <=> Ascending(items) /\ Ascending(buffer) /\ Before(items, buffer)
  BY <1>1, AscendingConcat DEF Held
<1> QED BY <1>1, <1>2, <1>3

LEMMA MissingFinite ==
    ASSUME TypeOK
    PROVE  /\ Missing \subseteq 1..added
           /\ IsFiniteSet(Missing) /\ Cardinality(Missing) \in Nat
<1>1. IsFiniteSet(1..added)
  BY FS_Interval DEF TypeOK
<1>2. Missing \subseteq 1..added
  BY DEF Missing
<1> QED BY <1>1, <1>2, FS_Subset, FS_CardinalityType

\* A smaller set of missing letters is covered by the same counter.
LEMMA MissingShrinks ==
    ASSUME TypeOK, Missing' \subseteq Missing
    PROVE  Cardinality(Missing') <= Cardinality(Missing) /\ Cardinality(Missing') \in Nat
BY MissingFinite, FS_Subset, FS_CardinalityType

\* The letters in flight end in the table, so none of them is missing.
LEMMA InsertLeavesNoneMissing ==
    ASSUME TypeOK, Insert, added' = added
    PROVE  Missing' \subseteq {n \in 1..added : table[n] = 0 /\ n \notin ToSet(items)
                                             /\ n \notin HeldLetters'}
<1>1. added \in 0..MaxAdds /\ table \in [Letters -> Nat]
  BY DEF TypeOK
<1>2. \A n \in 1..added : n \in Letters
  BY <1>1 DEF Letters
<1>3. \A n \in 1..added : table'[n] = table[n] + IF n \in ToSet(items) THEN 1 ELSE 0
  BY <1>2 DEF Insert
<1> HIDE DEF Insert
<1>4. \A n \in 1..added : table'[n] = 0 => table[n] = 0 /\ n \notin ToSet(items)
  BY <1>1, <1>2, <1>3
<1> QED BY <1>4 DEF Missing

LEMMA AddAccounted == ASSUME TypeOK, Accounted, Add PROVE Accounted'
<1>0. /\ added \in Nat /\ written \in Int /\ dropped \in Int
      /\ Len(buffer) \in Nat /\ Len(items) \in Nat
  BY DEF TypeOK
<1>1. /\ added < MaxAdds /\ added' = added + 1 /\ added + 1 \in Letters /\ added + 1 \in Int
      /\ written' = written /\ items' = items /\ table' = table
  BY DEF Add, TypeOK, Letters
<1>2. HeldLetters \subseteq 1..added
  BY DEF Accounted
<1>3. CASE buffer' = Append(buffer, added + 1) /\ dropped' = dropped
  <2>1. /\ Len(buffer') = Len(buffer) + 1
        /\ ToSet(buffer') = ToSet(buffer) \cup {added + 1}
        /\ Held' = Append(Held, added + 1)
    BY <1>1, <1>3, HeldFacts, ToSetAppend, AppendProperties DEF Held
  <2>2. HeldLetters' = HeldLetters \cup {added + 1}
    BY <1>1, <2>1 DEF HeldLetters
  <2>3. \A i \in DOMAIN Held : Held[i] < added + 1
    <3> TAKE i \in DOMAIN Held
    <3>1. Held[i] \in ToSet(Held)
      BY HeldFacts, ToSetRange
    <3> QED BY <3>1, <1>0, <1>2, HeldFacts
  <2>4. Ascending(Held')
    BY <1>1, <2>1, <2>3, HeldFacts, AscendingAppend DEF Accounted
  <2>5. Missing' \subseteq Missing
    BY <1>0, <1>1, <2>2 DEF Missing
  <2>6. Cardinality(Missing') <= dropped'
    BY <1>0, <1>3, <2>5, MissingFinite, MissingShrinks DEF Accounted
  <2>7. HeldLetters' \subseteq 1..added'
    BY <1>0, <1>1, <1>2, <2>2
  <2>8. added' = written' + dropped' + Len(buffer') + Len(items')
    BY <1>0, <1>1, <1>3, <2>1 DEF Accounted
  <2> QED BY <2>4, <2>6, <2>7, <2>8 DEF Accounted
<1>4. CASE buffer' = buffer /\ dropped' = dropped + 1
  <2>1. HeldLetters' = HeldLetters /\ Held' = Held
    BY <1>1, <1>4 DEF HeldLetters, Held
  <2>2. Missing' \subseteq Missing \cup {added + 1}
    BY <1>0, <1>1, <2>1 DEF Missing
  <2>3. /\ IsFiniteSet(Missing \cup {added + 1})
        /\ Cardinality(Missing \cup {added + 1}) <= Cardinality(Missing) + 1
        /\ Cardinality(Missing \cup {added + 1}) \in Nat
    <3>1. /\ IsFiniteSet(Missing \cup {added + 1})
          /\ Cardinality(Missing \cup {added + 1})
                 = IF added + 1 \in Missing THEN Cardinality(Missing) ELSE Cardinality(Missing) + 1
      BY MissingFinite, FS_AddElement
    <3> HIDE DEF Missing
    <3> QED BY <3>1, MissingFinite
  <2>4. /\ Cardinality(Missing') <= Cardinality(Missing \cup {added + 1})
        /\ Cardinality(Missing') \in Nat
    BY <2>2, <2>3, FS_Subset, FS_CardinalityType
  <2>5. Cardinality(Missing') <= dropped'
    BY <1>0, <1>4, <2>3, <2>4, MissingFinite DEF Accounted
  <2>6. HeldLetters' \subseteq 1..added'
    BY <1>0, <1>1, <1>2, <2>1
  <2>7. added' = written' + dropped' + Len(buffer') + Len(items')
    BY <1>0, <1>1, <1>4 DEF Accounted
  <2> QED BY <2>1, <2>5, <2>6, <2>7 DEF Accounted
<1> QED BY <1>1, <1>3, <1>4, Zenon DEF Add

\* flush() moves the letters it takes, all or none, and loses none.
LEMMA FlushAccounted ==
    ASSUME TypeOK, Accounted, items = <<>>,
           NEW writing, NEW idle, Flush(writing, idle),
           UNCHANGED <<added, written, dropped, table>>
    PROVE  Accounted'
<1>1. CASE UNCHANGED <<buffer, items>>
  BY <1>1 DEF Accounted, Missing, HeldLetters, Held
<1>2. CASE items' = buffer /\ buffer' = <<>>
  <2>1. /\ added \in Int /\ written \in Int /\ dropped \in Int
        /\ Len(buffer) \in Nat /\ Len(items) = 0 /\ Len(buffer') = 0
    BY <1>2 DEF TypeOK
  <2>2. Held = buffer /\ Held' = buffer
    BY <1>2, HeldFacts, ConcatEmptySeq DEF Held
  <2>3. HeldLetters' = HeldLetters
    BY <1>2, ToSetEmpty DEF HeldLetters
  <2>4. Missing' = Missing
    BY <2>3 DEF Missing
  <2>5. added' = written' + dropped' + Len(buffer') + Len(items')
    BY <1>2, <2>1 DEF Accounted
  <2> QED BY <2>2, <2>3, <2>4, <2>5 DEF Accounted
<1> QED BY <1>1, <1>2, Zenon DEF Flush

LEMMA WriteSucceedsAccounted == ASSUME TypeOK, Accounted, WriteSucceeds PROVE Accounted'
<1>0. /\ added \in Int /\ written \in Int /\ dropped \in Int
      /\ Len(buffer) \in Nat /\ Len(items) \in Nat
  BY DEF TypeOK
<1>1. /\ Insert /\ written' = written + Len(items) /\ items' = <<>> /\ buffer' = buffer
      /\ added' = added /\ dropped' = dropped
  BY Zenon DEF WriteSucceeds
<1>2. Held' = buffer /\ Ascending(Held') /\ HeldLetters' = ToSet(buffer) /\ Len(items') = 0
  BY <1>1, HeldFacts, ConcatEmptySeq, ToSetEmpty DEF Held, HeldLetters, Accounted
<1>3. Missing' \subseteq Missing
  BY <1>1, <1>2, InsertLeavesNoneMissing DEF Missing, HeldLetters
<1>4. Cardinality(Missing') <= dropped'
  BY <1>0, <1>1, <1>3, MissingFinite, MissingShrinks DEF Accounted
<1>5. added' = written' + dropped' + Len(buffer') + Len(items')
  BY <1>0, <1>1, <1>2 DEF Accounted
<1> QED BY <1>1, <1>2, <1>4, <1>5 DEF Accounted, HeldLetters

\* Letters that are neither stored nor put back are counted: no more are missing
\* than dropped grows by.
LEMMA WriteFailsAccounted == ASSUME TypeOK, Accounted, WriteFails PROVE Accounted'
<1> DEFINE front == SubSeq(items, 1, Kept)
           gone == {items[i] : i \in (Kept + 1)..Len(items)}
<1>0. /\ added \in Int /\ written \in Int /\ dropped \in Int
      /\ Len(buffer) \in Nat /\ Len(items) \in Nat
      /\ Kept \in 0..Len(items) /\ GivenUp = Len(items) - Kept /\ GivenUp \in Nat
  BY KeptFits DEF TypeOK
<1>1. /\ Insert \/ UNCHANGED table
      /\ dropped' = dropped + GivenUp /\ buffer' = Restored /\ items' = <<>>
      /\ added' = added /\ written' = written
  BY Zenon DEF WriteFails
<1>2. /\ front \in Seq(Letters) /\ Len(front) = Kept
      /\ \A i \in 1..Kept : i \in 1..Len(items) /\ front[i] = items[i]
      /\ Ascending(items) => Ascending(front)
      /\ Restored = front \o buffer
      /\ Restored \in Seq(Letters) /\ Len(Restored) = Kept + Len(buffer)
      /\ ToSet(Restored) = {items[i] : i \in 1..Kept} \cup ToSet(buffer)
  BY RestoredParts
<1>3. Held' = Restored /\ HeldLetters' = ToSet(Restored) /\ Len(items') = 0
  BY <1>1, <1>2, ConcatEmptySeq, ToSetEmpty DEF Held, HeldLetters
<1> HIDE DEF front
<1>4. ToSet(items) = {items[i] : i \in 1..Len(items)}
  BY HeldFacts, ToSetRange
<1>5. HeldLetters \subseteq HeldLetters' \cup gone /\ HeldLetters' \subseteq HeldLetters
  <2>1. \A i \in 1..Len(items) : i \in 1..Kept \/ i \in (Kept + 1)..Len(items)
    BY <1>0
  <2>2. ToSet(items) \subseteq {items[i] : i \in 1..Kept} \cup gone
    BY <1>4, <2>1
  <2>3. {items[i] : i \in 1..Kept} \subseteq ToSet(items)
    BY <1>2, <1>4
  <2> QED BY <1>2, <1>3, <2>2, <2>3 DEF HeldLetters
<1>6. Ascending(Held')
  <2>1. front \in Seq(Int)
    BY <1>2 DEF Letters
  <2>2. DOMAIN front = 1..Kept /\ DOMAIN items = 1..Len(items)
    BY <1>2, HeldFacts, LenProperties
  <2>3. Ascending(items) /\ Ascending(buffer) /\ Before(items, buffer)
    BY HeldFacts DEF Accounted
  <2>4. Before(front, buffer)
    BY <1>2, <2>2, <2>3 DEF Before
  <2> QED BY <1>2, <1>3, <2>1, <2>3, <2>4, HeldFacts, AscendingConcat
<1>7. IsFiniteSet(gone) /\ Cardinality(gone) \in Nat /\ Cardinality(gone) <= GivenUp
  <2>1. Kept \in Nat /\ Len(items) \in Nat /\ Kept <= Len(items)
    BY <1>0
  <2>2. IsFiniteSet(gone) /\ Cardinality(gone) \in Nat /\ Cardinality(gone) <= Len(items) - Kept
    BY ONLY <2>1, ImageCardinality
  <2> QED BY <1>0, <2>2
<1>8. Missing' \subseteq Missing \cup gone
  <2>1. CASE Insert
    BY <1>1, <1>5, <2>1, InsertLeavesNoneMissing DEF Missing
  <2>2. CASE UNCHANGED table
    BY <1>1, <1>5, <2>2 DEF Missing
  <2> QED BY <1>1, <2>1, <2>2
<1>9. Cardinality(Missing') <= dropped'
  <2> HIDE DEF gone
  <2>1. /\ IsFiniteSet(Missing \cup gone)
        /\ Cardinality(Missing \cup gone) <= Cardinality(Missing) + Cardinality(gone)
        /\ Cardinality(Missing \cup gone) \in Nat
    <3>1. IsFiniteSet(Missing \cap gone)
      BY <1>7, FS_Subset
    <3>2. Cardinality(Missing \cap gone) \in Nat
      BY <3>1, FS_CardinalityType
    <3>3. /\ IsFiniteSet(Missing \cup gone)
          /\ Cardinality(Missing \cup gone)
                 = Cardinality(Missing) + Cardinality(gone) - Cardinality(Missing \cap gone)
      BY <1>7, MissingFinite, FS_Union
    <3>4. Cardinality(Missing \cup gone) \in Nat
      BY <3>3, FS_CardinalityType
    <3> QED BY <1>7, <3>2, <3>3, <3>4, MissingFinite
  <2>2. Cardinality(Missing') <= Cardinality(Missing \cup gone) /\ Cardinality(Missing') \in Nat
    BY <1>8, <2>1, FS_Subset, FS_CardinalityType
  <2> QED BY <1>0, <1>1, <1>7, <2>1, <2>2, MissingFinite DEF Accounted
<1>10. added' = written' + dropped' + Len(buffer') + Len(items')
  BY <1>0, <1>1, <1>2, <1>3 DEF Accounted
<1> QED BY <1>1, <1>5, <1>6, <1>9, <1>10 DEF Accounted

LEMMA InitAccounted == Init => Accounted
<1> SUFFICES ASSUME Init PROVE Accounted
  OBVIOUS
<1>1. added = 0 /\ written = 0 /\ dropped = 0 /\ buffer = <<>> /\ items = <<>>
  BY DEF Init
<1>2. Held = <<>> /\ HeldLetters = {}
  BY <1>1, ToSetEmpty DEF Held, HeldLetters
<1>3. Missing = {}
  BY <1>1 DEF Missing
<1> QED BY <1>1, <1>2, <1>3, FS_EmptySet DEF Accounted, Ascending

LEMMA NextAccounted == TypeOK /\ LastFlush /\ Accounted /\ [Next]_vars => Accounted'
<1> SUFFICES ASSUME TypeOK, LastFlush, Accounted, [Next]_vars PROVE Accounted'
  OBVIOUS
<1>1. CASE UNCHANGED <<added, written, dropped, table, buffer, items>>
  BY <1>1 DEF Accounted, Missing, HeldLetters, Held
<1>2. CASE Stop \/ Wait
  BY <1>1, <1>2, Zenon DEF Stop, Wait
<1>3. CASE FlushPeriodically
  BY <1>3, FlushAccounted DEF FlushPeriodically, LastFlush
<1>4. CASE FlushFinally
  BY <1>4, FlushAccounted DEF FlushFinally, LastFlush
<1>5. CASE UNCHANGED vars
  BY <1>1, <1>5 DEF vars
<1> QED BY <1>2, <1>3, <1>4, <1>5, AddAccounted, WriteSucceedsAccounted, WriteFailsAccounted
        DEF Next, TaskStep

\* Every letter add() saw is written, dropped, buffered or in flight, exactly one
\* of them; no more are missing than dropped says; and letters keep their order,
\* also when a failed flush puts them back.
THEOREM NoLetterLostInSilence == Spec => []LettersAccounted
<1>1. TypeOK /\ Accounted => LettersAccounted
  BY DEF Accounted, Missing, HeldLetters, Held, Ascending, LettersAccounted
<1> QED BY InitTypeOK, NextTypeOK, InitLastFlush, NextLastFlush, InitAccounted, NextAccounted,
           <1>1, PTL DEF Spec
=============================================================================
