------------------------ MODULE TracePipeline_proofs ------------------------
(***************************************************************************)
(* Proofs about the record buffer and about the path of a record to the    *)
(* trace, for any number of threads, any buffer size and any number of     *)
(* records.                                                                *)
(*                                                                         *)
(* The first part is about the buffer alone (TraceBuffer): its types, the  *)
(* exclusion of two collections inside doGCEnd, and, as long as no index   *)
(* is drawn inside doGCEnd's window and the VM lives, that                 *)
(* recFinishedCount is exact, that batches are whole and that no record is *)
(* lost.  The second part is about the pipeline: the output thread         *)
(* implements the mailbox, no record is written twice, and none is lost on *)
(* the way.  A step of the pipeline is a step of the buffer or leaves the  *)
(* buffer alone, except that the assertion of doParallelSortAndOutput      *)
(* stops the process; so the invariants of the first part hold in the      *)
(* second, and Link says what the output thread's state has to do with the *)
(* buffer's.                                                               *)
(***************************************************************************)
EXTENDS TracePipeline, TraceBufferInv, FiniteSetTheorems, TLAPS

-----------------------------------------------------------------------------
(* Type correctness.                                                       *)

\* The types are preserved by every step, whatever the interleaving.
LEMMA TypeOKNext == TypeOK /\ [Next]_vars => TypeOK'
<1> SUFFICES ASSUME TypeOK, [Next]_vars PROVE TypeOK'
  OBVIOUS
<1> USE BufferAssumption DEF TypeOK, Slots, Records, Actors, Goto, counters, gcs,
        locks, control, batches, deathBufferSize, ThreadSteps, CollectorSteps
<1>1. ASSUME NEW t \in Threads, BeginAdd(t) PROVE TypeOK'
  BY <1>1 DEF BeginAdd
<1>2. ASSUME NEW t \in Threads, Claim(t) PROVE TypeOK'
  BY <1>2 DEF Claim, Branch
<1>3. ASSUME NEW t \in Threads, Store(t) PROVE TypeOK'
  <2>1. <<t, added[t]>> \in Threads \X Nat
    OBVIOUS
  <2>2. outputBuffer' \in [Slots -> Records \cup {NoRecord}]
    BY <1>3, <2>1 DEF Store
  <2>3. stored' \subseteq Records
    BY <1>3, <2>1 DEF Store
  <2>4. /\ pc' \in [Actors -> ThreadSteps \cup {"done"}]
        /\ pc'[VMThread] = pc[VMThread]
    BY <1>3 DEF Store
  <2>5. QED
    BY <1>3, <2>2, <2>3, <2>4 DEF Store
<1>4. ASSUME NEW t \in Threads, Count(t) PROVE TypeOK'
  <2>1. added' \in [Threads -> Nat] /\ recFinishedCount' \in Nat
    BY <1>4 DEF Count
  <2>2. /\ pc' \in [Actors -> ThreadSteps \cup {"done"}]
        /\ pc'[VMThread] = pc[VMThread]
    BY <1>4 DEF Count
  <2>3. QED
    BY <1>4, <2>1, <2>2 DEF Count
<1>5. ASSUME NEW t \in Threads, AwaitCounted(t) PROVE TypeOK'
  BY <1>5 DEF AwaitCounted
<1>6. ASSUME NEW t \in Threads, StartGC(t) PROVE TypeOK'
  <2>1. /\ pc' \in [Actors -> ThreadSteps \cup {"done"}]
        /\ pc'[VMThread] = pc[VMThread]
    BY <1>6 DEF StartGC
  <2> HIDE DEF Slots, Records, deathBufferSize, ThreadSteps, CollectorSteps
  <2>2. QED
    BY <1>6, <2>1 DEF StartGC
<1>7. ASSUME NEW t \in Threads, EnterFullMon(t) PROVE TypeOK'
  BY <1>7 DEF EnterFullMon
<1>8. ASSUME NEW t \in Threads, FinishGC(t) PROVE TypeOK'
  <2>1. /\ pc' \in [Actors -> ThreadSteps \cup {"done"}]
        /\ pc'[VMThread] = pc[VMThread]
    BY <1>8 DEF FinishGC
  <2> HIDE DEF Slots, Records, deathBufferSize, ThreadSteps, CollectorSteps
  <2>2. QED
    BY <1>8, <2>1 DEF FinishGC
<1>9. ASSUME NEW t \in Threads, LeaveFullMon(t) PROVE TypeOK'
  <2>1. pc' \in [Actors -> ThreadSteps \cup {"done"}]
    BY <1>9 DEF LeaveFullMon, WakeAll
  <2>2. pc'[VMThread] = pc[VMThread]
    BY <1>9 DEF LeaveFullMon, WakeAll
  <2>3. QED
    BY <1>9, <2>1, <2>2 DEF LeaveFullMon
<1>10. ASSUME NEW t \in Threads, AssertionFails(t) PROVE TypeOK'
  BY <1>10 DEF AssertionFails
<1>11. ASSUME NEW t \in Threads, BlockedCheck(t) PROVE TypeOK'
  BY <1>11 DEF BlockedCheck
<1>12. ASSUME NEW t \in Threads, WaitTimeout(t) PROVE TypeOK'
  BY <1>12 DEF WaitTimeout
<1>13. ASSUME NEW a \in Actors, NEW d \in DeathCounts, RecordDeaths(a, d)
       PROVE TypeOK'
  <2>1. d \in Nat
    OBVIOUS
  <2>2. deathBufferEnd' \in 0 .. deathBufferSize
    BY <1>13, <2>1 DEF RecordDeaths, DeathListHasRoom
  <2>3. /\ pc' \in [Actors -> ThreadSteps \cup {"done"}]
        /\ pc'[VMThread] \in CollectorSteps \cup {"idle", "done"}
    <3>1. pc' = pc \/ \E s \in CollectorSteps \cap ThreadSteps : pc' = [pc EXCEPT ![a] = s]
      BY <1>13 DEF RecordDeaths
    <3>2. CollectorSteps \cap ThreadSteps \subseteq CollectorSteps /\ a \in Actors /\ VMThread \in Actors
      OBVIOUS
    <3> HIDE DEF Slots, Records, deathBufferSize, ThreadSteps, CollectorSteps, Actors
    <3>3. QED
      BY <3>1, <3>2
  <2>4. stopped' \in {"no", "assertion", "exit", "mailbox"} /\ heapLock' \in Actors \cup {NoThread}
    BY <1>13 DEF RecordDeaths
  <2>5. QED
    BY <1>13, <2>2, <2>3, <2>4 DEF RecordDeaths
<1>14. ASSUME NEW a \in Actors, HandOver(a) PROVE TypeOK'
  BY <1>14 DEF HandOver
<1>15. ASSUME NEW a \in Actors, NewBuffer(a) PROVE TypeOK'
  BY <1>15 DEF NewBuffer, FreshArray
<1>16. ASSUME NEW a \in Actors, ResetEnd(a) PROVE TypeOK'
  <2>1. /\ pc' \in [Actors -> ThreadSteps \cup {"done"}]
        /\ pc'[VMThread] \in CollectorSteps \cup {"idle", "done"}
    BY <1>16 DEF ResetEnd
  <2>2. bufferEnd' \in 0 .. maxRecords + 1
    BY <1>16 DEF ResetEnd
  <2> HIDE DEF Slots, Records, deathBufferSize, ThreadSteps, CollectorSteps
  <2>3. QED
    BY <1>16, <2>1, <2>2 DEF ResetEnd
<1>17. ASSUME NEW a \in Actors, ResetCount(a) PROVE TypeOK'
  BY <1>17 DEF ResetCount
<1>18. ASSUME NEW a \in Actors, ResetDeaths(a) PROVE TypeOK'
  BY <1>18 DEF ResetDeaths, AfterCollection
<1>19. CASE VMDeath
  BY <1>19 DEF VMDeath
<1>20. CASE UNCHANGED vars
  BY <1>20 DEF vars
<1>21. QED
  BY <1>1, <1>2, <1>3, <1>4, <1>5, <1>6, <1>7, <1>8, <1>9, <1>10, <1>11, <1>12,
     <1>13, <1>14, <1>15, <1>16, <1>17, <1>18, <1>19, <1>20
     DEF Next, addRecordToList, fullcb, doGCEnd

\* The initial values have their types.
LEMMA InitType == Init => TypeOK
<1> SUFFICES ASSUME Init PROVE TypeOK
  OBVIOUS
<1>1. outputBuffer \in [Slots -> Records \cup {NoRecord}]
  BY DEF Init
<1>2. /\ bufferEnd \in 0 .. maxRecords + 1
      /\ deathBufferEnd \in 0 .. deathBufferSize
      /\ index \in [Threads -> 0 .. maxRecords + 1]
  BY BufferAssumption DEF Init, deathBufferSize
<1>3. /\ pc \in [Actors -> ThreadSteps \cup {"done"}]
      /\ pc[VMThread] \in CollectorSteps \cup {"idle", "done"}
  BY DEF Init, Actors, ThreadSteps
<1>4. holes \in BOOLEAN /\ raced \in BOOLEAN
  BY DEF Init
<1>5. QED
  BY <1>1, <1>2, <1>3, <1>4 DEF Init, TypeOK

\* The variables of the outputter always have the values of their types.
THEOREM TypeCorrect == Spec => []TypeOK
  BY InitType, TypeOKNext, PTL DEF Spec

-----------------------------------------------------------------------------
(* The inductive invariant.                                                *)

\* What IInv says of the time before VMDeath while no index is drawn in the window.
Good == Shape /\ CountedExactly /\ StoredKept /\ ~holes

\* A step that leaves the buffer, its counters and the indices alone, and moves
\* threads only outside of sealing and adding or between the FullSteps, keeps Good.
LEMMA MovesKeepGood ==
  ASSUME TypeOK, Good,
         UNCHANGED <<outputBuffer, bufferEnd, recFinishedCount, index, stored, handed, holes>>,
         \A u \in Threads :
           \/ pc'[u] = pc[u]
           \/ pc[u] \in FullSteps /\ pc'[u] \in FullSteps
           \/ /\ pc[u] \notin SealedSteps \cup Adding
              /\ pc'[u] \notin SealedSteps \cup Adding
  PROVE  Good'
<1> USE DEF Good, Shape, FullSteps, QuietSteps, SealedSteps, Adding, Filled
<1>1. OneSealer'
  BY DEF OneSealer
<1>2. BufferSealed'
  BY DEF BufferSealed
<1>3. NobodyAdds'
  BY DEF NobodyAdds
<1>4. CollectedBuffer'
  BY DEF CollectedBuffer
<1>5. OwnSlot'
  BY DEF OwnSlot, Slots
<1>6. DistinctSlots' /\ FilledBelowEnd'
  BY DEF DistinctSlots, FilledBelowEnd, Slots
<1>7. CountedSlots' = CountedSlots
  BY DEF CountedSlots, Slots
<1>8. CountedExactly'
  BY <1>7 DEF CountedExactly
<1>9. StoredKept' /\ ~holes'
  BY DEF StoredKept, Slots
<1>10. QED
  BY <1>1, <1>2, <1>3, <1>4, <1>5, <1>6, <1>8, <1>9

\* Drawing an index, outside of the window.
LEMMA ClaimKeepsGood ==
  ASSUME TypeOK, Good, NEW t \in Threads, Claim(t), ~raced'
  PROVE  Good'
<1> USE BufferAssumption DEF Good, Shape, FullSteps, QuietSteps, SealedSteps, Adding, Filled
<1>1. \A u \in Threads : pc[u] # "resetCount"
  BY DEF Claim, InWindow, Actors
<1>2. /\ bufferEnd \in Nat /\ pc[t] = "claim"
      /\ \A u \in Threads : u # t => pc'[u] = pc[u] /\ index'[u] = index[u]
      /\ pc'[t] = Branch(bufferEnd) /\ index'[t] = bufferEnd
      /\ UNCHANGED <<outputBuffer, recFinishedCount, stored, handed, holes>>
  BY DEF Claim, Goto, TypeOK, Actors, batches
<1>3. bufferEnd' = IF bufferEnd > maxRecords THEN bufferEnd ELSE bufferEnd + 1
  BY DEF Claim
<1>4. OneSealer'
  BY <1>1, <1>2 DEF OneSealer, BufferSealed, Branch
<1>5. BufferSealed'
  BY <1>1, <1>2, <1>3 DEF BufferSealed, Branch
<1>6. NobodyAdds'
  BY <1>1, <1>2 DEF NobodyAdds, BufferSealed, Branch
<1>7. CollectedBuffer'
  BY <1>2 DEF CollectedBuffer, Branch, Slots
<1>8. OwnSlot'
  BY <1>2, <1>3 DEF OwnSlot, FilledBelowEnd, Branch, Slots
<1>9. DistinctSlots'
  BY <1>2 DEF DistinctSlots, OwnSlot, Branch
<1>10. FilledBelowEnd'
  BY <1>2, <1>3 DEF FilledBelowEnd, Slots
<1>11. CountedSlots' = CountedSlots
  BY <1>2 DEF CountedSlots, Branch, Slots
<1>12. CountedExactly'
  BY <1>2, <1>11 DEF CountedExactly, Branch
<1>13. StoredKept' /\ ~holes'
  BY <1>2 DEF StoredKept, Slots
<1>14. QED
  BY <1>4, <1>5, <1>6, <1>7, <1>8, <1>9, <1>10, <1>12, <1>13

\* Storing a record in the slot the thread owns.
LEMMA StoreKeepsGood ==
  ASSUME TypeOK, Good, NEW t \in Threads, Store(t)
  PROVE  Good'
<1> USE BufferAssumption DEF Good, Shape, FullSteps, QuietSteps, SealedSteps, Adding, Filled
<1> DEFINE rec == <<t, added[t]>>
<1>1. rec \in Records /\ rec # NoRecord
  BY DEF TypeOK, Records
<1>2. index[t] \in Slots /\ index[t] < bufferEnd /\ outputBuffer[index[t]] = NoRecord
  BY DEF OwnSlot, Store
<1>3. /\ pc[t] = "store" /\ pc'[t] = "count"
      /\ \A u \in Threads : u # t => pc'[u] = pc[u]
      /\ outputBuffer'[index[t]] = rec
      /\ \A i \in Slots : i # index[t] => outputBuffer'[i] = outputBuffer[i]
  BY <1>2 DEF Store, Goto, TypeOK, Actors
<1>4. /\ UNCHANGED <<bufferEnd, recFinishedCount, index, handed, holes>>
      /\ stored' = stored \cup {rec}
  BY DEF Store, counters, batches
<1> HIDE DEF rec
<1>5. OneSealer' /\ BufferSealed'
  BY <1>3, <1>4 DEF OneSealer, BufferSealed
<1>6. \A u \in Threads : pc[u] \notin QuietSteps
  BY <1>3 DEF NobodyAdds
<1>7. NobodyAdds' /\ CollectedBuffer'
  BY <1>3, <1>6 DEF NobodyAdds, CollectedBuffer
<1>8. OwnSlot'
  <2> SUFFICES ASSUME NEW u \in Threads, pc'[u] \in Adding
               PROVE  /\ index'[u] \in Slots /\ index'[u] < bufferEnd'
                      /\ (Filled(index[u])' <=> pc'[u] = "count")
    BY <1>4 DEF OwnSlot
  <2>1. CASE u = t
    BY <2>1, <1>1, <1>2, <1>3, <1>4
  <2>2. CASE u # t
    BY <2>2, <1>2, <1>3, <1>4 DEF OwnSlot, DistinctSlots
  <2>3. QED
    BY <2>1, <2>2
<1>9. DistinctSlots'
  BY <1>3, <1>4 DEF DistinctSlots
<1>10. FilledBelowEnd'
  BY <1>2, <1>3, <1>4 DEF FilledBelowEnd
<1>11. CountedSlots' = CountedSlots
  BY <1>2, <1>3, <1>4 DEF CountedSlots, Slots
<1>12. CountedExactly'
  BY <1>3, <1>4, <1>11 DEF CountedExactly
<1>13. StoredKept'
  <2>1. \A r \in stored : r # NoRecord
    BY DEF TypeOK
  <2>2. \A i \in Slots : outputBuffer[i] # NoRecord => outputBuffer'[i] = outputBuffer[i]
    BY <1>2, <1>3
  <2>3. QED
    BY <1>2, <1>3, <1>4, <2>1, <2>2 DEF StoredKept
<1>14. QED
  BY <1>4, <1>5, <1>7, <1>8, <1>9, <1>10, <1>12, <1>13

\* The slots of an array are a finite set of maxRecords numbers.
LEMMA SlotsFinite == IsFiniteSet(Slots) /\ Cardinality(Slots) = maxRecords
<1>1. maxRecords \in Nat /\ maxRecords - 1 \in Int /\ 0 \in Int
  BY BufferAssumption
<1>2. QED
  BY <1>1, FS_Interval DEF Slots

\* The set of counted slots is finite and has at most maxRecords elements.
LEMMA CountedFinite ==
  /\ IsFiniteSet(CountedSlots)
  /\ Cardinality(CountedSlots) \in Nat
  /\ Cardinality(CountedSlots) = maxRecords => CountedSlots = Slots
<1>1. CountedSlots \in SUBSET Slots
  BY DEF CountedSlots
<1>2. QED
  BY <1>1, SlotsFinite, FS_Subset, FS_CardinalityType

\* Counting a stored record.
LEMMA CountKeepsGood ==
  ASSUME TypeOK, Good, NEW t \in Threads, Count(t)
  PROVE  Good'
<1> USE BufferAssumption DEF Good, Shape, FullSteps, QuietSteps, SealedSteps, Adding, Filled
<1>1. index[t] \in Slots /\ outputBuffer[index[t]] # NoRecord
  BY DEF OwnSlot, Count
<1>2. /\ pc[t] = "count" /\ pc'[t] = "idle"
      /\ \A u \in Threads : u # t => pc'[u] = pc[u]
      /\ UNCHANGED <<outputBuffer, bufferEnd, index, stored, handed, holes>>
      /\ recFinishedCount' = recFinishedCount + 1
  BY DEF Count, Goto, TypeOK, Actors, batches
<1>3. \A u \in Threads : pc[u] \notin QuietSteps
  BY <1>2 DEF NobodyAdds
<1>4. OneSealer' /\ BufferSealed' /\ NobodyAdds' /\ CollectedBuffer'
  BY <1>2, <1>3 DEF OneSealer, BufferSealed, NobodyAdds, CollectedBuffer
<1>5. OwnSlot' /\ DistinctSlots' /\ FilledBelowEnd'
  BY <1>2 DEF OwnSlot, DistinctSlots, FilledBelowEnd
<1>6. index[t] \notin CountedSlots
  BY <1>2 DEF CountedSlots
<1>7. CountedSlots' = CountedSlots \cup {index[t]}
  BY <1>1, <1>2 DEF CountedSlots, DistinctSlots
<1>8. Cardinality(CountedSlots') = Cardinality(CountedSlots) + 1
  BY <1>6, <1>7, CountedFinite, FS_AddElement
<1>9. recFinishedCount = Cardinality(CountedSlots)
  BY <1>3 DEF CountedExactly
<1>10. CountedExactly'
  BY <1>2, <1>8, <1>9 DEF CountedExactly
<1>11. StoredKept' /\ ~holes'
  BY <1>2 DEF StoredKept
<1>12. QED
  BY <1>4, <1>5, <1>10, <1>11

\* Leaving the wait for the counted stores: the buffer is full and nobody adds.
LEMMA AwaitKeepsGood ==
  ASSUME TypeOK, Good, NEW t \in Threads, AwaitCounted(t)
  PROVE  Good'
<1> USE BufferAssumption DEF Good, Shape, FullSteps, QuietSteps, SealedSteps, Adding, Filled
<1>1. /\ pc[t] = "await" /\ pc'[t] = "start"
      /\ \A u \in Threads : u # t => pc'[u] = pc[u]
      /\ UNCHANGED <<outputBuffer, bufferEnd, recFinishedCount, index, stored, handed, holes>>
  BY DEF AwaitCounted, Goto, TypeOK, Actors, batches, counters
<1>2. \A u \in Threads : u # t => pc[u] \notin SealedSteps
  BY <1>1 DEF OneSealer
<1>3. recFinishedCount = Cardinality(CountedSlots)
  BY <1>1, <1>2 DEF CountedExactly
<1>4. recFinishedCount >= maxRecords
  BY <1>1 DEF AwaitCounted, AllCounted, BufferSealed
<1>5. Cardinality(CountedSlots) <= maxRecords
  BY SlotsFinite, FS_Subset DEF CountedSlots
<1>6. recFinishedCount = maxRecords /\ CountedSlots = Slots
  BY <1>3, <1>4, <1>5, CountedFinite
<1>7. \A i \in Slots : outputBuffer[i] # NoRecord
  BY <1>6 DEF CountedSlots
<1>8. \A u \in Threads : pc[u] \notin Adding
  BY <1>6, <1>7 DEF OwnSlot, CountedSlots
<1>9. OneSealer' /\ BufferSealed'
  BY <1>1, <1>2 DEF OneSealer, BufferSealed
<1>10. NobodyAdds' /\ OwnSlot' /\ DistinctSlots'
  BY <1>1, <1>8 DEF NobodyAdds, OwnSlot, DistinctSlots
<1>11. CollectedBuffer' /\ FilledBelowEnd'
  BY <1>1, <1>2, <1>6, <1>7 DEF CollectedBuffer, FilledBelowEnd
<1>12. CountedSlots' = CountedSlots
  BY <1>1 DEF CountedSlots
<1>13. CountedExactly'
  BY <1>1, <1>3, <1>12 DEF CountedExactly
<1>14. StoredKept' /\ ~holes'
  BY <1>1 DEF StoredKept
<1>15. QED
  BY <1>9, <1>10, <1>11, <1>13, <1>14

\* A batch is given away: it is the full buffer.
LEMMA HandOverKeepsGood ==
  ASSUME TypeOK, Good, NEW t \in Threads, HandOver(t)
  PROVE  Good'
<1> USE BufferAssumption DEF Good, Shape, FullSteps, QuietSteps, SealedSteps, Adding, Filled
<1>1. /\ pc[t] = "handOver" /\ pc'[t] = "newBuffer"
      /\ \A u \in Threads : u # t => pc'[u] = pc[u]
      /\ UNCHANGED <<outputBuffer, bufferEnd, recFinishedCount, index, stored>>
  BY DEF HandOver, Goto, TypeOK, Actors, counters
<1>2. \A u \in Threads : u # t => pc[u] \notin SealedSteps
  BY <1>1 DEF OneSealer
<1>3. recFinishedCount = maxRecords /\ \A i \in Slots : outputBuffer[i] # NoRecord
  BY <1>1 DEF CollectedBuffer
<1>4. {i \in Slots : i < recFinishedCount} = Slots
  BY <1>3 DEF Slots
<1>5. handed' = handed \cup {outputBuffer[i] : i \in Slots}
  BY <1>3, <1>4 DEF HandOver
<1>6. ~holes'
  <2>1. ~(recFinishedCount > maxRecords)
    BY <1>3
  <2>2. ~ \E i \in {j \in Slots : j < recFinishedCount} : outputBuffer[i] = NoRecord
    BY <1>3
  <2>3. holes' = (holes \/ recFinishedCount > maxRecords
               \/ \E i \in {j \in Slots : j < recFinishedCount} : outputBuffer[i] = NoRecord)
    BY DEF HandOver
  <2>4. QED
    BY <2>1, <2>2, <2>3, Zenon
<1>7. OneSealer' /\ BufferSealed' /\ NobodyAdds' /\ OwnSlot' /\ DistinctSlots' /\ FilledBelowEnd'
  BY <1>1 DEF OneSealer, BufferSealed, NobodyAdds, OwnSlot, DistinctSlots, FilledBelowEnd
<1>8. CollectedBuffer'
  BY <1>1, <1>2, <1>5 DEF CollectedBuffer
<1>9. CountedSlots' = CountedSlots
  BY <1>1 DEF CountedSlots
<1>10. CountedExactly'
  BY <1>1, <1>9 DEF CountedExactly
<1>11. StoredKept'
  BY <1>1, <1>5 DEF StoredKept
<1>12. QED
  BY <1>6, <1>7, <1>8, <1>10, <1>11

\* A new array: whatever the old one held is in a batch.
LEMMA NewBufferKeepsGood ==
  ASSUME TypeOK, Good, NEW t \in Threads, NewBuffer(t)
  PROVE  Good'
<1> USE BufferAssumption DEF Good, Shape, FullSteps, QuietSteps, SealedSteps, Adding, Filled
<1>1. /\ pc[t] = "newBuffer" /\ pc'[t] = "resetEnd"
      /\ \A u \in Threads : u # t => pc'[u] = pc[u]
      /\ \A i \in Slots : outputBuffer'[i] = NoRecord
      /\ UNCHANGED <<bufferEnd, recFinishedCount, index, stored, handed, holes>>
  BY DEF NewBuffer, FreshArray, Goto, TypeOK, Actors, counters, batches
<1>2. \A u \in Threads : u # t => pc[u] \notin SealedSteps
  BY <1>1 DEF OneSealer
<1>3. \A i \in Slots : outputBuffer[i] \in handed
  BY <1>1 DEF CollectedBuffer
<1>4. \A u \in Threads : pc[u] \notin Adding
  BY <1>1 DEF NobodyAdds
<1>5. OneSealer' /\ BufferSealed' /\ NobodyAdds' /\ OwnSlot' /\ DistinctSlots' /\ FilledBelowEnd'
  BY <1>1, <1>4 DEF OneSealer, BufferSealed, NobodyAdds, OwnSlot, DistinctSlots, FilledBelowEnd
<1>6. CollectedBuffer' /\ CountedExactly'
  BY <1>1, <1>2 DEF CollectedBuffer, CountedExactly
<1>7. StoredKept' /\ ~holes'
  BY <1>1, <1>3 DEF StoredKept
<1>8. QED
  BY <1>5, <1>6, <1>7

\* bufferEnd = 0: the array is empty and nobody owns a slot of it.
LEMMA ResetEndKeepsGood ==
  ASSUME TypeOK, Good, NEW t \in Threads, ResetEnd(t)
  PROVE  Good'
<1> USE BufferAssumption DEF Good, Shape, FullSteps, QuietSteps, SealedSteps, Adding, Filled
<1>1. /\ pc[t] = "resetEnd" /\ pc'[t] = "resetCount"
      /\ \A u \in Threads : u # t => pc'[u] = pc[u]
      /\ bufferEnd' = 0
      /\ UNCHANGED <<outputBuffer, recFinishedCount, index, stored, handed, holes>>
  BY DEF ResetEnd, Goto, TypeOK, Actors, batches
<1>2. \A u \in Threads : u # t => pc[u] \notin SealedSteps
  BY <1>1 DEF OneSealer
<1>3. \A i \in Slots : outputBuffer[i] = NoRecord
  BY <1>1 DEF CollectedBuffer
<1>4. \A u \in Threads : pc[u] \notin Adding
  BY <1>1 DEF NobodyAdds
<1>5. OneSealer' /\ BufferSealed' /\ NobodyAdds' /\ OwnSlot' /\ DistinctSlots' /\ FilledBelowEnd'
  BY <1>1, <1>2, <1>3, <1>4
     DEF OneSealer, BufferSealed, NobodyAdds, OwnSlot, DistinctSlots, FilledBelowEnd
<1>6. CollectedBuffer' /\ CountedExactly'
  BY <1>1, <1>2, <1>3 DEF CollectedBuffer, CountedExactly
<1>7. StoredKept' /\ ~holes'
  BY <1>1 DEF StoredKept
<1>8. QED
  BY <1>5, <1>6, <1>7

\* recFinishedCount = 0: it is exact again.
LEMMA ResetCountKeepsGood ==
  ASSUME TypeOK, Good, NEW t \in Threads, ResetCount(t)
  PROVE  Good'
<1> USE BufferAssumption DEF Good, Shape, FullSteps, QuietSteps, SealedSteps, Adding, Filled
<1>1. /\ pc[t] = "resetCount" /\ pc'[t] = "resetDeaths"
      /\ \A u \in Threads : u # t => pc'[u] = pc[u]
      /\ recFinishedCount' = 0
      /\ UNCHANGED <<outputBuffer, bufferEnd, index, stored, handed, holes>>
  BY DEF ResetCount, Goto, TypeOK, Actors, batches
<1>2. \A u \in Threads : u # t => pc[u] \notin SealedSteps
  BY <1>1 DEF OneSealer
<1>3. \A i \in Slots : outputBuffer[i] = NoRecord
  BY <1>1 DEF CollectedBuffer
<1>4. OneSealer' /\ BufferSealed' /\ NobodyAdds' /\ OwnSlot' /\ DistinctSlots' /\ FilledBelowEnd'
  BY <1>1 DEF OneSealer, BufferSealed, NobodyAdds, OwnSlot, DistinctSlots, FilledBelowEnd
<1>5. CollectedBuffer'
  BY <1>1, <1>2 DEF CollectedBuffer
<1>6. CountedSlots' = {}
  BY <1>1, <1>3 DEF CountedSlots
<1>7. CountedExactly'
  BY <1>1, <1>6, FS_EmptySet DEF CountedExactly
<1>8. StoredKept' /\ ~holes'
  BY <1>1 DEF StoredKept
<1>9. QED
  BY <1>4, <1>5, <1>7, <1>8

\* IInv is inductive.
LEMMA IInvNext == IInv /\ [Next]_vars => IInv'
<1> SUFFICES ASSUME IInv, [Next]_vars PROVE IInv'
  OBVIOUS
<1>1. TypeOK /\ TypeOK'
  BY TypeOKNext DEF IInv
<1>2. phase' = "live" => phase = "live" /\ pc'[VMThread] = "idle"
  <2> SUFFICES ASSUME phase' = "live" PROVE phase = "live" /\ pc'[VMThread] = "idle"
    OBVIOUS
  <2> USE <1>1, BufferAssumption DEF TypeOK, Actors, Goto, control, IInv
  <2>1. CASE UNCHANGED vars
    BY <2>1 DEF vars
  <2>2. ASSUME NEW t \in Threads, BeginAdd(t) \/ addRecordToList(t)
        PROVE  phase' = phase /\ (pc'[VMThread] = pc[VMThread] \/ pc[VMThread] = "waiting")
    BY <2>2 DEF BeginAdd, addRecordToList, Claim, Store, Count, AwaitCounted, StartGC,
       EnterFullMon, FinishGC, LeaveFullMon, WakeAll, AssertionFails, BlockedCheck, WaitTimeout
  <2>3. ASSUME NEW a \in Actors, fullcb(a)
        PROVE  phase' = phase /\ (a # VMThread => pc'[VMThread] = pc[VMThread])
               /\ (a = VMThread => pc[VMThread] # "idle")
    BY <2>3 DEF fullcb, doGCEnd, RecordDeaths, HandOver, NewBuffer, ResetEnd,
       ResetCount, ResetDeaths
  <2>4. ~VMDeath
    BY DEF VMDeath
  <2>5. QED
    BY <2>1, <2>2, <2>3, <2>4 DEF Next
<1>3. raced => raced'
  BY <1>1 DEF TypeOK, Next, vars, BeginAdd, addRecordToList, Claim, Store, Count, AwaitCounted,
     StartGC, EnterFullMon, FinishGC, LeaveFullMon, AssertionFails, BlockedCheck, WaitTimeout,
     fullcb, doGCEnd, RecordDeaths, HandOver, NewBuffer, ResetEnd, ResetCount, ResetDeaths,
     VMDeath
<1>4. ASSUME Undisturbed' PROVE Good'
  <2>1. phase = "live" /\ ~raced /\ ~raced' /\ pc[VMThread] = "idle"
    BY <1>2, <1>3, <1>4 DEF Undisturbed, IInv
  <2>2. Good
    BY <2>1 DEF IInv, Undisturbed, Good
  <2> USE <1>1, <2>2
  <2> USE DEF TypeOK, Actors, Goto, counters, gcs, locks, control, batches, FullSteps,
          QuietSteps, SealedSteps, Adding
  <2>3. CASE UNCHANGED vars
    BY <2>3, MovesKeepGood DEF vars
  <2>4. ASSUME NEW t \in Threads, BeginAdd(t) PROVE Good'
    BY <2>4, MovesKeepGood DEF BeginAdd
  <2>5. ASSUME NEW t \in Threads, addRecordToList(t) PROVE Good'
    <3>1. CASE Claim(t)
      BY <2>1, <3>1, ClaimKeepsGood
    <3>2. CASE Store(t)
      BY <3>2, StoreKeepsGood
    <3>3. CASE Count(t)
      BY <3>3, CountKeepsGood
    <3>4. CASE AwaitCounted(t)
      BY <3>4, AwaitKeepsGood
    <3>5. CASE StartGC(t)
      BY <3>5, MovesKeepGood DEF StartGC
    <3>6. CASE EnterFullMon(t)
      BY <3>6, MovesKeepGood DEF EnterFullMon
    <3>7. CASE FinishGC(t)
      BY <3>7, MovesKeepGood DEF FinishGC
    <3>8. CASE LeaveFullMon(t)
      BY <3>8, MovesKeepGood DEF LeaveFullMon, WakeAll
    <3>9. CASE AssertionFails(t)
      BY <3>9, MovesKeepGood DEF AssertionFails
    <3>10. CASE BlockedCheck(t)
      BY <3>10, MovesKeepGood DEF BlockedCheck
    <3>11. CASE WaitTimeout(t)
      BY <3>11, MovesKeepGood DEF WaitTimeout
    <3>12. QED
      BY <2>5, <3>1, <3>2, <3>3, <3>4, <3>5, <3>6, <3>7, <3>8, <3>9, <3>10, <3>11
         DEF addRecordToList
  <2>6. ASSUME NEW a \in Actors, fullcb(a) PROVE Good'
    <3>1. a \in Threads
      BY <2>1, <2>6 DEF fullcb, doGCEnd, RecordDeaths, HandOver, NewBuffer, ResetEnd,
         ResetCount, ResetDeaths
    <3>2. ASSUME NEW d \in DeathCounts, RecordDeaths(a, d) PROVE Good'
      BY <3>1, <3>2, MovesKeepGood DEF RecordDeaths
    <3>3. CASE HandOver(a)
      BY <3>1, <3>3, HandOverKeepsGood
    <3>4. CASE NewBuffer(a)
      BY <3>1, <3>4, NewBufferKeepsGood
    <3>5. CASE ResetEnd(a)
      BY <3>1, <3>5, ResetEndKeepsGood
    <3>6. CASE ResetCount(a)
      BY <3>1, <3>6, ResetCountKeepsGood
    <3>7. CASE ResetDeaths(a)
      BY <3>1, <3>7, MovesKeepGood, BufferAssumption DEF ResetDeaths, AfterCollection
    <3>8. QED
      BY <2>6, <3>2, <3>3, <3>4, <3>5, <3>6, <3>7 DEF fullcb, doGCEnd
  <2>7. ~VMDeath
    BY <1>4 DEF VMDeath, Undisturbed
  <2>8. QED
    BY <2>3, <2>4, <2>5, <2>6, <2>7 DEF Next
<1>5. QED
  BY <1>1, <1>2, <1>4 DEF IInv, Good

\* IInv holds at the start.
LEMMA IInvInit == Init => IInv
<1> SUFFICES ASSUME Init PROVE IInv
  OBVIOUS
<1>1. TypeOK
  BY InitType
<1>2. \A a \in Actors : pc[a] = "idle"
  BY DEF Init
<1>3. pc[VMThread] = "idle" /\ \A t \in Threads : pc[t] = "idle"
  BY <1>2 DEF Actors
<1>4. \A i \in Slots : outputBuffer[i] = NoRecord
  BY DEF Init
<1>5. Shape
  BY <1>3, <1>4 DEF Shape, OneSealer, BufferSealed, NobodyAdds, CollectedBuffer, OwnSlot,
     DistinctSlots, FilledBelowEnd, FullSteps, QuietSteps, SealedSteps, Adding, Filled
<1>6. CountedSlots = {}
  BY <1>4 DEF CountedSlots
<1>7. CountedExactly
  BY <1>6, FS_EmptySet DEF CountedExactly, Init
<1>8. StoredKept /\ ~holes
  BY DEF StoredKept, Init
<1>9. QED
  BY <1>1, <1>3, <1>5, <1>7, <1>8 DEF IInv

\* The inductive invariant holds in every behaviour.
THEOREM Invariant == Spec => []IInv
  BY IInvInit, IInvNext, PTL DEF Spec

-----------------------------------------------------------------------------
(* What follows from it.                                                   *)

\* Before VMDeath a collector is a thread of the program.
LEMMA CollectorIsThread ==
  ASSUME IInv, Undisturbed, NEW a \in Actors, pc[a] \in CollectorSteps
  PROVE  a \in Threads
  BY DEF IInv, Undisturbed, Actors, CollectorSteps

\* No record is lost while the buffer is undisturbed: what addRecordToList stored
\* is in the array or in a batch that doGCEnd handed over.
THEOREM RecordsNotLost == Spec => []NothingLost
<1>1. IInv => NothingLost
  BY DEF IInv, NothingLost, StoredKept
<1>2. QED
  BY <1>1, Invariant, PTL

\* The batches doGCEnd hands over are full arrays without a hole, so the copied
\* death records overwrite nothing.
THEOREM BatchesAreWhole == Spec => []BatchesWhole
<1>1. IInv => BatchesWhole
  BY DEF IInv, BatchesWhole, Shape, CollectedBuffer, FullSteps, Filled
<1>2. QED
  BY <1>1, Invariant, PTL

\* recFinishedCount counts the finished additions, doGCEnd's resets excepted.
THEOREM CountExact == Spec => []CountIsExact
<1>1. IInv => CountIsExact
  BY DEF IInv, CountIsExact, CountedExactly, Actors
<1>2. QED
  BY <1>1, Invariant, PTL

\* The copy of the death records stays inside realBufferSize.
THEOREM DeathsFit == Spec => []CopyFits
<1>1. IInv => CopyFits
  <2> SUFFICES ASSUME IInv, Undisturbed, NEW a \in Actors, pc[a] = "handOver"
               PROVE  recFinishedCount + deathBufferEnd <= realBufferSize
    BY DEF CopyFits
  <2>1. recFinishedCount = maxRecords
    BY CollectorIsThread DEF IInv, Shape, CollectedBuffer, FullSteps, CollectorSteps
  <2>2. deathBufferEnd \in Nat /\ deathBufferEnd <= 4 * maxRecords /\ maxRecords \in Nat
    BY BufferAssumption DEF IInv, TypeOK, deathBufferSize
  <2>3. QED
    BY <2>1, <2>2 DEF realBufferSize
<1>2. QED
  BY <1>1, Invariant, PTL

\* An add never overwrites a record that another one stored in the same array.
THEOREM WrittenOnceInArray == Spec => SlotsWrittenOnce
<1> DEFINE Step == Undisturbed =>
                     \/ \E a \in Actors : pc[a] = "newBuffer"
                     \/ \A i \in Slots : outputBuffer[i] # NoRecord => outputBuffer'[i] = outputBuffer[i]
<1>1. IInv /\ [Next]_vars => [Step]_vars
  <2> SUFFICES ASSUME IInv, Next, Undisturbed, \A a \in Actors : pc[a] # "newBuffer"
               PROVE  \A i \in Slots : outputBuffer[i] # NoRecord => outputBuffer'[i] = outputBuffer[i]
    BY DEF vars
  <2>1. ASSUME NEW t \in Threads, Store(t)
        PROVE  \A i \in Slots : outputBuffer[i] # NoRecord => outputBuffer'[i] = outputBuffer[i]
    <3>1. index[t] \in Slots /\ outputBuffer[index[t]] = NoRecord
      BY <2>1 DEF IInv, Shape, OwnSlot, Adding, Filled, Store
    <3>2. QED
      BY <2>1, <3>1 DEF Store, IInv, TypeOK
  <2>2. \/ outputBuffer' = outputBuffer
        \/ \E t \in Threads : Store(t)
    BY DEF Next, BeginAdd, addRecordToList, Claim, Count, AwaitCounted, StartGC, EnterFullMon,
       FinishGC, LeaveFullMon, AssertionFails, BlockedCheck, WaitTimeout, fullcb, doGCEnd,
       RecordDeaths, HandOver, NewBuffer, ResetEnd, ResetCount, ResetDeaths, VMDeath
  <2>3. QED
    BY <2>1, <2>2
<1>2. QED
  BY <1>1, Invariant, PTL DEF Spec, SlotsWrittenOnce

-----------------------------------------------------------------------------
(* The exclusion of two collections, which needs no assumption on timing.  *)

\* heapLock belongs to whoever is inside doGCEnd.
LEMMA LockInvNext == TypeOK /\ LockInv /\ [Next]_vars => LockInv'
<1> SUFFICES ASSUME TypeOK, LockInv, [Next]_vars PROVE LockInv'
  OBVIOUS
<1> USE BufferAssumption DEF TypeOK, LockInv, Actors, Goto, CollectorSteps, locks
<1>1. ASSUME NEW t \in Threads, BeginAdd(t) PROVE LockInv'
  BY <1>1 DEF BeginAdd
<1>2. ASSUME NEW t \in Threads, addRecordToList(t) PROVE LockInv'
  <2>1. UNCHANGED heapLock
    BY <1>2 DEF addRecordToList, Claim, Store, Count, AwaitCounted, StartGC, EnterFullMon,
       FinishGC, LeaveFullMon, AssertionFails, BlockedCheck, WaitTimeout
  <2>2. \A a \in Actors : pc'[a] = pc[a] \/ pc'[a] \notin CollectorSteps \ {"collect"}
    <3>1. CASE Claim(t)
      BY <3>1 DEF Claim, Branch
    <3>2. CASE LeaveFullMon(t)
      BY <3>2 DEF LeaveFullMon, WakeAll
    <3>3. CASE Store(t) \/ Count(t) \/ AwaitCounted(t) \/ StartGC(t) \/ EnterFullMon(t)
      BY <3>3 DEF Store, Count, AwaitCounted, StartGC, EnterFullMon
    <3>4. CASE FinishGC(t) \/ AssertionFails(t) \/ BlockedCheck(t) \/ WaitTimeout(t)
      BY <3>4 DEF FinishGC, AssertionFails, BlockedCheck, WaitTimeout
    <3>5. QED
      BY <1>2, <3>1, <3>2, <3>3, <3>4 DEF addRecordToList
  <2>3. QED
    BY <2>1, <2>2
<1>3. ASSUME NEW a \in Actors, NEW d \in DeathCounts, RecordDeaths(a, d) PROVE LockInv'
  BY <1>3 DEF RecordDeaths, HeapLockFree
<1>4. ASSUME NEW a \in Actors, HandOver(a) \/ NewBuffer(a) \/ ResetEnd(a) \/ ResetCount(a)
      PROVE  LockInv'
  BY <1>4 DEF HandOver, NewBuffer, ResetEnd, ResetCount
<1>5. ASSUME NEW a \in Actors, ResetDeaths(a) PROVE LockInv'
  BY <1>5 DEF ResetDeaths, AfterCollection
<1>6. CASE VMDeath
  BY <1>6 DEF VMDeath
<1>7. CASE UNCHANGED vars
  BY <1>7 DEF vars
<1>8. QED
  BY <1>1, <1>2, <1>3, <1>4, <1>5, <1>6, <1>7 DEF Next, fullcb, doGCEnd

\* Two collections never overlap inside doGCEnd, in any interleaving, with or
\* without the VMDeath event.
THEOREM OneCollectorAtATime == Spec => []OneCollector
<1>1. Init => LockInv
  BY DEF Init, LockInv, CollectorSteps
<1>2. LockInv => OneCollector
  BY DEF LockInv, OneCollector
<1>3. QED
  BY <1>1, <1>2, LockInvNext, TypeCorrect, PTL DEF Spec

-----------------------------------------------------------------------------
(* The pipeline: the output thread's job.                                  *)

\* The job of the output thread, and when it is sure to have one.
Work ==
  /\ worker \in {"new", "waiting", "notified", "writing"}
  /\ batch \in (SUBSET Records) \cup {NoBatch}
  /\ written \in Seq(SUBSET Records)
  /\ worker \in {"notified", "writing"} => batch # NoBatch

\* A thread numbers its records; one that is stored has a number it used up, or is
\* about to.
Numbered ==
  /\ \A t \in Threads : /\ added[t] <= MaxAdds
                        /\ pc[t] # "idle" => added[t] < MaxAdds
  /\ \A r \in stored : \/ r[2] < added[r[1]]
                       \/ r[2] = added[r[1]] /\ pc[r[1]] = "count"

\* What is in the array was stored, and what was handed over is in the array of no
\* one but the collector that is about to replace it.
Fresh ==
  /\ handed \subseteq stored
  /\ \A i \in Slots : Filled(i) => outputBuffer[i] \in stored
  /\ \/ \E a \in Actors : pc[a] = "newBuffer"
     \/ \A i \in Slots : outputBuffer[i] \notin handed

\* The batches are what was handed over, each record in one of them.
Delivered ==
  /\ batch # NoBatch => batch \subseteq handed
  /\ \A n \in DOMAIN written : written[n] \subseteq handed
  /\ \A r \in handed : \/ batch # NoBatch /\ r \in batch
                       \/ \E n \in DOMAIN written : r \in written[n]
  /\ \A m, n \in DOMAIN written : m # n => written[m] \cap written[n] = {}
  /\ batch # NoBatch => \A n \in DOMAIN written : written[n] \cap batch = {}

Link == Work /\ Numbered /\ Fresh /\ Delivered

-----------------------------------------------------------------------------
(* The steps of the pipeline.                                              *)

\* The assertion of doParallelSortAndOutput.
Aborts ==
  /\ stopped' = "mailbox"
  /\ UNCHANGED <<outputBuffer, counters, gcs, locks, pc, index, added, phase,
                 stored, batches, raced, worksite>>

\* The steps of the buffer at which the output thread has no part.
Apart ==
  \/ \E t \in Threads : BeginAdd(t) \/ addRecordToList(t)
  \/ \E a \in Actors : \/ \E d \in DeathCounts : RecordDeaths(a, d)
                       \/ NewBuffer(a) \/ ResetEnd(a) \/ ResetCount(a) \/ ResetDeaths(a)
  \/ VMDeath

LEMMA PipelineSteps ==
  PipelineNext =>
    \/ Next /\ Apart /\ UNCHANGED worksite
    \/ \E a \in Actors : /\ Next /\ HandOver(a)
                         /\ Output!doParallelSortAndOutput(BatchInHand)
    \/ Aborts
    \/ Output!run /\ UNCHANGED vars
    \/ UNCHANGED <<vars, worksite>>
<1> SUFFICES ASSUME PipelineNext
             PROVE  \/ Next /\ Apart /\ UNCHANGED worksite
                    \/ \E a \in Actors : /\ Next /\ HandOver(a)
                                         /\ Output!doParallelSortAndOutput(BatchInHand)
                    \/ Aborts
                    \/ Output!run /\ UNCHANGED vars
                    \/ UNCHANGED <<vars, worksite>>
  OBVIOUS
<1> USE DEF PipelineNext, Running
<1>1. ASSUME NEW t \in Threads, BeginAdd(t) \/ addRecordToList(t), UNCHANGED worksite
      PROVE  Next /\ Apart /\ UNCHANGED worksite
  BY <1>1 DEF Next, Apart
<1>2. ASSUME NEW a \in Actors, NEW d \in DeathCounts, RecordDeaths(a, d), UNCHANGED worksite
      PROVE  Next /\ Apart /\ UNCHANGED worksite
  BY <1>2 DEF Next, Apart, fullcb
<1>3. ASSUME NEW a \in Actors, NewBuffer(a) \/ ResetEnd(a) \/ ResetCount(a) \/ ResetDeaths(a),
             UNCHANGED worksite
      PROVE  Next /\ Apart /\ UNCHANGED worksite
  BY <1>3 DEF Next, Apart, fullcb, doGCEnd
<1>4. ASSUME NEW a \in Actors, GiveBatch(a)
      PROVE  Next /\ HandOver(a) /\ Output!doParallelSortAndOutput(BatchInHand)
  BY <1>4 DEF Next, GiveBatch, fullcb, doGCEnd
<1>5. ASSUME NEW a \in Actors, MailboxAssertion(a) PROVE Aborts
  BY <1>5 DEF MailboxAssertion, Aborts
<1>6. ASSUME VMDeath, UNCHANGED worksite PROVE Next /\ Apart /\ UNCHANGED worksite
  BY <1>6 DEF Next, Apart
<1>7. ASSUME waitToFinishOutput PROVE UNCHANGED <<vars, worksite>>
  BY <1>7 DEF waitToFinishOutput, Output!waitForCurrentJobToFinish, worksite
<1>8. QED
  BY <1>1, <1>2, <1>3, <1>4, <1>5, <1>6, <1>7 DEF Collect

LEMMA IInvAborts == IInv /\ Aborts => IInv'
<1> SUFFICES ASSUME IInv, Aborts PROVE IInv'
  OBVIOUS
<1>1. /\ UNCHANGED <<outputBuffer, bufferEnd, recFinishedCount, deathBufferEnd, gcsStarted,
                     gcsFinished, fullMon, heapLock, pc, index, added, phase, stored,
                     handed, holes, raced>>
      /\ stopped' = "mailbox"
  BY DEF Aborts, counters, gcs, locks, batches
<1>2. TypeOK'
  BY <1>1 DEF IInv, TypeOK
<1>3. (Shape /\ CountedExactly /\ StoredKept) = (Shape /\ CountedExactly /\ StoredKept)'
  BY <1>1 DEF Shape, CountedExactly, StoredKept, OneSealer, BufferSealed, NobodyAdds,
     CollectedBuffer, OwnSlot, DistinctSlots, FilledBelowEnd, Filled, CountedSlots
<1>4. QED
  BY <1>1, <1>2, <1>3 DEF IInv, Undisturbed

\* The buffer's invariants hold in the pipeline.
LEMMA BufferNext ==
  IInv /\ LockInv /\ [PipelineNext]_pipelineVars => IInv' /\ LockInv'
<1> SUFFICES ASSUME IInv, LockInv, [PipelineNext]_pipelineVars PROVE IInv' /\ LockInv'
  OBVIOUS
<1>1. TypeOK
  BY DEF IInv
<1>2. CASE [Next]_vars
  BY <1>1, <1>2, IInvNext, LockInvNext
<1>3. CASE Aborts
  <2>1. LockInv'
    BY <1>3 DEF Aborts, LockInv, locks
  <2>2. QED
    BY <1>3, <2>1, IInvAborts
<1>4. QED
  BY <1>2, <1>3, PipelineSteps DEF pipelineVars

-----------------------------------------------------------------------------
(* Link is inductive.                                                      *)

\* The collector's batch: records that were stored and not handed over before.
LEMMA BatchIsNew ==
  ASSUME TypeOK, LockInv, Link, NEW a \in Actors, pc[a] = "handOver"
  PROVE  /\ BatchInHand \subseteq stored
         /\ BatchInHand \cap handed = {}
         /\ BatchInHand \in SUBSET Records
         /\ BatchInHand # NoBatch
<1> USE BufferAssumption
<1>1. \A b \in Actors : pc[b] # "newBuffer"
  <2> SUFFICES ASSUME NEW b \in Actors, pc[b] = "newBuffer" PROVE FALSE
    OBVIOUS
  <2>1. heapLock = a /\ heapLock = b
    BY DEF LockInv, CollectorSteps
  <2>2. QED
    BY <2>1
<1>2. BatchInHand \subseteq stored
  BY DEF BatchInHand, Link, Fresh, Filled
<1>3. BatchInHand \cap handed = {}
  BY <1>1 DEF BatchInHand, Link, Fresh
<1>4. stored \subseteq Threads \X (0 .. MaxAdds)
  <2> SUFFICES ASSUME NEW r \in stored PROVE r \in Threads \X (0 .. MaxAdds)
    OBVIOUS
  <2>1. r \in Threads \X Nat
    BY DEF TypeOK, Records
  <2>2. r[1] \in Threads /\ r[2] \in Nat /\ r = <<r[1], r[2]>>
    BY <2>1
  <2>3. r[2] <= added[r[1]] /\ added[r[1]] <= MaxAdds /\ added[r[1]] \in Nat
    BY <2>2 DEF Link, Numbered, TypeOK
  <2>4. r[2] \in 0 .. MaxAdds
    BY <2>2, <2>3
  <2>5. QED
    BY <2>2, <2>4
<1>5. QED
  BY <1>2, <1>3, <1>4, PipelineAssumption DEF TypeOK

\* The buffer's own steps hand nothing over.
LEMMA ApartKeepsHanded == Apart => handed' = handed
BY DEF Apart, BeginAdd, addRecordToList, Claim, Store, Count, AwaitCounted, StartGC,
   EnterFullMon, FinishGC, LeaveFullMon, AssertionFails, BlockedCheck, WaitTimeout,
   RecordDeaths, NewBuffer, ResetEnd, ResetCount, ResetDeaths, VMDeath, batches

\* Nobody begins an add or leaves its last step.
LEMMA MovesKeepNumbered ==
  ASSUME TypeOK, Numbered, UNCHANGED <<added, stored>>,
         \A t \in Threads : /\ pc[t] = "count" => pc'[t] = "count"
                            /\ pc'[t] # "idle" => pc[t] # "idle"
  PROVE  Numbered'
<1>1. \A t \in Threads : added'[t] <= MaxAdds /\ (pc'[t] # "idle" => added'[t] < MaxAdds)
  BY DEF Numbered
<1>2. ASSUME NEW r \in stored
      PROVE  r[2] < added'[r[1]] \/ (r[2] = added'[r[1]] /\ pc'[r[1]] = "count")
  <2>1. PICK t \in Threads : r[1] = t
    BY DEF TypeOK, Records
  <2>2. r[2] < added[t] \/ (r[2] = added[t] /\ pc[t] = "count")
    BY <2>1 DEF Numbered
  <2>3. pc[t] = "count" => pc'[t] = "count"
    OBVIOUS
  <2>4. QED
    BY <2>1, <2>2, <2>3
<1>3. QED
  BY <1>1, <1>2 DEF Numbered

LEMMA ApartKeepsNumbered == TypeOK /\ Numbered /\ Apart => Numbered'
<1> SUFFICES ASSUME TypeOK, Numbered, Apart PROVE Numbered'
  OBVIOUS
<1> USE BufferAssumption DEF TypeOK, Numbered, Goto, Actors
<1>1. ASSUME NEW t \in Threads, BeginAdd(t) PROVE Numbered'
  BY <1>1 DEF BeginAdd
<1>2. ASSUME NEW t \in Threads, Store(t) PROVE Numbered'
  BY <1>2 DEF Store, Records
<1>3. ASSUME NEW t \in Threads, Count(t) PROVE Numbered'
  BY <1>3 DEF Count, Records
<1>4. ASSUME NEW t \in Threads, Claim(t) PROVE Numbered'
  BY <1>4 DEF Claim, Branch
<1>5. ASSUME NEW t \in Threads,
             AwaitCounted(t) \/ StartGC(t) \/ EnterFullMon(t) \/ FinishGC(t) \/ AssertionFails(t)
      PROVE  Numbered'
  BY <1>5, MovesKeepNumbered DEF AwaitCounted, StartGC, EnterFullMon, FinishGC, AssertionFails
<1>6. ASSUME NEW t \in Threads, LeaveFullMon(t) PROVE Numbered'
  BY <1>6, MovesKeepNumbered DEF LeaveFullMon, WakeAll
<1>7. ASSUME NEW t \in Threads, BlockedCheck(t) \/ WaitTimeout(t) PROVE Numbered'
  BY <1>7, MovesKeepNumbered DEF BlockedCheck, WaitTimeout
<1>8. ASSUME NEW a \in Actors, NEW d \in DeathCounts, RecordDeaths(a, d) PROVE Numbered'
  BY <1>8, MovesKeepNumbered DEF RecordDeaths
<1>9. ASSUME NEW a \in Actors, NewBuffer(a) \/ ResetEnd(a) \/ ResetCount(a) PROVE Numbered'
  BY <1>9, MovesKeepNumbered DEF NewBuffer, ResetEnd, ResetCount
<1>10. ASSUME NEW a \in Actors, ResetDeaths(a) PROVE Numbered'
  BY <1>10, MovesKeepNumbered DEF ResetDeaths, AfterCollection
<1>11. ASSUME VMDeath PROVE Numbered'
  BY <1>11 DEF VMDeath
<1>12. QED
  BY <1>1, <1>2, <1>3, <1>4, <1>5, <1>6, <1>7, <1>8, <1>9, <1>10, <1>11 DEF Apart, addRecordToList

LEMMA ApartKeepsFresh == TypeOK /\ LockInv /\ Numbered /\ Fresh /\ Apart => Fresh'
<1> SUFFICES ASSUME TypeOK, LockInv, Numbered, Fresh, Apart PROVE Fresh'
  OBVIOUS
<1> USE BufferAssumption
<1>1. handed' = handed
  BY ApartKeepsHanded
<1>2. ASSUME NEW t \in Threads, Store(t) PROVE Fresh'
  <2>1. <<t, added[t]>> \notin stored
    BY <1>2 DEF Store, Numbered, TypeOK
  <2>2. QED
    BY <1>1, <1>2, <2>1 DEF Store, Fresh, Filled, TypeOK, Goto, Actors
<1>3. ASSUME NEW a \in Actors, NewBuffer(a) PROVE Fresh'
  BY <1>1, <1>3 DEF NewBuffer, FreshArray, Fresh, Filled, TypeOK
<1>4. ASSUME UNCHANGED <<outputBuffer, stored>>,
             \A b \in Actors : pc[b] = "newBuffer" => pc'[b] = "newBuffer"
      PROVE  Fresh'
  BY <1>1, <1>4 DEF Fresh, Filled
<1>5. \/ \E t \in Threads : Store(t)
      \/ \E a \in Actors : NewBuffer(a)
      \/ /\ UNCHANGED <<outputBuffer, stored>>
         /\ \A b \in Actors : pc[b] = "newBuffer" => pc'[b] = "newBuffer"
  <2> USE DEF Goto, TypeOK, Actors
  <2>1. ASSUME NEW t \in Threads, BeginAdd(t) \/ Claim(t) \/ Count(t) \/ AwaitCounted(t)
                                    \/ StartGC(t) \/ EnterFullMon(t)
        PROVE  /\ UNCHANGED <<outputBuffer, stored>>
               /\ \A b \in Actors : pc[b] = "newBuffer" => pc'[b] = "newBuffer"
    BY <2>1 DEF BeginAdd, Claim, Count, AwaitCounted, StartGC, EnterFullMon
  <2>2. ASSUME NEW t \in Threads, FinishGC(t) \/ LeaveFullMon(t) \/ AssertionFails(t)
                                    \/ BlockedCheck(t) \/ WaitTimeout(t)
        PROVE  /\ UNCHANGED <<outputBuffer, stored>>
               /\ \A b \in Actors : pc[b] = "newBuffer" => pc'[b] = "newBuffer"
    BY <2>2 DEF FinishGC, LeaveFullMon, WakeAll, AssertionFails, BlockedCheck, WaitTimeout
  <2>3. ASSUME NEW a \in Actors, ResetEnd(a) \/ ResetCount(a) \/ ResetDeaths(a)
                                   \/ \E d \in DeathCounts : RecordDeaths(a, d)
        PROVE  /\ UNCHANGED <<outputBuffer, stored>>
               /\ \A b \in Actors : pc[b] = "newBuffer" => pc'[b] = "newBuffer"
    BY <2>3 DEF ResetEnd, ResetCount, ResetDeaths, RecordDeaths
  <2>4. ASSUME VMDeath
        PROVE  /\ UNCHANGED <<outputBuffer, stored>>
               /\ \A b \in Actors : pc[b] = "newBuffer" => pc'[b] = "newBuffer"
    BY <2>4 DEF VMDeath
  <2>5. QED
    BY <2>1, <2>2, <2>3, <2>4 DEF Apart, addRecordToList
<1>6. QED
  BY <1>2, <1>3, <1>4, <1>5

\* A hand-over gives the output thread what was not given before.
LEMMA HandOverKeepsLink ==
  ASSUME TypeOK, LockInv, Link, NEW a \in Actors, HandOver(a),
         Output!doParallelSortAndOutput(BatchInHand)
  PROVE  Link'
<1> USE BufferAssumption
<1>1. /\ BatchInHand \subseteq stored /\ BatchInHand \cap handed = {}
      /\ BatchInHand \in SUBSET Records /\ BatchInHand # NoBatch
  BY BatchIsNew DEF HandOver
<1>2. /\ batch = NoBatch /\ batch' = BatchInHand /\ written' = written
      /\ worker' = IF worker = "waiting" THEN "notified" ELSE worker
  BY DEF Output!doParallelSortAndOutput, Output!NoJob
<1>3. handed' = handed \cup BatchInHand
  BY DEF HandOver, BatchInHand
<1>4. /\ UNCHANGED <<outputBuffer, stored, added>>
      /\ pc' = [pc EXCEPT ![a] = "newBuffer"] /\ pc[a] = "handOver"
  BY DEF HandOver, Goto
<1>5. Work'
  BY <1>1, <1>2 DEF Link, Work
<1>6. Numbered'
  BY <1>4 DEF Link, Numbered, TypeOK, Records, Actors
<1>7. Fresh'
  BY <1>1, <1>3, <1>4 DEF Link, Fresh, Filled, TypeOK
<1>8. Delivered'
  <2>1. \A n \in DOMAIN written : written[n] \subseteq handed /\ written[n] \cap BatchInHand = {}
    BY <1>1 DEF Link, Delivered
  <2>2. \A r \in handed' : \/ r \in batch'
                           \/ \E n \in DOMAIN written' : r \in written'[n]
    BY <1>2, <1>3 DEF Link, Delivered
  <2>3. QED
    BY <1>1, <1>2, <1>3, <2>1, <2>2 DEF Link, Delivered
<1>9. QED
  BY <1>5, <1>6, <1>7, <1>8 DEF Link

\* The output thread's steps.
LEMMA RunKeepsLink == Link /\ Output!run /\ UNCHANGED vars => Link'
<1> SUFFICES ASSUME Link, Output!run, UNCHANGED vars PROVE Link'
  OBVIOUS
<1>1. Numbered' /\ Fresh'
  BY DEF Link, Numbered, Fresh, Filled, vars, batches
<1>2. handed' = handed
  BY DEF vars, batches
<1>3. CASE Output!FirstWait \/ Output!Wake
  BY <1>1, <1>2, <1>3 DEF Link, Work, Delivered, Output!FirstWait, Output!Wake
<1>4. CASE Output!FinishJob
  <2>1. /\ batch # NoBatch /\ batch \in SUBSET Records /\ written \in Seq(SUBSET Records)
        /\ written' = Append(written, batch) /\ batch' = NoBatch /\ worker' = "waiting"
    <3>1. worker = "writing" /\ written' = Append(written, batch) /\ batch' = NoBatch
             /\ worker' = "waiting"
      BY <1>4 DEF Output!FinishJob
    <3>2. /\ batch \in (SUBSET Records) \cup {NoBatch} /\ written \in Seq(SUBSET Records)
          /\ worker \in {"notified", "writing"} => batch # NoBatch
      BY Zenon DEF Link, Work
    <3>3. batch # NoBatch /\ batch \in SUBSET Records
      BY <3>1, <3>2
    <3>4. QED
      BY <3>1, <3>2, <3>3, Zenon
  <2>2. /\ DOMAIN written' = 1 .. Len(written) + 1 /\ DOMAIN written = 1 .. Len(written)
        /\ \A n \in DOMAIN written : written'[n] = written[n]
        /\ written'[Len(written) + 1] = batch /\ Len(written) \in Nat
    BY <2>1
  <2>3. Work'
    <3>1. Append(written, batch) \in Seq(SUBSET Records)
      <4> DEFINE Batches == SUBSET Records
      <4>1. batch \in Batches /\ written \in Seq(Batches)
        BY <2>1
      <4> HIDE DEF Batches
      <4>2. Append(written, batch) \in Seq(Batches)
        BY <4>1
      <4>3. QED
        BY <4>2 DEF Batches
    <3>2. written' \in Seq(SUBSET Records)
      BY <2>1, <3>1, Zenon
    <3>3. /\ worker' \in {"new", "waiting", "notified", "writing"}
          /\ batch' \in (SUBSET Records) \cup {NoBatch}
          /\ worker' \in {"notified", "writing"} => batch' # NoBatch
      BY <2>1
    <3>4. QED
      BY <3>2, <3>3, Zenon DEF Work
  <2>4. \A n \in DOMAIN written' : n \in DOMAIN written \/ n = Len(written) + 1
    BY <2>2
  <2>5. Delivered'
    BY <1>2, <2>1, <2>2, <2>4 DEF Link, Delivered
  <2>6. QED
    BY <1>1, <2>3, <2>5 DEF Link
<1>5. QED
  BY <1>3, <1>4 DEF Output!run

LEMMA LinkNext ==
  TypeOK /\ LockInv /\ Link /\ [PipelineNext]_pipelineVars => Link'
<1> SUFFICES ASSUME TypeOK, LockInv, Link, [PipelineNext]_pipelineVars PROVE Link'
  OBVIOUS
<1>1. CASE Next /\ Apart /\ UNCHANGED worksite
  <2>1. Work' /\ Delivered'
    BY <1>1, ApartKeepsHanded DEF Link, Work, Delivered, worksite
  <2>2. QED
    BY <1>1, <2>1, ApartKeepsNumbered, ApartKeepsFresh DEF Link
<1>2. CASE \E a \in Actors : /\ Next /\ HandOver(a)
                             /\ Output!doParallelSortAndOutput(BatchInHand)
  BY <1>2, HandOverKeepsLink
<1>3. CASE Aborts
  BY <1>3 DEF Aborts, Link, Work, Numbered, Fresh, Filled, Delivered, worksite, batches
<1>4. CASE Output!run /\ UNCHANGED vars
  BY <1>4, RunKeepsLink
<1>5. CASE UNCHANGED <<vars, worksite>>
  BY <1>5 DEF Link, Work, Numbered, Fresh, Filled, Delivered, vars, worksite, batches
<1>6. QED
  BY <1>1, <1>2, <1>3, <1>4, <1>5, PipelineSteps DEF pipelineVars

LEMMA LinkInit == PipelineInit => IInv /\ LockInv /\ Link
<1> SUFFICES ASSUME PipelineInit PROVE IInv /\ LockInv /\ Link
  OBVIOUS
<1> USE BufferAssumption
<1>1. IInv
  BY IInvInit DEF PipelineInit
<1>2. LockInv
  BY DEF PipelineInit, Init, LockInv, CollectorSteps
<1>3. Work /\ Delivered
  <2>1. worker = "new" /\ batch = NoBatch /\ written = << >> /\ handed = {}
    BY DEF PipelineInit, Init, Output!SortInit
  <2>2. << >> \in Seq(SUBSET Records) /\ DOMAIN << >> = {}
    OBVIOUS
  <2>3. Work
    <3>1. written \in Seq(SUBSET Records)
      BY <2>1, <2>2, Zenon
    <3>2. /\ worker \in {"new", "waiting", "notified", "writing"}
          /\ batch \in (SUBSET Records) \cup {NoBatch}
          /\ worker \in {"notified", "writing"} => batch # NoBatch
      BY <2>1
    <3>3. QED
      BY <3>1, <3>2, Zenon DEF Work
  <2>4. Delivered
    BY <2>1, <2>2 DEF Delivered
  <2>5. QED
    BY <2>3, <2>4
<1>4. Numbered /\ Fresh
  BY DEF PipelineInit, Init, Numbered, Fresh, Filled, Actors
<1>5. QED
  BY <1>1, <1>2, <1>3, <1>4 DEF Link

\* The invariants of the buffer, and what ties the output thread's state to them.
THEOREM PipelineInvariant == PipelineSpec => [](IInv /\ LockInv /\ Link)
<1>1. IInv => TypeOK
  BY DEF IInv
<1>2. QED
  BY <1>1, LinkInit, BufferNext, LinkNext, PTL DEF PipelineSpec

-----------------------------------------------------------------------------
\* A record that addRecordToList stored is in the buffer, with the output thread or in
\* the trace, unless a record was added inside doGCEnd's window.
THEOREM NothingLostOnTheWay == PipelineSpec => []RecordsAccountedFor
<1>1. IInv /\ Link => RecordsAccountedFor
  BY DEF IInv, StoredKept, Link, Delivered, RecordsAccountedFor
<1>2. QED
  BY <1>1, PipelineInvariant, PTL

\* No record is in two batches of the trace, the one in work included.
THEOREM NothingWrittenTwice == PipelineSpec => []WrittenOnce
<1>1. Link => WrittenOnce
  <2> SUFFICES ASSUME Link PROVE WrittenOnce
    OBVIOUS
  <2>1. CASE batch = NoBatch
    BY <2>1 DEF Link, Delivered, WrittenOnce
  <2>2. CASE batch # NoBatch
    <3> DEFINE trace == Append(written, batch)
    <3>1. /\ DOMAIN trace = 1 .. Len(written) + 1 /\ DOMAIN written = 1 .. Len(written)
          /\ \A n \in DOMAIN written : trace[n] = written[n]
          /\ trace[Len(written) + 1] = batch /\ Len(written) \in Nat
      BY <2>2 DEF Link, Work
    <3>2. \A n \in DOMAIN trace : n \in DOMAIN written \/ n = Len(written) + 1
      BY <3>1
    <3> HIDE DEF trace
    <3>3. \A m, n \in DOMAIN trace : m # n => trace[m] \cap trace[n] = {}
      BY <2>2, <3>1, <3>2 DEF Link, Delivered
    <3>4. QED
      BY <2>2, <3>3 DEF WrittenOnce, trace
  <2>3. QED
    BY <2>1, <2>2
<1>2. QED
  BY <1>1, PipelineInvariant, PTL

\* The output thread is a mailbox for one batch: a step of the pipeline puts a batch
\* into the empty mailbox, writes the batch in it, or leaves both alone.
THEOREM MailboxImplemented == PipelineSpec => ImplementsMailbox
<1>1. PipelineInit => Mailbox!MailboxInit
  BY DEF PipelineInit, Output!SortInit, Mailbox!MailboxInit
<1>2. IInv /\ LockInv /\ Link /\ [PipelineNext]_pipelineVars
        => [Mailbox!MailboxNext]_<<batch, written>>
  <2> SUFFICES ASSUME IInv, LockInv, Link, [PipelineNext]_pipelineVars
               PROVE  [Mailbox!MailboxNext]_<<batch, written>>
    OBVIOUS
  <2>1. CASE \E a \in Actors : /\ Next /\ HandOver(a)
                               /\ Output!doParallelSortAndOutput(BatchInHand)
    <3>1. PICK a \in Actors : HandOver(a) /\ Output!doParallelSortAndOutput(BatchInHand)
      BY <2>1
    <3>2. BatchInHand \in SUBSET Records /\ BatchInHand # NoBatch
      BY <3>1, BatchIsNew DEF IInv, HandOver
    <3>3. Mailbox!Put
      BY <3>1, <3>2 DEF Mailbox!Put, Output!doParallelSortAndOutput, Output!NoJob
    <3>4. QED
      BY <3>3 DEF Mailbox!MailboxNext
  <2>2. CASE Output!run
    BY <2>2 DEF Output!run, Output!FirstWait, Output!Wake, Output!FinishJob, Link, Work,
       Mailbox!MailboxNext, Mailbox!Write
  <2>3. CASE UNCHANGED worksite
    BY <2>3 DEF worksite
  <2>4. QED
    BY <2>1, <2>2, <2>3, PipelineSteps DEF pipelineVars, Aborts
<1>3. QED
  BY <1>1, <1>2, PipelineInvariant, PTL
     DEF PipelineSpec, ImplementsMailbox, Mailbox!MailboxSpec

=============================================================================
