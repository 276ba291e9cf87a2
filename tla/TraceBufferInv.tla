--------------------------- MODULE TraceBufferInv ---------------------------
(***************************************************************************)
(* The inductive invariant of the record buffer: how far the collector of  *)
(* a filling has come (its step) determines what the counters, the slots   *)
(* and the other threads may be.  It speaks of the time before VMDeath and *)
(* of runs in which nobody draws an index inside doGCEnd's window: outside *)
(* of it the claims below really fail.                                     *)
(***************************************************************************)
EXTENDS TraceBuffer

\* The steps of a collector, by what is true from and until which of them.
FullSteps   == {"start", "enter", "collect", "handOver"}
QuietSteps  == FullSteps \cup {"newBuffer", "resetEnd", "resetCount"}
SealedSteps == {"await"} \cup QuietSteps
Adding      == {"store", "count"}

Filled(i) == outputBuffer[i] # NoRecord

\* One thread at a time has drawn the index maxRecords of this filling.
OneSealer ==
  \A t, u \in Threads : pc[t] \in SealedSteps /\ pc[u] \in SealedSteps => t = u

\* From there until doGCEnd resets bufferEnd every index drawn is too large.
BufferSealed ==
  \A t \in Threads :
    /\ pc[t] \in SealedSteps \ {"resetCount"} => bufferEnd = maxRecords + 1
    /\ pc[t] = "resetCount" => bufferEnd = 0
    /\ pc[t] = "await" => index[t] = maxRecords

\* Once the stores are counted, nobody is between claiming a slot and counting it.
NobodyAdds ==
  \A t, u \in Threads : pc[t] \in QuietSteps => pc[u] \notin Adding

\* What the collector finds in the buffer, and what it leaves there.
CollectedBuffer ==
  \A t \in Threads :
    /\ pc[t] \in FullSteps => recFinishedCount = maxRecords /\ \A i \in Slots : Filled(i)
    /\ pc[t] = "newBuffer" => \A i \in Slots : outputBuffer[i] \in handed
    /\ pc[t] \in {"resetEnd", "resetCount"} => \A i \in Slots : ~Filled(i)

\* A thread that adds owns its slot: below bufferEnd, empty until it stores.
OwnSlot ==
  \A t \in Threads : pc[t] \in Adding =>
    /\ index[t] \in Slots
    /\ index[t] < bufferEnd
    /\ Filled(index[t]) <=> pc[t] = "count"

DistinctSlots ==
  \A t, u \in Threads :
    pc[t] \in Adding /\ pc[u] \in Adding /\ index[t] = index[u] => t = u

FilledBelowEnd == \A i \in Slots : Filled(i) => i < bufferEnd

\* recFinishedCount is the number of counted slots (CountIsExact says it of every
\* actor; before VMDeath only threads collect).
CountedExactly ==
  \/ \E t \in Threads : pc[t] \in {"resetEnd", "resetCount"}
  \/ recFinishedCount = Cardinality(CountedSlots)

StoredKept == \A r \in stored : r \in handed \/ \E i \in Slots : outputBuffer[i] = r

Shape ==
  /\ OneSealer /\ BufferSealed /\ NobodyAdds /\ CollectedBuffer
  /\ OwnSlot /\ DistinctSlots /\ FilledBelowEnd

\* The inductive invariant: TypeOK, nothing of VMDeath while the VM is live, and
\* the shape of the buffer for every step of its collector while Undisturbed.
IInv ==
  /\ TypeOK
  /\ phase = "live" => pc[VMThread] = "idle"
  /\ Undisturbed => Shape /\ CountedExactly /\ StoredKept /\ ~holes

\* heapLock is held from RecordDeaths to ResetDeaths by the one inside doGCEnd.
LockInv ==
  \A a \in Actors : pc[a] \in CollectorSteps \ {"collect"} => heapLock = a
=============================================================================
