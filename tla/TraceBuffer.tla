---------------------------- MODULE TraceBuffer ----------------------------
(***************************************************************************)
(* The record buffer of FlatTraceOutputter: every thread of the traced     *)
(* program adds its records to one array of maxRecords slots, without a    *)
(* lock.  A thread claims a slot with an atomic increment of bufferEnd,    *)
(* stores its record, and counts it in recFinishedCount.  The thread that  *)
(* draws the index maxRecords is the collector of this filling: it waits   *)
(* until all the slots are counted, enters fullMon, and runs fullcb, which *)
(* adds the death records and calls doGCEnd to hand the batch over and to  *)
(* empty the buffer.  A thread that draws a larger index waits in fullMon  *)
(* for the end of the collection, and draws again.  The thread that runs   *)
(* the VMDeath event collects once more, without fullMon.                  *)
(*                                                                         *)
(* One action is one access to shared state.  The records themselves are   *)
(* pairs <<thread, number>>; the death records are only counted.           *)
(*                                                                         *)
(* A definition Name_Fault is Name with a plausible bug.  No specification *)
(* uses it: it stands there to show which property notices the bug.        *)
(***************************************************************************)
EXTENDS Integers, FiniteSets

CONSTANTS
  Threads,       \* the threads that add records
  VMThread,      \* the thread that delivers the VMDeath event
  NoThread,      \* nobody owns the monitor
  NoRecord,      \* a slot of a new array nobody wrote: it is not initialized
  maxRecords,    \* the bufferSize option
  MaxAdds,       \* bound: how many records one thread adds
  DeathCounts,   \* bound: how many death records a collection may make
  MayShutDown    \* whether the VMDeath event occurs in this instance

Actors  == Threads \cup {VMThread}
Records == Threads \X Nat
Slots   == 0 .. maxRecords - 1

deathBufferSize_TooLarge == 5 * maxRecords
deathBufferSize == 4 * maxRecords
realBufferSize  == 5 * maxRecords

ASSUME BufferAssumption ==
  /\ IsFiniteSet(Threads)
  /\ VMThread \notin Threads
  /\ NoThread \notin Actors
  /\ NoRecord \notin Records
  /\ maxRecords \in Nat \ {0}
  /\ MaxAdds \in Nat
  /\ DeathCounts \subseteq Nat
  /\ MayShutDown \in BOOLEAN

VARIABLES
  outputBuffer,       \* the slots below maxRecords of the current array
  bufferEnd,          \* next index to draw; all values above maxRecords are one
  recFinishedCount,   \* how many stores have been counted
  deathBufferEnd,     \* how many death records wait in deathBuffer
  gcsStarted, gcsFinished,
  fullMon,            \* owner of the monitor the collection runs under
  heapLock,           \* owner of heapLock, which fakeAGC holds throughout
  pc,                 \* what each actor does next
  index,              \* the index each thread drew last
  added,              \* how many records each thread has added
  phase,              \* vmInitialized: LIVE, or DEAD once VMDeath is delivered
  stopped,            \* the process ended: by an assertion, here or in the output
                      \* thread's mailbox, or by exit(1)
  stored,             \* history: records that were stored in a slot
  handed,             \* history: records in a batch given to the output thread
  holes,              \* history: a batch contained a slot nobody had written
  raced               \* history: an index was drawn inside doGCEnd's window

counters == <<bufferEnd, recFinishedCount, deathBufferEnd>>
gcs      == <<gcsStarted, gcsFinished>>
locks    == <<fullMon, heapLock>>
control  == <<phase, stopped>>
batches  == <<handed, holes>>
vars == <<outputBuffer, counters, gcs, locks, pc, index, added, control,
          stored, batches, raced>>

\* The window of doGCEnd between "bufferEnd = 0" and "recFinishedCount = 0".
InWindow == \E a \in Actors : pc[a] = "resetCount"

Init ==
  /\ outputBuffer = [i \in Slots |-> NoRecord]
  /\ bufferEnd = 0 /\ recFinishedCount = 0 /\ deathBufferEnd = 0
  /\ gcsStarted = 0 /\ gcsFinished = 0
  /\ fullMon = NoThread /\ heapLock = NoThread
  /\ pc = [a \in Actors |-> "idle"]
  /\ index = [t \in Threads |-> 0]
  /\ added = [t \in Threads |-> 0]
  /\ phase = "live" /\ stopped = "no"
  /\ stored = {} /\ handed = {} /\ holes = FALSE /\ raced = FALSE

Goto(a, label) == pc' = [pc EXCEPT ![a] = label]

-----------------------------------------------------------------------------
(* addRecordToList, up to the branch on the index.                         *)

\* A hook of the traced program makes a record; hooks do nothing once the VM
\* is dead, but one that is already inside goes on.
BeginAdd(t) ==
  /\ pc[t] = "idle"
  /\ phase = "live"
  /\ added[t] < MaxAdds
  /\ Goto(t, "claim")
  /\ UNCHANGED <<outputBuffer, counters, gcs, locks, index, added, control,
                 stored, batches, raced>>

\* The three branches of the loop body.
Branch_OneShort(i) ==
  IF i < maxRecords - 1 THEN "store" ELSE IF i = maxRecords - 1 THEN "await" ELSE "blocked"
Branch(i) ==
  IF i < maxRecords THEN "store" ELSE IF i = maxRecords THEN "await" ELSE "blocked"

\* index = bufferEnd++.  Indices above maxRecords all take the last branch, so
\* they are one value (the wrap at 2^32 is left out).
Claim(t) ==
  /\ pc[t] = "claim"
  /\ index' = [index EXCEPT ![t] = bufferEnd]
  /\ bufferEnd' = IF bufferEnd > maxRecords THEN bufferEnd ELSE bufferEnd + 1
  /\ Goto(t, Branch(bufferEnd))
  /\ raced' = (raced \/ InWindow)
  /\ UNCHANGED <<outputBuffer, recFinishedCount, deathBufferEnd, gcs, locks,
                 added, control, stored, batches>>

\* outputBuffer[index] = rec, in whatever array outputBuffer is now.
Store(t) ==
  LET rec == <<t, added[t]>> IN
  /\ pc[t] = "store"
  /\ outputBuffer' = [outputBuffer EXCEPT ![index[t]] = rec]
  /\ stored' = stored \cup {rec}
  /\ Goto(t, "count")
  /\ UNCHANGED <<counters, gcs, locks, index, added, control, batches, raced>>

\* ++recFinishedCount, and the add returns.
Count(t) ==
  /\ pc[t] = "count"
  /\ recFinishedCount' = recFinishedCount + 1
  /\ added' = [added EXCEPT ![t] = @ + 1]
  /\ Goto(t, "idle")
  /\ UNCHANGED <<outputBuffer, bufferEnd, deathBufferEnd, gcs, locks, index,
                 control, stored, batches, raced>>

-----------------------------------------------------------------------------
(* The thread that drew maxRecords.                                        *)

AllCounted_Early(t) == recFinishedCount >= index[t] - 1
AllCounted_Never(t) == recFinishedCount > index[t]
AllCounted(t)       == recFinishedCount >= index[t]

\* Leaves the loop that polls recFinishedCount every millisecond.
AwaitCounted(t) ==
  /\ pc[t] = "await"
  /\ AllCounted(t)
  /\ Goto(t, "start")
  /\ UNCHANGED <<outputBuffer, counters, gcs, locks, index, added, control,
                 stored, batches, raced>>

StartGC(t) ==
  /\ pc[t] = "start"
  /\ gcsStarted' = gcsStarted + 1
  /\ Goto(t, "enter")
  /\ UNCHANGED <<outputBuffer, counters, gcsFinished, locks, index, added,
                 control, stored, batches, raced>>

EnterFullMon(t) ==
  /\ pc[t] = "enter"
  /\ fullMon = NoThread
  /\ fullMon' = t
  /\ Goto(t, "collect")
  /\ UNCHANGED <<outputBuffer, counters, gcs, heapLock, index, added, control,
                 stored, batches, raced>>

FinishGC(t) ==
  /\ pc[t] = "finish"
  /\ gcsFinished' = gcsFinished + 1
  /\ Goto(t, "check")
  /\ UNCHANGED <<outputBuffer, counters, gcsStarted, locks, index, added,
                 control, stored, batches, raced>>

\* NotifyAll(fullMon): every waiting thread goes back to enter the monitor.
WakeAll(t) ==
  pc' = [a \in Actors |-> IF a = t THEN "claim"
                          ELSE IF pc[a] = "waiting" THEN "blocked" ELSE pc[a]]

\* assert(gcsStarted == gcsFinished), then notify and leave the monitor.
LeaveFullMon(t) ==
  /\ pc[t] = "check"
  /\ gcsStarted = gcsFinished
  /\ WakeAll(t)
  /\ fullMon' = NoThread
  /\ UNCHANGED <<outputBuffer, counters, gcs, heapLock, index, added, control,
                 stored, batches, raced>>

AssertionFails(t) ==
  /\ pc[t] = "check"
  /\ gcsStarted # gcsFinished
  /\ stopped' = "assertion"
  /\ UNCHANGED <<outputBuffer, counters, gcs, locks, pc, index, added, phase,
                 stored, batches, raced>>

-----------------------------------------------------------------------------
(* The threads that drew more than maxRecords.                             *)

\* Enter fullMon, test the loop's condition, and wait or leave.
BlockedCheck(t) ==
  /\ pc[t] = "blocked"
  /\ fullMon = NoThread
  /\ Goto(t, IF gcsStarted # gcsFinished THEN "waiting" ELSE "claim")
  /\ UNCHANGED <<outputBuffer, counters, gcs, locks, index, added, control,
                 stored, batches, raced>>

\* RawMonitorWait(fullMon, 1000) times out.
WaitTimeout(t) ==
  /\ pc[t] = "waiting"
  /\ Goto(t, "blocked")
  /\ UNCHANGED <<outputBuffer, counters, gcs, locks, index, added, control,
                 stored, batches, raced>>

-----------------------------------------------------------------------------
(* fullcb: fakeAGC, with the death records, and doGCEnd.                   *)

HeapLockFree_Ignored == TRUE
HeapLockFree == heapLock = NoThread

\* addRecordToDeathList has room for d more records.
DeathListHasRoom(d) == deathBufferEnd + d <= deathBufferSize

\* fakeAGC takes its locks and records d deaths.
RecordDeaths(a, d) ==
  /\ pc[a] = "collect"
  /\ HeapLockFree
  /\ heapLock' = a
  /\ IF DeathListHasRoom(d)
     THEN /\ deathBufferEnd' = deathBufferEnd + d
          /\ Goto(a, "handOver")
          /\ UNCHANGED stopped
     ELSE /\ stopped' = "exit"
          /\ UNCHANGED <<deathBufferEnd, pc>>
  /\ UNCHANGED <<outputBuffer, bufferEnd, recFinishedCount, gcs, fullMon, index,
                 added, phase, stored, batches, raced>>

\* The memcpy of the death records over the slots from recFinishedCount on, and
\* the batch of recFinishedCount + deathBufferEnd records for the output thread.
HandOver(a) ==
  LET batch == {i \in Slots : i < recFinishedCount} IN
  /\ pc[a] = "handOver"
  /\ handed' = handed \cup ({outputBuffer[i] : i \in batch} \ {NoRecord})
  /\ holes' = (holes \/ recFinishedCount > maxRecords
                     \/ \E i \in batch : outputBuffer[i] = NoRecord)
  /\ Goto(a, "newBuffer")
  /\ UNCHANGED <<outputBuffer, counters, gcs, locks, index, added, control,
                 stored, raced>>

FreshArray_Reused == outputBuffer
FreshArray == [i \in Slots |-> NoRecord]

\* outputBuffer = new Record *[realBufferSize].
NewBuffer(a) ==
  /\ pc[a] = "newBuffer"
  /\ outputBuffer' = FreshArray
  /\ Goto(a, "resetEnd")
  /\ UNCHANGED <<counters, gcs, locks, index, added, control, stored, batches,
                 raced>>

ResetEnd(a) ==
  /\ pc[a] = "resetEnd"
  /\ bufferEnd' = 0
  /\ Goto(a, "resetCount")
  /\ UNCHANGED <<outputBuffer, recFinishedCount, deathBufferEnd, gcs, locks,
                 index, added, control, stored, batches, raced>>

ResetCount_Missing(a) ==
  /\ pc[a] = "resetCount"
  /\ Goto(a, "resetDeaths")
  /\ UNCHANGED <<outputBuffer, counters, gcs, locks, index, added, control,
                 stored, batches, raced>>

ResetCount(a) ==
  /\ pc[a] = "resetCount"
  /\ recFinishedCount' = 0
  /\ Goto(a, "resetDeaths")
  /\ UNCHANGED <<outputBuffer, bufferEnd, deathBufferEnd, gcs, locks, index,
                 added, control, stored, batches, raced>>

AfterCollection_Same(a) == "finish"
AfterCollection(a) == IF a = VMThread THEN "done" ELSE "finish"

\* deathBufferEnd = 0, and fakeAGC releases its locks.
ResetDeaths(a) ==
  /\ pc[a] = "resetDeaths"
  /\ deathBufferEnd' = 0
  /\ heapLock' = NoThread
  /\ Goto(a, AfterCollection(a))
  /\ UNCHANGED <<outputBuffer, bufferEnd, recFinishedCount, gcs, fullMon, index,
                 added, control, stored, batches, raced>>

\* cbVMDeath: the phase becomes DEAD and the last collection begins.
VMDeath ==
  /\ MayShutDown
  /\ pc[VMThread] = "idle"
  /\ phase' = "dead"
  /\ Goto(VMThread, "collect")
  /\ UNCHANGED <<outputBuffer, counters, gcs, locks, index, added, stopped,
                 stored, batches, raced>>

-----------------------------------------------------------------------------
addRecordToList(t) ==
  \/ Claim(t) \/ Store(t) \/ Count(t)
  \/ AwaitCounted(t) \/ StartGC(t) \/ EnterFullMon(t)
  \/ FinishGC(t) \/ LeaveFullMon(t) \/ AssertionFails(t)
  \/ BlockedCheck(t) \/ WaitTimeout(t)

doGCEnd(a) ==
  \/ HandOver(a) \/ NewBuffer(a)
  \/ ResetEnd(a) \/ ResetCount(a) \/ ResetDeaths(a)

fullcb(a) == (\E d \in DeathCounts : RecordDeaths(a, d)) \/ doGCEnd(a)

Next ==
  /\ stopped = "no"
  /\ \/ \E t \in Threads : BeginAdd(t) \/ addRecordToList(t)
     \/ \E a \in Actors : fullcb(a)
     \/ VMDeath

Spec == Init /\ [][Next]_vars

-----------------------------------------------------------------------------
CollectorSteps ==
  {"collect", "handOver", "newBuffer", "resetEnd", "resetCount", "resetDeaths"}
ThreadSteps ==
  CollectorSteps \cup {"idle", "claim", "store", "count", "await", "start",
                       "enter", "finish", "check", "blocked", "waiting"}

\* Every variable has the values the code's types and branches allow.
TypeOK ==
  /\ outputBuffer \in [Slots -> Records \cup {NoRecord}]
  /\ bufferEnd \in 0 .. maxRecords + 1
  /\ recFinishedCount \in Nat
  /\ deathBufferEnd \in 0 .. deathBufferSize
  /\ gcsStarted \in Nat /\ gcsFinished \in Nat
  /\ fullMon \in Threads \cup {NoThread}
  /\ heapLock \in Actors \cup {NoThread}
  /\ pc \in [Actors -> ThreadSteps \cup {"done"}]
  /\ pc[VMThread] \in CollectorSteps \cup {"idle", "done"}
  /\ index \in [Threads -> 0 .. maxRecords + 1]
  /\ added \in [Threads -> Nat]
  /\ phase \in {"live", "dead"}
  /\ stopped \in {"no", "assertion", "exit", "mailbox"}
  /\ stored \subseteq Records /\ handed \subseteq Records
  /\ holes \in BOOLEAN /\ raced \in BOOLEAN

\* Nobody added a record inside doGCEnd's window, and the VM is alive.
Undisturbed == ~raced /\ phase = "live"

\* No record is lost: while Undisturbed, a record that addRecordToList stored is
\* in the buffer or in a batch the output thread was given.
NothingLost ==
  Undisturbed => \A r \in stored : r \in handed \/ \E i \in Slots : outputBuffer[i] = r

\* A batch is whole: while Undisturbed, the collector hands over a full buffer, all
\* of whose slots are written, and so the death records overwrite nothing.
BatchesWhole ==
  Undisturbed =>
    /\ ~holes
    /\ \A t \in Threads : pc[t] = "handOver" =>
         recFinishedCount = maxRecords /\ \A i \in Slots : outputBuffer[i] # NoRecord

CountedSlots ==
  {i \in Slots : /\ outputBuffer[i] # NoRecord
                 /\ \A t \in Threads : pc[t] = "count" => index[t] # i}

\* recFinishedCount is the number of records whose addition is finished, whatever
\* the interleaving of stores and counts; doGCEnd sets it right as its last step.
CountIsExact ==
  Undisturbed =>
    \/ \E a \in Actors : pc[a] \in {"resetEnd", "resetCount"}
    \/ recFinishedCount = Cardinality(CountedSlots)

\* A slot of the array in use is written once: no add overwrites another's record.
SlotsWrittenOnce ==
  [][Undisturbed =>
       \/ \E a \in Actors : pc[a] = "newBuffer"
       \/ \A i \in Slots : outputBuffer[i] # NoRecord => outputBuffer'[i] = outputBuffer[i]]_vars

\* Two collections never overlap inside doGCEnd, the one of VMDeath included.
OneCollector ==
  \A a, b \in Actors :
    {pc[a], pc[b]} \subseteq CollectorSteps \ {"collect"} => a = b

\* The death records fit behind the records when doGCEnd copies them.
CopyFits ==
  Undisturbed => \A a \in Actors :
    pc[a] = "handOver" => recFinishedCount + deathBufferEnd <= realBufferSize

\* gcsStarted and gcsFinished agree when a collection ends: "there should be no
\* possible way for two threads to get into this case at the same time".
CollectionsDoNotOverlap == stopped # "assertion"
=============================================================================
