--------------------------- MODULE TracePipeline ---------------------------
(***************************************************************************)
(* The path of a record from the thread that makes it to the trace file:   *)
(* TraceBuffer's collectors give their batches to SortAndOutput's thread,  *)
(* and the VMDeath thread waits for the last one.                          *)
(***************************************************************************)
EXTENDS TraceBuffer, Sequences

CONSTANT NoBatch    \* the output thread has no batch

\* It is not a batch.
ASSUME PipelineAssumption == \A S \in SUBSET (Threads \X (0 .. MaxAdds)) : NoBatch # S

VARIABLES worker, batch, written, flushed

Output  == INSTANCE SortAndOutput WITH Batches <- SUBSET Records
Mailbox == INSTANCE BatchMailbox WITH Batches <- SUBSET Records, mailbox <- batch

worksite == <<worker, batch, written>>
pipelineVars == <<vars, worksite, flushed>>

PipelineInit == Init /\ Output!SortInit /\ flushed = FALSE

Running == stopped = "no" /\ ~flushed

\* The records below recFinishedCount, as HandOver gives them to the output thread.
BatchInHand ==
  {outputBuffer[i] : i \in {s \in Slots : s < recFinishedCount}} \ {NoRecord}

GiveBatch(a) ==
  HandOver(a) /\ Output!doParallelSortAndOutput(BatchInHand)

\* The collector finds the last batch still there: the process aborts.
MailboxAssertion(a) ==
  /\ pc[a] = "handOver"
  /\ Output!JobAssertionFails
  /\ stopped' = "mailbox"
  /\ UNCHANGED <<outputBuffer, counters, gcs, locks, pc, index, added, phase,
                 stored, batches, raced, worksite>>

\* fullcb, with its hand-over to the output thread.
Collect(a) ==
  \/ /\ \/ \E d \in DeathCounts : RecordDeaths(a, d)
        \/ NewBuffer(a) \/ ResetEnd(a) \/ ResetCount(a) \/ ResetDeaths(a)
     /\ UNCHANGED <<worksite, flushed>>
  \/ GiveBatch(a) /\ UNCHANGED flushed
  \/ MailboxAssertion(a) /\ UNCHANGED flushed

\* VMDeath returns from waitToFinishOutput: cbVMDeath closes the trace file and
\* the process ends.
waitToFinishOutput ==
  /\ pc[VMThread] = "done"
  /\ Output!waitForCurrentJobToFinish
  /\ flushed' = TRUE
  /\ UNCHANGED vars

PipelineNext ==
  /\ Running
  /\ \/ \E t \in Threads :
          (BeginAdd(t) \/ addRecordToList(t)) /\ UNCHANGED <<worksite, flushed>>
     \/ \E a \in Actors : Collect(a)
     \/ VMDeath /\ UNCHANGED <<worksite, flushed>>
     \/ Output!run /\ UNCHANGED <<vars, flushed>>
     \/ waitToFinishOutput

PipelineSpec == PipelineInit /\ [][PipelineNext]_pipelineVars

\* The output thread is scheduled like any other.
FairPipelineSpec ==
  /\ PipelineSpec
  /\ \A t \in Threads :
       WF_pipelineVars(Running /\ addRecordToList(t) /\ UNCHANGED <<worksite, flushed>>)
  /\ \A a \in Actors : WF_pipelineVars(Running /\ Collect(a))
  /\ WF_pipelineVars(Running /\ Output!run /\ UNCHANGED <<vars, flushed>>)

-----------------------------------------------------------------------------
\* Every record that was stored is in the buffer, in the batch the output thread
\* was given, or in the trace, as long as nobody added a record inside doGCEnd's
\* window and the VM is alive.
RecordsAccountedFor ==
  Undisturbed => \A r \in stored :
    \/ \E i \in Slots : outputBuffer[i] = r
    \/ batch # NoBatch /\ r \in batch
    \/ \E n \in DOMAIN written : r \in written[n]

\* No record reaches the trace twice, not even in the runs that lose records.
WrittenOnce ==
  LET trace == IF batch = NoBatch THEN written ELSE Append(written, batch) IN
  \A m, n \in DOMAIN trace : m # n => trace[m] \cap trace[n] = {}

\* SortAndOutputThread implements the mailbox: its batches are written whole, once
\* and in order, whatever the moments at which it is notified and woken.
ImplementsMailbox == Mailbox!MailboxSpec

\* The output thread has a batch and will not be notified of it.
Overlooked == batch # NoBatch /\ worker \in {"new", "waiting"}

\* A batch that was given to the output thread is written, unless it was given to
\* it before its first wait.
BatchGetsWritten ==
  [](Running /\ ~Overlooked) => (batch # NoBatch ~> batch = NoBatch)

\* No add is stuck behind the output thread or another collector, unless a record
\* was added inside doGCEnd's window or a batch was overlooked.
AddsReturn ==
  [](Undisturbed /\ Running /\ ~Overlooked) =>
    \A t \in Threads : pc[t] = "claim" ~> pc[t] = "idle"

\* "We want to wait for the thread to finish its last job before we terminate the
\* process" (SortAndOutputThread.h).
ShutdownFlushes == flushed => batch = NoBatch
=============================================================================
