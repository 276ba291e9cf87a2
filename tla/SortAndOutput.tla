--------------------------- MODULE SortAndOutput ---------------------------
(***************************************************************************)
(* SortAndOutputThread: the agent thread that sorts and writes the batches *)
(* of the trace.  A collector gives it a batch with                        *)
(* doParallelSortAndOutput and goes on; the thread sleeps in a             *)
(* RawMonitorWait that tests no condition, and sorts, writes and frees the *)
(* batch while it owns the monitor.  How a batch is sorted and combined is *)
(* the subject of module BatchOutput.                                      *)
(***************************************************************************)
EXTENDS Sequences

CONSTANTS Batches, NoBatch

VARIABLES
  worker,        \* where the output thread is
  batch,         \* outputBuffer of the thread: the job it was given, or NULL
  written        \* history: the batches it has written

SortInit == worker = "new" /\ batch = NoBatch /\ written = << >>

\* The thread owns waitingForWork from its wakeup to its next wait.
MonitorFree == worker # "writing"

\* run, up to its first RawMonitorWait.  RunAgentThread starts the thread; when
\* it gets here is the scheduler's choice.
FirstWait ==
  /\ worker = "new"
  /\ worker' = "waiting"
  /\ UNCHANGED <<batch, written>>

NoJob_Unchecked == TRUE
NoJob == batch = NoBatch

\* doParallelSortAndOutput, whose NotifyAll wakes the thread only if it waits.
doParallelSortAndOutput(newBatch) ==
  /\ MonitorFree
  /\ NoJob
  /\ batch' = newBatch
  /\ worker' = IF worker = "waiting" THEN "notified" ELSE worker
  /\ UNCHANGED written

\* assert(outputBuffer == NULL) in doParallelSortAndOutput.
JobAssertionFails == MonitorFree /\ ~NoJob

\* RawMonitorWait returns when the thread has the monitor again.
Wake ==
  /\ worker = "notified"
  /\ worker' = "writing"
  /\ UNCHANGED <<batch, written>>

FinishJob_NotCleared ==
  /\ worker = "writing"
  /\ written' = Append(written, batch)
  /\ worker' = "waiting"
  /\ UNCHANGED batch

FinishJob_LastOne ==
  /\ worker = "writing"
  /\ written' = Append(written, batch)
  /\ batch' = NoBatch
  /\ worker' = "ended"

\* Sort, combine, write and free the batch, and wait for the next.
FinishJob ==
  /\ worker = "writing"
  /\ written' = Append(written, batch)
  /\ batch' = NoBatch
  /\ worker' = "waiting"

run == FirstWait \/ Wake \/ FinishJob

\* waitForCurrentJobToFinish: enter the monitor and leave it.
waitForCurrentJobToFinish == MonitorFree /\ UNCHANGED <<worker, batch, written>>
=============================================================================
