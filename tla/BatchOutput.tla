----------------------------- MODULE BatchOutput ----------------------------
(***************************************************************************)
(* What SortAndOutputThread::run does with one batch: it sorts the records *)
(* by time, stably, and goes through them once.  A counts record (kind C)  *)
(* that is followed by another one, with nothing but unwanted records in   *)
(* between, is added to that one instead of being written.  The batch is   *)
(* the one doGCEnd made: the records of the threads in the order of their  *)
(* slots, with the records of the collection (deaths, and updates of weak  *)
(* references) behind them.                                                *)
(*                                                                         *)
(* A record has the kind getKind() returns, the letter streamTo() writes   *)
(* if wantRecord has it, a time, its place in the batch, and its counts,   *)
(* which are one number here: the five counts are added alike.             *)
(*                                                                         *)
(* A definition Name_Fault is Name with a plausible bug.  No specification *)
(* uses it: it stands there to show which property notices the bug.        *)
(***************************************************************************)
EXTENDS Integers, FiniteSets, Sequences

CONSTANTS
  MaxRecords,      \* bound: the size of the batch
  MaxTime,         \* bound: the times of the records
  Kinds,           \* bound: the kinds of the threads' records, as <<kind, letter>>
  WantedLetters    \* bound: the values of the whichRecs option, as sets of letters

\* A counts record is written under the letter of its kind.
ASSUME BatchAssumption ==
  /\ MaxRecords \in Nat /\ MaxTime \in Nat
  /\ \A k \in Kinds : k[1] = "C" => k[2] = "C"

VARIABLES
  outputBuffer,    \* the batch, sorted in place
  wantRecord,      \* the letters that are written
  i,               \* the next record run's loop looks at
  output,          \* the trace: what streamTo wrote, in order
  pc,
  batch            \* history: the batch before it was sorted

vars == <<outputBuffer, wantRecord, i, output, pc, batch>>

\* The records that threads make; only a C record has counts (1, say).
Makes(k, t, place) ==
  [kind |-> k[1], letter |-> k[2], time |-> t, place |-> place,
   counts |-> IF k[1] = "C" THEN 1 ELSE 0]

Shapes == Kinds \X (0 .. MaxTime)
Deaths == {<<"D", "D">>} \X (0 .. MaxTime)

\* Every batch of m records of threads and d records of a collection.
Init ==
  /\ \E m, d \in 0 .. MaxRecords :
       /\ m + d <= MaxRecords
       /\ \E recs \in [1 .. m -> Shapes], deaths \in [1 .. d -> Deaths] :
            batch = [p \in 1 .. m + d |->
                       LET s == IF p <= m THEN recs[p] ELSE deaths[p - m]
                       IN  Makes(s[1], s[2], p)]
  /\ outputBuffer = batch
  /\ wantRecord \in WantedLetters
  /\ i = 1 /\ output = <<>> /\ pc = "sort"

recordCompare(a, b) == a.time < b.time

\* a comes before b in a stable sort.
Precedes_Unstable(a, b) ==
  recordCompare(a, b) \/ (~recordCompare(b, a) /\ a.place > b.place)
Precedes(a, b) ==
  recordCompare(a, b) \/ (~recordCompare(b, a) /\ a.place < b.place)

SortedBatch ==
  LET Recs == {outputBuffer[p] : p \in DOMAIN outputBuffer} IN
  [p \in DOMAIN outputBuffer |->
     CHOOSE r \in Recs : Cardinality({q \in Recs : Precedes(q, r)}) = p - 1]

Sort ==
  /\ pc = "sort"
  /\ outputBuffer' = SortedBatch
  /\ pc' = "output"
  /\ UNCHANGED <<wantRecord, i, output, batch>>

EndsCombining_OnlyAtC(r)  == r.kind = "C"
EndsCombining(r)          == r.kind = "C" \/ r.kind \in wantRecord

\* The record at which the inner loop stops, or 0 if it runs out of the batch.
StopsAt ==
  LET Stops == {j \in i + 1 .. Len(outputBuffer) : EndsCombining(outputBuffer[j])}
  IN  IF Stops = {} THEN 0 ELSE CHOOSE j \in Stops : \A k \in Stops : j <= k

combineFrom_Dropped(r, other) == r
combineFrom(r, other) == [r EXCEPT !.counts = @ + other.counts]

Combines ==
  /\ "C" \in wantRecord /\ outputBuffer[i].kind = "C"
  /\ StopsAt # 0
  /\ outputBuffer[StopsAt].kind = "C"

\* A C record is added to the later one and not written.
Combine ==
  /\ pc = "output" /\ i <= Len(outputBuffer)
  /\ Combines
  /\ outputBuffer' = [outputBuffer EXCEPT ![StopsAt] = combineFrom(@, outputBuffer[i])]
  /\ i' = i + 1
  /\ UNCHANGED <<wantRecord, output, pc, batch>>

\* streamTo writes the record if its letter is wanted.
Stream ==
  /\ pc = "output" /\ i <= Len(outputBuffer)
  /\ ~Combines
  /\ output' = IF outputBuffer[i].letter \in wantRecord
               THEN Append(output, outputBuffer[i]) ELSE output
  /\ i' = i + 1
  /\ UNCHANGED <<outputBuffer, wantRecord, pc, batch>>

Finish ==
  /\ pc = "output" /\ i > Len(outputBuffer)
  /\ pc' = "done"
  /\ UNCHANGED <<outputBuffer, wantRecord, i, output, batch>>

Next == Sort \/ Combine \/ Stream \/ Finish

Spec == Init /\ [][Next]_vars

-----------------------------------------------------------------------------
Places  == DOMAIN batch
Written(p) == \E n \in DOMAIN output : output[n].place = p

\* The position of a record of the batch in time order.
Before(p, q) == batch[p].time < batch[q].time \/ (batch[p].time = batch[q].time /\ p < q)

\* The sum of the counts of the C records with places in P, each of which has 1.
CountsAt(P) == Cardinality({p \in P : batch[p].kind = "C"})

\* The sums of the counts of the first n records of the trace.
SumOutput[n \in 0 .. Len(output)] ==
  IF n = 0 THEN 0 ELSE SumOutput[n - 1] + output[n].counts

\* Every wanted record is written, in time order and, at one time, in the order
\* of the batch: the deaths at a time come behind the events of that time.
TraceInOrder ==
  pc = "done" =>
    /\ \A p \in Places :
         batch[p].kind # "C" => (Written(p) <=> batch[p].letter \in wantRecord)
    /\ \A m, n \in DOMAIN output : m < n => Before(output[m].place, output[n].place)

\* Every record has the letter of its kind as far as wantRecord is concerned.
KindsAgree ==
  \A p \in Places : batch[p].kind \in wantRecord <=> batch[p].letter \in wantRecord

\* No count is lost or counted twice, and none moves past a record that is written:
\* what the C records of the trace say together is what those of the batch said, and
\* the C records before a record of the trace say as much as those before it in time
\* order.
CountsConserved ==
  pc = "done" /\ "C" \in wantRecord =>
    /\ SumOutput[Len(output)] = CountsAt(Places)
    /\ KindsAgree =>
         \A n \in DOMAIN output : output[n].kind # "C" =>
           SumOutput[n] = CountsAt({p \in Places : Before(p, output[n].place)})
=============================================================================
