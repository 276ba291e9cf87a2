# Elephant Tracks: TLA+ models, model checking and proofs

Elephant Tracks is a JVMTI agent that writes a trace of a Java program: object
allocations and deaths, pointer updates, method entries and exits, exceptions,
and counts of heap accesses. A separate process rewrites the classes of the
program so that it calls the agent; the agent computes exact death times with
the Merlin algorithm. This directory holds TLA+ models of the agent's core, TLC
configurations that check them on small instances, and TLAPS proofs for every
value of the constants.

All paths below are relative to `src/`. `ET` is `ETCallBackHandler.cpp`, `FT` is
`FlatTraceOutputter.cpp`, `SO` is `SortAndOutputThread.cpp`, `OM` is
`elephantTracksRewriter/classReWriter/ETOptMethodAdapter.java`.

## 1. The system

### 1.1 Components

| Component | State | Operations | Hard behaviours | What makes it correct |
|---|---|---|---|---|
| Record buffer (`FT`) | `outputBuffer`, `bufferEnd`, `recFinishedCount`, `deathBuffer`, `gcsStarted`, `gcsFinished`, monitor `fullMon` | `addRecordToList`, `addRecordToDeathList`, `doGCEnd` | any number of threads claim slots without a lock; the thread that draws index `maxRecords` collects; three separate resets at the end | no record lost or overwritten, batches without holes, one collection at a time, no thread stuck |
| Output thread (`SO`) | `outputBuffer` (the job), monitor `waitingForWork` | `doParallelSortAndOutput`, `run`, `waitForCurrentJobToFinish` | waits without a condition; notifications before the first wait are lost; shutdown | every batch is written once, whole, in order, before the process ends |
| Sorting and combining (`SO:98-132`, `CountsRecord.cpp`) | one batch, `whichRecs` | stable sort by time, combination of C records, `streamTo` | out-of-order arrival; combination across unwanted records | wanted records in time order, no count lost or moved past a written record |
| Death times (`ET:1122-1195`, `1260-1348`) | `tagTimeMap`, `edgeMap`, stack, `completed`, `lastTime` | `computeObjectDeathTimes`, the report of `shadowGCEnd` | cycles, shared objects, ties, default stamps | a dead object gets the latest stamp of the dead objects that reach it |
| Object tagging and `fakeAGC` (`ET`) | JVMTI tags, `nextTag`, `tagTimeMap`, `liveObjects`, `deadSet` | `getTagAndTagIfNeeded`, `tagObject`, `nativeNewObj`, `timeStampTag`, the update hooks, `fakeAGC` | hooks of many threads among themselves and against a collection that takes locks no hook takes | one tag per object, allocation and death recorded once, only dead objects reported, all of them reported |
| Shadow heap (`GraphAlgorithms/HashGraph.cpp`) | `edgeMap`, `staticsEdges`, `growable` | `updateEdge`, `addNode`, `removeNode`, `neighbors` | concurrent insertion and growth; a static result list | the slots hold what the program's slots hold |
| Class and field slots (`ET:1563-1783`, `565-586`) | class and field tables, `fieldId2slot`, `classId2slots` | `RecordClassInfo`, `RecordFieldInfo`, `getSlotsForClass`, `handleClassWithoutId` | recursion over superclasses, several threads, statics under negated ids, field offsets | two fields of an object never share a slot |
| JNI interposition, array copy (`ET:903-926`, `1085-1120`, `1491-1523`) | the JNI function table | `instSet...`, `JNIPointerUpdated`, `nativeDoSystemArraycopy` | the hook before or after the store; stores that fail | the trace says what the heap did |
| Weak references (`WeakRefCleaner.cpp`) | referent maps | `updateReferent`, `checkForDeadReferents`, `adjustDeadSet` | runs inside a collection, calls back into the tagging | a referent that dies before its reference gets an update |
| Initial heap and VM phases (`main.cpp`, `ET:680-870`, `2160-2260`) | `vmInitialized` | `VMStart`, `VMInit`, `VMDeath`, `scanInitialHeap` | the order of the JVMTI events, hooks in every phase | hooks do nothing too early or too late |
| Connection to the rewriter (`ExternalClassInstrumenter.cpp`, `ClassReWriter.java`) | two pipes, one lock, the rewriter's numbers | `instrumentClass`, `sendInfo`, `readFully`, `writeFully` | short reads, end of file, one pipe for all threads | each class gets its own rewritten form; nobody waits for ever |
| Bytecode rewriting (`OM`, `ETAdapter.java`) | a model of locals and stack in value numbers, `stamped`, packed counts | the `visit...` methods of a method visitor | which objects have the current time already, on every path; objects under construction; counts that overflow their field | every use of an object is covered by a stamp, no hook gets an unconstructed object, no count is lost |
| Java hooks (`ElephantTracks.java`) | `engaged`, `_counts` | one static method per event | the phase is read before the native call; the hook comes before the store it announces | a hook is called exactly between `VMInit` and `VMDeath` |
| Records, options, readers (`*Record.cpp`, `main.cpp`, `simulator/`) | - | formatting, parsing | readers and writer agree on the format | - |

`ETThreadLocalData.cpp`, `TraceOutputter.cpp` and `sim-old.cpp` are not among the
objects of the Makefile. `java_crw_demo`, `agent_util`, `gzstream`, the JVMTI stub
and the scripts are vendored or test support.

### 1.2 How they interact

    program thread --hook--> ETCallBackHandler --do...()--> FlatTraceOutputter
                                 |   tags, stamps, shadow heap     |
                                 |                                 | buffer full: the thread that
                                 |<-----------fullcb---------------| drew maxRecords collects
                             fakeAGC: ForceGarbageCollection, IterateThroughHeap,
                             scan of tagTimeMap, shadowGCEnd (Merlin, D records),
                             doGCEnd -----batch-----> SortAndOutputThread --> trace file

All program threads share the buffer, the tables of the handler (TBB concurrent
maps), and the logical clock. A collection runs in the program thread that
filled the buffer, under `fullMon`, `deadSetLock` and `heapLock`; the hooks of
the other threads go on until their own record finds the buffer full. VMDeath
runs one more collection outside `fullMon`. Assertions are compiled in (the
Makefile does not define `NDEBUG`), so a failed assertion ends the process.

The hazards of this code, each with its line and the properties that would
notice it going wrong, are listed in `PROJECT.json`.

    class loading thread --class file--> ExternalClassInstrumenter ==pipes==> ClassReWriter (a process)
                                 |  records of classes and fields, new class file   |
    getSlotsForClass <-- tables --+                              ETAdapter, ETOptMethodAdapter

## 2. The modules

| Module | Subject | Form |
|---|---|---|
| `TraceBuffer` | the record buffer, one action per shared access, with VMDeath | specification |
| `TraceBufferInv`, `MCTraceBuffer` | inductive invariant, instance | |
| `SortAndOutput` | the output thread and its monitor | operators and actions, used by `TracePipeline` |
| `BatchMailbox` | what the output thread promises: a mailbox for one batch | abstract specification |
| `TracePipeline` | `TraceBuffer` composed with `SortAndOutput`, and shutdown | specification; refines `BatchMailbox` |
| `BatchOutput`, `MCBatchOutput` | sorting and combining a batch | specification, instance |
| `DeathTimes` | one run of Merlin, with the report | specification |
| `DeathTimesInv`, `DeathTimes_proofs`, `MCDeathTimes` | inductive invariant, proofs, instance | |
| `ObjectTracking` | the life of an object over several collections | specification |
| `ObjectTrackingInv`, `ObjectTracking_proofs`, `MCObjectTracking` | inductive invariant, proofs, instance | |
| `ObjectShadow_proofs` | more proofs: the shadow heap and the deaths | |
| `VMPhases`, `MCVMPhases` | the phases of the VM, the scan of the initial heap, the gates in front of the hooks | specification, instance |
| `ClassSlots`, `MCClassSlots` | the slots of fields: rewriter, pipes, tables, the recursion of `getSlotsForClass` | specification, instance |
| `MethodRewriter`, `MCMethodRewriter` | `ETOptMethodAdapter` in lockstep with the JVM | specification, instance |
| `TracePipeline_proofs` | proofs about the buffer and the pipeline | |
| `BatchOutput_proofs`, `VMPhases_proofs`, `ClassSlots_proofs`, `MethodRewriter_proofs` | proofs about these specifications | |

A definition `Name_Fault` is `Name` with a plausible bug of that code. No
specification uses it; it documents which property would notice the bug.

### 2.1 TraceBuffer

The variables have the names of the fields of `FlatTraceOutputter`; `pc`, `index`
and `added` are the local state of each thread in `addRecordToList`. Every access
to shared state is an action: `Claim` is `bufferEnd++`, `Store` is the assignment
to the slot, `Count` is `recFinishedCount++`, and `doGCEnd` is the five actions
`HandOver`, `NewBuffer`, `ResetEnd`, `ResetCount`, `ResetDeaths`. `BlockedCheck`
and `WaitTimeout` are the timed monitor wait of the threads that drew an index
above `maxRecords`; `RecordDeaths` stands for `fakeAGC` as far as the buffer sees
it (its locks, and how many D records it makes). Records are pairs
`<<thread, number>>`.

Abstractions: indices above `maxRecords` are one value, because the code treats
them alike; the wrap of the 32 bit counter is left out. Each access is
sequentially consistent (the counters are `tbb::atomic`; the slots are plain and
are read only after their counts).

`doGCEnd` resets `bufferEnd` (line 289) and then `recFinishedCount` (line 290). An
index drawn between the two breaks most of what the buffer promises, which the
run `trace_buffer_overlap` shows. The positive
properties are therefore stated for `Undisturbed` states: no index was drawn in
that window so far, and VMDeath has not begun (its collection does not wait for
records in progress). `OneCollector` needs no such condition.

### 2.2 SortAndOutput, BatchMailbox, TracePipeline

`worker` is where the output thread is: `new` (not yet in its first wait),
`waiting`, `notified` (notified, without the monitor) or `writing` (it owns the
monitor). `doParallelSortAndOutput` wakes it only if it waits. `TracePipeline`
replaces the hand-over of `TraceBuffer` by a step of both components, so that a
collector waits for the monitor, or aborts on the assertion that the last job is
done. `ImplementsMailbox` is the refinement: `mailbox <- batch`.

### 2.3 DeathTimes

One collection, from the sorted dead set to the report. `VisitNeighbor` is a turn
of the inner loop, in any order; `SortedDeadSets` is every result `std::sort` may
give. `neighbors` includes the static result list: for a node that is missing it
returns what the last call left there. `DeathTimesRight` says that each dead
object gets the latest stamp of the dead objects that reach it, if all dead objects have nodes
(`InGraph`) and no stamp is above the largest `int` (`InTime`), from which the code starts
its search.

### 2.4 BatchOutput

Starts from every batch up to the bound: records of the threads in slot order, the
deaths behind them, every kind and time, and any set of wanted letters. `Sort`,
`Combine`, `Stream` and `Finish` are the loop of `run`. The part of `CountsConserved` that
says where a count is, is stated
for options that treat the kind of a record (which the combining loop asks for) and its
letter (which `streamTo` asks for) alike.

### 2.5 ObjectTracking

Each object of the program has a tag (0 for none), a key in `tagTimeMap` and a
node in the shadow heap. `Programs` is what each thread may call, and `hooks` what it has left of that. A hook is a small program over its local variables
(`op`): `GetTag`, `tagObject` (with its second look under `tagLock`), `Allocate`,
`StampNew`, `addObjectToHeap` for each object it tags; then the stamps, the edge and the
record of its kind. The kinds are `use` (`nativeVarEvent`), `new`
(`nativeNewObj`), `update` (`nativePointerUpdated`), `arrayStore`
(`nativeArrayStore`), where the program's store follows the hook, and `jniStore`
(`SetObjectArrayElement` through JNI), where it precedes it. `fakeAGC` is five actions:
the forced collection, the walk of the heap, the scan of `tagTimeMap`, the search
(which inserts default stamps for neighbors), and the report. All of them
interleave with the hooks of the other threads. The search is taken as one step over the dead set in any order; what it
inserts are the edges of the dead nodes, the key 0 for a slot that is null, and, if the tag it takes first has no node,
what `HashGraph::neighbors` has left in its static list (`nullList`). A dead tag has no node when a hook stamped it and was
about to add the node; `revived` are the tags that come back into `tagTimeMap` in this way. `ObjectFree` passes over
the key 0 in the next collection.

The environment is the traced program and the JVM. The program makes objects, reads and drops
references; `ForceGarbageCollection` collects what is unreachable then (`collected`); the
walk also sees what became unreachable since. Assumptions: an object has one slot, two threads do not
update a slot at the same time, no store throws. Thread and class objects, static
fields, `Unsafe` updates, weak references and the clock are left out. The buffer is what
`TraceBuffer` shows it to be: an add that finds it full starts a collection, and none returns
before its end. VMDeath's collection is not in this model.

`contested` collects the tags for which the code itself leaves a race open: a tag
given between the walk and the scan, one that `nativeNewObj` and another hook
wanted at the same time, the old target of a JNI store. `DiesOnce` and `DeadAreReported` also except `revived`: such a tag
need not be contested itself, and dies again in the collection that follows. `DeathsTrue` is false without
the first exception: a thread tags an object after the walk and waits for room for its record,
a second one sees the tag and stamps it, and the scan finds a stamp that is not in `liveObjects`.

### 2.6 VMPhases

`main` is the thread that starts and ends the VM: `cbVMStart`, the walk over the heap
(`TagHeap`), the handling of each initial object (`ScanArray`, `ScanClassObject`, `ScanScalar`,
then `ReadField` for each field or element), `scanStaticsOf` with its queue, `VMInit`, the two gates,
and `cbVMDeath`. Meanwhile other threads make objects, prepare classes and store; a store is three steps:
the question at the gate in Java (`engagedInJava`), the native method with the gate of the agent (`Native`,
`Admits`), and the store. JNI stores ask whether the table has the agent's functions; for an element the
store comes before the hook. `Hits` is the place whose slot the hook of a store writes, which need not be the one that is stored into:

- a JNI store into a static field writes slot 0, that of `FirstStatic`: `JNIPointerUpdated` finds the negated number, which is in
  no table (`ET:905`, `ET:483`). If the field is not found, or has the number 1, the assertion of line 915 ends the process
  (`Assertion`);
- a JNI store into an element passes the index as the number of a field (`ET:1516`), so it writes any slot of the array or none, for
  index 0 the right one;
- Java code that names a field through a subclass, or a field of a class the VM never sent, has a number for which the agent
  has another slot than the scan, or none. Which one is in `ClassSlots`; here it is any slot of the object.

`astray` collects the places this leaves wrong, until a hook writes their slot with their value. `gap` collects the
places stored into when no hook could be had, `born` the objects made in the course of the scan, of which the scan's end of the process
(`Untagged`) may be the result. `ShadowRight` excepts `gap` and `astray`, and says that everything else is right beside them.
A class whose static fields the scan meets before the agent has an entry for it gets id 0 for
good; `Tracked` excepts it. The record buffer is left out.

### 2.7 ClassSlots

The rewriter is a second process with its own tables; requests and replies are sequences of records.
A thread has a stack of frames, one for each call in progress of `instrumentClass`, `sendInfo`,
`getSlotsForClass` or `handleClassWithoutId`, and a step takes the top frame to the next point where
it calls, waits, or has looked at a table, so that other threads come in at the points where they
can. The tables have no lock, as in the code. `code` is the set of updates in the rewritten classes: the owner and
name an instruction has, and the number it was given; an owner may be the class that declares the field, a subclass, or an `Untold`
class, and `SlotsRight` is about the updates of the first kind (`NamesDeclarer`) beside the others. `Untold` classes were never sent to the rewriter; the agent
makes up their numbers from `SYNTHETIC_ID_BASE`. Bytes, interfaces and primitive fields are left out; the
rewriter does not die.

### 2.8 MethodRewriter

A step visits one instruction: the adapter's half (`locals`, `stack`, `stamped`, the counts) has the code's
updates, and the JVM's half (`jlocals`, `jstack`, `raw`) has the instruction's effect on values. A method is any
sequence of instructions the verifier takes, of the groups its `code` has; a jump target is entered with any values
that fit, so one pass meets every iteration of a loop. `covered` are the objects that have the current stamp or hang on one that has;
a call empties it, because it may advance the clock. `frames` is the rewriter's `-opt` option: with it `visitFrame`
starts each jump target anew, without it frames are skipped. The agent starts the rewriter without the option
(`ExternalClassInstrumenter.cpp:74-103`), and the passing run has both. What the adapter's numbers still tell without frames is in
`known`: `values` until the first jump arrives, then `kinds` (which places hold initialized objects) as long as jumps bring
values to the places there are (the code falls in, or no operand comes along), then `nothing`. `UsesCovered` and `ValueNumbersSound` are stated for `values`,
`KindsKnown` for `kinds` too; the run `method_rewriter_joins` shows that `UsesCovered` does not go further.

`excused` are the objects the adapter takes for stamped although nothing stamps them, up to the next call: the element of an array that is
not followed itself (number 0: a local variable behind a wide parameter, or the like) in `AALOAD`, where line 577 asks for the
array's stamp and lines 775-776 mark both; the array and the value of an `AASTORE`; what a class initializer left behind; and
what is loaded from one of these. `UsesCovered` excepts them.
Two of the five counts are kept, at the two ends of the packed word; the other three lie between.

## 3. The runs

| Run | States | Shows |
|---|---|---|
| `trace_buffer` | 186,380 | with 3 threads of 2 records each, 2 slots and VMDeath: `NothingLost`, `BatchesWhole`, `CountIsExact`, `OneCollector`, `CopyFits`, `SlotsWrittenOnce` |
| `trace_buffer_overlap` | violation, 26 states | `CollectionsDoNotOverlap` fails: the assertion at `FT:392` |
| `trace_pipeline` | 83,527 | `RecordsAccountedFor`, `WrittenOnce`, `ImplementsMailbox`, `BatchGetsWritten`, `AddsReturn` for 2 threads of 2 records, 1 slot and VMDeath |
| `pipeline_shutdown` | violation, 9 states | `ShutdownFlushes` fails: the last batch is not written |
| `death_times` | 1,200,246 | every graph on 3 objects, every dead set and stamping: `DeathTimesRight`, `LatestOnTop`, `LiveStampsKept`, `CompletedIsFinal`, `Terminates` |
| `batch_output` | 63,068 | every batch of up to 4 records: `TraceInOrder`, `CountsConserved` |
| `object_tracking` | 2,243,598 | 2 threads, 3 objects, 6 pairs of programs of 3 or 4 hooks: `OneTag`, `TaggedIsTracked`, `AllocatedOnce`, `DeathsTrue`, `DiesOnce`, `DeadAreReported`, `ShadowMatchesHeap` |
| `vm_phases` | 2,291,290 | 3 initial heaps with 4 classes and 4 objects, 2 other threads and 2 operations of theirs at any moment, JNI stores of all kinds among them: `ShadowRight`, `TracedOnce` |
| `class_slots` | 103,845 | 3 threads, 5 classes, two of which (`Object` and `U`) the VM never sent to the rewriter, declarers, a subclass and an unknown class named as owners: `SlotsRight`, `RepliesMatch`, `TasksEnd` |
| `class_slots_inherited` | violation | `OneSlotPerField` fails when code names a subclass as the owner of an inherited field |
| `method_rewriter` | 2,657,710 | 7 methods, every instruction sequence up to the bound, with frames and without: `KindsKnown`, `ValueNumbersSound`, `UsesCovered`, `CountsConserved` |
| `method_rewriter_joins` | violation | `UsesCoveredOnAllPaths` fails when frames are skipped, as they are by default |

`CHECK_DEADLOCK FALSE` is set where the system may stop: the program need not call
another hook, an algorithm ends, the process ends.

### 3.1 Bounds

- `MaxAdds`, `DeathCounts` (TraceBuffer): two adds by each of three threads fill two slots twice, with
  one thread collecting, one filling the new array and one waiting. The death
  counts are none, the capacity of the death list (8) and one more, which makes the process exit.
- `Times`, `INT_MAX`, `Leftovers` (DeathTimes): three objects give chains, cycles
  and shared targets; four times give all orders of three stamps, one of them too late.
- `MaxRecords`, `MaxTime`, `Kinds`, `WantedLetters` (BatchOutput): four records
  give two counts around a wanted and an unwanted one, at equal and different times.
- `MaxTag`, `Programs`, `maxRecords` (ObjectTracking): two objects that can die and one shared array of references. With a
  buffer of one record two hooks are enough for a collection while a hook is between any two of its steps, and the third
  and fourth for further collections, in which something forgotten can come back. `MCPrograms` pairs the kinds so that a thread loses an
  object in a JNI store, or publishes a new one, while the other uses, updates or reports it. An uncontested tag is `revived` in this instance: the second thread
  drops an object, whose tag is stamped again without a node and is searched first while `nullList` still has a tag reported before. That it then dies a
  second time needs one collection more.
- `MaxOps`, `InitialHeaps` (VMPhases): one heap with every kind of reference, one with a class that is loaded and
  not prepared, one with a class the agent has no entry for. Two operations by two threads put one thread
  between any two of its steps and the other anywhere in the scan. `FirstStatic` is the field of one class, the array has two elements, so
  that JNI stores go astray in every way there is.
- `Accesses`, `Scanners` (ClassSlots): `Object` and `Class`, a class with a subclass, and one without id: a chain of three
  superclasses is the least with a class above and one below. `B` updates `A`'s field under both names, a static one through itself, and a field of the unknown `U`. Only one of the three threads may
  meet an unknown class first.
- `MaxVisits`, `MaxStack`, `MaxVn`, `MaxPending`, `Methods` (MethodRewriter): instructions are divided into groups
  and each method has some of them, so that sequences are long enough for a value to be loaded, moved, stamped, lost at a
  call or a label and used. `Modes` has both modes. `INST_BITS_SMALL` and `HEAP_BITS_SMALL` are small, so that counts overflow their fields.

Symmetry is used for threads and for objects the program makes, in the runs without
liveness properties only.

### 3.2 Fairness

`TracePipeline` has weak fairness for the steps of a thread inside `addRecordToList`, for those of a
collection, and for the output thread: the operating system schedules every runnable thread. Nothing
obliges the program to add records or the VM to shut down. `DeathTimes` has it for the one thread that runs the
algorithm, `ClassSlots` for the rewriter and for threads inside a call. Weak fairness is enough for entering
a monitor in the instances checked; no strong fairness is assumed.

`BatchGetsWritten` and `AddsReturn` hold as long as no batch is `Overlooked`,
that is, handed over before the output thread's first wait: its notification is
then lost (a hazard at `SO:95`).

## 4. The proofs

`tlapm` checks 19,866 obligations in eight modules. Constants are arbitrary but for
the named assumptions (`BufferAssumption`, `PipelineAssumption`, `DeathTimesAssumption`,
`TrackingAssumption`, `SlotsAssumption`, `PhasesAssumption`, `HeapsAssumption`, `BatchAssumption`,
`RewriterAssumption`, `NumbersAssumption`, `HierarchyAssumption`), which TLC evaluates for each instance.

### 4.1 TracePipeline_proofs: the buffer

`TypeCorrect`, `Invariant`, `RecordsNotLost`, `BatchesAreWhole`, `CountExact`, `DeathsFit`,
`WrittenOnceInArray`, `OneCollectorAtATime`, for any number of threads, any buffer size, any
number of records. No record is lost because (a) from the moment some thread has
drawn `maxRecords` until `ResetEnd` every index drawn is too large (`BufferSealed`),
(b) only one thread has (`OneSealer`), (c) once it has counted `maxRecords` records
nobody is between claim and count (`NobodyAdds`), which follows from
`recFinishedCount` being the number of counted slots (`CountedExactly`), each adder
owning its own slot (`OwnSlot`, `DistinctSlots`, `FilledBelowEnd`): if all the slots are
counted, no slot is left for an adder to own. So the buffer that is handed over is full (`CollectedBuffer`)
and holds every stored record not handed over before (`StoredKept`). All this is under `Undisturbed`.
`OneCollector` needs only that `heapLock` is held from `RecordDeaths` to `ResetDeaths` (`LockInv`).

### 4.2 DeathTimes_proofs

`Invariant`, `TypeCorrect`, `MerlinRight`, `LiveObjectsKept`, `StackIsOrdered`, `CompletedStays`, for every
finite graph, dead set, stamping and order. The stack stays sorted well enough: every
object not completed is on it, above any such object with an earlier time
(`StackOrdered`), because an object that is raised is raised to `lastTime` and pushed on top.
So `lastTime` separates completed objects from the others (`LastTimeBetween`),
completed objects are never raised and have handed on their times (`HandedOn`), except
to neighbors the inner loop has still to visit (`LoopSource`). At the end, times do not decrease along
edges of dead objects, so each is at least the stamp of every dead object that reaches its holder; it
is no more than one of them because every time is the stamp of an object that reaches its
holder (`Justified`).

### 4.3 ObjectTracking_proofs

`TypeCorrect`, `TagsUnique` (`OneTag`) and `OnlyLostObjectsDie` (`DeathsTrue`), for any number of threads,
objects, tags, hooks and any buffer size. A hook knows which objects it has still
to tag and has the tags of the others (`UntaggedIn`, `StoresIn`, `HasTagIn`), and the objects it
works on are those its thread may use (`UsableIn`). Tags below `nextTag` are given
to one object each (`TagsGiven`), and the tables hold no others (`TablesGiven`).
What was collected is unreachable and stays so, since threads store and read only what
they reach (`OutOfReach`); so the next collection collects it again. After the walk
every tagged object that was not collected is in `liveObjects`, unless its tag is contested
(`WalkedLive`), so the scan takes only collected objects for dead (`DeadCollected`).

### 4.4 TracePipeline_proofs: the output thread

`NothingLostOnTheWay` (`RecordsAccountedFor`), `NothingWrittenTwice` (`WrittenOnce`) and `MailboxImplemented`
(`ImplementsMailbox`), for any number of threads and records and any buffer size. Every step of the pipeline is a step of the
buffer, of the output thread, of both (the hand-over), or the abort of the process (`PipelineSteps`), so `IInv` and `LockInv` of
`TraceBuffer` hold here too. `Link` ties the rest together: what was handed over is what is in the batches, each record in one (`Delivered`);
what is in the array was not handed over before, except while the one collector that `heapLock` admits is about to
replace it (`Fresh`); a record that is stored has a number its thread has used up (`Numbered`), so no later record is
equal to it. A hand-over therefore gives a batch that is disjoint from all others, and puts it into an
empty mailbox; the thread writes only when it has one (`Work`).

### 4.5 ObjectTracking_proofs and ObjectShadow_proofs

The other five properties of `ObjectTracking`, each by an invariant next to the one of 4.3.

`AllocationRecordedOnce` (`AllocatedOnce`): a given tag that is not contested has at most one record, or none and one hook
that is about to write it (`OneRecord`); `NoTaggedObjectOverlooked` (`TaggedIsTracked`): what a tagged object lacks - its allocation
record, its key in `tagTimeMap`, its node - some hook is about to add (`Tracked`), unless the object was reported
dead. It matters there that the hook for a new object works on one object only (`NewAlone`).

`ShadowFollowsHeap` (`ShadowMatchesHeap`): an update is followed through its hook. The target has its tag before the edge is
written, or is on the list of objects to tag (`TargetKnown`); once the hook has written the edge, it stays until the
hook and the store are over, unless the object is reported dead (`EdgeRight`); a JNI store is in the heap from the first step of its hook on
(`StoredFirst`). Two threads never update the same object (`Exclusive`, the assumption about the program), and tags are unique,
so no other hook touches the node; a hook that tags the object at the same time finds the node and keeps it, or
adds an empty one, and then the slot is empty too. So an object nobody updates has a slot and a node that agree
(`Agrees`), and a slot refers to a tagged object or to nothing.

`EveryDeathReported` (`DeadAreReported`) and `DeathReportedOnce` (`DiesOnce`) follow a collection. Nothing alive refers to the dead:
a slot of what is left refers to nothing collected (`SlotsLive`), and the node of an object has only edges to what its
slot refers to, is about to refer to, or lost in a JNI store (`EdgesKnown`). While `fakeAGC` works no record can be added
(`NoRoom`: the buffer is full), so a live object that it takes for dead has just got its tag, and a hook waits to write its record,
stamp it and give it a node (`WindowHeld`); `contested` names these objects. Every other tagged object that was collected is either
in both tables, so that the next collection finds it and the search reaches what it refers to, or reported and in
none (`CollectedKnown`, `Forgot`). What has a stamp was not reported (`ReportedOnce`), and the
search stamps only what is dead itself, since nothing that is forgotten is the neighbor of a node that is left.

### 4.6 ClassSlots_proofs

`RepliesMatchTheirRequests` (`RepliesMatch`), for any classes and any number of threads. The thread whose top frame is in the middle of a
conversation with the rewriter has `instrumenterLock`, and no frame below a top one is, because the agent
never calls itself between a request and its reply (`Good`). The conversation is then in one of three states: the request is in its pipe
(`Asked`), the rewriter works on it (`AtWork`), or the replies are in theirs (`Answered`); without a holder both pipes are
empty. The steps of the recursion over superclasses do not touch the pipes.

`NumbersApart` (`TypeOK`): `SYNTHETIC_ID_BASE` divides the numbers of the rewriter from those the agent makes up, and just the classes the VM did not
tell of have one of the latter. The rewriter draws a number for a class or a field that has none, so its counters are no greater than the sizes of
its tables (`RewriterOK`); that there are fewer classes and fields than the base is what the comment at `ET:29` says
and `NumbersAssumption` assumes. That a class which the VM has told of gets no made up number is less obvious: `getSlotsForClass` looks only at whether the name has a
number yet. It works only on linked classes (`Known`), a class file is given to the VM only after its record was read, because the record is before
it in the pipe (`Informed`), and so `handleClassWithoutId` meets no class that is loaded. For its superclasses this needs the equation of
`Ancestors`: the least set closed under `Super` solves it.

`EachFieldHasItsSlot` (`SlotsRight`), the safety property of the component, for any hierarchy of classes and any number of threads that load
classes and tag objects in any order. The proof has three layers:

- *Numbers* (`NumbersRight`). A field has one number at the rewriter (`TablesRight`), and its record is then in the pipe or in the agent's tables, once
  (`RepliesRight`, `InfosRight`). Code of a loaded class updates only fields that are recorded: the records come before the class file in one pipe
  (`CodeRight`, `LoadedRight`). A static field has a slot of its own from the moment it is recorded (`StaticsRight`).
- *Recursion* (`StacksRight`, `FillingRight`). The frame on top of another one is what the lower one waits for (`Shape`): the superclass, the class
  without a number, the acknowledgement of a made up record. Several threads can be at work on one class, also with the lookup done and the slots not assigned;
  what they assign is the same, because the fields of a loaded class do not change any more and its slots begin at a number that only depends on
  its superclasses. A class without an id gets its fields one at a time, with requests between (`Filling`), and only one thread, the one that scans
  the initial heap, ever meets such a class first.
- *Slots* (`SlotsInv`). A class has at least as many slots as it and the classes above it have pointer fields (`Size`, `Total`): one more for each
  second number a field got through a subclass. Its own fields have different numbers between the `Size` of the superclass and its own (`TagRight`). So fields of one class are apart, and fields of two classes on one path
  upwards lie in ranges that do not overlap (`SlotsApart`).

The hierarchy is well-founded (`HierarchyAssumption`: no class is above itself, `Object` has no field, a class has a name once, one thread
scans the initial heap). The theorem has no hypothesis about the code that is rewritten: instructions may name any owner that has the field. A second number that a field gets
through a subclass is recorded under that subclass as one more field of it, so it takes a slot of its own and leaves those of the others alone, and an update through a class
the VM never sent has a number that no record of the agent holds. What happens to those updates themselves is finding 4.

### 4.7 VMPhases_proofs

`InitialAndNewObjectsTracedOnce` (`TracedOnce`), for any heap, any classes and any number of threads. An object has a tag exactly
if it has one record, but for the objects the walk has tagged and the scan has still to handle (`Recorded`); both gates and the JNI table stay
shut until the scan is over (`Gated`), so that no hook meets one of those; what the scan meets without a tag was made
in the course of the scan (`Met`).

`ShadowHeapMatchesHeap` (`ShadowRight`) and `PhasesTypesHold` (`TypeOK`) are about the pointers. What the scan has still to read of a place is
one of three things (`Pending`): it is in `toRead`, its object is in `todo`, or its class is in `todo` or `toScan` and its static fields are not read.
Every other place that nobody is storing into has one value in both heaps (`Agreed`), but for the places
another thread stored into in the course of the scan, which no hook could see (`gap`), and those a hook left wrong (`astray`): such a hook puts both its own place and the one it
wrote there, so all the others keep their value, and a place leaves it when a hook has written its slot (`Strays`). The JVM makes a store in two steps, and a store that
a hook told of is in the shadow heap before it is in the heap; one without a hook began before the gate was open,
when there were no hooks at all, or the gates forbid it (`InFlight`). The order of the gates (`GatesInOrder`) is what rules
the other stores out: `engaged` is not `LIVE` and the JNI table is not installed before the scan is over.

### 4.8 BatchOutput_proofs

For a batch of any length with any records. `BatchWrittenInOrder` (`TraceInOrder`): the comparison of the sort, time and then place, is a total order on
the places of a batch, so each place has a rank, the number of the places before it, and what the sort makes is the array
with each record at its rank (`Sorted`); the loop of `run` writes from it, with gaps but in that order (`OutputOK`).
`NoCountLost` (`CountsConserved`): at every step what the records up to `i` counted has been written or is carried (`Carry`), and if it is
not 0 it is all in one record further on, with nothing in between that ends combining (`Carried`). A record that is not a counts record
has before it in the trace all the counts from before it in the batch (`SoFar`).

### 4.9 MethodRewriter_proofs

For any methods, any instructions, any number of objects and any widths of the fields a counts record is packed into.
`RewriterTypesHold` (`TypeOK`) and `NothingUncounted` (`CountsConserved`): the adapter's counters are what ran in the segment and is not in a
record (`Counted`). `outputCounts` is recursive: it writes as much as the wide fields hold and calls itself with the rest. What it reports in sum is what
it is given, for all counts and widths (`AllReported`).

The other three say that the adapter's stack of value numbers tells what is on the JVM's.
`NoRawObjectStamped` (`KindsKnown`), `SameNumberSameValue` (`ValueNumbersSound`) and `StampsSuffice` (`UsesCovered`)
rest on this: the two stacks have the same places, local variables of two slots included (`Aligned`); every number in use lies between the two
counters, so that the next one drawn is new, and is negative just for objects without their constructor
(`NumbersKnown`); one number is one value (`OneValue`), and an object without its constructor has one number (`OneNumber`), or `foundInit` would leave copies of it
behind. A stamped number was drawn, and the value it stands for can be used (`StampsRight`).
They hold for both settings of `-opt`, with what `known` says of it: with frames on all paths, since `visitFrame` starts a segment at
every label that is jumped to. Without frames the invariant has three levels (`Right`): a jump that arrives takes `OneValue` and the stamps away, and leaves the kinds if
the values it brings come to places that are numbered (`Exchanged`: constructed objects come where such were); one that brings operands out of line, and a handler, leave the types and the
counts only. Finding 3 is what lies beyond.

### 4.10 Induction over data

The theorems of the library that define a function by recursion or prove by induction take an operator as their parameter,
which the provers cannot instantiate. For `SumOutput` and `outputCounts` a detour exists: the finite subsets of a set are
well-founded under inclusion, a theorem without such a parameter, so a set of naturals has a least element (`LeastNat`), and a least counterexample
refutes itself. That a recursive function is what its equation says is shown in the same way, by a longest stretch on which it is.

### 4.11 Model-checked only

- Liveness: `AddsReturn`, `BatchGetsWritten`, `Terminates`, `TasksEnd`.

Every safety invariant that a passing run checks is a theorem, most of the buffer's under `Undisturbed`. What a property excepts - `Undisturbed`, `contested`,
`revived`, `gap`, `astray`, `known`, `excused`, `NamesDeclarer` - is in its statement and in section 2, and is a hazard in `PROJECT.json` or a finding.

## 5. Findings

1. **Collections overlap** (`trace_buffer_overlap`). The comment at `FT:333-335` rules out two threads
   in the collector's branch. `doGCEnd` opens the buffer at line 289, before the
   collector has incremented `gcsFinished` (390): others fill the new array, one increments
   `gcsStarted`, and the assertion at 392 fails.
2. **Shutdown may lose the last batch** (`pipeline_shutdown`). `waitForCurrentJobToFinish`
   enters and leaves the monitor; it may do so before the notified thread has it.
3. **Stamps flow across joins** (`method_rewriter_joins`). Without `-opt` the class reader skips the frames, so `visitFrame`
   is never called and `stamped` keeps what was stamped on the path that comes before a label in the code.
   After a jump from elsewhere, on which a call has advanced the clock, a use of the value gets no stamp.
4. **An inherited field has two slots** (`class_slots_inherited`). `getFieldId` looks a field up under the class the
   instruction names. The same field accessed through a subclass gets another number and another slot; an edge written
      through one owner is not removed through the other. `SlotsRight` leaves out one more case: code that names a field of a class
   the VM never sent. The rewriter then gives the class and the field numbers, the agent makes up others later, and the update goes by the old ones,
   which have no slot: slot 0. The same happens to a number given through a subclass after the slots of that subclass were assigned.

Smaller observations, which the properties above except by name:

- `JNIPointerUpdated` says of a null object "this is an update of a static field of klass" (`ET:870-871`), and updates static slot 0 whatever the field is; the
  static field with number 1, or one that is not found, ends the process at the assertion of `ET:915`. `instSetObjectArrayElement` passes the index as the
  number of a field (`ET:1516`).
- A forgotten tag comes back into `tagTimeMap` through the static list of `HashGraph::neighbors` (`HashGraph.cpp:90`), and is reported dead again. A build with `ET_DEBUG`
  asserts in `ObjectFree` that this does not happen (`ET:419-430`), and asserts it for the key 0 too, which every dead object with a null slot puts there.
- `AALOAD` marks the element of an array without a number as stamped and stamps nothing (`OM:577`, `OM:772-776`).

Also: a count made between lines 289 and 290 of `FT` is erased, and the next collector polls
for it for ever; the search of `computeObjectDeathTimes` starts from the largest `int`, stamps are `jlong`; an object tagged between the walk and the
scan of `fakeAGC` can be reported dead while in use; `checkForDeadReferents` compares a missing death time as 0; `nativeDoSystemArraycopy` takes the
length of the source for that of the destination (`ET:1094`).

## 6. Not modelled, and why

- Weak references (`WeakRefCleaner.cpp`): a thread of its own and a part of every collection; it depends on when the JVM clears weak references,
  which the code does not determine. `ObjectTracking` has no weak references.
- The logical clock (`currentTime`): `DeathTimes` takes any stamps and `BatchOutput` any times, so what they show does not depend on how
  the clock moves; that the stamp and the record of one use have the same time is not checked.
- `nativeDoSystemArraycopy`, the tables of field offsets for `Unsafe` and the JNI functions that make objects: sequential code that calls the hooks which are
  modelled.
- `ETNativeWrapper`, names, site numbers, class file dumping, option strings, the text of the records: translation and formatting.
- The programs in `simulator/`: they read a finished trace and share no state with the agent.
- `ETThreadLocalData.cpp`, `TraceOutputter.cpp`, `sim-old.cpp`: not built. `java_crw_demo`, `agent_util`, `gzstream`, the JVMTI stub, `timer.h`: vendored
  code, test support and timing.
- The pipe's end of file (`ExternalClassInstrumenter.cpp:373`): `readFully` loops for ever when the rewriter dies; the rewriter of `ClassSlots` lives.
