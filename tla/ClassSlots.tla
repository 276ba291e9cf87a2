----------------------------- MODULE ClassSlots -----------------------------
(***************************************************************************)
(* How a pointer field gets the slot it has in the nodes of the shadow     *)
(* heap.  The class load hook sends each class file through a pipe to the  *)
(* rewriter, another process.  The rewriter numbers classes and fields,    *)
(* puts the number of a field into the calls of the update hook, and       *)
(* writes what it numbered into the pipe back, before the new class file.  *)
(* The agent records it (RecordClassInfo, RecordFieldInfo).  Static fields *)
(* get a slot at once, instance fields when the first object of the class  *)
(* is tagged (getSlotsForClass), behind the slots of the superclass.  For  *)
(* a class that the VM did not tell about, the agent makes up numbers and  *)
(* sends them to the rewriter (handleClassWithoutId).  One lock keeps the  *)
(* threads that use the pipes apart.  The tables have none.                *)
(*                                                                         *)
(* The calls of getSlotsForClass nest: a thread has a stack of frames, and *)
(* a step takes the frame on top on to the next point where it calls,      *)
(* waits for the pipe, or has looked at a table.  Left out: the bytes of   *)
(* the records, interfaces, and fields that hold no pointers.              *)
(***************************************************************************)
EXTENDS Integers, Sequences, FiniteSets

CONSTANTS
  Threads,
  Scanners,     \* the threads that may meet a class nobody told the agent of
  Classes, NoClass,
  Object, Class,     \* java.lang.Object, java.lang.Class
  Super,        \* the superclass of each class, NoClass for Object
  Fields,       \* the pointer fields a class declares, as a sequence of names
  Static,       \* the static ones, as <<class, name>>
  Accesses,     \* the fields the code of a class updates, as <<owner, name>>
  Untold,       \* the classes whose file the VM does not send
  SYNTHETIC_ID_BASE

ASSUME SlotsAssumption ==
  /\ Scanners \subseteq Threads /\ NoClass \notin Classes \cup Threads
  /\ {Object, Class} \subseteq Classes /\ Untold \subseteq Classes
  /\ Super \in [Classes -> Classes \cup {NoClass}]
  /\ \A c \in Classes : Super[c] = NoClass <=> c = Object
  /\ SYNTHETIC_ID_BASE \in Nat \ {0}

VARIABLES
  lock,              \* instrumenterLock: its owner, or NoClass
  requests, replies, \* the pipes
  classIds, fieldIdTables, lastClassId, lastFieldId,   \* the rewriter's tables
  work,              \* the class the rewriter is at, and what is left of it
  code,              \* the updates in the rewritten code: <<class, owner, name, id>>;
                     \* a class updates its own fields
  className2classId, classId2fieldsInfo, fieldId2slot, classId2slots,
  classTag2slots, staticSlots, nextSyntheticId,        \* the agent's tables
  stack,             \* the frames of each thread
  classTagged,       \* the classes whose Class object has a tag
  loaded,            \* the classes whose new file the VM has
  instanced          \* the classes with an object whose tagging is done

pipes == <<lock, requests, replies>>
rewriter == <<classIds, fieldIdTables, lastClassId, lastFieldId, work, code>>
recorded == <<className2classId, classId2fieldsInfo>>
slots == <<classId2slots, classTag2slots>>
vars == <<pipes, rewriter, recorded, slots, fieldId2slot, staticSlots, nextSyntheticId,
          stack, classTagged, loaded, instanced>>

-----------------------------------------------------------------------------
Put(f, x, v) == [y \in DOMAIN f \cup {x} |-> IF y = x THEN v ELSE f[y]]
Get(f, x, v) == IF x \in DOMAIN f THEN f[x] ELSE v
Empty == [x \in {} |-> 0]

\* A record is written and read whole: a thread holds the lock from its request to the
\* last record of the answer.
writeUntilDone(pipe, record) == Append(pipe, record)
readUntilDone(pipe) == Head(pipe)

NamesOf(c) == {Fields[c][i] : i \in DOMAIN Fields[c]}

\* the names of fields, and the fields that get a number
Names == UNION {NamesOf(c) : c \in Classes}
FieldKeys == UNION {{<<c, Fields[c][i]>> : i \in DOMAIN Fields[c]}
                      \cup {Accesses[c][i] : i \in DOMAIN Accesses[c]} : c \in Classes}

\* SYNTHETIC_ID_BASE allows for all the classes and fields there are.
ASSUME NumbersAssumption ==
  /\ Fields \in [Classes -> Seq(Names)] /\ Accesses \in [Classes -> Seq(Classes \X Names)]
  /\ IsFiniteSet(Classes) /\ Cardinality(Classes) < SYNTHETIC_ID_BASE
  /\ IsFiniteSet(FieldKeys) /\ Cardinality(FieldKeys) < SYNTHETIC_ID_BASE

Ancestors[c \in Classes] ==
  {c} \cup IF Super[c] = NoClass THEN {} ELSE Ancestors[Super[c]]

\* No class is above itself, a class declares a name once, Object declares no field; and
\* one thread scans the initial heap.
ASSUME HierarchyAssumption ==
  /\ \A c \in Classes : Super[c] # NoClass => c \notin Ancestors[Super[c]]
  /\ \A c \in Classes : \A i, j \in DOMAIN Fields[c] : Fields[c][i] = Fields[c][j] => i = j
  /\ Fields[Object] = <<>>
  /\ \A s, t \in Scanners : s = t

\* the class that declares the field the JVM finds for <<owner, name>>
Declarer[f \in Classes \X Names] ==
  IF f[2] \in NamesOf(f[1]) \/ Super[f[1]] = NoClass THEN f[1]
  ELSE Declarer[<<Super[f[1]], f[2]>>]

-----------------------------------------------------------------------------
(* Frames.                                                                 *)

Frame(op, c) == [op |-> op, class |-> c, at |-> "lookup", superSlots |-> 0, rest |-> <<>>]
TopFrame(t) == stack[t][Len(stack[t])]
Busy(t, op, at) == stack[t] # <<>> /\ TopFrame(t).op = op /\ TopFrame(t).at = at
Popped(t) == SubSeq(stack[t], 1, Len(stack[t]) - 1)

Goes(t, frames) == stack' = [stack EXCEPT ![t] = frames]
Continue(t, frame, called) == Goes(t, Append(Popped(t), frame) \o called)

\* The thread returns the value: the caller keeps it as superSlots.
Return(t, value) ==
  LET rest == Popped(t)
  IN  /\ IF rest = <<>> THEN Goes(t, rest)
         ELSE Goes(t, [rest EXCEPT ![Len(rest)].superSlots = value])
      /\ instanced' = IF rest = <<>> THEN instanced \cup {TopFrame(t).class} ELSE instanced

\* getTagAndTagIfNeeded of the Class object of c: if it is new, the slots of class
\* Class are asked for, and first the Class object of Class gets its tag
TagClass(c) == classTagged' = classTagged \cup {c, Class}
TagCalls(c) ==
  IF c \in classTagged THEN <<>>
  ELSE IF Class \in classTagged \cup {c} THEN <<Frame("slots", Class)>>
  ELSE <<Frame("slots", Class), Frame("slots", Class)>>

\* the frame of a call of sendInfo
Send(kind, payload) == [Frame("send", NoClass) EXCEPT !.rest = <<kind, payload>>]

-----------------------------------------------------------------------------
Init ==
  /\ lock = NoClass /\ requests = <<>> /\ replies = <<>>
  /\ classIds = Empty /\ fieldIdTables = Empty /\ lastClassId = 0 /\ lastFieldId = 0
  /\ work = <<NoClass, <<>>>> /\ code = {}
  /\ className2classId = Empty /\ classId2fieldsInfo = Empty
  /\ fieldId2slot = Empty /\ classId2slots = Empty /\ classTag2slots = Empty
  /\ staticSlots = 0 /\ nextSyntheticId = SYNTHETIC_ID_BASE
  /\ stack = [t \in Threads |-> <<>>]
  /\ classTagged = {} /\ loaded = {} /\ instanced = {}

-----------------------------------------------------------------------------
(* The rewriter.                                                           *)

getClassId(ids, last, name) == IF name \in DOMAIN ids THEN <<ids, last>>
                               ELSE <<Put(ids, name, last + 1), last + 1>>

Idle == work[1] = NoClass

\* instrumentOneClass takes a class file, and visit of ETAdapter its head
Visit ==
  /\ Idle /\ requests # <<>> /\ Head(requests)[1] = "OrigClassFile"
  /\ LET c == Head(requests)[2]
         own == getClassId(classIds, lastClassId, c)
         both == IF Super[c] = NoClass THEN own ELSE getClassId(own[1], own[2], Super[c])
     IN  /\ classIds' = both[1] /\ lastClassId' = both[2]
         /\ replies' = Append(replies, <<"ClassInfo", <<both[1][c], c>>>>)
         /\ work' = <<c, [i \in DOMAIN Fields[c] |-> <<c, Fields[c][i]>>] \o Accesses[c]>>
  /\ requests' = Tail(requests)
  /\ UNCHANGED <<lock, fieldIdTables, lastFieldId, code, recorded, slots, fieldId2slot,
                 staticSlots, nextSyntheticId, stack, classTagged, loaded, instanced>>

IsStatic(owner, name) == <<Declarer[<<owner, name>>], name>> \in Static

\* visitField for a declaration, and getFieldId for an access in the code
newFieldId ==
  /\ ~Idle /\ work[2] # <<>>
  /\ LET key == Head(work[2])
         known == key \in DOMAIN fieldIdTables
         id == Get(fieldIdTables, key, lastFieldId + 1)
         class == getClassId(classIds, lastClassId, key[1])
     IN  /\ fieldIdTables' = Put(fieldIdTables, key, id)
         /\ lastFieldId' = IF known THEN lastFieldId ELSE id
         /\ classIds' = IF known THEN classIds ELSE class[1]
         /\ lastClassId' = IF known THEN lastClassId ELSE class[2]
         /\ replies' = IF known THEN replies
                       ELSE Append(replies, <<"FieldInfo", <<class[1][key[1]], key[2], id,
                                                             IsStatic(key[1], key[2])>>>>)
         /\ code' = code \cup {<<work[1], key[1], key[2], id>>}
  /\ work' = <<work[1], Tail(work[2])>>
  /\ UNCHANGED <<lock, requests, recorded, slots, fieldId2slot, staticSlots,
                 nextSyntheticId, stack, classTagged, loaded, instanced>>

WriteClass ==
  /\ ~Idle /\ work[2] = <<>>
  /\ replies' = Append(replies, <<"InstClassFile", work[1]>>)
  /\ work' = <<NoClass, <<>>>>
  /\ UNCHANGED <<lock, requests, classIds, fieldIdTables, lastClassId, lastFieldId, code,
                 recorded, slots, fieldId2slot, staticSlots, nextSyntheticId, stack,
                 classTagged, loaded, instanced>>

\* Mutated: the record of a field is not acknowledged.
Synthetic_Fault ==
  /\ Idle /\ requests # <<>> /\ Head(requests)[1] # "OrigClassFile"
  /\ LET kind == Head(requests)[1]
         it == Head(requests)[2]
     IN  /\ classIds' = IF kind = "SynthClassInfo" THEN Put(classIds, it[2], it[1]) ELSE classIds
         /\ fieldIdTables' = IF kind = "SynthFieldInfo" THEN Put(fieldIdTables, it[2], it[1])
                             ELSE fieldIdTables
         /\ replies' = IF kind = "SynthClassInfo" THEN Append(replies, <<"Ack", NoClass>>)
                       ELSE replies
  /\ requests' = Tail(requests)
  /\ UNCHANGED <<lock, lastClassId, lastFieldId, work, code, recorded, slots, fieldId2slot,
                 staticSlots, nextSyntheticId, stack, classTagged, loaded, instanced>>

\* instrumentOneClass takes a record about a class the agent has numbered
Synthetic ==
  /\ Idle /\ requests # <<>> /\ Head(requests)[1] # "OrigClassFile"
  /\ LET kind == Head(requests)[1]
         it == Head(requests)[2]
     IN  /\ classIds' = IF kind = "SynthClassInfo" THEN Put(classIds, it[2], it[1]) ELSE classIds
         /\ fieldIdTables' = IF kind = "SynthFieldInfo" THEN Put(fieldIdTables, it[2], it[1])
                             ELSE fieldIdTables
  /\ replies' = Append(replies, <<"Ack", NoClass>>)
  /\ requests' = Tail(requests)
  /\ UNCHANGED <<lock, lastClassId, lastFieldId, work, code, recorded, slots, fieldId2slot,
                 staticSlots, nextSyntheticId, stack, classTagged, loaded, instanced>>

-----------------------------------------------------------------------------
(* The agent: records from the rewriter.                                   *)

\* Mutated: a number that was made up is not recorded under the name.
RecordClassInfo_Fault(id, c) ==
  className2classId' = IF c \in DOMAIN className2classId THEN className2classId
                       ELSE Put(className2classId, c, id % SYNTHETIC_ID_BASE)

\* the first class of a name keeps it
RecordClassInfo(id, c) ==
  className2classId' = IF c \in DOMAIN className2classId THEN className2classId
                       ELSE Put(className2classId, c, id)

RecordFieldInfo(classId, name, id, isStatic) ==
  /\ classId2fieldsInfo' = Put(classId2fieldsInfo, classId,
       Append(Get(classId2fieldsInfo, classId, <<>>), <<name, IF isStatic THEN -id ELSE id>>))
  /\ staticSlots' = IF isStatic THEN staticSlots + 1 ELSE staticSlots
  /\ fieldId2slot' = IF isStatic THEN Put(fieldId2slot, id, staticSlots) ELSE fieldId2slot

\* the class load hook
instrumentClass(t, c) ==
  /\ stack[t] = <<>> /\ lock = NoClass
  /\ c \notin loaded \cup Untold
  /\ lock' = t
  /\ requests' = writeUntilDone(requests, <<"OrigClassFile", c>>)
  /\ Goes(t, <<Frame("instrument", c)>>)
  /\ UNCHANGED <<replies, rewriter, recorded, slots, fieldId2slot, staticSlots,
                 nextSyntheticId, classTagged, loaded, instanced>>

\* one turn of the loop of instrumentClass
ReadRecord(t) ==
  /\ Busy(t, "instrument", "lookup") /\ replies # <<>>
  /\ LET kind == readUntilDone(replies)[1]
         it == readUntilDone(replies)[2]
     IN  \/ /\ kind = "ClassInfo"
            /\ RecordClassInfo(it[1], it[2])
            /\ UNCHANGED <<classId2fieldsInfo, fieldId2slot, staticSlots, lock, stack, loaded>>
         \/ /\ kind = "FieldInfo"
            /\ RecordFieldInfo(it[1], it[2], it[3], it[4])
            /\ UNCHANGED <<className2classId, lock, stack, loaded>>
         \/ /\ kind = "InstClassFile"
            /\ loaded' = loaded \cup {TopFrame(t).class}
            /\ lock' = NoClass /\ Goes(t, <<>>)
            /\ UNCHANGED <<recorded, fieldId2slot, staticSlots>>
  /\ replies' = Tail(replies)
  /\ UNCHANGED <<requests, rewriter, slots, nextSyntheticId, classTagged, instanced>>

\* Mutated: sendInfo does not take the lock.
SendInfo_Fault(t) ==
  /\ Busy(t, "send", "lookup")
  /\ requests' = writeUntilDone(requests, TopFrame(t).rest)
  /\ Continue(t, [TopFrame(t) EXCEPT !.at = "ack"], <<>>)
  /\ UNCHANGED <<lock, replies, rewriter, recorded, slots, fieldId2slot, staticSlots,
                 nextSyntheticId, classTagged, loaded, instanced>>

\* sendInfo
SendInfo(t) ==
  /\ Busy(t, "send", "lookup") /\ lock = NoClass
  /\ lock' = t
  /\ requests' = writeUntilDone(requests, TopFrame(t).rest)
  /\ Continue(t, [TopFrame(t) EXCEPT !.at = "ack"], <<>>)
  /\ UNCHANGED <<replies, rewriter, recorded, slots, fieldId2slot, staticSlots,
                 nextSyntheticId, classTagged, loaded, instanced>>

ReadAck(t) ==
  /\ Busy(t, "send", "ack") /\ replies # <<>>
  /\ replies' = Tail(replies)
  /\ lock' = NoClass /\ Goes(t, Popped(t))
  /\ UNCHANGED <<requests, rewriter, recorded, slots, fieldId2slot, staticSlots,
                 nextSyntheticId, classTagged, loaded, instanced>>

-----------------------------------------------------------------------------
(* The agent: the slots of a class.                                        *)

Linked(c) == Ancestors[c] \cup Ancestors[Class] \subseteq loaded \cup Untold

\* The hook of the first object of class c tags it.  The initial heap is scanned before
\* the other threads start: they meet no class without a number.
TagObject(t, c) ==
  /\ stack[t] = <<>> /\ Linked(c) /\ c \notin instanced
  /\ t \in Scanners \/ Untold \subseteq instanced
  /\ TagClass(c)
  /\ Goes(t, <<Frame("slots", c)>> \o TagCalls(c))
  /\ UNCHANGED <<pipes, rewriter, recorded, slots, fieldId2slot, staticSlots,
                 nextSyntheticId, loaded, instanced>>

Tables == <<pipes, rewriter, recorded, staticSlots, nextSyntheticId, loaded>>

\* getSlotsForClass, up to the call of handleClassWithoutId
LookupTag(t) ==
  /\ Busy(t, "slots", "lookup")
  /\ LET f == TopFrame(t)
     IN  \/ /\ f.class \in DOMAIN classTag2slots
            /\ Return(t, classTag2slots[f.class])
         \/ /\ f.class \notin DOMAIN classTag2slots
            /\ Continue(t, [f EXCEPT !.at = "find"],
                        IF f.class \in DOMAIN className2classId THEN <<>>
                        ELSE <<Frame("without", f.class)>>)
            /\ UNCHANGED instanced
  /\ UNCHANGED <<Tables, slots, fieldId2slot, classTagged>>

\* getSlotsForClass, up to the recursive call
LookupId(t) ==
  /\ Busy(t, "slots", "find")
  /\ LET f == TopFrame(t)
         id == className2classId[f.class]
     IN  \/ /\ id \in DOMAIN classId2slots
            /\ classTag2slots' = Put(classTag2slots, f.class, classId2slots[id])
            /\ Return(t, classId2slots[id])
            /\ UNCHANGED classTagged
         \/ /\ id \notin DOMAIN classId2slots /\ Super[f.class] = NoClass
            /\ Return(t, 0)
            /\ UNCHANGED <<classTag2slots, classTagged>>
         \/ /\ id \notin DOMAIN classId2slots /\ Super[f.class] # NoClass
            /\ TagClass(Super[f.class])
            /\ Continue(t, [f EXCEPT !.at = "assign"],
                        <<Frame("slots", Super[f.class])>> \o TagCalls(Super[f.class]))
            /\ UNCHANGED <<classTag2slots, instanced>>
  /\ UNCHANGED <<Tables, classId2slots, fieldId2slot>>

\* the instance fields among the recorded ones
InstanceIds(info) == {info[i][2] : i \in {j \in DOMAIN info : info[j][2] > 0}}

\* Mutated: the slots begin at 0 in every class.
SlotsFrom_Fault(superSlots, info) ==
  [id \in InstanceIds(info) |-> Cardinality({i \in DOMAIN info : info[i][2] > 0
                      /\ i < CHOOSE j \in DOMAIN info : info[j][2] = id})]

SlotsFrom(superSlots, info) ==
  [id \in InstanceIds(info) |->
    superSlots + Cardinality({i \in DOMAIN info : info[i][2] > 0
                      /\ i < CHOOSE j \in DOMAIN info : info[j][2] = id})]

\* getSlotsForClass, after the recursive call
AssignSlots(t) ==
  /\ Busy(t, "slots", "assign")
  /\ LET f == TopFrame(t)
         id == className2classId[f.class]
         given == SlotsFrom(f.superSlots, Get(classId2fieldsInfo, id, <<>>))
         total == f.superSlots + Cardinality(DOMAIN given)
     IN  \/ /\ f.class \in DOMAIN classTag2slots
            /\ Return(t, classTag2slots[f.class])
            /\ UNCHANGED <<slots, fieldId2slot>>
         \/ /\ f.class \notin DOMAIN classTag2slots
            /\ fieldId2slot' = [x \in DOMAIN fieldId2slot \cup DOMAIN given |->
                                 IF x \in DOMAIN given THEN given[x] ELSE fieldId2slot[x]]
            /\ classId2slots' = Put(classId2slots, id, total)
            /\ classTag2slots' = Put(classTag2slots, f.class, total)
            /\ Return(t, total)
  /\ UNCHANGED <<Tables, classTagged>>

\* handleClassWithoutId, up to the slots of the superclass
WithoutId(t) ==
  /\ Busy(t, "without", "lookup")
  /\ LET f == TopFrame(t)
         super == Super[f.class]
     IN  IF super = NoClass
         THEN Continue(t, [f EXCEPT !.at = "find"], <<>>) /\ UNCHANGED classTagged
         ELSE /\ TagClass(super)
              /\ Continue(t, [f EXCEPT !.at = "find"],
                          <<Frame("slots", super)>> \o TagCalls(super))
  /\ UNCHANGED <<Tables, slots, fieldId2slot, instanced>>

\* ... up to the line for the class
SyntheticClass(t) ==
  /\ Busy(t, "without", "find")
  /\ LET f == TopFrame(t)
         id == nextSyntheticId
     IN  /\ RecordClassInfo(id, f.class)
         /\ Continue(t, [f EXCEPT !.at = "fields", !.superSlots = id, !.rest = Fields[f.class]],
                     <<Send("SynthClassInfo", <<id, f.class>>)>>)
  /\ nextSyntheticId' = nextSyntheticId + 1
  /\ UNCHANGED <<pipes, rewriter, classId2fieldsInfo, slots, fieldId2slot, staticSlots,
                 classTagged, loaded, instanced>>

\* ... and for each field; superSlots holds the number of the class
SyntheticField(t) ==
  /\ Busy(t, "without", "fields")
  /\ LET f == TopFrame(t)
         id == nextSyntheticId
     IN  IF f.rest = <<>>
         THEN /\ Goes(t, Popped(t))
              /\ UNCHANGED <<classId2fieldsInfo, staticSlots, fieldId2slot, nextSyntheticId>>
         ELSE /\ RecordFieldInfo(f.superSlots, Head(f.rest), id,
                                 <<f.class, Head(f.rest)>> \in Static)
              /\ Continue(t, [f EXCEPT !.rest = Tail(@)],
                          <<Send("SynthFieldInfo", <<id, <<f.class, Head(f.rest)>>>>)>>)
              /\ nextSyntheticId' = id + 1
  /\ UNCHANGED <<pipes, rewriter, className2classId, slots, classTagged, loaded, instanced>>

-----------------------------------------------------------------------------
Rewriter == Visit \/ newFieldId \/ WriteClass \/ Synthetic
getSlotsForClass(t) == LookupTag(t) \/ LookupId(t) \/ AssignSlots(t)
handleClassWithoutId(t) == WithoutId(t) \/ SyntheticClass(t) \/ SyntheticField(t)
Works(t) == ReadRecord(t) \/ SendInfo(t) \/ ReadAck(t)
              \/ getSlotsForClass(t) \/ handleClassWithoutId(t)

Next ==
  \/ Rewriter
  \/ \E t \in Threads : Works(t) \/ \E c \in Classes : instrumentClass(t, c) \/ TagObject(t, c)

Fairness == WF_vars(Rewriter) /\ \A t \in Threads : WF_vars(Works(t))
Spec == Init /\ [][Next]_vars /\ Fairness

-----------------------------------------------------------------------------
(* Properties.                                                             *)

\* the updates of code that the VM runs
Running == {u \in code : u[1] \in loaded}
FieldOf(u) == <<Declarer[<<u[2], u[3]>>], u[3]>>
\* those that can be made to an object of class c
UpdatesOf(c) == {u \in Running : FieldOf(u) \notin Static /\ u[2] \in Ancestors[c]}
OfStatics == {u \in Running : FieldOf(u) \in Static}
SlotOf(u) == Get(fieldId2slot, u[4], 0)    \* what operator[] finds

InstanceFields(c) ==
  {d \in Ancestors[c] \X Names :
     d[2] \in NamesOf(d[1]) /\ d \notin Static}

\* Updates of one field go to one slot, whatever class the code names as its owner.
OneSlotPerField ==
  \A c \in instanced : \A u, v \in UpdatesOf(c) \cup OfStatics :
    FieldOf(u) = FieldOf(v) => SlotOf(u) = SlotOf(v)

\* The update names the class that declares the field, and the VM told of that class.
NamesDeclarer(u) == u[2] \notin Untold /\ u[3] \in NamesOf(u[2])

\* When an object of a class can be updated, its node has a slot for each of its pointer
\* fields, and the updates that name the class that declares the field find it: the fields
\* of an object never share a slot, and neither do static fields, in whatever order classes
\* were loaded and first used, and whatever other updates name a subclass instead.
SlotsRight ==
  /\ \A c \in instanced \ {Object} :
       /\ Get(classTag2slots, c, 0) >= Cardinality(InstanceFields(c))
       /\ \A u, v \in {w \in UpdatesOf(c) : NamesDeclarer(w)} :
            /\ SlotOf(u) < classTag2slots[c]
            /\ SlotOf(u) = SlotOf(v) <=> FieldOf(u) = FieldOf(v)
  /\ \A u, v \in {w \in OfStatics : w[2] \notin Untold} :
       SlotOf(u) = SlotOf(v) => FieldOf(u) = FieldOf(v)

\* A thread finds in the pipe only what answers it: the records of its class, then the
\* class file; or one acknowledgement.
RepliesMatch ==
  /\ \A t \in Threads :
       /\ Busy(t, "instrument", "lookup") =>
            \A i \in DOMAIN replies : /\ replies[i][1] # "Ack"
                                      /\ replies[i][1] = "InstClassFile" =>
                                           replies[i][2] = TopFrame(t).class /\ i = Len(replies)
       /\ Busy(t, "send", "ack") => replies \in {<<>>, <<<<"Ack", NoClass>>>>}
  /\ lock = NoClass => replies = <<>> /\ requests = <<>>

\* Every class load and every tagging of an object returns: no thread waits for ever for
\* the lock, for the rewriter or in the recursion over superclasses.
TasksEnd == \A t \in Threads : stack[t] # <<>> ~> stack[t] = <<>>

\* Made up numbers are apart from the rewriter's, and frames know their places.
TypeOK ==
  /\ lock \in Threads \cup {NoClass} /\ loaded \subseteq Classes \ Untold
  /\ instanced \subseteq Classes /\ classTagged \subseteq Classes
  /\ DOMAIN classIds \subseteq Classes /\ DOMAIN className2classId \subseteq Classes
  /\ \A c \in DOMAIN className2classId :
       className2classId[c] >= SYNTHETIC_ID_BASE <=> c \in Untold
  /\ lastClassId < SYNTHETIC_ID_BASE /\ lastFieldId < SYNTHETIC_ID_BASE
  /\ \A t \in Threads : \A i \in DOMAIN stack[t] :
       /\ stack[t][i].op \in {"instrument", "send", "slots", "without"}
       /\ stack[t][i].at \in {"lookup", "find", "assign", "fields", "ack"}

====
