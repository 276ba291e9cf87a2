------------------------------ MODULE VMPhases ------------------------------
(***************************************************************************)
(* How the agent comes to know the heap of a VM that already runs, and how *)
(* it takes leave.  cbVMStart lets the hooks be called; cbVMInit tags all  *)
(* objects there are (IterateThroughHeap), then gives each, in the order   *)
(* of the tags, its allocation record, its node and its edges in the       *)
(* shadow heap, puts its own functions into the JNI table, and opens two   *)
(* gates, one in the agent and one in ElephantTracks.java; cbVMDeath       *)
(* closes both.  A hook asks the gate in Java first and then, in the       *)
(* native method, the one of the agent; some natives do not ask, and the   *)
(* JNI functions ask neither.                                              *)
(*                                                                         *)
(* Other threads run all the time: a store is the question at the gates,   *)
(* the agent's work and the store itself.  Two threads do not store into   *)
(* the same place at once, and the VM allocates nothing between its event  *)
(* and the walk over the heap.                                             *)
(*                                                                         *)
(* A class declares at most one static and one instance field that hold a  *)
(* pointer: <<c, c>> is the static field of class c, <<o, c>> the field of *)
(* o that c declares, <<a, i>> an element, i - 1 its index.                *)
(* ObjectTracking has what a hook does in the agent, ClassSlots how fields *)
(* get slots, TracePipeline the end of the trace.                          *)
(***************************************************************************)
EXTENDS Integers, Sequences, FiniteSets, SequencesExt

CONSTANTS
  Threads,
  Classes,       \* the Class objects
  Objects,       \* the other objects
  Null,
  Super, Interfaces, ClassOf,
  Length,        \* of the arrays
  HasField, HasStatic,   \* the classes that declare one
  Told,          \* the classes the load hook was called for
  FirstStatic,   \* the place with static slot 0, or Null if it is none of them
  InitialHeaps,  \* the VM at its start: the classes loaded, the places and what they hold
  MaxOps         \* bound: what the other threads do

ASSUME PhasesAssumption ==
  /\ Null \notin Classes \cup Objects /\ Classes \cap Objects = {}
  /\ Super \in [Classes -> Classes \cup {Null}] /\ Told \subseteq Classes
  /\ Interfaces \in [Classes -> SUBSET Classes] /\ IsFiniteSet(Classes)
  /\ \A o \in Objects \ DOMAIN Length : ClassOf[o] \in Classes
  /\ DOMAIN Length \subseteq Objects /\ HasStatic \subseteq Classes /\ MaxOps \in Nat

ONLOAD == 0
START == 1
LIVE == 2
DEAD == 3

Arrays == DOMAIN Length

\* c and its superclasses: the classes in every set that has c and, with a class, its
\* superclass
Chain == [c \in Classes |->
  {d \in Classes : \A S \in SUBSET Classes :
     c \in S /\ (\A b \in S : Super[b] \in S \cup {Null}) => d \in S}]
Elements(a) == {<<a, i>> : i \in 1 .. Length[a]}
FieldsOf(o) == {<<o, c>> : c \in Chain[ClassOf[o]] \cap HasField}
Places == {<<c, c>> : c \in HasStatic}
          \cup UNION {IF o \in Arrays THEN Elements(o) ELSE FieldsOf(o) : o \in Objects}
IsStatic(p) == p[1] \in Classes

\* At the start there is a class or object for every place, and for what places hold.
ASSUME HeapsAssumption ==
  /\ Null \notin Places
  /\ FirstStatic \in {p \in Places : IsStatic(p)} \cup {Null}
  /\ \A init \in InitialHeaps :
       /\ init.loaded \subseteq Classes /\ DOMAIN init.heap \subseteq Places
       /\ \A p \in DOMAIN init.heap :
            init.heap[p] \in init.loaded \cup {q[1] : q \in DOMAIN init.heap} \cup {Null}

VARIABLES
  engageCallbacks,   \* the option
  vmInitialized,     \* the gate in the agent
  engaged,           \* the gate in ElephantTracks.java
  jniTable,          \* whether the JNI functions are the agent's
  callbacks,         \* whether VMObjectAlloc is sent to the agent
  main,              \* where the thread that starts and ends the VM is
  exists, heap, prepared,        \* the VM: objects, pointers, prepared classes
  tagged,            \* the objects with a tag
  className2classId, \* per class: no entry, its id, or 0
  todo,              \* the initial objects not handled yet
  toScan,            \* the queue of scanStaticsOf
  toRead,            \* the fields or elements of the object or class at hand
  staticsScanned,
  shadow,            \* the shadow heap
  allocations,       \* how many allocation records an object has
  fatal,             \* fatal_error or an assertion ended the process
  op,                \* what each other thread is at
  ops,
  gap, astray, born  \* history: places stored into with no hook to be had; places that
                     \* the hook of another's store wrote, or whose own wrote another;
                     \* objects made in the course of the scan

gates == <<vmInitialized, engaged, jniTable, callbacks>>
vm == <<exists, heap, prepared>>
scan == <<todo, toScan, toRead, staticsScanned, fatal>>
agent == <<tagged, className2classId, shadow, allocations>>
vars == <<engageCallbacks, gates, main, vm, scan, agent, op, ops, gap, astray, born>>

Idle == [at |-> "idle", via |-> "none", place |-> Null, value |-> Null, told |-> "yes"]

Init ==
  /\ engageCallbacks \in BOOLEAN
  /\ vmInitialized = ONLOAD /\ engaged = ONLOAD /\ jniTable = FALSE
  /\ callbacks = engageCallbacks /\ main = "onload"
  /\ \E init \in InitialHeaps :
       LET at == {p[1] : p \in DOMAIN init.heap}
       IN  /\ heap = [p \in Places |-> IF p \in DOMAIN init.heap THEN init.heap[p] ELSE Null]
           /\ exists = init.loaded \cup at
           /\ prepared = UNION {Chain[IF o \in Classes THEN o ELSE ClassOf[o]] :
                                   o \in at \ Arrays}
  /\ tagged = {}
  /\ className2classId = [c \in Classes |-> IF c \in Told THEN "id" ELSE "none"]
  /\ todo = {} /\ toScan = <<>> /\ toRead = {} /\ staticsScanned = {}
  /\ shadow = [p \in Places |-> Null]
  /\ allocations = [o \in Classes \cup Objects |-> 0]
  /\ fatal = FALSE
  /\ op = [t \in Threads |-> Idle] /\ ops = 0 /\ gap = {}
  /\ astray = {} /\ born = {}

-----------------------------------------------------------------------------
(* What the agent does with an object or a field.                          *)

\* The agent needs the entries of the classes of os to give them nodes: getSlotsForClass
\* gives a class without an entry a synthetic id, and so its superclasses.
Scalars(os) == os \ (Arrays \cup Classes)
Classified(ids, os) ==
  [d \in Classes |-> IF ids[d] = "none" /\ \E o \in Scalars(os) : d \in Chain[ClassOf[o]]
                     THEN "id" ELSE ids[d]]

\* tag those of the objects, each with an allocation record and a node
Tag(new) ==
  /\ tagged' = tagged \cup new
  /\ allocations' = [o \in DOMAIN allocations |->
                       allocations[o] + IF o \in new THEN 1 ELSE 0]
  /\ className2classId' = Classified(className2classId, new)

\* nativeNewObj, getTagAndTagIfNeeded: the ones without a tag
TagIfNeeded_Fault(os) == Tag(os \ {Null})
TagIfNeeded(os) == Tag(os \ (tagged \cup {Null}))

updateHeapAt(p, x) == shadow' = IF p = Null THEN shadow ELSE [shadow EXCEPT ![p] = x]

-----------------------------------------------------------------------------
(* The phases of the VM.                                                   *)

GoesTo(step) == main' = step

VMStart ==
  /\ main = "onload" /\ GoesTo("start")
  /\ engaged' = IF engageCallbacks THEN START ELSE engaged
  /\ UNCHANGED <<engageCallbacks, vmInitialized, jniTable, callbacks, vm, scan, agent, op,
                 ops, gap, astray, born>>

\* IterateThroughHeap and GetObjectsWithTags.  The walk takes the objects in any order,
\* and their tags, in which they are handled, follow it.
TagHeap ==
  /\ main = "start" /\ engageCallbacks /\ GoesTo("scan")
  /\ todo' = exists \ tagged /\ tagged' = exists
  /\ UNCHANGED <<engageCallbacks, gates, vm, toScan, toRead, staticsScanned, fatal,
                 className2classId, shadow, allocations, op, ops, gap, astray, born>>

NoScan ==
  /\ main = "start" /\ ~engageCallbacks /\ GoesTo("scanned")
  /\ UNCHANGED <<engageCallbacks, gates, vm, scan, agent, op, ops, gap, astray, born>>

Scanning == main = "scan"
NextObject(o) == Scanning /\ toRead = {} /\ toScan = <<>> /\ o \in todo
Allocated(o) == allocations' = [allocations EXCEPT ![o] = @ + 1]

ScanArray(a) ==
  /\ NextObject(a) /\ a \in Arrays
  /\ Allocated(a) /\ toRead' = Elements(a) /\ todo' = todo \ {a}
  /\ UNCHANGED <<engageCallbacks, gates, main, vm, toScan, staticsScanned, fatal, tagged,
                 className2classId, shadow, op, ops, gap, astray, born>>

ScanClassObject(c) ==
  /\ NextObject(c) /\ c \in Classes \ staticsScanned
  /\ staticsScanned' = staticsScanned \cup {c} /\ toScan' = <<c>>
  /\ UNCHANGED <<engageCallbacks, gates, main, vm, todo, toRead, fatal, agent, op, ops, gap,
                 astray, born>>

\* getSlotsForClass, then every field whose name is in the table of the class that
\* declares it
Known(ids, c) == ids[c] = "id"
InstanceFields_Fault(ids, o) == {p \in FieldsOf(o) : p[2] = ClassOf[o] /\ Known(ids, p[2])}
InstanceFields(ids, o) == {p \in FieldsOf(o) : Known(ids, p[2])}

ScanScalar(o) ==
  /\ NextObject(o) /\ o \notin Arrays /\ (o \in Classes => o \in staticsScanned)
  /\ Allocated(o)
  /\ className2classId' = Classified(className2classId, {o})
  /\ toRead' = IF o \in Classes THEN {} ELSE InstanceFields(className2classId', o)
  /\ todo' = todo \ {o}
  /\ UNCHANGED <<engageCallbacks, gates, main, vm, toScan, staticsScanned, fatal, tagged,
                 shadow, op, ops, gap, astray, born>>

\* scanStaticsOf takes a class from the queue: superclass and interfaces go on it.  A
\* class that is not prepared has its superclass pushed and no more.  className2classId[]
\* makes an entry, id 0, for a class that has none.
Pushes(c) == (IF Super[c] = Null THEN {} ELSE {Super[c]})
             \cup IF c \in prepared THEN Interfaces[c] ELSE {}

NowScanned_Fault(c) == staticsScanned
NowScanned(c) == staticsScanned \cup Pushes(c)

scanStaticsOf ==
  /\ Scanning /\ toRead = {} /\ toScan # <<>>
  /\ LET c == Head(toScan)
     IN  /\ staticsScanned' = NowScanned(c)
         /\ toScan' = Tail(toScan) \o SetToSeq(Pushes(c) \ staticsScanned)
         /\ className2classId' =
              IF c \in prepared /\ className2classId[c] = "none"
              THEN [className2classId EXCEPT ![c] = "zero"] ELSE className2classId
         /\ toRead' = {p \in {<<c, c>>} \cap Places :
                         c \in prepared /\ Known(className2classId', c)}
  /\ UNCHANGED <<engageCallbacks, gates, main, vm, todo, fatal, tagged, shadow,
                 allocations, op, ops, gap, astray, born>>

\* getTag of what a field holds ends the process if there is no tag; scanStaticsOf asks
\* for the tag itself and takes 0 for null
Untagged(p) == heap[p] \notin tagged \cup {Null}

ReadField ==
  /\ Scanning
  /\ \E p \in toRead :
       /\ toRead' = toRead \ {p}
       /\ fatal' = (Untagged(p) /\ ~IsStatic(p))
       /\ updateHeapAt(p, IF Untagged(p) THEN Null ELSE heap[p])
       /\ gap' = IF Untagged(p) THEN gap ELSE gap \ {p}
  /\ UNCHANGED <<engageCallbacks, gates, main, vm, todo, toScan, staticsScanned, tagged,
                 className2classId, allocations, op, ops, astray, born>>

ScanEnds ==
  /\ Scanning /\ toRead = {} /\ toScan = <<>> /\ todo = {} /\ GoesTo("scanned")
  /\ UNCHANGED <<engageCallbacks, gates, vm, scan, agent, op, ops, gap, astray, born>>

\* incTime, the JNI table, the output thread and the cleaner
VMInit ==
  /\ main = "scanned" /\ GoesTo("ready")
  /\ jniTable' = engageCallbacks
  /\ UNCHANGED <<engageCallbacks, vmInitialized, engaged, callbacks, vm, scan, agent, op,
                 ops, gap, astray, born>>

\* the rest of cbVMInit
OpenGate ==
  /\ main = "ready" /\ GoesTo("open")
  /\ vmInitialized' = LIVE
  /\ UNCHANGED <<engageCallbacks, engaged, jniTable, callbacks, vm, scan, agent, op, ops,
                 gap, astray, born>>

Engage ==
  /\ main = "open" /\ GoesTo("program")
  /\ engaged' = IF engageCallbacks THEN LIVE ELSE engaged
  /\ UNCHANGED <<engageCallbacks, vmInitialized, jniTable, callbacks, vm, scan, agent, op,
                 ops, gap, astray, born>>

\* cbVMDeath: the gate in the agent, the gate in Java, the callbacks; then the last
\* collection and the end of the trace
ShutGate ==
  /\ main = "program" /\ GoesTo("shut") /\ vmInitialized' = DEAD
  /\ UNCHANGED <<engageCallbacks, engaged, jniTable, callbacks, vm, scan, agent, op, ops,
                 gap, astray, born>>

Disengage ==
  /\ main = "shut" /\ GoesTo("disengaged")
  /\ engaged' = IF engageCallbacks THEN DEAD ELSE engaged
  /\ UNCHANGED <<engageCallbacks, vmInitialized, jniTable, callbacks, vm, scan, agent, op,
                 ops, gap, astray, born>>

ClearCallbacks ==
  /\ main = "disengaged" /\ GoesTo("ended") /\ callbacks' = FALSE
  /\ UNCHANGED <<engageCallbacks, vmInitialized, engaged, jniTable, vm, scan, agent, op,
                 ops, gap, astray, born>>

handleInitialObject == \E o \in todo : ScanArray(o) \/ ScanClassObject(o) \/ ScanScalar(o)

Main == \/ VMStart \/ TagHeap \/ NoScan \/ handleInitialObject \/ scanStaticsOf \/ ReadField
        \/ ScanEnds \/ VMInit \/ OpenGate \/ Engage
        \/ ShutGate \/ Disengage \/ ClearCallbacks

-----------------------------------------------------------------------------
(* The other threads.                                                      *)

OthersStay == UNCHANGED <<engageCallbacks, gates, main, todo, toScan, toRead, staticsScanned>>
ThreadStep == OthersStay /\ UNCHANGED <<fatal, astray>>
Ready(t) == op[t] = Idle /\ ops < MaxOps
Begins(t, o) == op' = [op EXCEPT ![t] = o] /\ ops' = ops + 1

\* the natives that ask the gate of the agent, those that ask it for LIVE or later, and
\* those that do not ask; "inherited" asks it, and names a field through a subclass of the
\* class that declares it
Gates == {"gated", "exception", "ungated"}
Admits(via) == CASE via \in {"gated", "inherited"} -> vmInitialized = LIVE
                 [] via = "exception"             -> vmInitialized >= LIVE
                 [] OTHER                         -> TRUE

\* if (engaged == PHASE_LIVE) ...
engagedInJava == engaged = LIVE
\* The program cannot have a hook before VMInit is over, or once VMDeath has begun.
Excuse == IF main = "program" THEN "no" ELSE "excused"

\* an object no thread is just making
Values == {o \in exists \cap Objects : \A t \in Threads : op[t].value # o}

\* A hook that passes on an object it has as an argument and stores nothing.
Use(t, o, via) ==
  /\ ThreadStep /\ engagedInJava
  /\ Begins(t, [at |-> "native", via |-> via, place |-> Null, value |-> o, told |-> "yes"])
  /\ UNCHANGED <<vm, agent, gap, born>>

Free(p) == \A t \in Threads : op[t].place # p
Storable(p) == /\ p[1] \in exists /\ Free(p)
               /\ IsStatic(p) => p[1] \in prepared

\* a putfield, putstatic or aastore of instrumented code
JavaStore(t, p, x, via) ==
  /\ ThreadStep
  /\ Begins(t, [at |-> IF engagedInJava THEN "native" ELSE "store", via |-> via,
                place |-> p, value |-> x,
                told |-> IF engagedInJava THEN "yes" ELSE Excuse])
  /\ UNCHANGED <<vm, agent, gap, born>>

NamedBelow(p) == p[1] \notin Arrays /\
  \E d \in (IF IsStatic(p) THEN Classes ELSE Chain[ClassOf[p[1]]]) \ {p[2]} : p[2] \in Chain[d]

\* SetObjectField, SetStaticObjectField: the hook, then the store.  SetObjectArrayElement:
\* the store, then the hook.
JniStore(t, p, x) ==
  /\ ThreadStep
  /\ Begins(t, [at |-> IF jniTable /\ p[1] \notin Arrays THEN "native" ELSE "store",
                via |-> "jni", place |-> p, value |-> x,
                told |-> IF ~jniTable THEN Excuse
                         ELSE IF p[1] \in Arrays THEN "later" ELSE "yes"])
  /\ UNCHANGED <<vm, agent, gap, born>>

Made(o) == /\ exists' = exists \cup {o} /\ UNCHANGED <<heap, prepared>>
           /\ born' = IF main = "scan" THEN born \cup {o} ELSE born

Makeable(o) == o \in Objects \ exists /\ (o \in Arrays \/ ClassOf[o] \in exists)

\* a new of instrumented code, up to its hook
NewObj(t, o) ==
  /\ ThreadStep /\ Makeable(o)
  /\ Begins(t, IF engagedInJava THEN [at |-> "native", via |-> "ungated", place |-> Null,
                                      value |-> o, told |-> "yes"]
               ELSE Idle)
  /\ Made(o)
  /\ UNCHANGED <<agent, gap>>

\* an object the VM makes: nativeNewObj in the callback, before anyone sees the object
VMAlloc(t, o) ==
  /\ ThreadStep /\ Makeable(o)
  /\ callbacks /\ main \notin {"onload", "start"}
  /\ ops' = ops + 1 /\ op' = op
  /\ exists' = exists \cup {o}
  /\ TagIfNeeded({o} \cup IF o \in Arrays THEN {} ELSE {ClassOf[o]})
  /\ UNCHANGED <<heap, prepared, shadow, gap, born>>

\* The place whose slot the hook of a store into p writes, Null for none of them.  JNI's
\* for a static field passes a negative number, which is in no table: slot 0.  JNI's for an
\* element takes the index for the number of a field.  The number that code has for a
\* field of a class that was not told of, or named through a subclass, may have no slot,
\* which makes it slot 0 of the object, or another than the one the scan knows.
Hits(via, p) ==
  CASE via = "jni" /\ IsStatic(p) -> {FirstStatic}
    [] via = "jni" /\ p[1] \in Arrays -> IF p[2] = 1 THEN {p} ELSE Elements(p[1]) \cup {Null}
    [] via # "jni" /\ p[1] \notin Arrays /\ (via = "inherited" \/ p[2] \notin Told) ->
         {p, Null} \cup IF IsStatic(p) THEN {} ELSE FieldsOf(p[1])
    [] OTHER -> {p}

\* whether JNIPointerUpdated finds the number of the field
FieldFound(p) == IF p[1] \in Arrays THEN TRUE
                 ELSE Known(Classified(className2classId, {p[1]}), p[2])

\* what the hook of a store into p passes on, besides the value
Named(via, p) == IF ~IsStatic(p) THEN {p[1]} ELSE IF via = "jni" THEN {p[1]} ELSE {}

Strays(p, q) == IF q = p THEN astray \ {p} ELSE astray \cup ({p, q} \ {Null})

\* the native method of a store: the agent tags what it gets and notes the edge
NativeStore(t) ==
  /\ OthersStay /\ op[t].at = "native" /\ op[t].place # Null
  /\ Admits(op[t].via) /\ (op[t].via = "jni" => FieldFound(op[t].place))
  /\ LET p == op[t].place
     IN  /\ TagIfNeeded({op[t].value} \cup Named(op[t].via, p))
         /\ \E q \in Hits(op[t].via, p) : updateHeapAt(q, op[t].value) /\ astray' = Strays(p, q)
         /\ op' = [op EXCEPT ![t] = IF op[t].told = "later" THEN Idle
                                    ELSE [@ EXCEPT !.at = "store"]]
         /\ gap' = IF op[t].told = "later" THEN gap \ {p} ELSE gap
  /\ UNCHANGED <<fatal, vm, ops, born>>

\* assert(fid != -1): no number was found.  The first number of all is 1: if it is that of
\* a static field, its negative looks the same.
Assertion(t) ==
  /\ OthersStay /\ op[t].at = "native" /\ op[t].via = "jni"
  /\ ~FieldFound(op[t].place) \/ op[t].place = FirstStatic
  /\ fatal' = TRUE
  /\ UNCHANGED <<vm, agent, op, ops, gap, astray, born>>

\* the native method of a use
NativeUse(t) ==
  /\ ThreadStep /\ op[t].at = "native" /\ op[t].place = Null /\ Admits(op[t].via)
  /\ TagIfNeeded({op[t].value})
  /\ op' = [op EXCEPT ![t] = Idle]
  /\ UNCHANGED <<vm, shadow, ops, gap, born>>

\* a native method that the gate turns away
TurnedAway(t) ==
  /\ ThreadStep /\ op[t].at = "native" /\ ~Admits(op[t].via)
  /\ op' = [op EXCEPT ![t] = IF op[t].place = Null THEN Idle
                             ELSE [@ EXCEPT !.at = "store", !.told = Excuse]]
  /\ UNCHANGED <<vm, agent, ops, gap, born>>

Native(t) == NativeStore(t) \/ Assertion(t) \/ NativeUse(t) \/ TurnedAway(t)

\* the instruction itself, or the JNI function, and the hook that comes after it
Store(t) ==
  /\ ThreadStep /\ op[t].at = "store"
  /\ heap' = [heap EXCEPT ![op[t].place] = op[t].value]
  /\ gap' = CASE op[t].told = "excused" -> gap \cup {op[t].place}
              [] op[t].told = "later"   -> gap
              [] OTHER                  -> gap \ {op[t].place}
  /\ op' = [op EXCEPT ![t] = IF op[t].told = "later" THEN [@ EXCEPT !.at = "native"] ELSE Idle]
  /\ UNCHANGED <<exists, prepared, agent, ops, born>>

\* the VM prepares a class; its static fields are null until then
Prepare(t, c) ==
  /\ ThreadStep
  /\ ops' = ops + 1 /\ op' = op
  /\ prepared' = prepared \cup {c}
  /\ UNCHANGED <<exists, heap, agent, gap, born>>

Begin(t) ==
  \/ \E o \in Objects : NewObj(t, o) \/ VMAlloc(t, o)
  \/ \E o \in Values, via \in Gates : Use(t, o, via)
  \/ \E p \in {q \in Places : Storable(q)}, x \in Values \cup {Null} :
       \/ JniStore(t, p, x)
       \/ \E via \in {"gated", "ungated"} : JavaStore(t, p, x, via)
       \/ NamedBelow(p) /\ JavaStore(t, p, x, "inherited")
  \/ \E c \in (Classes \cap exists) \ prepared : Prepare(t, c)

Thread(t) == \/ Ready(t) /\ Begin(t)
             \/ Native(t)
             \/ Store(t)

Next == ~fatal /\ (Main \/ \E t \in Threads : Thread(t))
Spec == Init /\ [][Next]_vars

-----------------------------------------------------------------------------
(* Properties.                                                             *)

(* The variables stay in their types.                                      *)
TypeOK ==
  /\ engageCallbacks \in BOOLEAN /\ {vmInitialized, engaged} \subseteq ONLOAD .. DEAD
  /\ exists \subseteq Classes \cup Objects /\ prepared \subseteq Classes
  /\ \A p \in Places : {heap[p], shadow[p]} \subseteq exists \cup {Null}
  /\ tagged \subseteq exists /\ todo \subseteq tagged /\ Range(toScan) \subseteq staticsScanned
  /\ toRead \cup gap \cup astray \subseteq Places /\ born \subseteq exists

\* A class whose static fields the scan came to before the agent had an entry for it has
\* id 0 ever after, and what its objects and it refer to is lost.
Tracked(p) == IF IsStatic(p) THEN className2classId[p[1]] # "zero"
              ELSE p[1] \in Arrays \/ \A c \in Chain[ClassOf[p[1]]] :
                                        className2classId[c] # "zero"

(* From the moment the gate of the agent opens, the shadow heap has the    *)
(* pointers of the heap: the scan found all there were, between the scan   *)
(* and the hooks, and between the two gates, only those stores are lost    *)
(* that other threads made before cbVMInit was over or after cbVMDeath had *)
(* begun, and one hook never spoils what another told, or the scan found   *)
(* (handleInitialObject, scanStaticsOf, cbVMInit).  Excepted is a place    *)
(* whose hook wrote the slot of another, until a hook of its own writes    *)
(* the right one, and that other: a static field or an element of index 1  *)
(* or more that JNI stores into, and a field of a class that was not told  *)
(* of, or named through a subclass (JNIPointerUpdated).                    *)
ShadowRight ==
  engageCallbacks /\ vmInitialized >= LIVE =>
    \A p \in Places : Free(p) /\ p \notin gap \cup astray /\ Tracked(p) => shadow[p] = heap[p]

(* An object has one allocation record, whoever finds it first, the scan   *)
(* or a hook; the scan finds a tag on every object that it meets, unless   *)
(* another thread made one in the course of the scan, so that it need not  *)
(* end the process; and with                                               *)
(* engageCallbacks off no object is ever told of.                          *)
TracedOnce ==
  /\ \A o \in DOMAIN allocations : allocations[o] <= 1
  /\ main \notin {"onload", "start", "scan"} =>
       \A o \in DOMAIN allocations : allocations[o] = 1 <=> o \in tagged
  /\ fatal /\ main = "scan" => born # {}
  /\ ~engageCallbacks => tagged = {}
=============================================================================
