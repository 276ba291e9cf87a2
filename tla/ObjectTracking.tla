--------------------------- MODULE ObjectTracking ---------------------------
(***************************************************************************)
(* The life of an object in the agent, over several collections and with   *)
(* several threads: ETCallBackHandler gives it a tag, records its          *)
(* allocation, stamps the tag in tagTimeMap and gives it a node in the     *)
(* shadow heap; the hooks of the traced program stamp it again and keep    *)
(* the edges of the shadow heap; fakeAGC walks the real heap, reports      *)
(* every stamped tag it did not see as dead, and forgets it.               *)
(*                                                                         *)
(* The traced program is the environment.  It makes objects, reads and     *)
(* drops references, and calls a hook before (or, for an array element set *)
(* through JNI, after) each of its stores.  An object has one slot, so an  *)
(* update cannot hit a wrong one (a JNI array store passes its index on as *)
(* a field number, which is right for index 0 only).  Two threads do not   *)
(* update the same slot at the same time, and no store throws.  Thread and *)
(* class objects, which the hooks tag in the same way, are left out, and   *)
(* so is the clock: DeathTimes has the times, and here the dead objects    *)
(* are searched in any order.                                              *)
(*                                                                         *)
(* The record buffer is what TraceBuffer shows it to be: an add that finds *)
(* it full starts a collection, and no add returns before its end.         *)
(*                                                                         *)
(* A definition Name_Fault is Name with a plausible bug.  No specification *)
(* uses it: it stands there to show which property notices the bug.        *)
(***************************************************************************)
EXTENDS Integers, FiniteSets, Sequences

CONSTANTS
  Threads,
  Objects,     \* the objects of the traced program
  Arrays,      \* those that are arrays of references
  Shared,      \* the one all threads can reach from the start: it never dies
  Null,
  MaxTag,      \* bound: the tags that are given out
  Programs,    \* bound: how many hooks of each kind each thread calls
  maxRecords   \* the bufferSize option

Tags == 1 .. MaxTag
Kinds == {"use", "new", "update", "arrayStore", "jniStore"}

ASSUME TrackingAssumption ==
  /\ Shared \in Objects /\ Arrays \subseteq Objects
  /\ Null \notin Objects
  /\ MaxTag \in Nat /\ Programs \subseteq [Threads -> [Kinds -> Nat]]
  /\ maxRecords \in Nat \ {0}

VARIABLES
  field,      \* what the slot of each object refers to
  held,       \* the object each thread has a reference to, besides Shared
  made,       \* the objects that exist or existed
  owed,       \* the object a thread made and has not told the agent about
  collected,  \* what the last ForceGarbageCollection left without memory
  tag,        \* the tag JVMTI keeps for each object, 0 for none
  nextTag,
  keys,       \* the keys of tagTimeMap
  nodes,      \* the keys of edgeMap
  edge,       \* the slot of each node: the tag it refers to, or 0
  room,       \* how many records the buffer still takes
  nullList,   \* HashGraph::neighbors' static list: the edges of the last node it found
  liveObjects, deadSet,
  gc,         \* where fakeAGC is
  op,         \* the hook each thread is in, with its local variables
  pc,
  hooks,      \* how many hooks of each kind each thread has still to call
  allocations, deaths,   \* history: the records of each tag
  contested,  \* history: tags that two threads, or a thread and a collection, raced for
  revived     \* history: tags that an outdated nullList put back into tagTimeMap

heapVars  == <<field, held, made, owed, collected>>
tagVars   == <<tag, nextTag>>
shadow    == <<nodes, edge>>
gcVars    == <<liveObjects, deadSet, gc, collected>>
history   == <<allocations, deaths, contested>>
search    == <<nullList, revived>>
vars == <<heapVars, tagVars, keys, shadow, room, liveObjects, deadSet, gc, op, pc,
          hooks, history, search>>

NoOp == [kind |-> "none", origin |-> Null, target |-> Null, untagged |-> <<>>,
         old |-> 0, isNew |-> FALSE]

Init ==
  /\ field = [o \in Objects |-> Null]
  /\ held = [t \in Threads |-> Null]
  /\ made = {Shared} /\ owed = [t \in Threads |-> Null] /\ collected = {}
  /\ tag = [o \in Objects |-> 0] /\ nextTag = 1
  /\ keys = {} /\ nodes = {} /\ edge = [x \in Tags |-> 0]
  /\ room = maxRecords /\ nullList = {} /\ revived = {}
  /\ liveObjects = {} /\ deadSet = {} /\ gc = "idle"
  /\ op = [t \in Threads |-> NoOp] /\ pc = [t \in Threads |-> "idle"]
  /\ hooks \in Programs
  /\ allocations = [x \in Tags |-> 0] /\ deaths = [x \in Tags |-> 0]
  /\ contested = {}

TagOf(o) == IF o = Null THEN 0 ELSE tag[o]
Goto(t, label) == pc' = [pc EXCEPT ![t] = label]

-----------------------------------------------------------------------------
(* The traced program.                                                     *)

Usable(t) == {held[t], Shared} \ {Null}

\* JNI's NewObject makes objects no hook is called for (owes = FALSE).
Make(t, o, owes) ==
  /\ pc[t] = "idle" /\ owed[t] = Null
  /\ o \notin made /\ \E kind \in Kinds : hooks[t][kind] > 0
  /\ owes => hooks[t]["new"] > 0
  /\ made' = made \cup {o}
  /\ held' = [held EXCEPT ![t] = o]
  /\ owed' = [owed EXCEPT ![t] = IF owes THEN o ELSE Null]
  /\ UNCHANGED <<field, collected, tagVars, keys, shadow, room, liveObjects, deadSet, gc,
                 op, pc, hooks, history, search>>

\* Read a slot, or (x = Null) drop the reference.
Read(t, x) ==
  /\ pc[t] = "idle" /\ owed[t] = Null
  /\ x # held[t]
  /\ x \in {field[o] : o \in Usable(t)} \cup {Null}
  /\ held' = [held EXCEPT ![t] = x]
  /\ UNCHANGED <<field, made, owed, collected, tagVars, keys, shadow, room, liveObjects,
                 deadSet, gc, op, pc, hooks, history, search>>

Updating(t, o) == pc[t] # "idle" /\ op[t].kind \notin {"use", "new"} /\ op[t].origin = o

Call(t, kind, origin, target, first) ==
  /\ pc[t] = "idle" /\ hooks[t][kind] > 0
  /\ hooks' = [hooks EXCEPT ![t][kind] = @ - 1]
  /\ op' = [op EXCEPT ![t] = [NoOp EXCEPT !.kind = kind, !.origin = origin,
                                          !.target = target,
                                          !.untagged = IF target = Null THEN <<origin>>
                                                       ELSE <<origin, target>>]]
  /\ Goto(t, first)
  /\ UNCHANGED <<field, held, made, collected, tagVars, keys, shadow, room, liveObjects,
                 deadSet, gc, history, search>>

\* nativeVarEvent with one object
CallUse(t, o) ==
  /\ o \in Usable(t)
  /\ Call(t, "use", o, Null, "getTag")
  /\ UNCHANGED owed

CallNew(t) ==
  /\ owed[t] # Null
  /\ Call(t, "new", owed[t], Null, "getTag")
  /\ owed' = [owed EXCEPT ![t] = Null]

CallUpdate(t, kind, o, x) ==
  /\ o \in Usable(t) /\ x \in Usable(t) \cup {Null}
  /\ o \in Arrays <=> kind # "update"
  /\ \A u \in Threads : ~Updating(u, o)
  /\ Call(t, kind, o, x, IF kind = "jniStore" THEN "store" ELSE "getTag")
  /\ UNCHANGED owed

-----------------------------------------------------------------------------
(* getTagAndTagIfNeeded and nativeNewObj.                                  *)

Subject(t) == Head(op[t].untagged)

TagsKnown(kind) ==
  CASE kind = "use" -> "stampUse"
    [] kind = "new" -> "stampUse"
    [] kind = "arrayStore" -> "updateEdge"
    [] OTHER -> "stampOrigin"

\* Go on with the next object of the hook, or with what it does with the tags.
NextObject(t) ==
  /\ op' = [op EXCEPT ![t].untagged = Tail(@), ![t].isNew = FALSE]
  /\ Goto(t, IF Len(op[t].untagged) > 1 THEN "getTag" ELSE TagsKnown(op[t].kind))

GetTag(t) ==
  /\ pc[t] = "getTag"
  /\ IF tag[Subject(t)] # 0 THEN NextObject(t) ELSE Goto(t, "tagObject") /\ UNCHANGED op
  /\ UNCHANGED <<heapVars, tagVars, keys, shadow, room, liveObjects, deadSet, gc, hooks,
                 history, search>>

\* nativeNewObj records an allocation even when another thread gave the tag.
Recorded_Always(kind, isNew) == TRUE
Recorded(kind, isNew) == isNew \/ kind = "new"

\* tagObject's critical section under tagLock
NeedsTag_Unchecked(o) == TRUE
NeedsTag(o) == tag[o] = 0

tagObject(t) ==
  LET o == Subject(t)
  IN  /\ pc[t] = "tagObject"
      /\ nextTag \in Tags
      /\ IF NeedsTag(o)
           THEN /\ tag' = [tag EXCEPT ![o] = nextTag]
                /\ nextTag' = nextTag + 1
                /\ contested' = IF gc = "walked" THEN contested \cup {nextTag} ELSE contested
           ELSE /\ UNCHANGED <<tag, nextTag>>
                /\ contested' = IF op[t].kind = "new" THEN contested \cup {tag[o]} ELSE contested
      /\ IF Recorded(op[t].kind, NeedsTag(o))
           THEN op' = [op EXCEPT ![t].isNew = NeedsTag(o)] /\ Goto(t, "allocate")
           ELSE NextObject(t)
      /\ UNCHANGED <<heapVars, keys, shadow, room, liveObjects, deadSet, gc, hooks,
                     allocations, deaths, search>>

AfterAllocation_NotStamped(kind) == "addNode"
AfterAllocation(kind) == IF kind = "new" THEN "addNode" ELSE "stampNew"

\* doAllocation
Allocate(t) ==
  /\ pc[t] = "allocate" /\ room > 0
  /\ room' = room - 1
  /\ allocations' = [allocations EXCEPT ![tag[Subject(t)]] = @ + 1]
  /\ IF op[t].isNew
       THEN Goto(t, AfterAllocation(op[t].kind)) /\ UNCHANGED op
       ELSE NextObject(t)
  /\ UNCHANGED <<heapVars, tagVars, keys, shadow, liveObjects, deadSet, gc, hooks, deaths,
                 contested, search>>

timeStampTag(x) == keys' = IF x = 0 THEN keys ELSE keys \cup {x}

StampNew(t) ==
  /\ pc[t] = "stampNew"
  /\ timeStampTag(tag[Subject(t)])
  /\ Goto(t, "addNode")
  /\ UNCHANGED <<heapVars, tagVars, shadow, room, liveObjects, deadSet, gc, op, hooks, history,
                 search>>

\* HashGraph::addNode inserts: a node another thread's update has made is kept.
addNode_Overwrites(x) == nodes' = nodes \cup {x} /\ edge' = [edge EXCEPT ![x] = 0]
addNode(x) ==
  /\ nodes' = nodes \cup {x}
  /\ edge' = IF x \in nodes THEN edge ELSE [edge EXCEPT ![x] = 0]

addObjectToHeap(t) ==
  /\ pc[t] = "addNode"
  /\ addNode(tag[Subject(t)])
  /\ NextObject(t)
  /\ UNCHANGED <<heapVars, tagVars, keys, room, liveObjects, deadSet, gc, hooks, history, search>>

-----------------------------------------------------------------------------
(* What the hooks do with the tags.                                        *)

Return(t) ==
  /\ Goto(t, "idle")
  /\ op' = [op EXCEPT ![t] = NoOp]

StampUse(t) ==
  /\ pc[t] = "stampUse"
  /\ timeStampTag(tag[op[t].origin])
  /\ IF op[t].kind = "new" THEN Return(t) ELSE Goto(t, "recordUse") /\ UNCHANGED op
  /\ UNCHANGED <<heapVars, tagVars, shadow, room, liveObjects, deadSet, gc, hooks, history, search>>

RecordUse(t) ==
  /\ pc[t] = "recordUse" /\ room > 0
  /\ room' = room - 1
  /\ Return(t)
  /\ UNCHANGED <<heapVars, tagVars, keys, shadow, liveObjects, deadSet, gc, hooks, history, search>>

StampOrigin(t) ==
  /\ pc[t] = "stampOrigin"
  /\ timeStampTag(tag[op[t].origin])
  /\ Goto(t, "updateEdge")
  /\ UNCHANGED <<heapVars, tagVars, shadow, room, liveObjects, deadSet, gc, op, hooks, history,
                 search>>

\* HashGraph::updateEdge makes the node if it is not there.
updateEdge(t) ==
  LET x == tag[op[t].origin]
  IN  /\ pc[t] = "updateEdge"
      /\ nodes' = nodes \cup {x}
      /\ edge' = [edge EXCEPT ![x] = TagOf(op[t].target)]
      /\ op' = [op EXCEPT ![t].old = IF x \in nodes THEN edge[x] ELSE 0]
      /\ Goto(t, "stampOld")
      /\ UNCHANGED <<heapVars, tagVars, keys, room, liveObjects, deadSet, gc, hooks, history, search>>

\* updateHeapAtAndStamp stamps the old target, and pointerSlotUpdated once more.
StampOld(t) ==
  /\ pc[t] \in {"stampOld", "stampOldAgain"}
  /\ timeStampTag(op[t].old)
  /\ Goto(t, IF pc[t] = "stampOld" /\ op[t].kind # "arrayStore"
               THEN "stampOldAgain" ELSE "recordUpdate")
  /\ UNCHANGED <<heapVars, tagVars, shadow, room, liveObjects, deadSet, gc, op, hooks, history,
                 search>>

RecordUpdate(t) ==
  /\ pc[t] = "recordUpdate" /\ room > 0
  /\ room' = room - 1
  /\ IF op[t].kind = "jniStore" THEN Return(t) ELSE Goto(t, "store") /\ UNCHANGED op
  /\ UNCHANGED <<heapVars, tagVars, keys, shadow, liveObjects, deadSet, gc, hooks, history, search>>

\* The program's own store.  After a JNI store nothing keeps the old target
\* alive until the hook stamps it.
Store(t) ==
  LET o == op[t].origin
  IN  /\ pc[t] = "store"
      /\ field' = [field EXCEPT ![o] = op[t].target]
      /\ IF op[t].kind = "jniStore"
           THEN Goto(t, "getTag") /\ UNCHANGED op
           ELSE Return(t)
      /\ contested' = IF op[t].kind = "jniStore" THEN contested \cup {TagOf(field[o])}
                                                 ELSE contested
      /\ UNCHANGED <<held, made, owed, collected, tagVars, keys, shadow, room, liveObjects,
                     deadSet, gc, hooks, allocations, deaths, search>>

-----------------------------------------------------------------------------
(* fakeAGC and shadowGCEnd, run by the thread whose record found the       *)
(* buffer full, under deadSetLock and heapLock, which no hook takes.       *)

Roots == ({Shared} \cup {held[t] : t \in Threads}) \ {Null}

\* The objects in every set of objects that has the roots and is closed under the slots.
Reachable ==
  {o \in Objects : \A S \in SUBSET Objects :
     (Roots \subseteq S /\ \A p \in S : field[p] \in S \cup {Null}) => o \in S}

BufferIsFull ==
  room = 0 /\ \E t \in Threads : pc[t] \in {"allocate", "recordUse", "recordUpdate"}

ForceGarbageCollection ==
  /\ gc = "idle" /\ BufferIsFull
  /\ collected' = made \ Reachable
  /\ gc' = "forced"
  /\ UNCHANGED <<field, held, made, owed, tagVars, keys, shadow, room, liveObjects, deadSet,
                 op, pc, hooks, history, search>>

\* The callback also sees objects that became unreachable since.
TagsInHeap_Filtered == {}
TagsInHeap == {tag[o] : o \in made \ collected} \ {0}

IterateThroughHeap ==
  /\ gc = "forced"
  /\ liveObjects' = liveObjects \cup TagsInHeap
  /\ gc' = "walked"
  /\ UNCHANGED <<heapVars, tagVars, keys, shadow, room, deadSet, op, pc, hooks, history, search>>

LiveCleared_Kept == liveObjects
LiveCleared == {}

\* ObjectFree of each tag, which passes over 0
ObjectFree_NullToo(xs) == xs
ObjectFree(xs) == xs \ {0}

ScanTagTimeMap ==
  /\ gc = "walked"
  /\ deadSet' = deadSet \cup ObjectFree(keys \ liveObjects)
  /\ liveObjects' = LiveCleared
  /\ gc' = "scanned"
  /\ UNCHANGED <<heapVars, tagVars, keys, shadow, room, op, pc, hooks, history, search>>

\* For a tag without a node, neighbors returns what it found the last time it was
\* asked, by this search or, for the first tag of the search, by an earlier one.
neighbors(x) == IF x \in nodes THEN {edge[x]} ELSE nullList

\* Reading tagTimeMap[neighbor] inserts a neighbor that has no stamp, 0 for a slot
\* that is null among them.
computeObjectDeathTimes ==
  /\ gc = "scanned"
  /\ IF deadSet = {} THEN UNCHANGED <<keys, search>>
     ELSE \E first \in deadSet :
       /\ keys' = keys \cup neighbors(first) \cup {edge[x] : x \in deadSet \cap nodes}
       /\ revived' = IF first \in nodes THEN revived ELSE revived \cup (nullList \ keys)
       /\ IF deadSet \cap nodes = {} THEN UNCHANGED nullList
          ELSE \E last \in deadSet \cap nodes : nullList' = neighbors(last)
  /\ gc' = "timed"
  /\ UNCHANGED <<heapVars, tagVars, shadow, room, liveObjects, deadSet, op, pc, hooks, history>>

Forgotten_OnlyNodes == keys
Forgotten == keys \ deadSet

Report ==
  /\ gc = "timed"
  /\ deaths' = [x \in Tags |-> IF x \in deadSet THEN deaths[x] + 1 ELSE deaths[x]]
  /\ nodes' = nodes \ deadSet
  /\ edge' = [x \in Tags |-> IF x \in deadSet THEN 0 ELSE edge[x]]
  /\ keys' = Forgotten
  /\ deadSet' = {}
  /\ room' = maxRecords
  /\ gc' = "idle"
  /\ UNCHANGED <<heapVars, tagVars, liveObjects, op, pc, hooks, allocations, contested, search>>

fakeAGC == \/ ForceGarbageCollection \/ IterateThroughHeap \/ ScanTagTimeMap
           \/ computeObjectDeathTimes \/ Report

-----------------------------------------------------------------------------
Program(t) ==
  \/ \E o \in Objects : \E owes \in BOOLEAN : Make(t, o, owes)
  \/ \E x \in Objects \cup {Null} : Read(t, x)
  \/ \E o \in Objects : CallUse(t, o)
  \/ CallNew(t)
  \/ \E kind \in {"update", "arrayStore", "jniStore"} :
       \E o \in Objects : \E x \in Objects \cup {Null} : CallUpdate(t, kind, o, x)
  \/ Store(t)

Hook(t) ==
  \/ GetTag(t) \/ tagObject(t) \/ Allocate(t) \/ StampNew(t) \/ addObjectToHeap(t)
  \/ StampUse(t) \/ RecordUse(t)
  \/ StampOrigin(t) \/ updateEdge(t) \/ StampOld(t) \/ RecordUpdate(t)

Next == (\E t \in Threads : Program(t) \/ Hook(t)) \/ fakeAGC

Spec == Init /\ [][Next]_vars

-----------------------------------------------------------------------------
Labels == {"idle", "getTag", "tagObject", "allocate", "stampNew", "addNode", "stampUse",
           "recordUse", "stampOrigin", "updateEdge", "stampOld", "stampOldAgain",
           "recordUpdate", "store"}

Ops == [kind : Kinds \cup {"none"}, origin : Objects \cup {Null}, target : Objects \cup {Null},
        untagged : Seq(Objects), old : Tags \cup {0}, isNew : BOOLEAN]

\* The types of the agent's and the program's state.
TypeOK ==
  /\ field \in [Objects -> Objects \cup {Null}]
  /\ held \in [Threads -> Objects \cup {Null}]
  /\ made \subseteq Objects /\ collected \subseteq Objects
  /\ owed \in [Threads -> Objects \cup {Null}]
  /\ tag \in [Objects -> Tags \cup {0}] /\ nextTag \in 1 .. MaxTag + 1
  /\ keys \subseteq Tags \cup {0} /\ nodes \subseteq Tags /\ edge \in [Tags -> Tags \cup {0}]
  /\ room \in 0 .. maxRecords
  /\ liveObjects \subseteq Tags /\ deadSet \subseteq Tags
  /\ gc \in {"idle", "forced", "walked", "scanned", "timed"}
  /\ op \in [Threads -> Ops] /\ pc \in [Threads -> Labels] /\ hooks \in [Threads -> [Kinds -> Nat]]
  /\ allocations \in [Tags -> Nat] /\ deaths \in [Tags -> Nat]
  /\ contested \subseteq Tags \cup {0}
  /\ nullList \subseteq Tags \cup {0} /\ revived \subseteq Tags \cup {0}

\* An object keeps the tag it got, and no two objects get the same one, however
\* many threads find the object untagged at once (tagObject asks again under
\* tagLock).
OneTag ==
  [][\A o \in Objects : tag'[o] # 0 =>
       /\ tag[o] \in {0, tag'[o]}
       /\ \A p \in Objects \ {o} : tag'[p] # tag'[o]]_vars

StillTracking(o) ==
  \E t \in Threads :
    \/ pc[t] \in {"allocate", "stampNew", "addNode"} /\ Subject(t) = o
    \/ pc[t] = "stampUse" /\ op[t].kind = "new" /\ op[t].origin = o

\* Once the hook that tagged an object is through with it, its allocation is in the
\* trace, and unless it was reported dead it has a stamp, so that fakeAGC can
\* find its death, and a node, so that Merlin can pass its stamp on.
TaggedIsTracked ==
  \A o \in Objects : (tag[o] # 0 /\ ~StillTracking(o)) =>
    /\ allocations[tag[o]] > 0
    /\ deaths[tag[o]] = 0 => tag[o] \in keys \cap nodes

\* The allocation of an object is recorded once, unless nativeNewObj and another
\* hook tag it at the same time.
AllocatedOnce == \A x \in Tags \ contested : allocations[x] <= 1

\* Only objects the program has lost are reported dead, unless the object got its
\* tag while fakeAGC was between the walk of the heap and the scan of tagTimeMap,
\* or lost a reference in a JNI store.
DeathsTrue ==
  \A x \in Tags \ contested : deaths[x] > 0 => \E o \in collected : tag[o] = x

\* No death is reported twice, with the same exceptions and those of the tags an
\* outdated nullList put back: no hook, and no default stamp Merlin inserts for an
\* edge of a dead node, brings a forgotten tag back.
DiesOnce == \A x \in Tags \ (contested \cup revived) : deaths[x] <= 1

\* When fakeAGC is done, each tagged object the JVM collected has been reported
\* and nothing of it is left in the shadow heap, nor in tagTimeMap, again unless an
\* outdated nullList put it back.
DeadAreReported ==
  gc = "idle" =>
    \A o \in collected : tag[o] # 0 =>
      /\ deaths[tag[o]] > 0
      /\ tag[o] \notin contested =>
           tag[o] \notin nodes /\ (tag[o] \in keys => tag[o] \in revived)

\* Between its updates, the slot of a live object in the shadow heap holds the tag of
\* what its real slot refers to.
ShadowMatchesHeap ==
  \A o \in made \ collected :
    ((tag[o] = 0 \/ deaths[tag[o]] = 0) /\ \A t \in Threads : ~Updating(t, o))
      => TagOf(field[o]) = IF tag[o] \in nodes THEN edge[tag[o]] ELSE 0
=============================================================================
