----------------------- MODULE ObjectTracking_proofs -----------------------
(***************************************************************************)
(* Proofs about tags, and about the records and the tables that            *)
(* ETCallBackHandler keeps of an object once it has a tag, for any number  *)
(* of threads and objects and any buffer size.  Tags are unique and        *)
(* permanent, and only what the program has lost is reported dead, the     *)
(* contested tags apart.  On top of that invariant: an allocation is       *)
(* recorded once, and what is not yet in the trace, in tagTimeMap or in    *)
(* the shadow heap is still being put there by a hook.                     *)
(***************************************************************************)
EXTENDS ObjectTrackingInv, TLAPS

-----------------------------------------------------------------------------
(* Facts about a hook's list of objects and about reachability.            *)

\* The list is one of the three Untagged names, so its head and tail are known.
LEMMA ListFacts ==
  ASSUME TypeOK, NEW t \in Threads, pc[t] \in Tagging, UntaggedIn(t), UsableIn(t)
  PROVE  /\ Subject(t) \in Objects
         /\ Tail(op[t].untagged) \in Seq(Objects)
         /\ Len(op[t].untagged) > 1 =>
              /\ Subject(t) = op[t].origin
              /\ Tail(op[t].untagged) = <<op[t].target>>
              /\ op[t].target # Null
         /\ ~(Len(op[t].untagged) > 1) =>
              Subject(t) = op[t].origin \/ tag[op[t].origin] # 0
<1>1. /\ op[t].origin \in Objects
      /\ op[t].target # Null => op[t].target \in Objects
  BY TrackingAssumption DEF TypeOK, UsableIn, Usable, Tagging, Ops
<1>2. CASE op[t].untagged = <<op[t].origin>>
  BY <1>1, <1>2 DEF Subject
<1>3. CASE op[t].untagged = <<op[t].origin, op[t].target>> /\ op[t].target # Null
  BY <1>1, <1>3 DEF Subject
<1>4. CASE /\ op[t].untagged = <<op[t].target>> /\ op[t].target # Null
           /\ tag[op[t].origin] # 0
  BY <1>1, <1>4 DEF Subject
<1>5. QED
  BY <1>2, <1>3, <1>4 DEF UntaggedIn

\* Reachable has the roots, and is closed under the slots.
LEMMA ReachableClosed ==
  ASSUME TypeOK
  PROVE  /\ Roots \subseteq Objects /\ Roots \subseteq Reachable
         /\ \A o \in Reachable : field[o] \in Reachable \cup {Null}
<1>1. Roots \subseteq Objects
  BY TrackingAssumption DEF TypeOK, Roots
<1>2. QED
  BY <1>1 DEF Reachable, TypeOK

\* Reachable lies in every closed set that has the roots.
LEMMA ReachableLeast ==
  ASSUME NEW S \in SUBSET Objects, Roots \subseteq S, \A o \in S : field[o] \in S \cup {Null}
  PROVE  Reachable \subseteq S
  BY DEF Reachable

-----------------------------------------------------------------------------
(* Types.                                                                  *)

THEOREM InitTyped == Init => TypeOK
  BY TrackingAssumption DEF Init, TypeOK, NoOp, Ops, Labels, Tags

\* The records of local variables a hook starts and ends with.
LEMMA OpsTyped ==
  /\ NoOp \in Ops
  /\ \A r \in Ops : \A s \in Seq(Objects) : [r EXCEPT !.untagged = s, !.isNew = FALSE] \in Ops
  /\ \A r \in Ops : \A b \in BOOLEAN : [r EXCEPT !.isNew = b] \in Ops
  /\ \A r \in Ops : \A x \in Tags \cup {0} : [r EXCEPT !.old = x] \in Ops
<1>1. <<>> \in Seq(Objects)
  OBVIOUS
<1>2. QED
  BY <1>1 DEF NoOp, Ops

LEMMA CallTyped ==
  ASSUME NEW kind \in Kinds, NEW o \in Objects, NEW x \in Objects \cup {Null}
  PROVE  [NoOp EXCEPT !.kind = kind, !.origin = o, !.target = x,
                      !.untagged = IF x = Null THEN <<o>> ELSE <<o, x>>] \in Ops
<1>1. (IF x = Null THEN <<o>> ELSE <<o, x>>) \in Seq(Objects)
  OBVIOUS
<1>2. QED
  BY <1>1 DEF NoOp, Ops

\* A hook that ends keeps the types.
LEMMA ReturnTyped ==
  ASSUME TypeOK, NEW t \in Threads, Return(t)
  PROVE  op' \in [Threads -> Ops] /\ pc' \in [Threads -> Labels]
<1>1. NoOp \in Ops
  BY OpsTyped
<1>2. QED
  BY <1>1 DEF Return, Goto, TypeOK, Labels

\* So does one that starts.
LEMMA CallStepTyped ==
  ASSUME TypeOK, NEW t \in Threads, NEW kind \in Kinds, NEW o \in Objects,
         NEW x \in Objects \cup {Null}, NEW first \in {"getTag", "store"},
         Call(t, kind, o, x, first)
  PROVE  /\ op' \in [Threads -> Ops] /\ pc' \in [Threads -> Labels]
         /\ hooks' \in [Threads -> [Kinds -> Nat]]
         /\ UNCHANGED <<field, held, made, collected, tag, nextTag, keys, nodes, edge, room,
                        liveObjects, deadSet, gc, allocations, deaths, contested, nullList,
                        revived>>
<1> DEFINE r == [NoOp EXCEPT !.kind = kind, !.origin = o, !.target = x,
                             !.untagged = IF x = Null THEN <<o>> ELSE <<o, x>>]
<1>1. r \in Ops
  BY CallTyped DEF Call
<1>2. op' = [op EXCEPT ![t] = r]
  BY DEF Call
<1>3. op' \in [Threads -> Ops]
  <2> HIDE DEF r
  <2> QED BY <1>1, <1>2 DEF TypeOK
<1>5. hooks' \in [Threads -> [Kinds -> Nat]]
  <2>1. [hooks[t] EXCEPT ![kind] = @ - 1] \in [Kinds -> Nat]
    BY DEF Call, TypeOK
  <2>2. QED
    BY <2>1 DEF Call, TypeOK
<1>6. QED
  BY <1>3, <1>5 DEF Call, Goto, TypeOK, Labels, tagVars, search, shadow, history

\* What a thread does when it goes on with the next object keeps the types.
LEMMA NextObjectTyped ==
  ASSUME TypeOK, NEW t \in Threads, pc[t] \in Tagging, UntaggedIn(t), UsableIn(t),
         NextObject(t)
  PROVE  op' \in [Threads -> Ops] /\ pc' \in [Threads -> Labels]
<1>1. Tail(op[t].untagged) \in Seq(Objects)
  BY ListFacts
<1>2. TagsKnown(op[t].kind) \in Labels
  BY DEF TagsKnown, Labels
<1>3. op' \in [Threads -> Ops]
  <2>1. [op[t] EXCEPT !.untagged = Tail(op[t].untagged), !.isNew = FALSE] \in Ops
    BY <1>1, OpsTyped DEF TypeOK
  <2>2. op' = [op EXCEPT ![t] = [op[t] EXCEPT !.untagged = Tail(op[t].untagged), !.isNew = FALSE]]
    BY DEF NextObject, TypeOK
  <2>3. QED
    BY <2>1, <2>2 DEF TypeOK
<1>4. pc' \in [Threads -> Labels]
  BY <1>2 DEF NextObject, Goto, TypeOK, Labels
<1>5. QED
  BY <1>3, <1>4

LEMMA StepTyped == ASSUME TypeOK, HooksKnow, [Next]_vars PROVE TypeOK'
<1> USE TrackingAssumption
<1>1. ASSUME NEW t \in Threads, NEW o \in Objects, NEW owes \in BOOLEAN, Make(t, o, owes) PROVE TypeOK'
  BY <1>1 DEF TypeOK, Make, tagVars, search, shadow, history
<1>2. ASSUME NEW t \in Threads, NEW x \in Objects \cup {Null}, Read(t, x) PROVE TypeOK'
  BY <1>2 DEF TypeOK, Read, tagVars, search, shadow, history
<1>3. ASSUME NEW t \in Threads, NEW o \in Objects, CallUse(t, o) PROVE TypeOK'
  BY <1>3, CallStepTyped DEF TypeOK, CallUse, Kinds
<1>4. ASSUME NEW t \in Threads, CallNew(t) PROVE TypeOK'
  <2>1. Call(t, "new", owed[t], Null, "getTag") /\ owed[t] \in Objects
    BY <1>4 DEF TypeOK, CallNew
  <2>2. QED
    BY <1>4, <2>1, CallStepTyped DEF TypeOK, CallNew, Kinds
<1>5. ASSUME NEW t \in Threads, NEW kind \in {"update", "arrayStore", "jniStore"},
             NEW o \in Objects, NEW x \in Objects \cup {Null}, CallUpdate(t, kind, o, x)
      PROVE TypeOK'
  <2> DEFINE first == IF kind = "jniStore" THEN "store" ELSE "getTag"
  <2>1. Call(t, kind, o, x, first) /\ first \in {"getTag", "store"}
    BY <1>5 DEF CallUpdate
  <2>2. QED
    BY <1>5, <2>1, CallStepTyped DEF TypeOK, CallUpdate, Kinds
<1>6. ASSUME NEW t \in Threads, Store(t) PROVE TypeOK'
  <2>1. op' \in [Threads -> Ops] /\ pc' \in [Threads -> Labels]
    BY <1>6, ReturnTyped DEF Store, Goto, TypeOK, Labels
  <2>2. op[t].origin \in Objects /\ op[t].target \in Objects \cup {Null}
    BY <1>6 DEF Store, HooksKnow, UsableIn, Usable, TypeOK, Ops
  <2>3. TagOf(field[op[t].origin]) \in Tags \cup {0}
    BY <2>2 DEF TagOf, TypeOK
  <2>4. QED
    BY <1>6, <2>1, <2>2, <2>3 DEF TypeOK, Store, tagVars, search, shadow
<1>7. ASSUME NEW t \in Threads, GetTag(t) PROVE TypeOK'
  BY <1>7, NextObjectTyped DEF TypeOK, GetTag, Goto, Labels, HooksKnow, Tagging,
     heapVars, search, tagVars, shadow, history
<1>8. ASSUME NEW t \in Threads, tagObject(t) PROVE TypeOK'
  <2>1. op' \in [Threads -> Ops] /\ pc' \in [Threads -> Labels]
    <3>1. CASE NextObject(t)
      BY <1>8, <3>1, NextObjectTyped DEF tagObject, HooksKnow, Tagging
    <3>2. CASE /\ op' = [op EXCEPT ![t].isNew = NeedsTag(Subject(t))]
               /\ Goto(t, "allocate")
      <4>1. [op[t] EXCEPT !.isNew = NeedsTag(Subject(t))] \in Ops
        BY OpsTyped DEF NeedsTag, TypeOK
      <4>2. QED
        BY <3>2, <4>1 DEF TypeOK, Goto, Labels
    <3>3. QED
      BY <1>8, <3>1, <3>2 DEF tagObject
  <2>2. tag[Subject(t)] \in Tags \cup {0}
    BY <1>8, ListFacts DEF tagObject, Tagging, HooksKnow, TypeOK
  <2>3. nextTag \in Tags /\ nextTag + 1 \in 1 .. MaxTag + 1
    BY <1>8 DEF tagObject, Tags
  <2>4. QED
    BY <1>8, <2>1, <2>2, <2>3 DEF TypeOK, tagObject, heapVars, search, shadow
<1>9. ASSUME NEW t \in Threads, Allocate(t) PROVE TypeOK'
  <2>1. op' \in [Threads -> Ops] /\ pc' \in [Threads -> Labels]
    BY <1>9, NextObjectTyped DEF TypeOK, Allocate, Goto, Labels, AfterAllocation, HooksKnow, Tagging
  <2>2. QED
    <3>1. tag[Subject(t)] \in Tags
      BY <1>9, ListFacts DEF Allocate, HooksKnow, Tagging, HasTagIn, Subject, TypeOK
    <3>2. QED
      BY <1>9, <2>1, <3>1 DEF TypeOK, Allocate, heapVars, search, tagVars, shadow
<1>10. ASSUME NEW t \in Threads, StampNew(t) PROVE TypeOK'
  <2>1. tag[Subject(t)] \in Tags \cup {0}
    BY <1>10, ListFacts DEF StampNew, Tagging, HooksKnow, TypeOK
  <2>2. QED
    BY <1>10, <2>1 DEF TypeOK, StampNew, timeStampTag, Goto, Labels, heapVars, search, tagVars, shadow, history
<1>11. ASSUME NEW t \in Threads, addObjectToHeap(t) PROVE TypeOK'
  <2>1. op' \in [Threads -> Ops] /\ pc' \in [Threads -> Labels]
    BY <1>11, NextObjectTyped DEF addObjectToHeap, HooksKnow, Tagging
  <2>2. tag[Subject(t)] \in Tags
    BY <1>11, ListFacts DEF addObjectToHeap, HooksKnow, Tagging, HasTagIn, Subject, TypeOK
  <2>3. QED
    BY <1>11, <2>1, <2>2 DEF TypeOK, addObjectToHeap, addNode, heapVars, search, tagVars, history
<1>12. ASSUME NEW t \in Threads, StampUse(t) PROVE TypeOK'
  <2>1. tag[op[t].origin] \in Tags \cup {0}
    BY <1>12 DEF StampUse, HooksKnow, UsableIn, Usable, TypeOK
  <2>2. op' \in [Threads -> Ops] /\ pc' \in [Threads -> Labels]
    BY <1>12, ReturnTyped DEF StampUse, Goto, TypeOK, Labels
  <2>3. QED
    BY <1>12, <2>1, <2>2 DEF TypeOK, StampUse, timeStampTag, heapVars, search, tagVars, shadow, history
<1>13. ASSUME NEW t \in Threads, RecordUse(t) PROVE TypeOK'
  <2>1. op' \in [Threads -> Ops] /\ pc' \in [Threads -> Labels]
    BY <1>13, ReturnTyped DEF RecordUse
  <2>2. QED
    BY <1>13, <2>1 DEF TypeOK, RecordUse, heapVars, search, tagVars, shadow, history
<1>14. ASSUME NEW t \in Threads, StampOrigin(t) PROVE TypeOK'
  <2>1. tag[op[t].origin] \in Tags \cup {0}
    <3>1. UsableIn(t) /\ pc[t] # "idle"
      BY <1>14 DEF StampOrigin, HooksKnow
    <3>2. op[t].origin \in Objects
      BY <3>1 DEF UsableIn, Usable, TypeOK
    <3>3. QED
      BY <3>2 DEF TypeOK
  <2>2. QED
    BY <1>14, <2>1 DEF TypeOK, StampOrigin, timeStampTag, Goto, Labels,
       heapVars, search, tagVars, shadow, history
<1>15. ASSUME NEW t \in Threads, updateEdge(t) PROVE TypeOK'
  <2>1. tag[op[t].origin] \in Tags
    BY <1>15 DEF updateEdge, HooksKnow, UsableIn, Usable, HasTagIn, UsesTag, TypeOK
  <2>2. TagOf(op[t].target) \in Tags \cup {0}
    BY DEF TagOf, TypeOK, Ops
  <2>3. QED
    <3> DEFINE old == IF tag[op[t].origin] \in nodes THEN edge[tag[op[t].origin]] ELSE 0
    <3>1. old \in Tags \cup {0}
      BY <2>1 DEF TypeOK
    <3>2. [op[t] EXCEPT !.old = old] \in Ops
      BY <3>1, OpsTyped DEF TypeOK
    <3>3. op' = [op EXCEPT ![t] = [op[t] EXCEPT !.old = old]]
      BY <1>15 DEF updateEdge
    <3>4. op' \in [Threads -> Ops]
      <4> HIDE DEF old
      <4> QED BY <3>2, <3>3 DEF TypeOK
    <3>5. QED
      BY <1>15, <2>1, <2>2, <3>4 DEF TypeOK, updateEdge, Goto, Labels, heapVars, search, tagVars, history
<1>16. ASSUME NEW t \in Threads, StampOld(t) PROVE TypeOK'
  BY <1>16 DEF TypeOK, StampOld, timeStampTag, Goto, Ops, Labels, heapVars, search, tagVars, shadow, history
<1>17. ASSUME NEW t \in Threads, RecordUpdate(t) PROVE TypeOK'
  <2>1. op' \in [Threads -> Ops] /\ pc' \in [Threads -> Labels]
    BY <1>17, ReturnTyped DEF RecordUpdate, Goto, TypeOK, Labels
  <2>2. QED
    BY <1>17, <2>1 DEF TypeOK, RecordUpdate, heapVars, search, tagVars, shadow, history
<1>18. ASSUME ForceGarbageCollection PROVE TypeOK'
  BY <1>18 DEF TypeOK, ForceGarbageCollection, tagVars, search, shadow, history
<1>19. ASSUME IterateThroughHeap PROVE TypeOK'
  BY <1>19 DEF TypeOK, IterateThroughHeap, TagsInHeap, heapVars, search, tagVars, shadow, history
<1>20. ASSUME ScanTagTimeMap PROVE TypeOK'
  BY <1>20 DEF TypeOK, ScanTagTimeMap, ObjectFree, LiveCleared, heapVars, search, tagVars, shadow, history
<1>21. ASSUME computeObjectDeathTimes PROVE TypeOK'
  BY <1>21 DEF TypeOK, computeObjectDeathTimes, neighbors, heapVars, search, tagVars, shadow, history
<1>22. ASSUME Report PROVE TypeOK'
  BY <1>22 DEF TypeOK, Report, Forgotten, heapVars, search, tagVars
<1>23. CASE UNCHANGED vars
  BY <1>23 DEF TypeOK, vars, heapVars, search, tagVars, shadow, history
<1>24. QED
  BY <1>1, <1>2, <1>3, <1>4, <1>5, <1>6, <1>7, <1>8, <1>9, <1>10, <1>11, <1>12, <1>13, <1>14,
     <1>15, <1>16, <1>17, <1>18, <1>19, <1>20, <1>21, <1>22, <1>23
     DEF Next, Program, Hook, fakeAGC

-----------------------------------------------------------------------------
(* Tags and the local variables of the hooks.                              *)

\* The steps of fakeAGC leave the program, the hooks and their tags alone.
LEMMA CollectorFrame ==
  ASSUME fakeAGC
  PROVE  UNCHANGED <<field, held, made, owed, tag, nextTag, op, pc, contested>>
  BY DEF fakeAGC, ForceGarbageCollection, IterateThroughHeap, ScanTagTimeMap,
     computeObjectDeathTimes, Report, heapVars, tagVars, history

\* The steps of a hook leave the program's heap and the collector alone.
LEMMA HookFrame ==
  ASSUME NEW t \in Threads, Hook(t)
  PROVE  UNCHANGED <<field, held, made, owed, collected, liveObjects, deadSet, gc, deaths, revived>>
  BY DEF Hook, GetTag, tagObject, Allocate, StampNew, addObjectToHeap, StampUse, RecordUse,
     StampOrigin, updateEdge, StampOld, RecordUpdate, heapVars, history, search

\* Of them only tagObject gives tags.
LEMMA HookTags ==
  ASSUME NEW t \in Threads, Hook(t)
  PROVE  tagObject(t) \/ UNCHANGED <<tag, nextTag, contested>>
  BY DEF Hook, GetTag, Allocate, StampNew, addObjectToHeap, StampUse, RecordUse,
     StampOrigin, updateEdge, StampOld, RecordUpdate, tagVars, history

\* The steps of the program leave the agent's tables and the collector alone.
LEMMA ProgramFrame ==
  ASSUME NEW t \in Threads, Program(t)
  PROVE  /\ made \subseteq made' /\ contested \subseteq contested'
         /\ UNCHANGED <<tag, nextTag, keys, nodes, edge, liveObjects, deadSet, gc, deaths, collected,
                        revived>>
<1>1. ASSUME NEW o \in Objects, NEW owes \in BOOLEAN, Make(t, o, owes)
      PROVE  /\ made \subseteq made' /\ contested \subseteq contested'
             /\ UNCHANGED <<tag, nextTag, keys, nodes, edge, liveObjects, deadSet, gc, deaths, collected,
                        revived>>
  BY <1>1 DEF Make, tagVars, shadow, history, search
<1>2. ASSUME NEW x, Read(t, x)
      PROVE  /\ made \subseteq made' /\ contested \subseteq contested'
             /\ UNCHANGED <<tag, nextTag, keys, nodes, edge, liveObjects, deadSet, gc, deaths, collected,
                        revived>>
  BY <1>2 DEF Read, tagVars, shadow, history, search
<1>3. ASSUME NEW kind, NEW o, NEW x, NEW first, Call(t, kind, o, x, first)
      PROVE  /\ made \subseteq made' /\ contested \subseteq contested'
             /\ UNCHANGED <<tag, nextTag, keys, nodes, edge, liveObjects, deadSet, gc, deaths, collected,
                        revived>>
  BY <1>3 DEF Call, tagVars, shadow, history, search
<1>4. ASSUME Store(t)
      PROVE  /\ made \subseteq made' /\ contested \subseteq contested'
             /\ UNCHANGED <<tag, nextTag, keys, nodes, edge, liveObjects, deadSet, gc, deaths, collected,
                        revived>>
  BY <1>4 DEF Store, tagVars, shadow, search
<1>5. QED
  BY <1>1, <1>2, <1>3, <1>4 DEF Program, CallUse, CallNew, CallUpdate

\* Only tagObject gives tags, and objects do not cease to be made.
LEMMA TagsChange ==
  ASSUME [Next]_vars
  PROVE  /\ (\E t \in Threads : tagObject(t)) \/ UNCHANGED <<tag, nextTag>>
         /\ made \subseteq made' /\ contested \subseteq contested'
<1>1. ASSUME NEW t \in Threads, tagObject(t)
      PROVE  made = made' /\ contested \subseteq contested'
  BY <1>1 DEF tagObject, heapVars
<1>2. QED
  BY <1>1, CollectorFrame, HookFrame, HookTags, ProgramFrame
     DEF Next, vars, tagVars, heapVars, history

\* A step gives at most the next tag, to an object that has none.
LEMMA StepTags ==
  ASSUME TypeOK, HooksKnow, TagsGiven, made \subseteq Objects,
         \A t \in Threads : pc[t] \in Tagging => Subject(t) \in made,
         [Next]_vars
  PROVE  /\ TagsGiven' /\ Given \subseteq Given'
         /\ \A o \in Objects : tag[o] # 0 => tag'[o] = tag[o]
<1>1. CASE UNCHANGED <<tag, nextTag>>
  BY <1>1, TagsChange DEF TagsGiven, Given
<1>2. ASSUME NEW t \in Threads, tagObject(t)
      PROVE  /\ TagsGiven' /\ Given \subseteq Given'
             /\ \A o \in Objects : tag[o] # 0 => tag'[o] = tag[o]
  <2> DEFINE o == Subject(t)
  <2>1. o \in made /\ made' = made
    BY <1>2 DEF tagObject, Tagging, heapVars
  <2>2. CASE tag[o] # 0
    BY <1>2, <2>1, <2>2 DEF tagObject, NeedsTag, TagsGiven, Given
  <2>3. CASE tag[o] = 0
    <3>1. tag' = [tag EXCEPT ![o] = nextTag] /\ nextTag' = nextTag + 1 /\ nextTag \in Nat
      BY <1>2, <2>3 DEF tagObject, NeedsTag, TypeOK
    <3>2. Given' = Given \cup {nextTag} /\ nextTag \notin Given /\ nextTag # 0
      <4>1. nextTag \in Nat \ {0}
        BY <3>1 DEF TypeOK
      <4>2. QED
        BY <3>1, <4>1 DEF Given
    <3>3. \A p \in Objects : tag'[p] = IF p = o THEN nextTag ELSE tag[p]
      BY <3>1, <2>1 DEF TypeOK
    <3>4. o \in Objects /\ 0 \notin Given
      BY <2>1 DEF Given
    <3>5. \A p \in Objects : tag'[p] # 0 => tag'[p] \in Given' /\ p \in made'
      BY <2>1, <3>2, <3>3 DEF TagsGiven
    <3>6. \A p, q \in Objects : tag'[p] # 0 /\ tag'[p] = tag'[q] => p = q
      BY <3>2, <3>3 DEF TagsGiven
    <3>7. \A x \in Given' : \E p \in Objects : tag'[p] = x
      <4>1. ASSUME NEW x \in Given PROVE \E p \in Objects : tag'[p] = x
        <5>1. PICK p \in Objects : tag[p] = x
          BY DEF TagsGiven
        <5>2. p # o
          BY <2>3, <3>4, <5>1
        <5>3. QED
          BY <3>3, <5>1, <5>2
      <4>2. tag'[o] = nextTag
        BY <3>3, <3>4
      <4>3. QED
        BY <3>2, <3>4, <4>1, <4>2
    <3>8. TagsGiven'
      BY <3>5, <3>6, <3>7 DEF TagsGiven
    <3>9. QED
      BY <2>3, <3>2, <3>3, <3>8
  <2>4. QED
    BY <2>2, <2>3
<1>3. QED
  BY <1>1, <1>2, TagsChange

-----------------------------------------------------------------------------
(* The program's heap.                                                     *)

\* What a thread may use is reachable.
LEMMA UsableReachable ==
  ASSUME TypeOK, NEW t \in Threads
  PROVE  Usable(t) \subseteq Reachable
  BY ReachableClosed DEF Usable, Roots

\* Making, reading and storing bring nothing lost back.
LEMMA StepOutOfReach ==
  ASSUME TypeOK, TypeOK', HooksKnow, OutOfReach, [Next]_vars
  PROVE  OutOfReach'
<1>1. CASE UNCHANGED <<field, held, made, collected>>
  BY <1>1 DEF OutOfReach, Reachable, Roots
<1>2. ASSUME NEW t \in Threads, NEW o \in Objects, NEW owes \in BOOLEAN, Make(t, o, owes)
      PROVE  OutOfReach'
  <2>1. field' = field /\ made' = made \cup {o} /\ o \notin made /\ collected' = collected
        /\ held' = [held EXCEPT ![t] = o]
    BY <1>2 DEF Make
  <2>2. Roots' \subseteq Reachable \cup {o}
    BY <2>1, ReachableClosed DEF Roots, TypeOK
  <2>3. \A p \in Reachable \cup {o} : field'[p] \in (Reachable \cup {o}) \cup {Null}
    BY <2>1, ReachableClosed DEF OutOfReach
  <2>4. Reachable' \subseteq Reachable \cup {o}
    <3> DEFINE S == Reachable \cup {o}
    <3>1. S \in SUBSET Objects
      BY DEF Reachable
    <3>2. Roots' \subseteq S /\ \A p \in S : field'[p] \in S \cup {Null}
      BY <2>2, <2>3
    <3> HIDE DEF S
    <3>3. Reachable' \subseteq S
      BY <3>1, <3>2 DEF Reachable
    <3>4. QED
      BY <3>3 DEF S
  <2>5. QED
    BY <2>1, <2>4 DEF OutOfReach
<1>3. ASSUME NEW t \in Threads, NEW x \in Objects \cup {Null}, Read(t, x)
      PROVE  OutOfReach'
  <2>1. /\ field' = field /\ made' = made /\ collected' = collected
        /\ held' = [held EXCEPT ![t] = x]
        /\ x \in {field[o] : o \in Usable(t)} \cup {Null}
    BY <1>3 DEF Read
  <2>2. x \in Reachable \cup {Null}
    BY <2>1, UsableReachable, ReachableClosed
  <2>3. Roots' \subseteq Reachable
    BY <2>1, <2>2, ReachableClosed DEF Roots, TypeOK
  <2>4. Reachable' \subseteq Reachable
    BY <2>1, <2>3, ReachableClosed DEF Reachable
  <2>5. QED
    BY <2>1, <2>4 DEF OutOfReach
<1>4. ASSUME NEW t \in Threads, Store(t)
      PROVE  OutOfReach'
  <2> DEFINE o == op[t].origin
             x == op[t].target
  <2>1. /\ field' = [field EXCEPT ![o] = x]
        /\ made' = made /\ collected' = collected /\ held' = held
    BY <1>4 DEF Store
  <2>2. o \in Reachable /\ x \in Reachable \cup {Null}
    BY <1>4, UsableReachable DEF Store, HooksKnow, UsableIn
  <2>3. \A p \in Reachable : field'[p] \in Reachable \cup {Null}
    BY <2>1, <2>2, ReachableClosed DEF TypeOK
  <2>4. Roots' = Roots
    BY <2>1 DEF Roots
  <2>5. Reachable' \subseteq Reachable
    BY <2>3, <2>4, ReachableClosed DEF Reachable
  <2>6. \A p \in Objects \ made : field'[p] = Null
    BY <2>1, <2>2 DEF OutOfReach, TypeOK
  <2>7. QED
    BY <2>1, <2>5, <2>6 DEF OutOfReach
<1>5. CASE ForceGarbageCollection
  BY <1>5 DEF ForceGarbageCollection, OutOfReach, Reachable, Roots
<1>6. ASSUME NEW t, NEW kind, NEW o, NEW x, NEW first, Call(t, kind, o, x, first)
      PROVE  UNCHANGED <<field, held, made, collected>>
  BY <1>6 DEF Call
<1>7. ASSUME NEW t \in Threads, Hook(t)
      PROVE  UNCHANGED <<field, held, made, collected>>
  BY <1>7, HookFrame
<1>8. ASSUME IterateThroughHeap \/ ScanTagTimeMap \/ computeObjectDeathTimes \/ Report
      PROVE  UNCHANGED <<field, held, made, collected>>
  BY <1>8 DEF IterateThroughHeap, ScanTagTimeMap, computeObjectDeathTimes, Report, heapVars
<1>9. CASE UNCHANGED vars
  BY <1>1, <1>9 DEF vars, heapVars
<1>10. QED
  BY <1>1, <1>2, <1>3, <1>4, <1>5, <1>6, <1>7, <1>8, <1>9
     DEF Next, Program, fakeAGC, CallUse, CallNew, CallUpdate

-----------------------------------------------------------------------------
(* What the hooks know.                                                    *)

\* A step of a hook is its own thread's, and goes on with the same objects or returns.
LEMMA HookOps ==
  ASSUME TypeOK, NEW t \in Threads, Hook(t)
  PROVE  /\ pc[t] # "idle"
         /\ \A u \in Threads \ {t} : op'[u] = op[u] /\ pc'[u] = pc[u]
         /\ pc'[t] # "idle" => op'[t].origin = op[t].origin /\ op'[t].target = op[t].target
<1> USE DEF TypeOK, Goto
<1>a. ASSUME NextObject(t)
      PROVE  /\ \A u \in Threads \ {t} : op'[u] = op[u] /\ pc'[u] = pc[u]
             /\ op'[t].origin = op[t].origin /\ op'[t].target = op[t].target
  BY <1>a DEF NextObject, Ops
<1>b. ASSUME Return(t)
      PROVE  /\ \A u \in Threads \ {t} : op'[u] = op[u] /\ pc'[u] = pc[u]
             /\ pc'[t] = "idle"
  BY <1>b DEF Return
<1>1. CASE GetTag(t)
  BY <1>a, <1>1 DEF GetTag, Ops
<1>2. CASE tagObject(t)
  BY <1>a, <1>2 DEF tagObject, Ops
<1>3. CASE Allocate(t)
  BY <1>a, <1>3 DEF Allocate, Ops
<1>4. CASE StampNew(t)
  BY <1>4 DEF StampNew, Ops
<1>5. CASE addObjectToHeap(t)
  BY <1>a, <1>5 DEF addObjectToHeap, Ops
<1>6. CASE StampUse(t)
  BY <1>b, <1>6 DEF StampUse, Ops
<1>7. CASE RecordUse(t)
  BY <1>b, <1>7 DEF RecordUse, Ops
<1>8. CASE StampOrigin(t)
  BY <1>8 DEF StampOrigin, Ops
<1>9. CASE updateEdge(t)
  BY <1>9 DEF updateEdge, Ops
<1>10. CASE StampOld(t)
  BY <1>10 DEF StampOld, Ops
<1>11. CASE RecordUpdate(t)
  BY <1>b, <1>11 DEF RecordUpdate, Ops
<1>12. QED
  BY <1>1, <1>2, <1>3, <1>4, <1>5, <1>6, <1>7, <1>8, <1>9, <1>10, <1>11 DEF Hook

TagsKept == \A o \in Objects : tag[o] # 0 => tag'[o] = tag[o]

\* A thread that does not move knows what it knew.
LEMMA StillKnows ==
  ASSUME TypeOK, TagsKept, NEW u \in Threads, UntaggedIn(u), StoresIn(u), HasTagIn(u), UsableIn(u),
         op'[u] = op[u], pc'[u] = pc[u]
  PROVE  UntaggedIn(u)' /\ StoresIn(u)' /\ HasTagIn(u)'
<1>1. pc[u] # "idle" => op[u].origin \in Objects
  BY TrackingAssumption DEF UsableIn, Usable, TypeOK
<1>2. pc[u] \in Tagging => Subject(u) \in Objects /\ Subject(u)' = Subject(u)
  BY ListFacts DEF Subject
<1>3. UntaggedIn(u)'
  BY <1>1 DEF UntaggedIn, TagsKept, Tagging
<1>4. HasTagIn(u)'
  BY <1>1, <1>2 DEF HasTagIn, TagsKept, Tagging, UsesTag
<1>5. StoresIn(u)'
  BY DEF StoresIn
<1>6. QED
  BY <1>3, <1>4, <1>5

\* A thread goes on to the next object when the last one has its tag.
LEMMA NextObjectKnows ==
  ASSUME TypeOK, TagsKept, NEW t \in Threads, pc[t] \in Tagging, UntaggedIn(t), UsableIn(t),
         NextObject(t), tag'[Subject(t)] # 0
  PROVE  UntaggedIn(t)' /\ HasTagIn(t)'
<1>1. op[t].origin \in Objects
  BY TrackingAssumption DEF UsableIn, Usable, TypeOK, Tagging
<1>2. op'[t].origin = op[t].origin /\ op'[t].target = op[t].target
      /\ op'[t].untagged = Tail(op[t].untagged)
  BY DEF NextObject, TypeOK, Ops
<1>3. CASE Len(op[t].untagged) > 1
  <2>1. pc'[t] = "getTag" /\ op'[t].untagged = <<op'[t].target>> /\ op'[t].target # Null
    BY <1>2, <1>3, ListFacts DEF NextObject, Goto, TypeOK
  <2>2. tag'[op'[t].origin] # 0
    BY <1>2, <1>3, ListFacts
  <2>3. QED
    BY <2>1, <2>2 DEF UntaggedIn, HasTagIn, UsesTag
<1>4. CASE ~(Len(op[t].untagged) > 1)
  <2>1. pc'[t] = TagsKnown(op[t].kind)
    BY <1>4 DEF NextObject, Goto, TypeOK
  <2>2. pc'[t] \notin Tagging
    BY <2>1 DEF TagsKnown, Tagging
  <2>3. tag'[op'[t].origin] # 0
    BY <1>1, <1>2, <1>4, ListFacts DEF TagsKept
  <2>4. QED
    BY <2>2, <2>3 DEF UntaggedIn, HasTagIn, Tagging
<1>5. QED
  BY <1>3, <1>4

\* A step of a hook leaves its thread with the tags it needs.
LEMMA HookKnows ==
  ASSUME TypeOK, TypeOK', TagsGiven, TagsKept, NEW t \in Threads, Hook(t),
         UntaggedIn(t), HasTagIn(t), UsableIn(t)
  PROVE  UntaggedIn(t)' /\ HasTagIn(t)'
<1>1. CASE GetTag(t)
  <2>1. Subject(t) \in Objects
    BY <1>1, ListFacts DEF GetTag, Tagging
  <2>2. CASE tag[Subject(t)] # 0
    BY <1>1, <2>1, <2>2, NextObjectKnows DEF GetTag, Tagging, TagsKept
  <2>3. CASE tag[Subject(t)] = 0
    BY <1>1, <2>3 DEF GetTag, Goto, Tagging, UsesTag, UntaggedIn, HasTagIn, TypeOK, tagVars
  <2>4. QED
    BY <2>2, <2>3
<1>2. CASE tagObject(t)
  <2>1. Subject(t) \in Objects
    BY <1>2, ListFacts DEF tagObject, Tagging
  <2>2. tag'[Subject(t)] # 0
    BY <1>2, <2>1 DEF tagObject, NeedsTag, TypeOK, Tags
  <2>3. CASE NextObject(t)
    BY <1>2, <2>2, <2>3, NextObjectKnows DEF tagObject, Tagging
  <2>4. CASE /\ op' = [op EXCEPT ![t].isNew = NeedsTag(Subject(t))]
             /\ Goto(t, "allocate")
    <3>1. /\ op'[t].untagged = op[t].untagged /\ op'[t].origin = op[t].origin
          /\ op'[t].target = op[t].target /\ pc'[t] = "allocate"
      BY <2>4 DEF TypeOK, Ops, Goto
    <3>2. op[t].origin \in Objects
      BY <1>2, TrackingAssumption DEF tagObject, UsableIn, Usable, TypeOK
    <3>3. UntaggedIn(t)'
      BY <1>2, <3>1, <3>2 DEF tagObject, UntaggedIn, Tagging, TagsKept
    <3>4. HasTagIn(t)'
      BY <2>2, <3>1 DEF HasTagIn, UsesTag, Subject
    <3>5. QED
      BY <3>3, <3>4
  <2>5. QED
    BY <1>2, <2>3, <2>4 DEF tagObject
<1>3. CASE Allocate(t)
  <2>1. tag[Subject(t)] # 0 /\ tag' = tag
    BY <1>3 DEF Allocate, HasTagIn, tagVars
  <2>2. CASE op[t].isNew
    BY <1>3, <2>1, <2>2 DEF Allocate, AfterAllocation, Goto, HasTagIn, UntaggedIn, UsesTag, Tagging,
       TypeOK, Subject
  <2>3. CASE ~op[t].isNew
    BY <1>3, <2>1, <2>3, NextObjectKnows DEF Allocate, Tagging
  <2>4. QED
    BY <2>2, <2>3
<1>4. CASE StampNew(t)
  BY <1>4 DEF StampNew, Goto, HasTagIn, UntaggedIn, UsesTag, Tagging, TypeOK, Subject, tagVars
<1>5. CASE addObjectToHeap(t)
  <2>1. tag'[Subject(t)] # 0
    BY <1>5 DEF addObjectToHeap, HasTagIn, tagVars
  <2>2. QED
    BY <1>5, <2>1, NextObjectKnows DEF addObjectToHeap, Tagging
<1>6. ASSUME Return(t) PROVE UntaggedIn(t)' /\ HasTagIn(t)'
  BY <1>6 DEF Return, Goto, HasTagIn, UntaggedIn, UsesTag, Tagging, TypeOK
<1>7. CASE StampUse(t)
  BY <1>6, <1>7 DEF StampUse, Goto, HasTagIn, UntaggedIn, UsesTag, Tagging, TypeOK, tagVars
<1>8. CASE RecordUse(t)
  BY <1>6, <1>8 DEF RecordUse
<1>9. CASE StampOrigin(t)
  BY <1>9 DEF StampOrigin, Goto, HasTagIn, UntaggedIn, UsesTag, Tagging, TypeOK, tagVars
<1>10. CASE updateEdge(t)
  <2>1. op'[t].origin = op[t].origin /\ pc'[t] = "stampOld" /\ tag' = tag
    BY <1>10 DEF updateEdge, Goto, TypeOK, Ops, tagVars
  <2>2. QED
    BY <1>10, <2>1 DEF updateEdge, HasTagIn, UntaggedIn, UsesTag, Tagging
<1>11. CASE StampOld(t)
  BY <1>11 DEF StampOld, Goto, HasTagIn, UntaggedIn, UsesTag, Tagging, TypeOK, tagVars
<1>12. CASE RecordUpdate(t)
  BY <1>6, <1>12 DEF RecordUpdate, Goto, HasTagIn, UntaggedIn, UsesTag, Tagging, TypeOK, tagVars
<1>13. QED
  BY <1>1, <1>2, <1>3, <1>4, <1>5, <1>7, <1>8, <1>9, <1>10, <1>11, <1>12 DEF Hook

\* None of its steps leads to a store that the hook was to follow.
LEMMA HookStores ==
  ASSUME TypeOK, NEW t \in Threads, Hook(t)
  PROVE  StoresIn(t)'
<1>1. ASSUME NextObject(t) PROVE pc'[t] # "store"
  BY <1>1 DEF NextObject, Goto, TagsKnown, TypeOK
<1>2. ASSUME Return(t) PROVE pc'[t] # "store"
  BY <1>2 DEF Return, Goto, TypeOK
<1>3. pc'[t] # "store" \/ (op[t].kind # "jniStore" /\ op' = op)
  BY <1>1, <1>2 DEF Hook, GetTag, tagObject, Allocate, AfterAllocation, StampNew,
     addObjectToHeap, StampUse, RecordUse, StampOrigin, updateEdge, StampOld, RecordUpdate,
     Goto, TypeOK
<1>4. QED
  BY <1>3 DEF StoresIn

\* Threads know their tags after every step.
LEMMA StepHooksKnow ==
  ASSUME TypeOK, TypeOK', TagsGiven, TagsKept, HooksKnow, [Next]_vars
  PROVE  HooksKnow'
<1>1. ASSUME NEW t \in Threads, Hook(t) PROVE HooksKnow'
  <2>1. ASSUME NEW u \in Threads PROVE UsableIn(u)'
    BY <1>1, HookOps, HookFrame DEF HooksKnow, UsableIn, Usable
  <2>2. UntaggedIn(t)' /\ StoresIn(t)' /\ HasTagIn(t)'
    BY <1>1, HookKnows, HookStores DEF HooksKnow
  <2>3. ASSUME NEW u \in Threads \ {t} PROVE UntaggedIn(u)' /\ StoresIn(u)' /\ HasTagIn(u)'
    BY <1>1, HookOps, StillKnows DEF HooksKnow
  <2>4. QED
    BY <2>1, <2>2, <2>3 DEF HooksKnow
<1>2. ASSUME UNCHANGED <<op, pc, held, owed>> PROVE HooksKnow'
  BY <1>2, StillKnows DEF HooksKnow, UsableIn, Usable
<1>3. ASSUME NEW t \in Threads, NEW o \in Objects, NEW owes \in BOOLEAN, Make(t, o, owes)
      PROVE  HooksKnow'
  <2>1. ASSUME NEW u \in Threads PROVE UsableIn(u)'
    BY <1>3 DEF Make, HooksKnow, UsableIn, Usable, TypeOK
  <2>2. QED
    BY <1>3, <2>1, StillKnows DEF HooksKnow, Make
<1>4. ASSUME NEW t \in Threads, NEW x \in Objects \cup {Null}, Read(t, x)
      PROVE  HooksKnow'
  <2>1. ASSUME NEW u \in Threads PROVE UsableIn(u)'
    BY <1>4 DEF Read, HooksKnow, UsableIn, Usable, TypeOK
  <2>2. QED
    BY <1>4, <2>1, StillKnows DEF HooksKnow, Read
<1>5. ASSUME NEW t \in Threads, NEW kind, NEW o \in Usable(t), NEW x \in Usable(t) \cup {Null},
             NEW first \in {"getTag", "store"}, Call(t, kind, o, x, first),
             owed' \in {owed, [owed EXCEPT ![t] = Null]}
      PROVE  HooksKnow'
  <2>1. /\ op'[t].origin = o /\ op'[t].target = x /\ pc'[t] = first /\ held' = held
        /\ op'[t].untagged = IF x = Null THEN <<o>> ELSE <<o, x>>
        /\ \A u \in Threads \ {t} : op'[u] = op[u] /\ pc'[u] = pc[u]
    BY <1>5 DEF Call, Goto, NoOp, TypeOK
  <2>2. ASSUME NEW u \in Threads PROVE UsableIn(u)'
    BY <1>5, <2>1 DEF HooksKnow, UsableIn, Usable, TypeOK
  <2>3. UntaggedIn(t)' /\ StoresIn(t)' /\ HasTagIn(t)'
    BY <2>1 DEF UntaggedIn, StoresIn, HasTagIn, UsesTag
  <2>4. ASSUME NEW u \in Threads \ {t} PROVE UntaggedIn(u)' /\ StoresIn(u)' /\ HasTagIn(u)'
    BY <2>1, StillKnows DEF HooksKnow
  <2>5. QED
    BY <2>2, <2>3, <2>4 DEF HooksKnow
<1>6. ASSUME NEW t \in Threads, Store(t) PROVE HooksKnow'
  <2>1. /\ \A u \in Threads \ {t} : op'[u] = op[u] /\ pc'[u] = pc[u]
        /\ held' = held /\ owed' = owed /\ tag' = tag
        /\ pc'[t] = "idle" \/ (pc'[t] = "getTag" /\ op' = op)
    BY <1>6 DEF Store, Return, Goto, TypeOK, tagVars
  <2>2. ASSUME NEW u \in Threads PROVE UsableIn(u)'
    BY <1>6, <2>1 DEF Store, HooksKnow, UsableIn, Usable
  <2>3. ASSUME NEW u \in Threads \ {t} PROVE UntaggedIn(u)' /\ StoresIn(u)' /\ HasTagIn(u)'
    BY <2>1, StillKnows DEF HooksKnow
  <2>4. UntaggedIn(t)' /\ StoresIn(t)' /\ HasTagIn(t)'
    <3>1. CASE op[t].kind = "jniStore"
      <4>1. StoresIn(t) /\ pc[t] = "store" /\ pc'[t] = "getTag" /\ op' = op
        BY <1>6, <3>1 DEF Store, HooksKnow, Goto, TypeOK
      <4>2. QED
        BY <3>1, <4>1 DEF StoresIn, UntaggedIn, HasTagIn, UsesTag
    <3>2. CASE op[t].kind # "jniStore"
      <4>1. pc'[t] = "idle"
        BY <1>6, <3>2 DEF Store, Return, Goto, TypeOK
      <4>2. QED
        BY <4>1 DEF StoresIn, UntaggedIn, HasTagIn, UsesTag, Tagging
    <3>3. QED
      BY <3>1, <3>2
  <2>5. QED
    BY <2>2, <2>3, <2>4 DEF HooksKnow
<1>7. ASSUME NEW t \in Threads, NEW o \in Objects, CallUse(t, o) PROVE HooksKnow'
  <2>1. /\ o \in Usable(t) /\ Null \in Usable(t) \cup {Null}
        /\ Call(t, "use", o, Null, "getTag") /\ owed' = owed
    BY <1>7 DEF CallUse
  <2>2. QED
    BY <1>5, <2>1
<1>8. ASSUME NEW t \in Threads, CallNew(t) PROVE HooksKnow'
  <2>1. /\ owed[t] \in Usable(t) /\ Call(t, "new", owed[t], Null, "getTag")
        /\ owed' = [owed EXCEPT ![t] = Null]
    BY <1>8 DEF CallNew, HooksKnow, UsableIn, Usable
  <2>2. QED
    BY <1>5, <2>1
<1>9. ASSUME NEW t \in Threads, NEW kind, NEW o \in Objects, NEW x \in Objects \cup {Null},
             CallUpdate(t, kind, o, x)
      PROVE  HooksKnow'
  <2> DEFINE first == IF kind = "jniStore" THEN "store" ELSE "getTag"
  <2>1. /\ o \in Usable(t) /\ x \in Usable(t) \cup {Null} /\ first \in {"getTag", "store"}
        /\ Call(t, kind, o, x, first) /\ owed' = owed
    BY <1>9 DEF CallUpdate
  <2>2. QED
    BY <1>5, <2>1
<1>10. CASE fakeAGC
  BY <1>2, <1>10, CollectorFrame
<1>11. CASE UNCHANGED vars
  BY <1>2, <1>11 DEF vars, heapVars
<1>12. QED
  BY <1>1, <1>3, <1>4, <1>6, <1>7, <1>8, <1>9, <1>10, <1>11 DEF Next, Program

-----------------------------------------------------------------------------
(* The agent's tables.                                                     *)

\* Whatever a hook or fakeAGC puts in the tables is a tag that was given.
LEMMA StepTables ==
  ASSUME TypeOK, TypeOK', HooksKnow, TagsGiven, Given \subseteq Given', TablesGiven,
         [Next]_vars
  PROVE  TablesGiven'
<1> USE DEF TablesGiven
<1>a. \A o \in Objects : tag[o] \in Given \cup {0}
  BY DEF TagsGiven
<1>b. ASSUME NEW t \in Threads, Return(t)
      PROVE  \A u \in Threads : op'[u].old \in Given' \cup {0}
  BY <1>b DEF Return, NoOp, TypeOK
<1>c. ASSUME NEW t \in Threads, NextObject(t)
      PROVE  \A u \in Threads : op'[u].old \in Given' \cup {0}
  BY <1>c DEF NextObject, Ops, TypeOK
<1>d. ASSUME NEW x \in Given \cup {0}, timeStampTag(x) PROVE keys' \subseteq Given' \cup {0}
  BY <1>d DEF timeStampTag
<1>e. ASSUME op' = op PROVE \A u \in Threads : op'[u].old \in Given' \cup {0}
  BY <1>e
<1>1. ASSUME UNCHANGED <<keys, edge, op, nullList>> PROVE TablesGiven'
  BY <1>1
<1>2. ASSUME NEW t \in Threads, NEW kind, NEW o, NEW x, NEW first, Call(t, kind, o, x, first)
      PROVE  TablesGiven'
  BY <1>2 DEF Call, NoOp, TypeOK, shadow, search
<1>3. ASSUME NEW t \in Threads, Store(t) PROVE TablesGiven'
  BY <1>3, <1>b, <1>e DEF Store, shadow, search
<1>4. ASSUME NEW t \in Threads, Hook(t) PROVE TablesGiven'
  <2>1. CASE GetTag(t)
    BY <2>1, <1>c DEF GetTag, shadow, search
  <2>2. CASE tagObject(t)
    <3>1. \A u \in Threads : op'[u].old \in Given' \cup {0}
      <4>1. CASE NextObject(t)
        BY <4>1, <1>c
      <4>2. CASE op' = [op EXCEPT ![t].isNew = NeedsTag(Subject(t))]
        BY <4>2 DEF Ops, TypeOK
      <4>3. QED
        BY <2>2, <4>1, <4>2 DEF tagObject
    <3>2. QED
      BY <2>2, <3>1 DEF tagObject, shadow, search
  <2>3. CASE Allocate(t)
    BY <2>3, <1>c DEF Allocate, shadow, search
  <2>4. CASE StampNew(t)
    <3>1. Subject(t) \in Objects
      BY <2>4, ListFacts DEF StampNew, HooksKnow, Tagging
    <3>2. QED
      BY <2>4, <3>1, <1>a, <1>d DEF StampNew, shadow, search
  <2>5. CASE addObjectToHeap(t)
    BY <2>5, <1>c DEF addObjectToHeap, addNode, search, TypeOK
  <2>6. ASSUME pc[t] # "idle" PROVE op[t].origin \in Objects
    BY <2>6 DEF HooksKnow, UsableIn, Usable, TypeOK, Ops
  <2>7. CASE StampUse(t)
    BY <2>6, <2>7, <1>a, <1>b, <1>d, <1>e DEF StampUse, shadow, search
  <2>8. CASE RecordUse(t)
    BY <2>8, <1>b DEF RecordUse, shadow, search
  <2>9. CASE StampOrigin(t)
    BY <2>6, <2>9, <1>a, <1>d, <1>e DEF StampOrigin, shadow, search
  <2>10. CASE updateEdge(t)
    <3>1. TagOf(op[t].target) \in Given \cup {0} /\ tag[op[t].origin] \in Tags
      BY <2>6, <2>10, <1>a DEF updateEdge, TagOf, HooksKnow, HasTagIn, UsesTag, TypeOK, Ops
    <3>2. \A x \in Tags : edge'[x] \in Given' \cup {0}
      BY <2>10, <3>1 DEF updateEdge, TypeOK
    <3>3. \A u \in Threads : op'[u].old \in Given' \cup {0}
      BY <2>10, <3>1 DEF updateEdge, TypeOK, Ops
    <3>4. QED
      BY <2>10, <3>2, <3>3 DEF updateEdge, search
  <2>11. CASE StampOld(t)
    BY <2>11, <1>d, <1>e DEF StampOld, shadow, search
  <2>12. CASE RecordUpdate(t)
    BY <2>12, <1>b, <1>e DEF RecordUpdate, shadow, search
  <2>13. QED
    BY <1>4, <2>1, <2>2, <2>3, <2>4, <2>5, <2>7, <2>8, <2>9, <2>10, <2>11, <2>12 DEF Hook
<1>5. ASSUME fakeAGC PROVE TablesGiven'
  <2>1. CASE ForceGarbageCollection \/ IterateThroughHeap \/ ScanTagTimeMap
    BY <2>1, <1>1 DEF ForceGarbageCollection, IterateThroughHeap, ScanTagTimeMap, shadow, search
  <2>2. CASE computeObjectDeathTimes
    <3>1. \A x \in nodes : neighbors(x) \subseteq Given \cup {0}
      BY DEF neighbors, TypeOK
    <3>2. \A x : neighbors(x) \subseteq Given \cup {0}
      BY <3>1 DEF neighbors
    <3>3. {edge[x] : x \in deadSet \cap nodes} \subseteq Given \cup {0}
      BY DEF TypeOK
    <3>4. keys' \subseteq Given' \cup {0} /\ nullList' \subseteq Given' \cup {0}
      BY <2>2, <3>2, <3>3 DEF computeObjectDeathTimes, search
    <3>5. QED
      BY <2>2, <1>e, <3>4 DEF computeObjectDeathTimes, shadow, TypeOK
  <2>3. CASE Report
    BY <2>3, <1>e DEF Report, Forgotten, search
  <2>4. QED
    BY <1>5, <2>1, <2>2, <2>3 DEF fakeAGC
<1>6. ASSUME NEW t \in Threads, Program(t) PROVE TablesGiven'
  <2>1. ASSUME NEW o \in Objects, NEW owes \in BOOLEAN, Make(t, o, owes)
        PROVE  UNCHANGED <<keys, edge, op, nullList>>
    BY <2>1 DEF Make, shadow, search
  <2>2. ASSUME NEW x, Read(t, x) PROVE UNCHANGED <<keys, edge, op, nullList>>
    BY <2>2 DEF Read, shadow, search
  <2>3. QED
    BY <1>1, <1>2, <1>3, <1>6, <2>1, <2>2 DEF Program, CallUse, CallNew, CallUpdate
<1>7. CASE UNCHANGED vars
  BY <1>1, <1>7 DEF vars, shadow, search
<1>8. QED
  BY <1>4, <1>5, <1>6, <1>7 DEF Next

-----------------------------------------------------------------------------
(* The deaths.                                                             *)

\* Only ForceGarbageCollection collects; what was collected was out of reach, so
\* it is collected again.
LEMMA StepCollected ==
  ASSUME OutOfReach, [Next]_vars
  PROVE  /\ collected \subseteq collected'
         /\ gc # "idle" => collected' = collected
<1>1. CASE ForceGarbageCollection
  BY <1>1 DEF ForceGarbageCollection, OutOfReach
<1>2. CASE IterateThroughHeap \/ ScanTagTimeMap \/ computeObjectDeathTimes \/ Report
  BY <1>2 DEF IterateThroughHeap, ScanTagTimeMap, computeObjectDeathTimes, Report, heapVars
<1>3. CASE UNCHANGED vars
  BY <1>3 DEF vars, heapVars
<1>4. QED
  BY <1>1, <1>2, <1>3, HookFrame, ProgramFrame DEF Next, fakeAGC

\* A tag that is given while the heap has been walked and tagTimeMap not been
\* scanned is contested; every other tagged object was seen.
LEMMA StepWalked ==
  ASSUME TypeOK, TypeOK', TagsGiven, TagsKept, OutOfReach, WalkedLive, [Next]_vars
  PROVE  WalkedLive'
<1>1. CASE IterateThroughHeap
  BY <1>1 DEF IterateThroughHeap, TagsInHeap, WalkedLive, heapVars, tagVars, TypeOK
<1>2. CASE ForceGarbageCollection \/ ScanTagTimeMap \/ computeObjectDeathTimes \/ Report
  BY <1>2 DEF ForceGarbageCollection, ScanTagTimeMap, computeObjectDeathTimes, Report, WalkedLive
<1>3. ASSUME gc' = gc, liveObjects' = liveObjects PROVE WalkedLive'
  <2>1. SUFFICES ASSUME gc = "walked", NEW o \in made' \ collected', tag'[o] # 0,
                        tag'[o] \notin contested', o \in Objects
                 PROVE  tag'[o] \in liveObjects
    BY <1>3 DEF WalkedLive, TypeOK
  <2>2. collected' = collected /\ contested \subseteq contested'
    BY <2>1, StepCollected, TagsChange
  <2>3. CASE tag[o] # 0
    BY <2>1, <2>2, <2>3 DEF TagsGiven, TagsKept, WalkedLive
  <2>4. CASE tag[o] = 0
    <3>1. PICK t \in Threads : tagObject(t)
      BY <2>1, <2>4, TagsChange
    <3>2. tag'[o] = nextTag /\ nextTag \in contested'
      BY <2>1, <2>4, <3>1 DEF tagObject, TypeOK
    <3>3. QED
      BY <2>1, <3>2
  <2>5. QED
    BY <2>3, <2>4
<1>4. CASE UNCHANGED vars
  BY <1>3, <1>4 DEF vars
<1>5. QED
  BY <1>1, <1>2, <1>3, <1>4, HookFrame, ProgramFrame DEF Next, fakeAGC

\* What the scan adds to deadSet is collected or contested.
LEMMA StepDead ==
  ASSUME TypeOK, TagsGiven, TagsKept, TablesGiven, OutOfReach, WalkedLive, DeadCollected,
         [Next]_vars
  PROVE  DeadCollected'
<1>1. collected \subseteq collected' /\ contested \subseteq contested'
  BY StepCollected, TagsChange
<1>2. ASSUME NEW x \in deadSet \ contested PROVE \E o \in collected' : tag'[o] = x
  <2>1. PICK o \in collected : tag[o] = x
    BY DEF DeadCollected
  <2>2. o \in Objects /\ x # 0
    BY <2>1 DEF TypeOK, Tags
  <2>3. QED
    BY <1>1, <2>1, <2>2 DEF TagsKept
<1>3. ASSUME deadSet' \subseteq deadSet PROVE DeadCollected'
  BY <1>1, <1>2, <1>3 DEF DeadCollected
<1>4. CASE ScanTagTimeMap
  <2>1. /\ gc = "walked" /\ deadSet' = deadSet \cup ((keys \ liveObjects) \ {0})
        /\ tag' = tag /\ collected' = collected /\ contested' = contested
    BY <1>4 DEF ScanTagTimeMap, ObjectFree, heapVars, tagVars, history
  <2>2. ASSUME NEW x \in (keys \ liveObjects) \ {0}, x \notin contested
        PROVE  \E o \in collected : tag[o] = x
    <3>1. PICK o \in Objects : tag[o] = x
      BY DEF TablesGiven, TagsGiven
    <3>2. x # 0
      BY DEF TypeOK, Tags
    <3>3. o \in made
      BY <3>1, <3>2 DEF TagsGiven
    <3>4. o \in collected
      BY <2>1, <2>2, <3>1, <3>2, <3>3 DEF WalkedLive
    <3>5. QED
      BY <3>1, <3>4
  <2>3. QED
    BY <1>2, <2>1, <2>2 DEF DeadCollected
<1>5. CASE ForceGarbageCollection \/ IterateThroughHeap \/ computeObjectDeathTimes \/ Report
  BY <1>3, <1>5 DEF ForceGarbageCollection, IterateThroughHeap, computeObjectDeathTimes, Report
<1>6. CASE UNCHANGED vars
  BY <1>3, <1>6 DEF vars
<1>7. QED
  BY <1>3, <1>4, <1>5, <1>6, HookFrame, ProgramFrame DEF Next, fakeAGC

\* The records of deaths are those of deadSet.
LEMMA StepDeaths ==
  ASSUME TypeOK, TagsKept, OutOfReach, DeadCollected, DeathsTrue, [Next]_vars
  PROVE  DeathsTrue'
<1>1. collected \subseteq collected' /\ contested \subseteq contested'
  BY StepCollected, TagsChange
<1>2. ASSUME NEW x \in Tags, NEW o \in collected, tag[o] = x
      PROVE  \E p \in collected' : tag'[p] = x
  <2>1. o \in Objects /\ x # 0
    BY <1>2 DEF TypeOK, Tags
  <2>2. QED
    BY <1>1, <1>2, <2>1 DEF TagsKept
<1>3. ASSUME \A x \in Tags : deaths'[x] > 0 => deaths[x] > 0 \/ x \in deadSet
      PROVE  DeathsTrue'
  BY <1>1, <1>2, <1>3 DEF DeathsTrue, DeadCollected
<1>4. CASE Report
  BY <1>3, <1>4 DEF Report
<1>5. CASE deaths' = deaths
  BY <1>3, <1>5
<1>6. CASE ForceGarbageCollection \/ IterateThroughHeap \/ ScanTagTimeMap \/ computeObjectDeathTimes
  BY <1>5, <1>6 DEF ForceGarbageCollection, IterateThroughHeap, ScanTagTimeMap,
     computeObjectDeathTimes, history
<1>7. CASE UNCHANGED vars
  BY <1>5, <1>7 DEF vars, history
<1>8. QED
  BY <1>4, <1>5, <1>6, <1>7, HookFrame, ProgramFrame DEF Next, fakeAGC

-----------------------------------------------------------------------------
(* The theorems.                                                           *)

LEMMA InitInv == Init => IInv
<1> SUFFICES ASSUME Init PROVE IInv
  OBVIOUS
<1> USE TrackingAssumption
<1>1. TypeOK
  BY InitTyped
<1>2. HooksKnow
  BY DEF Init, HooksKnow, UntaggedIn, StoresIn, HasTagIn, UsableIn, Tagging, UsesTag
<1>3. TagsGiven /\ TablesGiven
  BY DEF Init, TagsGiven, TablesGiven, Given, NoOp
<1>4. OutOfReach
  <2>1. Reachable \subseteq {Shared}
    <3>1. {Shared} \in SUBSET Objects
      OBVIOUS
    <3>2. Roots \subseteq {Shared} /\ \A p \in {Shared} : field[p] \in {Shared} \cup {Null}
      BY DEF Init, Roots
    <3>3. QED
      BY <3>1, <3>2, ReachableLeast
  <2>2. QED
    BY <2>1 DEF Init, OutOfReach
<1>5. WalkedLive /\ DeadCollected /\ DeathsTrue
  BY DEF Init, WalkedLive, DeadCollected, DeathsTrue
<1>6. QED
  BY <1>1, <1>2, <1>3, <1>4, <1>5 DEF IInv, HookInv

\* A hook tags objects that exist.
LEMMA SubjectMade ==
  ASSUME TypeOK, HooksKnow, OutOfReach, NEW t \in Threads, pc[t] \in Tagging
  PROVE  Subject(t) \in made
<1>1. Subject(t) \in {op[t].origin, op[t].target} \ {Null}
  <2>1. op[t].origin \in Objects /\ Subject(t) \in Objects
    <3>1. UntaggedIn(t) /\ UsableIn(t) /\ pc[t] # "idle" /\ held[t] \in Objects \cup {Null}
      BY DEF HooksKnow, Tagging, TypeOK
    <3>2. Subject(t) \in Objects
      BY <3>1, ListFacts
    <3> QED BY TrackingAssumption, <3>1, <3>2 DEF UsableIn, Usable
  <2>2. UntaggedIn(t)
    BY DEF HooksKnow
  <2>3. QED
    BY <2>1, <2>2, TrackingAssumption DEF UntaggedIn, Subject
<1>2. {op[t].origin, op[t].target} \ {Null} \subseteq Usable(t)
  BY DEF HooksKnow, UsableIn, Tagging
<1>3. QED
  BY <1>1, <1>2, UsableReachable DEF OutOfReach

LEMMA StepInv == IInv /\ [Next]_vars => IInv' /\ TagsKept
<1> SUFFICES ASSUME IInv, [Next]_vars PROVE IInv' /\ TagsKept
  OBVIOUS
<1> USE DEF IInv, HookInv
<1>1. TypeOK'
  BY StepTyped
<1>2. TagsGiven' /\ Given \subseteq Given' /\ TagsKept
  BY StepTags, SubjectMade DEF TypeOK, TagsKept
<1>3. HooksKnow'
  BY <1>1, <1>2, StepHooksKnow
<1>4. TablesGiven'
  BY <1>1, <1>2, StepTables
<1>5. OutOfReach'
  BY <1>1, StepOutOfReach
<1>6. WalkedLive' /\ DeadCollected' /\ DeathsTrue'
  BY <1>1, <1>2, StepWalked, StepDead, StepDeaths
<1>7. QED
  BY <1>1, <1>2, <1>3, <1>4, <1>5, <1>6

\* IInv holds in every state.
LEMMA Inductive == Spec => []IInv
BY InitInv, StepInv, PTL DEF Spec

\* The types, for every number of threads and objects and every bound.
THEOREM TypeCorrect == Spec => []TypeOK
<1>1. IInv => TypeOK
  BY DEF IInv, HookInv
<1>2. QED
  BY <1>1, Inductive, PTL

\* Tags are permanent and unique however the hooks of any number of threads interleave.
THEOREM TagsUnique == Spec => OneTag
<1> DEFINE Unique == \A o \in Objects : tag'[o] # 0 =>
                       /\ tag[o] \in {0, tag'[o]}
                       /\ \A p \in Objects \ {o} : tag'[p] # tag'[o]
<1>1. IInv /\ [Next]_vars => [Unique]_vars
  <2>1. SUFFICES ASSUME IInv, [Next]_vars PROVE Unique
    OBVIOUS
  <2>2. TagsGiven' /\ TagsKept
    BY <2>1, StepInv DEF IInv, HookInv
  <2>3. QED
    BY <2>2 DEF TagsGiven, TagsKept
<1>2. QED
  <2> HIDE DEF Unique
  <2>1. Spec => [][Unique]_vars
    BY <1>1, Inductive, PTL DEF Spec
  <2>2. QED
    BY <2>1 DEF OneTag, Unique

\* Only what the program has lost is reported dead, the contested tags apart.
THEOREM OnlyLostObjectsDie == Spec => []DeathsTrue
<1>1. IInv => DeathsTrue
  BY DEF IInv
<1>2. QED
  BY <1>1, Inductive, PTL

-----------------------------------------------------------------------------
(* Records and tables.                                                     *)

InAllocation(t, x) == pc[t] = "allocate" /\ tag[Subject(t)] = x

\* A tag that is not contested has one hook that records its allocation, once.
OneRecord ==
  /\ \A x \in Tags \ Given : allocations[x] = 0
  /\ \A x \in Given \ contested :
       /\ allocations[x] <= 1
       /\ \A t \in Threads : InAllocation(t, x) =>
            allocations[x] = 0 /\ \A u \in Threads \ {t} : ~InAllocation(u, x)

\* The hook t will record the allocation of o, stamp its tag, and give it a node.
WillRecord(t, o) == pc[t] = "allocate" /\ op[t].isNew /\ Subject(t) = o
WillStamp(t, o) ==
  \/ WillRecord(t, o)
  \/ pc[t] = "stampNew" /\ Subject(t) = o
  \/ pc[t] = "addNode" /\ op[t].kind = "new" /\ Subject(t) = o
  \/ pc[t] = "stampUse" /\ op[t].kind = "new" /\ op[t].origin = o
WillAddNode(t, o) ==
  \/ WillRecord(t, o)
  \/ pc[t] \in {"stampNew", "addNode"} /\ Subject(t) = o

\* What a tagged object lacks, some hook is about to add.
Tracked(o) ==
  /\ allocations[tag[o]] > 0 \/ \E t \in Threads : WillRecord(t, o)
  /\ deaths[tag[o]] > 0 \/ tag[o] \in keys \/ \E t \in Threads : WillStamp(t, o)
  /\ deaths[tag[o]] > 0 \/ tag[o] \in nodes \/ \E t \in Threads : WillAddNode(t, o)

\* The hook for a new object has no second object.
NewAlone == \A t \in Threads : op[t].kind = "new" => op[t].target = Null

RecordInv ==
  /\ OneRecord
  /\ NewAlone
  /\ \A o \in Objects : tag[o] # 0 => Tracked(o)

-----------------------------------------------------------------------------
LEMMA InitRecords == Init => RecordInv
BY DEF Init, RecordInv, OneRecord, NewAlone, Given, NoOp

-----------------------------------------------------------------------------
(* One allocation record.                                                  *)

\* A hook that goes on to the next object records no allocation at once.
LEMMA NextNotAllocate ==
  ASSUME TypeOK, NEW t \in Threads, NextObject(t)
  PROVE  pc'[t] # "allocate"
BY DEF NextObject, Goto, TagsKnown, TypeOK

\* Only tagObject leads to an allocation record, and only Allocate writes one.
LEMMA HookAllocates ==
  ASSUME TypeOK, NEW t \in Threads, Hook(t), ~tagObject(t)
  PROVE  /\ pc'[t] # "allocate"
         /\ ~Allocate(t) => allocations' = allocations
<1>1. ~Allocate(t) => allocations' = allocations
  BY DEF Hook, GetTag, StampNew, addObjectToHeap, StampUse, RecordUse, StampOrigin, updateEdge,
         StampOld, RecordUpdate, history
<1>2. NextObject(t) => pc'[t] # "allocate"
  BY NextNotAllocate
<1>3. Return(t) => pc'[t] # "allocate"
  BY DEF Return, Goto, TypeOK
<1>4. pc \in [Threads -> Labels]
  BY DEF TypeOK
<1> USE DEF Goto
<1>5. GetTag(t) => pc'[t] # "allocate"
  BY <1>2, <1>4 DEF GetTag
<1>6. Allocate(t) => pc'[t] # "allocate"
  BY <1>2, <1>4 DEF Allocate, AfterAllocation
<1>7. StampNew(t) => pc'[t] # "allocate"
  BY <1>4 DEF StampNew
<1>8. addObjectToHeap(t) => pc'[t] # "allocate"
  BY <1>2 DEF addObjectToHeap
<1>9. StampOrigin(t) \/ updateEdge(t) => pc'[t] # "allocate"
  BY <1>4 DEF StampOrigin, updateEdge
<1>10. StampUse(t) => pc'[t] # "allocate"
  BY <1>3, <1>4 DEF StampUse
<1>11. RecordUse(t) => pc'[t] # "allocate"
  BY <1>3 DEF RecordUse
<1>12. StampOld(t) => pc'[t] # "allocate"
  BY <1>4 DEF StampOld
<1>13. RecordUpdate(t) => pc'[t] # "allocate"
  BY <1>3, <1>4 DEF RecordUpdate
<1> QED BY <1>1, <1>5, <1>6, <1>7, <1>8, <1>9, <1>10, <1>11, <1>12, <1>13 DEF Hook

LEMMA ProgramAllocates ==
  ASSUME TypeOK, NEW t \in Threads, Program(t)
  PROVE  /\ allocations' = allocations
         /\ \A u \in Threads \ {t} : op'[u] = op[u] /\ pc'[u] = pc[u]
         /\ \/ op' = op /\ pc' = pc
            \/ /\ pc[t] \in {"idle", "store"} /\ pc'[t] \in {"idle", "getTag", "store"}
               /\ op'[t].kind = "new" => op'[t].target = Null \/ op' = op
<1> USE DEF TypeOK, Goto
<1>1. ASSUME NEW o, NEW owes, Make(t, o, owes) PROVE UNCHANGED <<allocations, op, pc>>
  BY <1>1 DEF Make, history
<1>2. ASSUME NEW x, Read(t, x) PROVE UNCHANGED <<allocations, op, pc>>
  BY <1>2 DEF Read, history
<1>3. ASSUME NEW kind, NEW o, NEW x, NEW first \in {"getTag", "store"},
             Call(t, kind, o, x, first), kind = "new" => x = Null
      PROVE  /\ allocations' = allocations
             /\ \A u \in Threads \ {t} : op'[u] = op[u] /\ pc'[u] = pc[u]
             /\ pc[t] = "idle" /\ pc'[t] \in {"getTag", "store"}
             /\ op'[t].kind = "new" => op'[t].target = Null
  <2>1. op'[t].kind = kind /\ op'[t].target = x
    BY <1>3 DEF Call, NoOp
  <2> QED BY <1>3, <2>1 DEF Call, history
<1>4. ASSUME NEW o, CallUse(t, o) PROVE Call(t, "use", o, Null, "getTag")
  BY <1>4 DEF CallUse
<1>5. CallNew(t) => Call(t, "new", owed[t], Null, "getTag")
  BY DEF CallNew
<1>6. ASSUME NEW kind \in {"update", "arrayStore", "jniStore"}, NEW o, NEW x,
             CallUpdate(t, kind, o, x)
      PROVE  \E first \in {"getTag", "store"} : Call(t, kind, o, x, first)
  BY <1>6 DEF CallUpdate
<1>7. Store(t) => /\ allocations' = allocations
                  /\ \A u \in Threads \ {t} : op'[u] = op[u] /\ pc'[u] = pc[u]
                  /\ pc[t] = "store" /\ pc'[t] \in {"idle", "getTag"}
                  /\ op'[t].kind = "new" => op' = op
  BY DEF Store, Return, NoOp
<1>8. ASSUME NEW o, CallUse(t, o)
      PROVE  /\ allocations' = allocations
             /\ \A u \in Threads \ {t} : op'[u] = op[u] /\ pc'[u] = pc[u]
             /\ pc[t] = "idle" /\ pc'[t] \in {"getTag", "store"}
             /\ op'[t].kind = "new" => op'[t].target = Null
  BY <1>3, <1>4, <1>8
<1>9. ASSUME CallNew(t)
      PROVE  /\ allocations' = allocations
             /\ \A u \in Threads \ {t} : op'[u] = op[u] /\ pc'[u] = pc[u]
             /\ pc[t] = "idle" /\ pc'[t] \in {"getTag", "store"}
             /\ op'[t].kind = "new" => op'[t].target = Null
  BY <1>3, <1>5, <1>9
<1>10. ASSUME NEW kind \in {"update", "arrayStore", "jniStore"}, NEW o, NEW x,
              CallUpdate(t, kind, o, x)
       PROVE  /\ allocations' = allocations
              /\ \A u \in Threads \ {t} : op'[u] = op[u] /\ pc'[u] = pc[u]
              /\ pc[t] = "idle" /\ pc'[t] \in {"getTag", "store"}
              /\ op'[t].kind = "new" => op'[t].target = Null
  <2>1. PICK first \in {"getTag", "store"} : Call(t, kind, o, x, first)
    BY <1>6, <1>10
  <2>2. kind # "new"
    OBVIOUS
  <2>3. QED
    BY <1>3, <2>1, <2>2
<1> QED BY <1>1, <1>2, <1>7, <1>8, <1>9, <1>10 DEF Program

LEMMA CollectorAllocates ==
  ASSUME fakeAGC
  PROVE  UNCHANGED <<allocations, op, pc, tag, nextTag, contested>>
BY DEF fakeAGC, ForceGarbageCollection, IterateThroughHeap, ScanTagTimeMap,
   computeObjectDeathTimes, Report, tagVars, history, heapVars

\* Where no tag is given and no allocation recorded, nothing changes for the better.
LEMMA NoNewAllocation ==
  ASSUME OneRecord, UNCHANGED <<allocations, tag, nextTag>>, contested \subseteq contested',
         \A u \in Threads : pc'[u] = "allocate" => pc[u] = "allocate" /\ op'[u] = op[u]
  PROVE  OneRecord'
<1>1. \A u \in Threads, x \in Given : InAllocation(u, x)' => InAllocation(u, x)
  BY DEF InAllocation, Subject
<1> QED BY <1>1 DEF OneRecord, Given

LEMMA tagObjectRecords ==
  ASSUME TypeOK, HooksKnow, TagsGiven, OneRecord, NEW t \in Threads, tagObject(t)
  PROVE  OneRecord'
<1> DEFINE o == Subject(t)
<1>1. pc[t] = "tagObject" /\ o \in Objects /\ allocations' = allocations
  BY ListFacts DEF tagObject, Tagging, HooksKnow
<1>2. \A u \in Threads \ {t} : op'[u] = op[u] /\ pc'[u] = pc[u]
  BY HookOps DEF Hook
<1>3. \A u \in Threads : pc[u] = "allocate" => Subject(u) \in Objects /\ tag[Subject(u)] # 0
  BY ListFacts DEF HooksKnow, HasTagIn, Tagging
<1>4. nextTag \in Tags /\ Given = 1 .. nextTag - 1 /\ nextTag \notin Given
  BY DEF tagObject, Tags, Given
<1>5. CASE NeedsTag(o)
  <2>1. /\ tag' = [tag EXCEPT ![o] = nextTag] /\ nextTag' = nextTag + 1 /\ tag[o] = 0
        /\ contested \subseteq contested'
    BY <1>5 DEF tagObject, NeedsTag
  <2>2. Given' = Given \cup {nextTag}
    BY <1>4, <2>1 DEF Given, Tags
  <2>3. \A u \in Threads \ {t} : \A x : InAllocation(u, x)' => InAllocation(u, x) /\ x \in Given
    BY <1>1, <1>2, <1>3, <2>1 DEF InAllocation, Subject, TypeOK, TagsGiven
  <2>4. \A x : InAllocation(t, x)' => x = nextTag
    <3>1. pc'[t] = "allocate" => Subject(t)' = o
      <4>1. NextObject(t) \/ op' = [op EXCEPT ![t].isNew = NeedsTag(o)]
        BY DEF tagObject
      <4>2. op' = [op EXCEPT ![t].isNew = NeedsTag(o)] => Subject(t)' = o
        BY DEF Subject, TypeOK, Ops
      <4> QED BY <4>1, <4>2, NextNotAllocate
    <3> QED BY <1>1, <2>1, <3>1 DEF InAllocation, TypeOK
  <2>5. allocations[nextTag] = 0
    BY <1>4 DEF OneRecord
  <2>6. \A x \in Tags \ Given' : allocations'[x] = 0
    BY <1>1, <2>2 DEF OneRecord
  <2>7. ASSUME NEW x \in Given' \ contested'
        PROVE  /\ allocations'[x] <= 1
               /\ \A u \in Threads : InAllocation(u, x)' =>
                    allocations'[x] = 0 /\ \A v \in Threads \ {u} : ~InAllocation(v, x)'
    <3>1. CASE x = nextTag
      BY <1>1, <1>4, <2>3, <2>5, <3>1
    <3>2. CASE x # nextTag
      <4>1. x \in Given \ contested
        BY <2>1, <2>2, <3>2
      <4>2. \A u \in Threads : InAllocation(u, x)' => InAllocation(u, x)
        BY <2>3, <2>4, <3>2
      <4> QED BY <1>1, <4>1, <4>2 DEF OneRecord
    <3> QED BY <3>1, <3>2
  <2> QED BY <2>6, <2>7 DEF OneRecord
<1>6. CASE ~NeedsTag(o)
  <2>1. /\ UNCHANGED <<tag, nextTag>> /\ tag[o] # 0 /\ contested \subseteq contested'
        /\ op[t].kind = "new" => tag[o] \in contested'
        /\ op[t].kind # "new" => NextObject(t)
    BY <1>6 DEF tagObject, NeedsTag, Recorded
  <2>2. \A x : InAllocation(t, x)' => x \in contested'
    <3>1. pc'[t] = "allocate" => Subject(t)' = o /\ op[t].kind = "new"
      BY <1>6, <2>1, NextNotAllocate DEF tagObject, Subject, TypeOK, Ops
    <3> QED BY <2>1, <3>1 DEF InAllocation
  <2>3. \A u \in Threads \ {t} : \A x : InAllocation(u, x)' => InAllocation(u, x)
    BY <1>2, <2>1 DEF InAllocation, Subject
  <2>4. Given' = Given
    BY <2>1 DEF Given
  <2>5. ASSUME NEW x \in Given' \ contested'
        PROVE  /\ allocations'[x] <= 1
               /\ \A u \in Threads : InAllocation(u, x)' =>
                    allocations'[x] = 0 /\ \A v \in Threads \ {u} : ~InAllocation(v, x)'
    <3>1. x \in Given \ contested
      BY <2>1, <2>4
    <3>2. \A u \in Threads : InAllocation(u, x)' => InAllocation(u, x)
      BY <2>2, <2>3
    <3> QED BY <1>1, <3>1, <3>2 DEF OneRecord
  <2> QED BY <1>1, <2>4, <2>5 DEF OneRecord
<1> QED BY <1>5, <1>6

LEMMA AllocateRecords ==
  ASSUME TypeOK, HooksKnow, TagsGiven, OneRecord, NEW t \in Threads, Allocate(t)
  PROVE  OneRecord'
<1> DEFINE y == tag[Subject(t)]
<1>1. /\ pc[t] = "allocate" /\ allocations' = [allocations EXCEPT ![y] = @ + 1]
      /\ UNCHANGED <<tag, nextTag, contested>>
  BY DEF Allocate, tagVars
<1>2. Subject(t) \in Objects /\ y # 0 /\ y \in Given
  BY <1>1, ListFacts DEF HooksKnow, HasTagIn, Tagging, TagsGiven
<1>3. \A u \in Threads \ {t} : op'[u] = op[u] /\ pc'[u] = pc[u]
  BY HookOps DEF Hook
<1>4. pc'[t] # "allocate"
  BY HookAllocates, <1>1 DEF Hook, tagObject
<1>5. \A u \in Threads, x \in Given : InAllocation(u, x)' => u # t /\ InAllocation(u, x)
  BY <1>1, <1>3, <1>4 DEF InAllocation, Subject
<1>6. Given' = Given /\ Given \subseteq Tags
  BY <1>1, TrackingAssumption DEF Given, TypeOK, Tags
<1>7. \A x \in Tags : allocations'[x] = IF x = y THEN allocations[x] + 1 ELSE allocations[x]
  BY <1>1, <1>2, <1>6 DEF TypeOK
<1>8. InAllocation(t, y)
  BY <1>1 DEF InAllocation
<1> HIDE DEF y
<1>9. ASSUME NEW x \in Given \ contested
      PROVE  /\ allocations'[x] <= 1
             /\ \A u \in Threads : InAllocation(u, x)' =>
                  allocations'[x] = 0 /\ \A v \in Threads \ {u} : ~InAllocation(v, x)'
  <2>1. CASE x = y
    BY <1>5, <1>6, <1>7, <1>8, <2>1 DEF OneRecord
  <2>2. CASE x # y
    BY <1>5, <1>6, <1>7, <2>2 DEF OneRecord
  <2> QED BY <2>1, <2>2
<1>10. \A x \in Tags \ Given : allocations'[x] = 0
  BY <1>2, <1>7 DEF OneRecord
<1> QED BY <1>1, <1>6, <1>9, <1>10 DEF OneRecord

LEMMA StepOneRecord ==
  ASSUME TypeOK, HooksKnow, TagsGiven, OneRecord, [Next]_vars
  PROVE  OneRecord'
<1>1. ASSUME NEW t \in Threads, Hook(t) PROVE OneRecord'
  <2>1. CASE tagObject(t)
    BY <2>1, tagObjectRecords
  <2>2. CASE Allocate(t)
    BY <2>2, AllocateRecords
  <2>3. CASE ~tagObject(t) /\ ~Allocate(t)
    <3>1. UNCHANGED <<allocations, tag, nextTag, contested>>
      BY <1>1, <2>3, HookTags, HookAllocates
    <3>2. \A u \in Threads : pc'[u] = "allocate" => pc[u] = "allocate" /\ op'[u] = op[u]
      BY <1>1, <2>3, HookAllocates, HookOps
    <3> QED BY <3>1, <3>2, NoNewAllocation
  <2> QED BY <2>1, <2>2, <2>3
<1>2. ASSUME NEW t \in Threads, Program(t) PROVE OneRecord'
  BY <1>2, ProgramAllocates, ProgramFrame, NoNewAllocation
<1>3. CASE fakeAGC
  BY <1>3, CollectorAllocates, NoNewAllocation
<1>4. CASE UNCHANGED vars
  BY <1>4, NoNewAllocation DEF vars, tagVars, history
<1> QED BY <1>1, <1>2, <1>3, <1>4 DEF Next

-----------------------------------------------------------------------------
(* What a hook is about to add, it adds.                                   *)

\* A hook keeps its kind, its origin and its target to its end.
LEMMA HookKeepsKind ==
  ASSUME TypeOK, NEW t \in Threads, Hook(t)
  PROVE  \/ pc'[t] = "idle"
         \/ /\ op'[t].kind = op[t].kind
            /\ op'[t].origin = op[t].origin /\ op'[t].target = op[t].target
<1>1. ASSUME NextObject(t) PROVE op'[t].kind = op[t].kind
  BY <1>1 DEF NextObject, TypeOK, Ops
<1>2. ASSUME Return(t) PROVE pc'[t] = "idle"
  BY <1>2 DEF Return, Goto, TypeOK
<1>3. ASSUME NEW b, op' = [op EXCEPT ![t].isNew = b] PROVE op'[t].kind = op[t].kind
  BY <1>3 DEF TypeOK, Ops
<1>4. ASSUME NEW x, op' = [op EXCEPT ![t].old = x] PROVE op'[t].kind = op[t].kind
  BY <1>4 DEF TypeOK, Ops
<1>5. GetTag(t) \/ tagObject(t) \/ Allocate(t) \/ StampNew(t) \/ addObjectToHeap(t) =>
        op'[t].kind = op[t].kind
  BY <1>1, <1>3 DEF GetTag, tagObject, Allocate, StampNew, addObjectToHeap
<1>6. StampUse(t) \/ RecordUse(t) \/ StampOrigin(t) \/ updateEdge(t) \/ StampOld(t)
        \/ RecordUpdate(t) => pc'[t] = "idle" \/ op'[t].kind = op[t].kind
  BY <1>2, <1>4 DEF StampUse, RecordUse, StampOrigin, updateEdge, StampOld, RecordUpdate
<1>7. pc'[t] # "idle" => op'[t].origin = op[t].origin /\ op'[t].target = op[t].target
  BY HookOps
<1>8. pc'[t] = "idle" \/ op'[t].kind = op[t].kind
  BY <1>5, <1>6 DEF Hook
<1> QED BY <1>7, <1>8

\* The records and tables only grow in a hook, and get what the hook was about to add.
LEMMA HookAdds ==
  ASSUME TypeOK, HooksKnow, NewAlone, NEW t \in Threads, Hook(t), NEW o \in Objects, tag[o] # 0
  PROVE  /\ allocations'[tag[o]] >= allocations[tag[o]]
         /\ keys \subseteq keys' /\ nodes \subseteq nodes'
         /\ WillRecord(t, o) => WillRecord(t, o)' \/ allocations'[tag[o]] > 0
         /\ WillStamp(t, o) => WillStamp(t, o)' \/ tag[o] \in keys'
         /\ WillAddNode(t, o) => WillAddNode(t, o)' \/ tag[o] \in nodes'
<1>0. /\ tag[o] \in Tags /\ allocations \in [Tags -> Nat] /\ pc \in [Threads -> Labels]
      /\ op \in [Threads -> Ops]
  BY DEF TypeOK
<1>1. keys \subseteq keys' /\ nodes \subseteq nodes'
  BY DEF Hook, GetTag, tagObject, Allocate, StampNew, addObjectToHeap, StampUse, RecordUse,
         StampOrigin, updateEdge, StampOld, RecordUpdate, timeStampTag, addNode, shadow
<1>2. CASE Allocate(t)
  <2>1. /\ pc[t] = "allocate" /\ UNCHANGED tag
        /\ allocations' = [allocations EXCEPT ![tag[Subject(t)]] = @ + 1]
    BY <1>2 DEF Allocate, tagVars
  <2>2. Subject(t) \in Objects /\ tag[Subject(t)] \in Tags
    BY <2>1, ListFacts DEF HooksKnow, HasTagIn, Tagging, TypeOK
  <2>3. \A x \in Tags : allocations'[x] = IF x = tag[Subject(t)] THEN allocations[x] + 1
                                          ELSE allocations[x]
    BY <1>0, <2>1, <2>2
  <2>4. allocations'[tag[o]] >= allocations[tag[o]]
        /\ (WillRecord(t, o) => allocations'[tag[o]] > 0)
    BY <1>0, <2>3 DEF WillRecord
  <2>5. ASSUME WillRecord(t, o)
        PROVE  WillStamp(t, o)' /\ WillAddNode(t, o)'
    <3>1. op' = op /\ Goto(t, AfterAllocation(op[t].kind)) /\ Subject(t) = o
      BY <1>2, <2>5 DEF Allocate, WillRecord
    <3>2. Subject(t)' = o
      BY <3>1 DEF Subject
    <3>3. CASE op[t].kind = "new"
      <4>1. pc'[t] = "addNode"
        BY <1>0, <3>1, <3>3 DEF Goto, AfterAllocation
      <4> QED BY <3>1, <3>2, <3>3, <4>1 DEF WillStamp, WillAddNode
    <3>4. CASE op[t].kind # "new"
      <4>1. pc'[t] = "stampNew"
        BY <1>0, <3>1, <3>4 DEF Goto, AfterAllocation
      <4> QED BY <3>2, <4>1 DEF WillStamp, WillAddNode
    <3> QED BY <3>3, <3>4
  <2>6. WillStamp(t, o) \/ WillAddNode(t, o) => WillRecord(t, o)
    BY <2>1 DEF WillStamp, WillAddNode
  <2> QED BY <1>1, <2>4, <2>5, <2>6
<1>3. CASE StampNew(t)
  <2>1. /\ pc[t] = "stampNew" /\ pc'[t] = "addNode" /\ op' = op
        /\ UNCHANGED <<allocations, tag>> /\ timeStampTag(tag[Subject(t)])
    BY <1>0, <1>3 DEF StampNew, Goto, history, tagVars
  <2>2. WillStamp(t, o) => tag[o] \in keys'
    BY <2>1 DEF WillStamp, WillRecord, timeStampTag
  <2>3. WillAddNode(t, o) => WillAddNode(t, o)'
    BY <2>1 DEF WillAddNode, WillRecord, Subject
  <2> QED BY <1>0, <1>1, <2>1, <2>2, <2>3 DEF WillRecord
<1>4. CASE addObjectToHeap(t)
  <2>1. /\ pc[t] = "addNode" /\ NextObject(t) /\ UNCHANGED <<allocations, tag>>
        /\ addNode(tag[Subject(t)])
    BY <1>4 DEF addObjectToHeap, history, tagVars
  <2>2. WillAddNode(t, o) => tag[o] \in nodes'
    BY <2>1 DEF WillAddNode, WillRecord, addNode
  <2>3. ASSUME WillStamp(t, o)
        PROVE  WillStamp(t, o)'
    <3>1. op[t].kind = "new" /\ op[t].target = Null /\ Subject(t) = o
      BY <2>1, <2>3 DEF WillStamp, WillRecord, NewAlone
    <3>2. op[t].untagged = <<op[t].origin>>
      BY <2>1, <3>1, <2>3 DEF HooksKnow, UntaggedIn, Tagging
    <3>3. op[t].origin = o /\ ~(Len(op[t].untagged) > 1)
      BY <3>1, <3>2 DEF Subject
    <3>4. pc'[t] = "stampUse"
      BY <1>0, <2>1, <3>1, <3>3 DEF NextObject, Goto, TagsKnown
    <3>5. op'[t].kind = "new" /\ op'[t].origin = o
      BY <3>1, <3>3, <3>4, HookKeepsKind
    <3> QED BY <3>4, <3>5 DEF WillStamp
  <2> QED BY <1>0, <1>1, <2>1, <2>2, <2>3 DEF WillRecord
<1>5. CASE StampUse(t)
  <2>1. /\ pc[t] = "stampUse" /\ UNCHANGED <<allocations, tag>> /\ timeStampTag(tag[op[t].origin])
    BY <1>5 DEF StampUse, history, tagVars
  <2>2. WillStamp(t, o) => tag[o] \in keys'
    BY <2>1 DEF WillStamp, WillRecord, timeStampTag
  <2> QED BY <1>0, <1>1, <2>1, <2>2 DEF WillRecord, WillAddNode
<1>6. CASE GetTag(t) \/ tagObject(t) \/ RecordUse(t) \/ StampOrigin(t) \/ updateEdge(t)
           \/ StampOld(t) \/ RecordUpdate(t)
  <2>1. /\ pc[t] \notin {"allocate", "stampNew", "addNode", "stampUse"}
        /\ allocations' = allocations
    BY <1>6 DEF GetTag, tagObject, RecordUse, StampOrigin, updateEdge, StampOld, RecordUpdate,
                history
  <2> QED BY <1>0, <1>1, <2>1 DEF WillRecord, WillStamp, WillAddNode
<1> QED BY <1>2, <1>3, <1>4, <1>5, <1>6 DEF Hook

\* The hook that gives a tag is about to add everything.
LEMMA TagStartsRecords ==
  ASSUME TypeOK, HooksKnow, NEW t \in Threads, tagObject(t), NEW o \in Objects,
         tag[o] = 0, tag'[o] # 0
  PROVE  WillRecord(t, o)'
<1>1. Subject(t) = o /\ NeedsTag(Subject(t))
  BY DEF tagObject, TypeOK
<1>2. op' = [op EXCEPT ![t].isNew = TRUE] /\ Goto(t, "allocate")
  BY <1>1 DEF tagObject, Recorded, NeedsTag
<1>3. op'[t].isNew /\ Subject(t)' = o /\ pc'[t] = "allocate"
  BY <1>1, <1>2 DEF Goto, TypeOK, Ops, Subject
<1> QED BY <1>3 DEF WillRecord

\* Who was to add something and took no step, still is.
LEMMA StillWill ==
  ASSUME NEW u, NEW o, op'[u] = op[u], pc'[u] = pc[u]
  PROVE  /\ WillRecord(u, o) => WillRecord(u, o)'
         /\ WillStamp(u, o) => WillStamp(u, o)'
         /\ WillAddNode(u, o) => WillAddNode(u, o)'
BY DEF WillRecord, WillStamp, WillAddNode, Subject

LEMMA StepTracked ==
  ASSUME TypeOK, HooksKnow, TagsKept, NewAlone, NEW o \in Objects,
         tag[o] # 0 => Tracked(o), [Next]_vars, tag'[o] # 0
  PROVE  Tracked(o)'
<1>0. allocations \in [Tags -> Nat] /\ deaths \in [Tags -> Nat] /\ tag[o] \in Tags \cup {0}
  BY DEF TypeOK
<1>1. ASSUME NEW t \in Threads, Hook(t), tag[o] # 0 PROVE Tracked(o)'
  <2>1. tag'[o] = tag[o] /\ deaths' = deaths
    BY <1>1, HookFrame DEF TagsKept
  <2>2. /\ allocations'[tag[o]] >= allocations[tag[o]]
        /\ keys \subseteq keys' /\ nodes \subseteq nodes'
        /\ WillRecord(t, o) => WillRecord(t, o)' \/ allocations'[tag[o]] > 0
        /\ WillStamp(t, o) => WillStamp(t, o)' \/ tag[o] \in keys'
        /\ WillAddNode(t, o) => WillAddNode(t, o)' \/ tag[o] \in nodes'
    BY <1>1, HookAdds
  <2>3. ASSUME NEW u \in Threads \ {t}
        PROVE  /\ WillRecord(u, o) => WillRecord(u, o)'
               /\ WillStamp(u, o) => WillStamp(u, o)'
               /\ WillAddNode(u, o) => WillAddNode(u, o)'
    BY <1>1, HookOps, StillWill
  <2>4. allocations'[tag[o]] > 0 \/ \E u \in Threads : WillRecord(u, o)'
    <3>1. CASE allocations[tag[o]] > 0
      <4>1. allocations'[tag[o]] \in Nat
        BY <1>0, <1>1, HookAllocates, CollectorAllocates DEF tagObject, Allocate, TypeOK
      <4> QED BY <1>0, <1>1, <2>2, <3>1, <4>1
    <3>2. CASE \E u \in Threads : WillRecord(u, o)
      BY <2>2, <2>3, <3>2
    <3> QED BY <1>1, <3>1, <3>2 DEF Tracked
  <2>5. deaths[tag[o]] > 0 \/ tag[o] \in keys' \/ \E u \in Threads : WillStamp(u, o)'
    BY <1>1, <2>2, <2>3 DEF Tracked
  <2>6. deaths[tag[o]] > 0 \/ tag[o] \in nodes' \/ \E u \in Threads : WillAddNode(u, o)'
    BY <1>1, <2>2, <2>3 DEF Tracked
  <2> QED BY <2>1, <2>4, <2>5, <2>6 DEF Tracked
<1>2. ASSUME NEW t \in Threads, Hook(t), tag[o] = 0 PROVE Tracked(o)'
  <2>1. tagObject(t)
    BY <1>2, HookTags
  <2>2. WillRecord(t, o)'
    BY <1>2, <2>1, TagStartsRecords
  <2> QED BY <2>2 DEF Tracked, WillStamp, WillAddNode
<1>3. ASSUME UNCHANGED <<tag, allocations>>,
             \A u \in Threads : \/ op'[u] = op[u] /\ pc'[u] = pc[u]
                                \/ pc[u] \in {"idle", "store"},
             \A x \in Tags : \/ deaths'[x] > 0
                             \/ /\ deaths'[x] = deaths[x]
                                /\ x \in keys => x \in keys'
                                /\ x \in nodes => x \in nodes'
      PROVE  Tracked(o)'
  <2>1. ASSUME NEW u \in Threads
        PROVE  /\ WillRecord(u, o) => WillRecord(u, o)'
               /\ WillStamp(u, o) => WillStamp(u, o)'
               /\ WillAddNode(u, o) => WillAddNode(u, o)'
    <3>1. CASE op'[u] = op[u] /\ pc'[u] = pc[u]
      BY <3>1, StillWill
    <3>2. CASE pc[u] \in {"idle", "store"}
      BY <3>2 DEF WillRecord, WillStamp, WillAddNode
    <3> QED BY <1>3, <3>1, <3>2
  <2>2. tag[o] # 0 /\ tag[o] \in Tags
    BY <1>0, <1>3
  <2> QED BY <1>3, <2>1, <2>2 DEF Tracked
<1>4. ASSUME NEW t \in Threads, Program(t) PROVE Tracked(o)'
  <2>1. \A u \in Threads : \/ op'[u] = op[u] /\ pc'[u] = pc[u]
                           \/ pc[u] \in {"idle", "store"}
    BY <1>4, ProgramAllocates
  <2> QED BY <1>3, <1>4, <2>1, ProgramAllocates, ProgramFrame
<1>5. CASE fakeAGC
  <2>1. UNCHANGED <<tag, allocations, op, pc>>
    BY <1>5, CollectorAllocates
  <2>2. CASE Report
    <3>1. /\ deaths' = [x \in Tags |-> IF x \in deadSet THEN deaths[x] + 1 ELSE deaths[x]]
          /\ nodes' = nodes \ deadSet /\ keys' = keys \ deadSet
      BY <2>2 DEF Report, Forgotten
    <3>2. ASSUME NEW x \in Tags
          PROVE  \/ deaths'[x] > 0
                 \/ /\ deaths'[x] = deaths[x]
                    /\ x \in keys => x \in keys'
                    /\ x \in nodes => x \in nodes'
      BY <1>0, <3>1
    <3> QED BY <1>3, <2>1, <3>2
  <2>3. CASE ~Report
    <3>1. keys \subseteq keys' /\ UNCHANGED <<nodes, deaths>>
      BY <1>5, <2>3 DEF fakeAGC, ForceGarbageCollection, IterateThroughHeap, ScanTagTimeMap,
                        computeObjectDeathTimes, shadow, history
    <3> QED BY <1>3, <2>1, <3>1
  <2> QED BY <2>2, <2>3
<1>6. CASE UNCHANGED vars
  BY <1>3, <1>6 DEF vars, tagVars, history, shadow
<1> QED BY <1>1, <1>2, <1>4, <1>5, <1>6 DEF Next

LEMMA StepNewAlone ==
  ASSUME TypeOK, NewAlone, [Next]_vars
  PROVE  NewAlone'
<1>1. ASSUME NEW t \in Threads, Hook(t) PROVE NewAlone'
  <2>1. \A u \in Threads \ {t} : op'[u] = op[u]
    BY <1>1, HookOps
  <2>2. pc'[t] # "idle" => op'[t].kind = op[t].kind /\ op'[t].target = op[t].target
    BY <1>1, HookKeepsKind
  <2>3. pc'[t] = "idle" => op'[t] = NoOp
    <3>1. NextObject(t) => pc'[t] # "idle"
      BY DEF NextObject, Goto, TagsKnown, TypeOK
    <3>2. Return(t) => op'[t] = NoOp
      BY DEF Return, TypeOK
    <3>3. pc \in [Threads -> Labels] /\ pc[t] # "idle"
      BY <1>1, HookOps DEF TypeOK
    <3> USE DEF Goto
    <3>4. GetTag(t) \/ tagObject(t) \/ Allocate(t) => pc'[t] # "idle"
      BY <3>1, <3>3 DEF GetTag, tagObject, Allocate, AfterAllocation
    <3>5. StampNew(t) \/ addObjectToHeap(t) \/ StampOrigin(t) \/ updateEdge(t) => pc'[t] # "idle"
      BY <3>1, <3>3 DEF StampNew, addObjectToHeap, StampOrigin, updateEdge
    <3>6. StampOld(t) => pc'[t] # "idle"
      BY <3>3 DEF StampOld
    <3>7. StampUse(t) \/ RecordUse(t) \/ RecordUpdate(t) => pc'[t] # "idle" \/ op'[t] = NoOp
      BY <3>2, <3>3 DEF StampUse, RecordUse, RecordUpdate
    <3> QED BY <1>1, <3>4, <3>5, <3>6, <3>7 DEF Hook
  <2>4. NoOp.target = Null
    BY DEF NoOp
  <2> QED BY <2>1, <2>2, <2>3, <2>4 DEF NewAlone
<1>2. ASSUME NEW t \in Threads, Program(t) PROVE NewAlone'
  BY <1>2, ProgramAllocates DEF NewAlone
<1>3. CASE fakeAGC
  BY <1>3, CollectorAllocates DEF NewAlone
<1>4. CASE UNCHANGED vars
  BY <1>4 DEF NewAlone, vars
<1> QED BY <1>1, <1>2, <1>3, <1>4 DEF Next

LEMMA StepRecords == IInv /\ RecordInv /\ [Next]_vars => RecordInv'
<1> SUFFICES ASSUME IInv, RecordInv, [Next]_vars PROVE RecordInv'
  OBVIOUS
<1> USE DEF IInv, HookInv, RecordInv
<1>1. OneRecord' /\ NewAlone'
  BY StepOneRecord, StepNewAlone
<1>2. TagsKept
  BY StepInv
<1>3. \A o \in Objects : tag'[o] # 0 => Tracked(o)'
  BY <1>2, StepTracked
<1> QED BY <1>1, <1>3

LEMMA RecordsInductive == Spec => [](IInv /\ RecordInv)
<1>1. Init => RecordInv
  BY InitRecords
<1> QED BY <1>1, InitInv, StepInv, StepRecords, PTL DEF Spec

(* Whatever the hooks of any number of threads do at once, an object has   *)
(* one allocation record, unless nativeNewObj met another hook             *)
(* (getTagAndTagIfNeeded, tagObject, nativeNewObj).                        *)
THEOREM AllocationRecordedOnce == Spec => []AllocatedOnce
<1>1. IInv /\ RecordInv => AllocatedOnce
  <2> SUFFICES ASSUME IInv, RecordInv, NEW x \in Tags \ contested PROVE allocations[x] <= 1
    BY DEF AllocatedOnce
  <2>1. CASE x \in Given
    BY <2>1 DEF RecordInv, OneRecord
  <2>2. CASE x \notin Given
    BY <2>2 DEF RecordInv, OneRecord
  <2> QED BY <2>1, <2>2
<1> QED BY <1>1, RecordsInductive, PTL

(* No tagged object is left without its allocation record, its stamp and   *)
(* its node: fakeAGC can find its death (addObjectToHeap, timeStampTag).   *)
THEOREM NoTaggedObjectOverlooked == Spec => []TaggedIsTracked
<1>1. IInv /\ RecordInv => TaggedIsTracked
  <2> SUFFICES ASSUME IInv, RecordInv, NEW o \in Objects, tag[o] # 0, ~StillTracking(o)
               PROVE  /\ allocations[tag[o]] > 0
                      /\ deaths[tag[o]] = 0 => tag[o] \in keys \cap nodes
    BY DEF TaggedIsTracked
  <2>1. \A t \in Threads : ~WillRecord(t, o) /\ ~WillStamp(t, o) /\ ~WillAddNode(t, o)
    BY DEF StillTracking, WillRecord, WillStamp, WillAddNode
  <2> QED BY <2>1 DEF RecordInv, Tracked
<1> QED BY <1>1, RecordsInductive, PTL

=============================================================================
