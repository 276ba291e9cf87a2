------------------------- MODULE DeathTimes_proofs -------------------------
(***************************************************************************)
(* The Merlin algorithm is right for every finite object graph: if all     *)
(* dead objects have nodes and stamps up to INT_MAX, each is reported with *)
(* the latest stamp of the dead objects that reach it.                     *)
(***************************************************************************)
EXTENDS DeathTimesInv, FiniteSetTheorems, SequenceTheorems, TLAPS

-----------------------------------------------------------------------------
(* Facts about the stack and about reaching.                               *)

\* Taking the top off a stack leaves the rest as it was.
LEMMA PoppedStack ==
  ASSUME NEW S, NEW s \in Seq(S), s # <<>>
  PROVE  /\ Len(s) \in Nat \ {0} /\ DOMAIN s = 1 .. Len(s)
         /\ Top(s) \in S
         /\ Popped(s) \in Seq(S)
         /\ DOMAIN Popped(s) = 1 .. Len(s) - 1
         /\ \A i \in 1 .. Len(s) - 1 : Popped(s)[i] = s[i]
<1>1. Len(s) \in Nat \ {0} /\ DOMAIN s = 1 .. Len(s)
  BY EmptySeq, LenProperties
<1>2. Top(s) \in S
  BY <1>1, ElementOfSeq DEF Top
<1>3. Len(s) - 1 \in 1 - 1 .. Len(s)
  BY <1>1
<1>4. /\ Popped(s) \in Seq(S)
      /\ Len(Popped(s)) = Len(s) - 1
      /\ \A i \in 1 .. Len(s) - 1 : Popped(s)[i] = s[i]
  BY <1>1 DEF Popped
<1>5. DOMAIN Popped(s) = 1 .. Len(s) - 1
  BY <1>4, LenProperties
<1>6. QED
  BY <1>1, <1>2, <1>4, <1>5

\* Every dead object reaches itself.
LEMMA ReachesItself == ASSUME NEW o PROVE Reaches(o, o)
  BY DEF Reaches

\* What reaches a dead object reaches the dead objects it points to.
LEMMA ReachesOn ==
  ASSUME NEW w, NEW o, NEW n \in edgeMap[o] \cap start.dead, Reaches(w, o)
  PROVE  Reaches(w, n)
  BY DEF Reaches

\* Reaching depends on the graph and the dead set only.
LEMMA ReachesKept ==
  ASSUME UNCHANGED <<edgeMap, start>>
  PROVE  \A w, o : Reaches(w, o)' <=> Reaches(w, o)
  BY DEF Reaches

\* The parts of IInv about the finished search say nothing while it goes on.
LEMMA SearchOnly ==
  ASSUME TypeOK', pc' = "search",
         StackOrdered', LastTimeBetween', HandedOn', LoopSource', Justified', NeverLower',
         GraphKept', LiveStampsKept'
  PROVE  IInv'
  BY DEF IInv, AtSort, DoneEmpty, DeathTimesRight

-----------------------------------------------------------------------------
(* The steps.                                                              *)

\* Sorting puts every dead object in its place.
LEMMA SortStep == ASSUME IInv, Sort PROVE IInv'
<1> USE DEF IInv, Places, Uncompleted
<1>1. /\ pc = "sort" /\ pc' = "search"
      /\ UNCHANGED <<deadSet, tagTimeMap, stamped, edgeMap, nodes, completed, lastTime, remaining,
                     nullList, deadObjsWithTime, start>>
      /\ unreachableStack' \in SortedDeadSets
  BY DEF Sort, graph
<1>2. deadSet = start.dead /\ start.dead \subseteq Tags
  BY <1>1 DEF TypeOK
<1>3. Cardinality(deadSet) \in Nat
  BY <1>2, DeathTimesAssumption, FS_Subset, FS_CardinalityType
<1>4. unreachableStack' \in [1 .. Cardinality(deadSet) -> deadSet]
  BY <1>1 DEF SortedDeadSets
<1>5. unreachableStack' \in Seq(deadSet)
  BY <1>3, <1>4, IsASeq
<1>6. TypeOK'
  BY <1>1, <1>2, <1>5 DEF TypeOK
<1>7. completed = {} /\ remaining = {} /\ lastTime = INT_MAX /\ tagTimeMap = start.time
  BY <1>1 DEF AtSort
<1>8. StackOrdered'
  <2>1. \A o \in deadSet : \E i \in DOMAIN unreachableStack' : unreachableStack'[i] = o
    BY <1>1 DEF SortedDeadSets
  <2>2. ASSUME NEW i \in DOMAIN unreachableStack', NEW o \in deadSet,
               tagTimeMap[unreachableStack'[i]] < tagTimeMap[o]
        PROVE  \E k \in DOMAIN unreachableStack' : k > i /\ unreachableStack'[k] = o
    <3>1. PICK k \in DOMAIN unreachableStack' : unreachableStack'[k] = o
      BY <2>1
    <3>2. i \in Int /\ k \in Int /\ unreachableStack'[i] \in Tags /\ o \in Tags
      BY <1>2, <1>3, <1>4
    <3>3. tagTimeMap[unreachableStack'[i]] \in Nat /\ tagTimeMap[o] \in Nat
      BY <3>2 DEF TypeOK
    <3>4. ~(k < i)
      BY <1>1, <2>2, <3>1, <3>3 DEF SortedDeadSets, diedBefore
    <3>5. k # i
      BY <2>2, <3>1, <3>3
    <3>6. QED
      BY <3>1, <3>2, <3>4, <3>5
  <2>3. QED
    BY <1>1, <1>2, <2>1, <2>2 DEF StackOrdered
<1>9. LastTimeBetween'
  BY <1>1, <1>2, <1>7 DEF LastTimeBetween, InTime
<1>10. HandedOn' /\ LoopSource'
  BY <1>1, <1>7 DEF HandedOn, LoopSource
<1>11. Justified' /\ NeverLower'
  BY <1>1, ReachesKept DEF Justified, NeverLower, InGraph
<1>12. GraphKept' /\ LiveStampsKept'
  BY <1>1 DEF GraphKept, LiveStampsKept
<1>13. QED
  BY <1>1, <1>6, <1>8, <1>9, <1>10, <1>11, <1>12, SearchOnly

\* What is true of the object that is popped.
LEMMA PoppedObject ==
  ASSUME IInv, NEW obj \in Tags, PopsObject(obj)
  PROVE  /\ obj \in start.dead /\ pc = "search" /\ remaining = {}
         /\ unreachableStack[Len(unreachableStack)] = obj
         /\ Len(unreachableStack) \in Nat \ {0}
         /\ Places = 1 .. Len(unreachableStack)
         /\ Popped(unreachableStack) \in Seq(start.dead)
         /\ DOMAIN Popped(unreachableStack) = 1 .. Len(unreachableStack) - 1
         /\ \A i \in 1 .. Len(unreachableStack) - 1 :
              Popped(unreachableStack)[i] = unreachableStack[i]
         /\ InTime /\ obj \notin completed =>
              \A o \in Uncompleted : tagTimeMap[o] <= tagTimeMap[obj]
<1>1. unreachableStack \in Seq(start.dead) /\ unreachableStack # <<>> /\ obj = Top(unreachableStack)
  BY DEF IInv, TypeOK, PopsObject
<1>2. ASSUME InTime, obj \notin completed, NEW o \in Uncompleted
      PROVE  tagTimeMap[o] <= tagTimeMap[obj]
  <2>1. Len(unreachableStack) \in Places /\ unreachableStack[Len(unreachableStack)] = obj
    BY <1>1, PoppedStack DEF Places, Top
  <2>2. obj \in Uncompleted /\ obj \in Tags /\ o \in Tags
    BY <1>1, <1>2, PoppedStack DEF Uncompleted, IInv, TypeOK
  <2>3. ~ \E k \in Places : k > Len(unreachableStack)
    BY <1>1, PoppedStack DEF Places
  <2>4. ~ tagTimeMap[obj] < tagTimeMap[o]
    BY <1>2, <2>1, <2>2, <2>3 DEF IInv, StackOrdered, PopsObject
  <2>5. QED
    BY <2>2, <2>4 DEF IInv, TypeOK
<1>3. QED
  BY <1>1, <1>2, PoppedStack DEF PopsObject, Top, Places

\* The stack stays ordered when its top is taken off and is completed.
LEMMA PoppedOrdered ==
  ASSUME IInv, NEW obj \in Tags, PopsObject(obj),
         unreachableStack' = Popped(unreachableStack),
         completed' = completed \cup {obj},
         UNCHANGED <<tagTimeMap, start>>
  PROVE  StackOrdered'
<1> SUFFICES ASSUME InTime PROVE StackOrdered'
  BY DEF StackOrdered, InTime
<1> USE DEF Places, Uncompleted
<1> DEFINE n == Len(unreachableStack)
<1>1. /\ n \in Nat \ {0} /\ unreachableStack[n] = obj /\ DOMAIN unreachableStack = 1 .. n
      /\ DOMAIN unreachableStack' = 1 .. n - 1
      /\ \A i \in 1 .. n - 1 : unreachableStack'[i] = unreachableStack[i]
      /\ pc = "search"
  BY PoppedObject
<1> HIDE DEF n
<1>2. StackOrdered
  BY DEF IInv
<1>3. ASSUME NEW o \in Uncompleted' PROVE \E i \in DOMAIN unreachableStack' : unreachableStack'[i] = o
  <2>1. PICK i \in 1 .. n : unreachableStack[i] = o
    BY <1>1, <1>2, <1>3 DEF StackOrdered
  <2>2. i # n
    BY <1>1, <1>3, <2>1
  <2>3. QED
    BY <1>1, <2>1, <2>2
<1>4. ASSUME NEW i \in DOMAIN unreachableStack', NEW o \in Uncompleted',
             unreachableStack'[i] \in Uncompleted',
             tagTimeMap[unreachableStack'[i]] < tagTimeMap[o]
      PROVE  \E k \in DOMAIN unreachableStack' : k > i /\ unreachableStack'[k] = o
  <2>1. i \in 1 .. n /\ unreachableStack'[i] = unreachableStack[i] /\ unreachableStack[i] \in Uncompleted
    BY <1>1, <1>4
  <2>2. PICK k \in 1 .. n : k > i /\ unreachableStack[k] = o
    BY <1>1, <1>2, <1>4, <2>1 DEF StackOrdered
  <2>3. k # n
    BY <1>1, <1>4, <2>2
  <2>4. QED
    BY <1>1, <2>2, <2>3
<1>5. QED
  BY <1>3, <1>4 DEF StackOrdered

\* An object that was completed before is popped.
LEMMA SkipCompletedStep == ASSUME IInv, SkipCompleted PROVE IInv'
<1>1. PICK obj \in Tags : PopsObject(obj) /\ obj \in completed
  BY DEF SkipCompleted
<1>2. /\ unreachableStack' = Popped(unreachableStack)
      /\ UNCHANGED <<deadSet, tagTimeMap, stamped, edgeMap, nodes, completed, lastTime, remaining,
                     nullList, deadObjsWithTime, pc, start>>
  BY DEF SkipCompleted, graph
<1>3. completed' = completed \cup {obj}
  BY <1>1, <1>2
<1>4. StackOrdered'
  BY <1>1, <1>2, <1>3, PoppedOrdered
<1>5. pc' = "search" /\ unreachableStack' \in Seq(start.dead)
  BY <1>1, <1>2, PoppedObject
<1>6. TypeOK'
  BY <1>2, <1>5 DEF TypeOK, IInv
<1>7. LastTimeBetween' /\ HandedOn' /\ LoopSource'
  BY <1>2 DEF IInv, LastTimeBetween, HandedOn, LoopSource, InTime, InGraph, Uncompleted
<1>8. Justified' /\ NeverLower' /\ GraphKept' /\ LiveStampsKept'
  BY <1>2, ReachesKept DEF IInv, Justified, NeverLower, GraphKept, LiveStampsKept, InGraph
<1>9. QED
  BY <1>4, <1>5, <1>6, <1>7, <1>8, SearchOnly

\* An object later than lastTime is skipped: not while all stamps are in time.
LEMMA SkipLaterStep == ASSUME IInv, SkipLater PROVE IInv'
<1>1. PICK obj \in Tags :
        /\ PopsObject(obj) /\ obj \notin completed
        /\ tagTimeMap[obj] > lastTime
        /\ unreachableStack' = Popped(unreachableStack)
        /\ completed' = completed \cup {obj}
        /\ UNCHANGED <<deadSet, tagTimeMap, stamped, edgeMap, nodes, lastTime, remaining,
                       nullList, deadObjsWithTime, pc, start>>
  BY DEF SkipLater, graph
<1>2. obj \in start.dead /\ pc = "search" /\ unreachableStack' \in Seq(start.dead) /\ remaining = {}
  BY <1>1, PoppedObject
<1>3. ~InTime
  BY <1>1, <1>2 DEF IInv, LastTimeBetween, Uncompleted, TypeOK
<1>4. StackOrdered'
  BY <1>1, PoppedOrdered
<1>5. TypeOK'
  BY <1>1, <1>2 DEF TypeOK, IInv
<1>6. ~InTime'
  BY <1>1, <1>3 DEF InTime
<1>7. LastTimeBetween' /\ HandedOn' /\ LoopSource'
  BY <1>1, <1>2, <1>6 DEF LastTimeBetween, HandedOn, LoopSource
<1>8. Justified' /\ NeverLower' /\ GraphKept' /\ LiveStampsKept'
  BY <1>1, ReachesKept DEF IInv, Justified, NeverLower, GraphKept, LiveStampsKept, InGraph
<1>9. QED
  BY <1>1, <1>2, <1>4, <1>5, <1>7, <1>8, SearchOnly

\* An object is completed: its time is the new lastTime.
LEMMA ProcessStep == ASSUME IInv, Process PROVE IInv'
<1>1. PICK obj \in Tags :
        /\ PopsObject(obj) /\ obj \notin completed
        /\ tagTimeMap[obj] <= lastTime
        /\ unreachableStack' = Popped(unreachableStack)
        /\ completed' = completed \cup {obj}
        /\ lastTime' = tagTimeMap[obj]
        /\ nullList' = neighbors(obj) /\ remaining' = neighbors(obj)
        /\ UNCHANGED <<deadSet, tagTimeMap, stamped, edgeMap, nodes, deadObjsWithTime, pc, start>>
  BY DEF Process, graph
<1>2. /\ obj \in start.dead /\ pc = "search" /\ remaining = {}
      /\ unreachableStack' \in Seq(start.dead)
      /\ InTime => \A o \in Uncompleted : tagTimeMap[o] <= tagTimeMap[obj]
  BY <1>1, PoppedObject
<1>3. neighbors(obj) \subseteq Tags
  BY DEF neighbors, IInv, TypeOK
<1>4. InGraph => neighbors(obj) = edgeMap[obj]
  BY <1>2 DEF neighbors, IInv, InGraph, GraphKept
<1>5. TypeOK'
  BY <1>1, <1>2, <1>3 DEF TypeOK, IInv
<1>6. StackOrdered'
  BY <1>1, PoppedOrdered
<1>7. LastTimeBetween'
  <2> SUFFICES ASSUME InTime
               PROVE  /\ \A o \in Uncompleted' : tagTimeMap[o] <= tagTimeMap[obj]
                      /\ \A o \in completed' : tagTimeMap[o] >= tagTimeMap[obj]
    BY <1>1 DEF LastTimeBetween, InTime
  <2>1. \A o \in Uncompleted' : tagTimeMap[o] <= tagTimeMap[obj]
    BY <1>1, <1>2 DEF Uncompleted
  <2>2. \A o \in completed : tagTimeMap[o] >= lastTime /\ tagTimeMap[o] \in Nat
    BY <1>2 DEF IInv, LastTimeBetween, TypeOK
  <2>3. tagTimeMap[obj] \in Nat /\ lastTime \in Nat
    BY DEF IInv, TypeOK
  <2>4. QED
    BY <1>1, <2>1, <2>2, <2>3
<1>8. HandedOn'
  <2> SUFFICES ASSUME InTime, InGraph, NEW o \in completed',
                      NEW n \in edgeMap[o] \cap start.dead
               PROVE  tagTimeMap[n] >= tagTimeMap[o] \/ (n \in remaining' /\ tagTimeMap[o] = lastTime')
    BY <1>1 DEF HandedOn, InTime, InGraph
  <2>1. CASE o = obj
    BY <1>1, <1>4, <2>1
  <2>2. CASE o \in completed
    BY <1>2, <2>2 DEF IInv, HandedOn
  <2>3. QED
    BY <1>1, <2>1, <2>2
<1>9. LoopSource'
  BY <1>1, <1>4 DEF LoopSource, InGraph
<1>10. Justified' /\ NeverLower' /\ GraphKept' /\ LiveStampsKept'
  BY <1>1, ReachesKept DEF IInv, Justified, NeverLower, GraphKept, LiveStampsKept, InGraph
<1>11. QED
  BY <1>1, <1>2, <1>5, <1>6, <1>7, <1>8, <1>9, <1>10, SearchOnly

\* A neighbor is visited.
LEMMA VisitStep == ASSUME IInv, NEW n \in Tags, VisitNeighbor(n) PROVE IInv'
<1>1. /\ pc = "search" /\ pc' = "search" /\ n \in remaining /\ remaining' = remaining \ {n}
      /\ stamped' = stamped \cup {n} /\ deadSet = start.dead
      /\ UNCHANGED <<deadSet, edgeMap, nodes, completed, lastTime, nullList, deadObjsWithTime, start>>
  BY DEF VisitNeighbor, graph, IInv, TypeOK
<1>2. \A o \in Tags : tagTimeMap[o] \in Nat /\ lastTime \in Nat
  BY DEF IInv, TypeOK
<1>3. start.dead \subseteq Tags /\ completed \subseteq start.dead /\ unreachableStack \in Seq(start.dead)
  BY DEF IInv, TypeOK
<1>4. CASE ~GetsLastTime(n)
  <2>1. UNCHANGED <<tagTimeMap, unreachableStack>>
    BY <1>4 DEF VisitNeighbor
  <2>2. TypeOK'
    BY <1>1, <2>1 DEF IInv, TypeOK
  <2>3. StackOrdered' /\ LastTimeBetween'
    BY <1>1, <2>1 DEF IInv, StackOrdered, LastTimeBetween, InTime, Uncompleted, Places
  <2>4. n \in start.dead => tagTimeMap[n] >= lastTime
    BY <1>1, <1>2, <1>4 DEF GetsLastTime
  <2>5. HandedOn' /\ LoopSource'
    BY <1>1, <2>1, <2>4 DEF IInv, HandedOn, LoopSource, InTime, InGraph
  <2>6. Justified' /\ NeverLower' /\ GraphKept' /\ LiveStampsKept'
    BY <1>1, <2>1, ReachesKept DEF IInv, Justified, NeverLower, GraphKept, LiveStampsKept, InGraph
  <2>7. QED
    BY <1>1, <2>2, <2>3, <2>5, <2>6, SearchOnly
<1>5. CASE GetsLastTime(n)
  <2>1. /\ n \in start.dead /\ tagTimeMap[n] < lastTime
        /\ tagTimeMap'[n] = lastTime
        /\ \A o \in Tags : o # n => tagTimeMap'[o] = tagTimeMap[o]
        /\ tagTimeMap' \in [Tags -> Nat]
        /\ unreachableStack' = Append(unreachableStack, n)
    BY <1>1, <1>2, <1>5 DEF VisitNeighbor, GetsLastTime, IInv, TypeOK
  <2>2. /\ unreachableStack' \in Seq(start.dead)
        /\ Len(unreachableStack) \in Nat
        /\ DOMAIN unreachableStack = 1 .. Len(unreachableStack)
        /\ DOMAIN unreachableStack' = 1 .. Len(unreachableStack) + 1
        /\ \A i \in 1 .. Len(unreachableStack) : unreachableStack'[i] = unreachableStack[i]
        /\ unreachableStack'[Len(unreachableStack) + 1] = n
    BY <1>3, <2>1, AppendProperties, LenProperties
  <2>3. TypeOK'
    BY <1>1, <2>1, <2>2 DEF IInv, TypeOK
  <2>4. InTime => n \notin completed
    BY <1>1, <1>2, <1>3, <2>1 DEF IInv, LastTimeBetween
  <2>5. LastTimeBetween'
    <3> SUFFICES ASSUME InTime
                 PROVE  /\ \A o \in Uncompleted : tagTimeMap'[o] <= lastTime
                        /\ \A o \in completed : tagTimeMap'[o] >= lastTime
      BY <1>1 DEF LastTimeBetween, InTime, Uncompleted
    <3>1. /\ \A o \in Uncompleted : o \in Tags /\ tagTimeMap[o] <= lastTime
          /\ \A o \in completed : o \in Tags /\ tagTimeMap[o] >= lastTime
      BY <1>1, <1>3 DEF IInv, LastTimeBetween, Uncompleted
    <3>2. lastTime <= lastTime
      BY <1>2
    <3>3. QED
      BY <2>1, <3>1, <3>2
  <2>6. StackOrdered'
    <3> SUFFICES ASSUME InTime
                 PROVE  StackOrdered'
      BY <1>1 DEF StackOrdered, InTime
    <3> DEFINE l == Len(unreachableStack)
    <3> USE DEF Uncompleted, Places
    <3>1. StackOrdered /\ \A o \in Uncompleted : o \in Tags /\ tagTimeMap[o] <= lastTime
      BY <1>1, <1>3 DEF IInv, LastTimeBetween
    <3>2. ASSUME NEW o \in Uncompleted PROVE \E i \in DOMAIN unreachableStack' : unreachableStack'[i] = o
      <4>1. PICK i \in DOMAIN unreachableStack : unreachableStack[i] = o
        BY <1>1, <3>1 DEF StackOrdered
      <4>2. QED
        BY <2>2, <4>1
    <3>3. ASSUME NEW i \in DOMAIN unreachableStack', NEW o \in Uncompleted,
                 unreachableStack'[i] \in Uncompleted,
                 tagTimeMap'[unreachableStack'[i]] < tagTimeMap'[o]
          PROVE  \E k \in DOMAIN unreachableStack' : k > i /\ unreachableStack'[k] = o
      <4>1. tagTimeMap'[o] <= lastTime
        BY <1>2, <2>1, <3>1
      <4>2. unreachableStack'[i] # n
        BY <1>2, <2>1, <3>1, <3>3, <4>1
      <4>3. i \in 1 .. l /\ unreachableStack'[i] = unreachableStack[i]
        BY <2>2, <4>2
      <4>4. CASE o = n
        BY <2>2, <4>3, <4>4
      <4>5. CASE o # n
        <5>1. tagTimeMap[unreachableStack[i]] < tagTimeMap[o]
          BY <2>1, <3>1, <3>3, <4>2, <4>3, <4>5
        <5>2. PICK k \in DOMAIN unreachableStack : k > i /\ unreachableStack[k] = o
          BY <1>1, <2>2, <3>1, <3>3, <4>3, <5>1 DEF StackOrdered
        <5>3. QED
          BY <2>2, <5>2
      <4>6. QED
        BY <4>4, <4>5
    <3>4. QED
      BY <1>1, <3>2, <3>3 DEF StackOrdered
  <2>7. HandedOn'
    <3> SUFFICES ASSUME InTime, InGraph, NEW o \in completed, NEW m \in edgeMap[o] \cap start.dead
                 PROVE  tagTimeMap'[m] >= tagTimeMap'[o] \/ (m \in remaining' /\ tagTimeMap'[o] = lastTime)
      BY <1>1 DEF HandedOn, InTime, InGraph
    <3>1. tagTimeMap'[o] = tagTimeMap[o] /\ o \in Tags /\ m \in Tags
      BY <1>3, <2>1, <2>4
    <3>2. tagTimeMap[m] >= tagTimeMap[o] \/ (m \in remaining /\ tagTimeMap[o] = lastTime)
      BY <1>1 DEF IInv, HandedOn
    <3>3. CASE m = n
      <4>1. tagTimeMap[m] >= tagTimeMap[o] => lastTime >= tagTimeMap[o]
        BY <1>2, <2>1, <3>1, <3>3
      <4>2. QED
        BY <1>2, <2>1, <3>1, <3>2, <3>3, <4>1
    <3>4. CASE m # n
      BY <1>1, <2>1, <3>1, <3>2, <3>4
    <3>5. QED
      BY <3>3, <3>4
  <2>8. ASSUME InGraph PROVE \E p \in completed : /\ tagTimeMap[p] = lastTime /\ p # n
                                                  /\ remaining \subseteq edgeMap[p]
    BY <1>1, <1>2, <2>1, <2>8 DEF IInv, LoopSource
  <2>9. LoopSource'
    BY <1>1, <1>3, <2>1, <2>8 DEF LoopSource, InGraph
  <2>10. Justified'
    <3> SUFFICES ASSUME InGraph, NEW o \in start.dead
                 PROVE  \E w \in start.dead : Reaches(w, o) /\ start.time[w] = tagTimeMap'[o]
      BY <1>1, ReachesKept DEF Justified, InGraph
    <3>1. CASE o # n
      BY <1>1, <1>3, <2>1, <3>1 DEF IInv, Justified
    <3>2. CASE o = n
      <4>1. PICK p \in completed : tagTimeMap[p] = lastTime /\ n \in edgeMap[p]
        BY <1>1, <2>8
      <4>2. PICK w \in start.dead : Reaches(w, p) /\ start.time[w] = tagTimeMap[p]
        BY <1>1, <1>3, <4>1 DEF IInv, Justified
      <4>3. Reaches(w, n)
        BY <2>1, <4>1, <4>2, ReachesOn
      <4>4. QED
        BY <2>1, <3>2, <4>1, <4>2, <4>3
    <3>3. QED
      BY <3>1, <3>2
  <2>11. NeverLower'
    <3>1. \A o \in start.dead : start.time[o] \in Nat /\ start.time[o] <= tagTimeMap[o]
      BY <1>1 DEF IInv, NeverLower, TypeOK
    <3>2. QED
      BY <1>1, <1>2, <1>3, <2>1, <3>1 DEF NeverLower
  <2>12. GraphKept' /\ LiveStampsKept'
    BY <1>1, <2>1 DEF IInv, GraphKept, LiveStampsKept
  <2>13. QED
    BY <1>1, <2>3, <2>5, <2>6, <2>7, <2>9, <2>10, <2>11, <2>12, SearchOnly
<1>6. QED
  BY <1>4, <1>5

\* When the stack is empty the times are the death times.
LEMMA SearchEnds ==
  ASSUME IInv, pc = "search", unreachableStack = <<>>, remaining = {}, InGraph, InTime,
         NEW o \in start.dead
  PROVE  IsDeathTime(o, tagTimeMap[o])
<1>1. start.dead \subseteq completed
  BY DEF IInv, StackOrdered, Uncompleted, Places
<1>2. \A p \in start.dead : tagTimeMap[p] \in Nat /\ start.time[p] \in Nat
  BY DEF IInv, TypeOK
<1>3. \A p \in start.dead : \A n \in edgeMap[p] \cap start.dead : tagTimeMap[n] >= tagTimeMap[p]
  BY <1>1 DEF IInv, HandedOn
<1>4. ASSUME NEW w \in start.dead, Reaches(w, o) PROVE start.time[w] <= tagTimeMap[o]
  <2> DEFINE S == {p \in start.dead : tagTimeMap[p] >= start.time[w]}
  <2>1. w \in S
    BY DEF IInv, NeverLower
  <2>2. \A p \in S : edgeMap[p] \cap start.dead \subseteq S
    BY <1>2, <1>3
  <2>3. o \in S
    BY <1>4, <2>1, <2>2 DEF Reaches
  <2>4. QED
    BY <1>2, <2>3
<1>5. \E w \in start.dead : Reaches(w, o) /\ start.time[w] = tagTimeMap[o]
  BY DEF IInv, Justified
<1>6. QED
  BY <1>4, <1>5 DEF IsDeathTime

\* The report has the times the search ended with.
LEMMA ReportStep == ASSUME IInv, Report PROVE IInv'
<1>1. /\ pc = "search" /\ remaining = {} /\ unreachableStack = <<>> /\ pc' = "done"
      /\ deadSet = start.dead /\ start.dead \subseteq Tags
      /\ deadObjsWithTime' = [o \in start.dead |-> tagTimeMap[o]]
      /\ UNCHANGED <<edgeMap, unreachableStack, completed, lastTime, remaining, nullList, start>>
      /\ tagTimeMap' = [o \in Tags |-> IF o \in start.dead THEN 0 ELSE tagTimeMap[o]]
      /\ nodes' \subseteq nodes /\ stamped' \subseteq stamped /\ deadSet' = {}
  BY DEF Report, search, IInv, TypeOK
<1>2. TypeOK'
  BY <1>1 DEF IInv, TypeOK
<1>3. AtSort' /\ StackOrdered' /\ LastTimeBetween' /\ HandedOn' /\ LoopSource' /\ Justified'
      /\ NeverLower' /\ GraphKept' /\ DoneEmpty'
  BY <1>1 DEF AtSort, StackOrdered, LastTimeBetween, HandedOn, LoopSource, Justified, NeverLower,
     GraphKept, DoneEmpty
<1>4. LiveStampsKept'
  BY <1>1 DEF IInv, LiveStampsKept
<1>5. DeathTimesRight'
  <2> SUFFICES ASSUME InGraph, InTime, NEW o \in start.dead
               PROVE  IsDeathTime(o, deadObjsWithTime[o])'
    BY <1>1 DEF DeathTimesRight, InGraph, InTime
  <2>1. IsDeathTime(o, tagTimeMap[o])
    BY <1>1, SearchEnds
  <2>2. QED
    BY <1>1, <2>1, ReachesKept DEF IsDeathTime
<1>6. QED
  BY <1>2, <1>3, <1>4, <1>5 DEF IInv

\* IInv holds of every input.
LEMMA IInvInit == Init => IInv
<1> SUFFICES ASSUME Init PROVE IInv
  OBVIOUS
<1>1. /\ pc = "sort" /\ completed = {} /\ remaining = {} /\ unreachableStack = <<>>
      /\ lastTime = INT_MAX /\ deadSet \subseteq Tags /\ stamped \subseteq Tags
      /\ nodes \subseteq deadSet
  BY DEF Init
<1>2. start = [dead |-> deadSet, time |-> tagTimeMap, nodes |-> nodes]
  BY DEF Init
<1>3. tagTimeMap \in [Tags -> Nat]
  <2>1. tagTimeMap \in [Tags -> Times \cup {0}]
    BY DEF Init
  <2>2. Times \cup {0} \subseteq Nat
    BY DeathTimesAssumption
  <2>3. QED
    BY <2>1, <2>2
<1>4. nullList \subseteq Tags /\ edgeMap \in [Tags -> SUBSET Tags] /\ INT_MAX \in Nat
  BY DeathTimesAssumption DEF Init
<1>5. TypeOK
  BY <1>1, <1>2, <1>3, <1>4, EmptySeq DEF TypeOK
<1>6. AtSort /\ StackOrdered /\ LastTimeBetween /\ HandedOn /\ LoopSource /\ GraphKept /\ DoneEmpty
  BY <1>1, <1>2 DEF AtSort, StackOrdered, LastTimeBetween, HandedOn, LoopSource, GraphKept, DoneEmpty
<1>7. Justified /\ NeverLower
  BY <1>1, <1>2, <1>3, ReachesItself DEF Justified, NeverLower
<1>8. LiveStampsKept /\ DeathTimesRight
  BY <1>1, <1>2 DEF LiveStampsKept, DeathTimesRight
<1>9. QED
  BY <1>5, <1>6, <1>7, <1>8 DEF IInv

\* IInv is inductive.
LEMMA IInvNext == IInv /\ [Next]_vars => IInv'
<1>1. ASSUME IInv, UNCHANGED vars PROVE IInv'
  <2>1. UNCHANGED <<deadSet, tagTimeMap, stamped, edgeMap, nodes, nullList, unreachableStack,
                    completed, lastTime, remaining, deadObjsWithTime, pc, start>>
    BY <1>1 DEF vars, graph, search
  <2>2. TypeOK' /\ AtSort' /\ LoopSource' /\ NeverLower' /\ GraphKept' /\ DoneEmpty' /\ LiveStampsKept'
    BY <1>1, <2>1 DEF IInv, TypeOK, AtSort, LoopSource, NeverLower, GraphKept, DoneEmpty,
       LiveStampsKept, InGraph
  <2>3. StackOrdered' /\ LastTimeBetween' /\ HandedOn'
    BY <1>1, <2>1 DEF IInv, StackOrdered, LastTimeBetween, HandedOn, InTime, InGraph, Uncompleted, Places
  <2>4. Justified' /\ DeathTimesRight'
    BY <1>1, <2>1, ReachesKept DEF IInv, Justified, DeathTimesRight, IsDeathTime, InTime, InGraph
  <2>5. QED
    BY <2>2, <2>3, <2>4 DEF IInv
<1>2. QED
  BY <1>1, SortStep, SkipCompletedStep, SkipLaterStep, ProcessStep, VisitStep, ReportStep
     DEF Next, computeObjectDeathTimes

\* The inductive invariant holds in every behaviour of the algorithm.
THEOREM Invariant == Spec => []IInv
  BY IInvInit, IInvNext, PTL DEF Spec

-----------------------------------------------------------------------------
(* What follows from it.                                                   *)

\* The variables of the algorithm always have the values of their types, and only
\* dead objects are on its stack.
THEOREM TypeCorrect == Spec => []TypeOK
<1>1. IInv => TypeOK
  BY DEF IInv
<1>2. QED
  BY <1>1, Invariant, PTL

\* The algorithm reports each dead object with the latest stamp of the dead objects
\* that reach it, on every graph, if all are nodes and are stamped in time.
THEOREM MerlinRight == Spec => []DeathTimesRight
<1>1. IInv => DeathTimesRight
  BY DEF IInv
<1>2. QED
  BY <1>1, Invariant, PTL

\* The algorithm never changes the stamp of a live object.
THEOREM LiveObjectsKept == Spec => []LiveStampsKept
<1>1. IInv => LiveStampsKept
  BY DEF IInv
<1>2. QED
  BY <1>1, Invariant, PTL

\* The object the algorithm takes from its stack is the latest of those left.
THEOREM StackIsOrdered == Spec => []LatestOnTop
<1>1. ASSUME IInv, InTime, pc = "search", remaining = {}, unreachableStack # <<>>,
             Top(unreachableStack) \notin completed
      PROVE  /\ tagTimeMap[Top(unreachableStack)] <= lastTime
             /\ \A o \in deadSet \ completed : tagTimeMap[o] <= tagTimeMap[Top(unreachableStack)]
  <2>1. Top(unreachableStack) \in start.dead /\ start.dead \subseteq Tags /\ deadSet = start.dead
    BY <1>1, PoppedStack DEF IInv, TypeOK
  <2>2. PopsObject(Top(unreachableStack))
    BY <1>1 DEF PopsObject
  <2>3. QED
    BY <1>1, <2>1, <2>2, PoppedObject DEF IInv, LastTimeBetween, Uncompleted
<1>2. IInv => LatestOnTop
  BY <1>1 DEF LatestOnTop
<1>3. QED
  BY <1>2, Invariant, PTL

\* The time of a completed object is final, also when a cycle leads back to it.
THEOREM CompletedStays == Spec => CompletedIsFinal
<1> DEFINE Step == InTime /\ pc' = "search" => \A o \in completed : tagTimeMap'[o] = tagTimeMap[o]
<1>1. IInv /\ [Next]_vars => [Step]_vars
  <2> SUFFICES ASSUME IInv, Next, InTime, pc' = "search", NEW o \in completed
               PROVE  tagTimeMap'[o] = tagTimeMap[o]
    BY DEF vars
  <2>1. ASSUME NEW n \in Tags, VisitNeighbor(n) PROVE tagTimeMap'[o] = tagTimeMap[o]
    <3>1. GetsLastTime(n) => n # o
      <4>1. tagTimeMap[o] >= lastTime /\ tagTimeMap[o] \in Nat /\ lastTime \in Nat
        BY <2>1 DEF IInv, LastTimeBetween, TypeOK, VisitNeighbor
      <4>2. QED
        BY <4>1 DEF GetsLastTime
    <3>2. QED
      BY <2>1, <3>1 DEF VisitNeighbor, IInv, TypeOK
  <2>2. CASE Sort \/ SkipCompleted \/ SkipLater \/ Process
    BY <2>2 DEF Sort, SkipCompleted, SkipLater, Process
  <2>3. ~Report
    BY DEF Report
  <2>4. QED
    BY <2>1, <2>2, <2>3 DEF Next, computeObjectDeathTimes
<1>2. QED
  BY <1>1, Invariant, PTL DEF Spec, CompletedIsFinal
=============================================================================
