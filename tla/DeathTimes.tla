----------------------------- MODULE DeathTimes -----------------------------
(***************************************************************************)
(* One run of the Merlin algorithm, as ETCallBackHandler::shadowGCEnd has  *)
(* it: computeObjectDeathTimes works down a stack of the dead objects      *)
(* sorted by time stamp and hands the stamp of each one to the dead        *)
(* objects it points to; then every dead object is reported with its stamp *)
(* and forgotten.                                                          *)
(*                                                                         *)
(* An object is its tag.  The edges of a node are the set of tags in its   *)
(* slots (null slots are left out: ObjectFree skips tag 0), visited in any *)
(* order; a stamp is its time.  tagTimeMap has the default 0 for a tag     *)
(* that is not stamped, and reading it there inserts that default.         *)
(*                                                                         *)
(* A definition Name_Fault is Name with a plausible bug.  No specification *)
(* uses it: it stands there to show which property notices the bug.        *)
(***************************************************************************)
EXTENDS Integers, FiniteSets, Sequences

CONSTANTS
  Tags,        \* tags of objects
  Times,       \* bound: the times of the stamps
  Leftovers,   \* bound: what the static list of neighbors may hold at the start
  INT_MAX      \* numeric_limits<int>::max()

ASSUME DeathTimesAssumption ==
  /\ IsFiniteSet(Tags)
  /\ Times \subseteq Nat
  /\ Leftovers \subseteq SUBSET Tags
  /\ INT_MAX \in Nat

VARIABLES
  deadSet, tagTimeMap,
  stamped,            \* the keys of tagTimeMap
  edgeMap,
  nodes,              \* the keys of edgeMap
  nullList,           \* static in HashGraph::neighbors
  unreachableStack, completed, lastTime,
  remaining,          \* the neighbors the inner loop has still to visit
  deadObjsWithTime,   \* what is reported: the time of each dead object
  pc,
  start               \* history: the dead set, the stamps and the nodes at first

graph  == <<edgeMap, nodes>>
search == <<unreachableStack, completed, lastTime, remaining, nullList>>
vars == <<deadSet, tagTimeMap, stamped, graph, search, deadObjsWithTime, pc, start>>

\* Any dead set fakeAGC can find among the stamped tags.  The nodes of live
\* objects are never read and are left out; a dead object has a node unless its
\* thread was overtaken between tagging it and addObjectToHeap.
Init ==
  /\ deadSet \in SUBSET Tags
  /\ stamped \in {S \in SUBSET Tags : deadSet \subseteq S}
  /\ tagTimeMap \in {T \in [Tags -> Times \cup {0}] :
                       \A o \in Tags : o \in stamped <=> T[o] # 0}
  /\ nodes \in SUBSET deadSet
  /\ edgeMap \in {E \in [Tags -> SUBSET Tags] : \A o \in Tags \ nodes : E[o] = {}}
  /\ nullList \in Leftovers
  /\ unreachableStack = <<>> /\ completed = {} /\ lastTime = INT_MAX /\ remaining = {}
  /\ deadObjsWithTime = [o \in {} |-> 0]
  /\ pc = "sort"
  /\ start = [dead |-> deadSet, time |-> tagTimeMap, nodes |-> nodes]

-----------------------------------------------------------------------------
diedBefore_Reversed(o, p) == tagTimeMap[o] > tagTimeMap[p]
diedBefore(o, p) == tagTimeMap[o] < tagTimeMap[p]

\* The results std::sort may give: equal stamps come in any order.
SortedDeadSets ==
  {s \in [1 .. Cardinality(deadSet) -> deadSet] :
     /\ \A o \in deadSet : \E i \in DOMAIN s : s[i] = o
     /\ \A i, j \in DOMAIN s : i < j => ~diedBefore(s[j], s[i])}

Sort ==
  /\ pc = "sort"
  /\ unreachableStack' \in SortedDeadSets
  /\ pc' = "search"
  /\ UNCHANGED <<deadSet, tagTimeMap, stamped, graph, completed, lastTime, remaining,
                 nullList, deadObjsWithTime, start>>

Top(s)    == s[Len(s)]
Popped(s) == SubSeq(s, 1, Len(s) - 1)

\* The outer loop takes the next object off the stack.
PopsObject(obj) ==
  /\ pc = "search" /\ remaining = {}
  /\ unreachableStack # <<>>
  /\ obj = Top(unreachableStack)

SkipCompleted_NotPopped ==
  /\ \E obj \in Tags : PopsObject(obj) /\ obj \in completed
  /\ UNCHANGED vars

\* completed.insert fails: the object was on the stack twice.
SkipCompleted ==
  /\ \E obj \in Tags : PopsObject(obj) /\ obj \in completed
  /\ unreachableStack' = Popped(unreachableStack)
  /\ UNCHANGED <<deadSet, tagTimeMap, stamped, graph, completed, lastTime, remaining,
                 nullList, deadObjsWithTime, pc, start>>

\* objTime.time > lastTime.time: the object is completed, its neighbors are not
\* visited.
SkipLater ==
  \E obj \in Tags :
    /\ PopsObject(obj)
    /\ obj \notin completed
    /\ tagTimeMap[obj] > lastTime
    /\ unreachableStack' = Popped(unreachableStack)
    /\ completed' = completed \cup {obj}
    /\ UNCHANGED <<deadSet, tagTimeMap, stamped, graph, lastTime, remaining, nullList,
                   deadObjsWithTime, pc, start>>

\* HashGraph::neighbors copies the edges of a node into its static list and
\* returns that list, whose last content is the answer for a missing node.
neighbors(obj) == IF obj \in nodes THEN edgeMap[obj] ELSE nullList

Process ==
  \E obj \in Tags :
    /\ PopsObject(obj)
    /\ obj \notin completed
    /\ tagTimeMap[obj] <= lastTime
    /\ unreachableStack' = Popped(unreachableStack)
    /\ completed' = completed \cup {obj}
    /\ lastTime' = tagTimeMap[obj]
    /\ nullList' = neighbors(obj)
    /\ remaining' = neighbors(obj)
    /\ UNCHANGED <<deadSet, tagTimeMap, stamped, graph, deadObjsWithTime, pc, start>>

GetsLastTime_LiveToo(n)  == tagTimeMap[n] < lastTime
GetsLastTime_Lowered(n)  == n \in deadSet /\ tagTimeMap[n] # lastTime
GetsLastTime(n) == n \in deadSet /\ tagTimeMap[n] < lastTime

\* One turn of the inner loop.
VisitNeighbor(n) ==
  /\ pc = "search" /\ n \in remaining
  /\ remaining' = remaining \ {n}
  /\ stamped' = stamped \cup {n}
  /\ IF GetsLastTime(n)
     THEN /\ tagTimeMap' = [tagTimeMap EXCEPT ![n] = lastTime]
          /\ unreachableStack' = Append(unreachableStack, n)
     ELSE UNCHANGED <<tagTimeMap, unreachableStack>>
  /\ UNCHANGED <<deadSet, graph, completed, lastTime, nullList, deadObjsWithTime, pc, start>>

\* shadowGCEnd takes the times of the dead objects, which become the death
\* records, and removes the objects from the graph and from tagTimeMap.
Report ==
  /\ pc = "search" /\ remaining = {} /\ unreachableStack = <<>>
  /\ deadObjsWithTime' = [o \in deadSet |-> tagTimeMap[o]]
  /\ nodes' = nodes \ deadSet
  /\ stamped' = stamped \ deadSet
  /\ tagTimeMap' = [o \in Tags |-> IF o \in deadSet THEN 0 ELSE tagTimeMap[o]]
  /\ deadSet' = {}
  /\ pc' = "done"
  /\ UNCHANGED <<edgeMap, search, start>>

computeObjectDeathTimes ==
  \/ Sort \/ SkipCompleted \/ SkipLater \/ Process
  \/ \E n \in Tags : VisitNeighbor(n)

Next == computeObjectDeathTimes \/ Report

Spec == Init /\ [][Next]_vars

\* One thread runs the algorithm to its end.
FairSpec == Spec /\ WF_vars(Next)

-----------------------------------------------------------------------------
\* Every variable has the values the code's types and branches allow; only dead
\* objects are on the stack.
TypeOK ==
  /\ deadSet \subseteq Tags /\ stamped \subseteq Tags
  /\ nodes \subseteq Tags /\ nullList \subseteq Tags
  /\ completed \subseteq start.dead /\ remaining \subseteq Tags
  /\ tagTimeMap \in [Tags -> Nat]
  /\ edgeMap \in [Tags -> SUBSET Tags]
  /\ unreachableStack \in Seq(start.dead)
  /\ lastTime \in Nat
  /\ pc \in {"sort", "search", "done"}
  /\ start \in [dead : SUBSET Tags, time : [Tags -> Nat], nodes : SUBSET Tags]
  /\ pc # "done" => deadSet = start.dead

\* w reaches o through dead objects: o is in every set of dead objects that
\* contains w and what its elements point to.
Reaches(w, o) ==
  \A S \in SUBSET start.dead :
    w \in S /\ (\A p \in S : edgeMap[p] \cap start.dead \subseteq S) => o \in S

\* The time at which o became unreachable: the latest stamp of the dead objects
\* that reach it.
IsDeathTime(o, time) ==
  /\ \E w \in start.dead : Reaches(w, o) /\ start.time[w] = time
  /\ \A w \in start.dead : Reaches(w, o) => start.time[w] <= time

InGraph   == start.dead \subseteq start.nodes
InTime    == \A o \in start.dead : start.time[o] <= INT_MAX

\* Every dead object is reported with the time at which it became unreachable, if
\* all have nodes and stamps up to INT_MAX.
DeathTimesRight ==
  pc = "done" /\ InGraph /\ InTime =>
    \A o \in start.dead : IsDeathTime(o, deadObjsWithTime[o])

\* The object on top of the stack is the latest of those not completed, so that
\* the test of lastTime drops nothing.
LatestOnTop ==
  InTime /\ pc = "search" /\ remaining = {} /\ unreachableStack # <<>> =>
    LET obj == Top(unreachableStack) IN
    obj \notin completed =>
      /\ tagTimeMap[obj] <= lastTime
      /\ \A o \in deadSet \ completed : tagTimeMap[o] <= tagTimeMap[obj]

\* A completed object has its final time, also on a cycle.
CompletedIsFinal ==
  [][InTime /\ pc' = "search" =>
       \A o \in completed : tagTimeMap'[o] = tagTimeMap[o]]_vars

\* The stamps of live objects are left alone, whoever points to them.
LiveStampsKept ==
  \A o \in Tags \ start.dead : tagTimeMap[o] = start.time[o]

\* The algorithm ends on every graph.
Terminates == <>(pc = "done")
=============================================================================
