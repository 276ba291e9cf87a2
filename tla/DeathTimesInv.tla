--------------------------- MODULE DeathTimesInv ---------------------------
(***************************************************************************)
(* The inductive invariant of the Merlin algorithm: why a stack sorted     *)
(* once stays sorted well enough when objects are raised and pushed again, *)
(* and what the times are while the search goes on.                        *)
(***************************************************************************)
EXTENDS DeathTimes

Uncompleted == start.dead \ completed
Places == DOMAIN unreachableStack

\* Before the search nothing has happened.
AtSort ==
  pc = "sort" =>
    /\ lastTime = INT_MAX /\ completed = {} /\ remaining = {}
    /\ tagTimeMap = start.time

\* Every object that is not completed is on the stack, and above any object that
\* is not completed and has an earlier time.
StackOrdered ==
  InTime /\ pc = "search" =>
    /\ \A o \in Uncompleted : \E i \in Places : unreachableStack[i] = o
    /\ \A i \in Places : \A o \in Uncompleted :
         unreachableStack[i] \in Uncompleted /\ tagTimeMap[unreachableStack[i]] < tagTimeMap[o] =>
           \E k \in Places : k > i /\ unreachableStack[k] = o

\* lastTime separates the completed objects from the others.
LastTimeBetween ==
  InTime /\ pc = "search" =>
    /\ \A o \in Uncompleted : tagTimeMap[o] <= lastTime
    /\ \A o \in completed : tagTimeMap[o] >= lastTime

\* A completed object has handed its time to its dead neighbors, except for those
\* the inner loop has still to visit.
HandedOn ==
  InTime /\ InGraph /\ pc = "search" =>
    \A o \in completed : \A n \in edgeMap[o] \cap start.dead :
      tagTimeMap[n] >= tagTimeMap[o] \/ (n \in remaining /\ tagTimeMap[o] = lastTime)

\* The inner loop visits neighbors of a completed object whose time is lastTime.
LoopSource ==
  InGraph /\ remaining # {} =>
    \E p \in completed : tagTimeMap[p] = lastTime /\ remaining \subseteq edgeMap[p]

\* Every time of a dead object is the stamp of a dead object that reaches it, and
\* no earlier than its own.
Justified ==
  InGraph /\ pc # "done" =>
    \A o \in start.dead : \E w \in start.dead : Reaches(w, o) /\ start.time[w] = tagTimeMap[o]

NeverLower ==
  pc # "done" => \A o \in start.dead : start.time[o] <= tagTimeMap[o]

GraphKept == pc # "done" => nodes = start.nodes
DoneEmpty == pc = "done" => remaining = {}

\* The inductive invariant.
IInv ==
  /\ TypeOK /\ AtSort /\ StackOrdered /\ LastTimeBetween /\ HandedOn /\ LoopSource
  /\ Justified /\ NeverLower /\ GraphKept /\ DoneEmpty /\ LiveStampsKept /\ DeathTimesRight
=============================================================================
