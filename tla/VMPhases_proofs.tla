-------------------------- MODULE VMPhases_proofs --------------------------
(***************************************************************************)
(* Proofs about the initial scan and the gates, for any heap and any       *)
(* threads: an object gets one allocation record, from the scan or from a  *)
(* hook; the scan meets only objects with a tag as long as no other thread *)
(* makes one; without the hooks nothing is ever told; and from the moment  *)
(* the gate of the agent opens the shadow heap has the pointers of the     *)
(* heap.  IInv says which objects have a record already, namely those with *)
(* a tag that the scan has not still to do, ShadowInv which places the     *)
(* scan has still to read, and what is on its way from a hook to the heap. *)
(***************************************************************************)
EXTENDS VMPhases, FiniteSetTheorems, TLAPS

Ops == [at : {"idle", "native", "store"},
        via : {"none", "gated", "inherited", "exception", "ungated", "jni"},
        place : Places \cup {Null}, value : Classes \cup Objects \cup {Null},
        told : {"yes", "no", "excused", "later"}]

\* What is at hand exists.
Existing ==
  /\ exists \subseteq Classes \cup Objects
  /\ heap \in [Places -> exists \cup {Null}]
  /\ op \in [Threads -> Ops]
  /\ \A t \in Threads : /\ op[t].value \in exists \cup {Null}
                        /\ op[t].place # Null => op[t].place[1] \in exists
  /\ tagged \subseteq exists /\ todo \subseteq tagged
  /\ toRead \subseteq Places

Before == main \in {"onload", "start"}
NoHooks == /\ engaged # LIVE /\ ~jniTable
           /\ \A t \in Threads : op[t].at # "native" /\ op[t].told # "later"

\* The gates are shut until the scan is over, and for good without engageCallbacks.
Gated ==
  /\ Before => tagged = {}
  /\ main # "scan" => todo = {}
  /\ Before \/ main \in {"scan", "scanned"} => NoHooks
  /\ ~engageCallbacks => NoHooks /\ ~callbacks /\ main # "scan" /\ tagged = {}

Recorded ==
  /\ allocations \in [Classes \cup Objects -> Nat]
  /\ \A o \in Classes \cup Objects : allocations[o] = IF o \in tagged \ todo THEN 1 ELSE 0

\* In the course of the scan, only what other threads have made may lack a tag.
Met ==
  /\ main = "scan" => exists \subseteq tagged \cup born
  /\ Before => ~fatal
  /\ fatal /\ main = "scan" => born # {}

IInv == Existing /\ Gated /\ Recorded /\ Met

-----------------------------------------------------------------------------
LEMMA PlaceOwners ==
  /\ \A p \in Places : p[1] \in Classes \cup Objects
  /\ \A a \in Arrays : Elements(a) \subseteq Places
  /\ \A o \in Objects \ Arrays : FieldsOf(o) \subseteq Places
BY PhasesAssumption DEF Places, Elements, FieldsOf, Arrays

LEMMA IdleIsOp == Idle \in Ops /\ Idle.at = "idle" /\ Idle.value = Null /\ Idle.place = Null
                   /\ Idle.told = "yes"
BY DEF Idle, Ops

LEMMA InitIInv == Init => IInv
<1> SUFFICES ASSUME Init PROVE IInv
  OBVIOUS
<1>1. PICK init \in InitialHeaps :
        /\ heap = [p \in Places |-> IF p \in DOMAIN init.heap THEN init.heap[p] ELSE Null]
        /\ exists = init.loaded \cup {p[1] : p \in DOMAIN init.heap}
  BY DEF Init
<1>2. /\ tagged = {} /\ todo = {} /\ toRead = {} /\ fatal = FALSE /\ main = "onload"
      /\ op = [t \in Threads |-> Idle] /\ engaged = ONLOAD /\ jniTable = FALSE
      /\ allocations = [o \in Classes \cup Objects |-> 0] /\ callbacks = engageCallbacks
  BY DEF Init
<1>3. /\ init.loaded \subseteq Classes /\ DOMAIN init.heap \subseteq Places
      /\ \A p \in DOMAIN init.heap : init.heap[p] \in exists \cup {Null}
  BY <1>1, HeapsAssumption
<1>4. exists \subseteq Classes \cup Objects
  BY <1>1, <1>3, PlaceOwners
<1>5. heap \in [Places -> exists \cup {Null}]
  BY <1>1, <1>3
<1>6. \A t \in Threads : op[t] = Idle
  BY <1>2
<1>7. Existing
  BY <1>2, <1>4, <1>5, <1>6, IdleIsOp DEF Existing
<1>8. NoHooks
  BY <1>2, <1>6, IdleIsOp DEF NoHooks, ONLOAD, LIVE
<1>9. Gated
  BY <1>2, <1>8 DEF Gated, Before
<1>10. Recorded /\ Met
  BY <1>2 DEF Recorded, Met
<1> QED BY <1>7, <1>9, <1>10 DEF IInv

-----------------------------------------------------------------------------
(* What gives objects tags and records.                                    *)

\* TagIfNeeded tells of an object once, and of no object that the scan is still to do.
LEMMA Tagging ==
  ASSUME IInv, NEW os, os \subseteq exists' \cup {Null}, exists' \subseteq Classes \cup Objects,
         Null \notin exists', exists \subseteq exists', TagIfNeeded(os), todo' = todo
  PROVE  /\ Recorded' /\ tagged' \subseteq exists' /\ todo' \subseteq tagged'
         /\ tagged \subseteq tagged' /\ os \subseteq tagged' \cup {Null}
<1> DEFINE new == os \ (tagged \cup {Null})
<1>1. /\ tagged' = tagged \cup new
      /\ allocations' = [o \in DOMAIN allocations |->
                           allocations[o] + IF o \in new THEN 1 ELSE 0]
  BY DEF TagIfNeeded, Tag
<1>2. new \subseteq exists' /\ tagged \subseteq exists /\ todo \subseteq tagged
  BY DEF IInv, Existing
<1>3. allocations \in [Classes \cup Objects -> Nat]
  BY DEF IInv, Recorded
<1>4. allocations' \in [Classes \cup Objects -> Nat]
  BY <1>1, <1>3
<1>5. ASSUME NEW o \in Classes \cup Objects
      PROVE  allocations'[o] = IF o \in tagged' \ todo' THEN 1 ELSE 0
  <2>1. allocations[o] = IF o \in tagged \ todo THEN 1 ELSE 0
    BY DEF IInv, Recorded
  <2>2. allocations'[o] = allocations[o] + IF o \in new THEN 1 ELSE 0
    BY <1>1, <1>3
  <2>3. o \in new => o \notin tagged
    OBVIOUS
  <2> HIDE DEF new
  <2> QED BY <1>1, <1>2, <2>1, <2>2, <2>3
<1> QED BY <1>1, <1>2, <1>4, <1>5 DEF Recorded

\* The scan gives the object at hand its record.
LEMMA Handling ==
  ASSUME IInv, NEW o \in todo, Allocated(o), todo' = todo \ {o}, tagged' = tagged
  PROVE  Recorded'
<1>1. o \in Classes \cup Objects /\ o \in tagged
  BY DEF IInv, Existing
<1>2. allocations \in [Classes \cup Objects -> Nat]
  BY DEF IInv, Recorded
<1>3. allocations' = [allocations EXCEPT ![o] = allocations[o] + 1]
  BY DEF Allocated
<1>4. allocations' \in [Classes \cup Objects -> Nat]
  BY <1>1, <1>2, <1>3
<1>5. allocations[o] = 0
  BY <1>1 DEF IInv, Recorded
<1>6. ASSUME NEW x \in Classes \cup Objects
      PROVE  allocations'[x] = IF x \in tagged' \ todo' THEN 1 ELSE 0
  BY <1>1, <1>2, <1>3, <1>5 DEF IInv, Recorded
<1> QED BY <1>4, <1>6 DEF Recorded

-----------------------------------------------------------------------------
(* The steps.                                                              *)

USE DEF gates, vm, scan, agent, OthersStay

\* The steps that move the phase on or turn the gates, and leave the scan and the agent.
LEMMA GateStep ==
  ASSUME IInv, VMStart \/ NoScan \/ ScanEnds \/ VMInit \/ OpenGate \/ Engage \/ ShutGate
                 \/ Disengage \/ ClearCallbacks
  PROVE  IInv'
<1> USE DEF GoesTo
<1>1. UNCHANGED <<engageCallbacks, vm, scan, agent, op, born>>
  BY DEF VMStart, NoScan, ScanEnds, VMInit, OpenGate, Engage, ShutGate, Disengage,
         ClearCallbacks
<1>2. Existing' /\ Recorded'
  BY <1>1 DEF IInv, Existing, Recorded
<1>3. main' # "scan" /\ (main # "scan" \/ todo = {})
  BY DEF VMStart, NoScan, ScanEnds, VMInit, OpenGate, Engage, ShutGate, Disengage,
         ClearCallbacks
<1>4. Met'
  <2>1. Before' => Before
    BY DEF VMStart, NoScan, ScanEnds, VMInit, OpenGate, Engage, ShutGate, Disengage,
           ClearCallbacks, Before
  <2> QED BY <1>1, <1>3, <2>1 DEF IInv, Met
<1>5. /\ main' \in {"onload", "start"} => main \in {"onload", "start"}
      /\ main' \in {"onload", "start", "scan", "scanned"} =>
           /\ main \in {"onload", "start", "scan", "scanned"}
           /\ (engaged' = engaged \/ engaged' = START) /\ UNCHANGED jniTable
      /\ ~engageCallbacks => UNCHANGED engaged /\ (UNCHANGED jniTable \/ ~jniTable')
      /\ UNCHANGED callbacks \/ ~callbacks'
  BY DEF VMStart, NoScan, ScanEnds, VMInit, OpenGate, Engage, ShutGate, Disengage,
         ClearCallbacks, Scanning
<1>6. Gated'
  <2>1. Before' => tagged' = {}
    BY <1>1, <1>5 DEF IInv, Gated, Before
  <2>2. todo' = {}
    BY <1>1, <1>3 DEF IInv, Gated
  <2>3. (Before \/ main \in {"scan", "scanned"})' => NoHooks'
    BY <1>1, <1>5 DEF IInv, Gated, Before, NoHooks, START, LIVE
  <2>4. ~engageCallbacks' => NoHooks' /\ ~callbacks' /\ main' # "scan" /\ tagged' = {}
    BY <1>1, <1>3, <1>5 DEF IInv, Gated, NoHooks
  <2> QED BY <2>1, <2>2, <2>3, <2>4 DEF Gated
<1> QED BY <1>2, <1>4, <1>6 DEF IInv

LEMMA TagHeapStep ==
  ASSUME IInv, TagHeap
  PROVE  IInv'
<1>1. /\ main = "start" /\ engageCallbacks /\ main' = "scan"
      /\ todo' = exists \ tagged /\ tagged' = exists /\ tagged = {}
      /\ UNCHANGED <<engageCallbacks, gates, vm, toRead, fatal, allocations, op, born>>
  BY DEF TagHeap, GoesTo, IInv, Gated, Before
<1>2. Existing'
  BY <1>1 DEF IInv, Existing
<1>3. Recorded'
  BY <1>1 DEF IInv, Recorded, Existing
<1>4. Met'
  BY <1>1 DEF IInv, Met, Before
<1>5. NoHooks'
  BY <1>1 DEF IInv, Gated, Before, NoHooks
<1>6. Gated'
  BY <1>1, <1>5 DEF Gated, Before
<1> QED BY <1>2, <1>3, <1>4, <1>6 DEF IInv

\* A step of the scan leaves the phase, the gates and the tags alone.
LEMMA ScanStep ==
  ASSUME IInv, main = "scan",
         UNCHANGED <<engageCallbacks, gates, main, vm, tagged, op, born>>,
         todo' \subseteq todo, toRead' \subseteq Places, Recorded', fatal' => born # {}
  PROVE  IInv'
<1>1. Existing'
  BY DEF IInv, Existing
<1>2. NoHooks'
  BY DEF IInv, Gated, NoHooks
<1>3. Gated' /\ Met'
  BY <1>2 DEF IInv, Gated, Met, Before
<1> QED BY <1>1, <1>3 DEF IInv

LEMMA ScanningStep ==
  ASSUME IInv, handleInitialObject \/ scanStaticsOf \/ ReadField
  PROVE  IInv'
<1>1. ASSUME NEW o \in todo, ScanArray(o) \/ ScanScalar(o)
      PROVE  IInv'
  <2>1. /\ Allocated(o) /\ todo' = todo \ {o} /\ main = "scan"
        /\ UNCHANGED <<engageCallbacks, gates, main, vm, tagged, op, born, fatal>>
    BY <1>1 DEF ScanArray, ScanScalar, NextObject, Scanning
  <2>2. o \in Classes \cup Objects
    BY DEF IInv, Existing
  <2>3. toRead' \subseteq Places
    BY <1>1, <2>2, PlaceOwners DEF ScanArray, ScanScalar, InstanceFields
  <2>4. Recorded'
    BY <2>1, Handling
  <2> QED BY <2>1, <2>3, <2>4, ScanStep DEF IInv, Met
<1>2. ASSUME NEW o \in todo, ScanClassObject(o)
      PROVE  IInv'
  <2>1. /\ main = "scan"
        /\ UNCHANGED <<engageCallbacks, gates, main, vm, tagged, op, born, fatal, todo, toRead,
                       allocations>>
    BY <1>2 DEF ScanClassObject, NextObject, Scanning
  <2> QED BY <2>1, ScanStep DEF IInv, Met, Existing, Recorded
<1>3. CASE scanStaticsOf
  <2>1. /\ main = "scan" /\ toRead' \subseteq Places
        /\ UNCHANGED <<engageCallbacks, gates, main, vm, tagged, op, born, fatal, todo,
                       allocations>>
    BY <1>3 DEF scanStaticsOf, Scanning
  <2> QED BY <2>1, ScanStep DEF IInv, Met, Existing, Recorded
<1>4. CASE ReadField
  <2>1. PICK p \in toRead : /\ toRead' = toRead \ {p}
                            /\ fatal' = (Untagged(p) /\ ~IsStatic(p))
    BY <1>4 DEF ReadField
  <2>2. /\ main = "scan"
        /\ UNCHANGED <<engageCallbacks, gates, main, vm, tagged, op, born, todo, allocations>>
    BY <1>4 DEF ReadField, Scanning
  <2>3. fatal' => born # {}
    BY <2>1, <2>2 DEF IInv, Met, Existing, Untagged
  <2> QED BY <2>1, <2>2, <2>3, ScanStep DEF IInv, Existing, Recorded
<1> QED BY <1>1, <1>2, <1>3, <1>4 DEF handleInitialObject

-----------------------------------------------------------------------------
(* The other threads.                                                      *)

\* A thread begins something and has not touched the agent.
LEMMA BeginStep ==
  ASSUME IInv, NEW t \in Threads, NEW o \in Ops, op' = [op EXCEPT ![t] = o],
         o.value \in exists' \cup {Null}, o.place # Null => o.place[1] \in exists',
         o.at = "native" \/ o.told = "later" => engaged = LIVE \/ jniTable,
         exists \subseteq exists', exists' \subseteq Classes \cup Objects,
         main = "scan" => exists' \subseteq tagged \cup born', born \subseteq born',
         UNCHANGED <<engageCallbacks, gates, main, heap, scan, agent>>
  PROVE  IInv'
<1>1. op \in [Threads -> Ops]
  BY DEF IInv, Existing
<1>2. \A u \in Threads : op'[u] = IF u = t THEN o ELSE op[u]
  BY <1>1
<1>3. op' \in [Threads -> Ops]
  BY <1>1
<1>4. heap' \in [Places -> exists' \cup {Null}]
  BY DEF IInv, Existing
<1>5. Existing'
  BY <1>2, <1>3, <1>4 DEF IInv, Existing
<1>6. NoHooks => NoHooks'
  BY <1>2 DEF NoHooks
<1>7. Gated'
  BY <1>6 DEF IInv, Gated, Before
<1>8. Recorded' /\ Met'
  BY DEF IInv, Recorded, Met, Before
<1> QED BY <1>5, <1>7, <1>8 DEF IInv

LEMMA UseStep ==
  ASSUME IInv, NEW t \in Threads, NEW o \in Values, NEW via \in Gates, Use(t, o, via)
  PROVE  IInv'
<1> DEFINE x == [at |-> "native", via |-> via, place |-> Null, value |-> o, told |-> "yes"]
<1>1. op' = [op EXCEPT ![t] = x] /\ engaged = LIVE
      /\ UNCHANGED <<engageCallbacks, gates, main, vm, scan, agent, born>>
  BY DEF Use, Begins, ThreadStep, engagedInJava
<1>2. o \in exists /\ exists \subseteq Classes \cup Objects
  BY DEF Values, IInv, Existing
<1>3. x \in Ops
  BY <1>2 DEF Ops, Gates
<1>4. x.value = o /\ x.place = Null
  OBVIOUS
<1> HIDE DEF x
<1> QED BY <1>1, <1>2, <1>3, <1>4, BeginStep DEF IInv, Met

LEMMA StoreBegins ==
  ASSUME IInv, NEW t \in Threads, NEW p \in Places, Storable(p), NEW y \in Values \cup {Null},
         NEW via \in {"gated", "ungated", "inherited"}, JniStore(t, p, y) \/ JavaStore(t, p, y, via)
  PROVE  IInv'
<1> DEFINE rec(a, v, h) == [at |-> a, via |-> v, place |-> p, value |-> y, told |-> h]
<1>1. PICK a \in {"native", "store"}, v \in {"gated", "inherited", "ungated", "jni"},
           h \in {"yes", "no", "excused", "later"} :
        /\ op' = [op EXCEPT ![t] = rec(a, v, h)]
        /\ a = "native" \/ h = "later" => engaged = LIVE \/ jniTable
  <2>1. Excuse \in {"yes", "no", "excused"}
    BY DEF Excuse
  <2>2. CASE JniStore(t, p, y)
    <3>1. CASE jniTable
      <4>1. CASE p[1] \in Arrays
        BY <2>2, <3>1, <4>1 DEF JniStore, Begins
      <4>2. CASE p[1] \notin Arrays
        BY <2>2, <3>1, <4>2 DEF JniStore, Begins
      <4> QED BY <4>1, <4>2
    <3>2. CASE ~jniTable
      BY <2>1, <2>2, <3>2 DEF JniStore, Begins
    <3> QED BY <3>1, <3>2
  <2>3. CASE JavaStore(t, p, y, via)
    <3>1. CASE engagedInJava
      BY <2>3, <3>1 DEF JavaStore, Begins, engagedInJava
    <3>2. CASE ~engagedInJava
      BY <2>1, <2>3, <3>2 DEF JavaStore, Begins
    <3> QED BY <3>1, <3>2
  <2> QED BY <2>2, <2>3
<1> DEFINE x == rec(a, v, h)
<1>2. UNCHANGED <<engageCallbacks, gates, main, vm, scan, agent, born>>
  BY DEF JniStore, JavaStore, ThreadStep
<1>3. /\ y \in exists \cup {Null} /\ exists \subseteq Classes \cup Objects
      /\ p[1] \in exists
  BY DEF Values, Storable, IInv, Existing
<1>4. x \in Ops /\ x.value = y /\ x.place = p /\ x.at = a /\ x.told = h
  BY <1>1, <1>3 DEF Ops
<1> HIDE DEF rec
<1>5. op' = [op EXCEPT ![t] = x]
  BY <1>1
<1>6. main = "scan" => exists' \subseteq tagged \cup born'
  BY <1>2 DEF IInv, Met
<1> HIDE DEF x
<1>7. x.value \in exists' \cup {Null} /\ (x.place # Null => x.place[1] \in exists')
      /\ (x.at = "native" \/ x.told = "later" => engaged = LIVE \/ jniTable)
  BY <1>1, <1>2, <1>3, <1>4
<1> QED BY <1>2, <1>3, <1>4, <1>5, <1>6, <1>7, BeginStep

LEMMA NewObjStep ==
  ASSUME IInv, NEW t \in Threads, NEW o \in Objects, NewObj(t, o)
  PROVE  IInv'
<1> DEFINE x == IF engagedInJava
                THEN [at |-> "native", via |-> "ungated", place |-> Null, value |-> o,
                      told |-> "yes"]
                ELSE Idle
<1>1. /\ op' = [op EXCEPT ![t] = x] /\ exists' = exists \cup {o}
      /\ born' = IF main = "scan" THEN born \cup {o} ELSE born
      /\ UNCHANGED <<engageCallbacks, gates, main, heap, scan, agent>>
  BY DEF NewObj, Begins, ThreadStep, Made
<1>2. x \in Ops
  BY IdleIsOp DEF Ops
<1>3. /\ x.value \in exists' \cup {Null} /\ x.place = Null
      /\ x.at = "native" \/ x.told = "later" => engaged = LIVE
  BY <1>1, IdleIsOp DEF engagedInJava
<1> HIDE DEF x
<1>4. exists \subseteq Classes \cup Objects /\ (main = "scan" => exists \subseteq tagged \cup born)
  BY DEF IInv, Existing, Met
<1> QED BY <1>1, <1>2, <1>3, <1>4, BeginStep

\* A step that only tags, at a hook or a callback that is allowed to.
LEMMA VMAllocStep ==
  ASSUME IInv, NEW t \in Threads, NEW o \in Objects, VMAlloc(t, o)
  PROVE  IInv'
<1> DEFINE os == {o} \cup IF o \in Arrays THEN {} ELSE {ClassOf[o]}
<1>1. /\ op' = op /\ exists' = exists \cup {o} /\ TagIfNeeded(os)
      /\ callbacks /\ ~Before
      /\ UNCHANGED <<engageCallbacks, gates, main, heap, scan, born>>
  BY DEF VMAlloc, ThreadStep, Before
<1>2. exists \subseteq Classes \cup Objects /\ Null \notin Classes \cup Objects
  BY PhasesAssumption DEF IInv, Existing
<1>3. os \subseteq exists'
  BY <1>1 DEF VMAlloc, Makeable
<1> HIDE DEF os
<1>4. /\ Recorded' /\ tagged' \subseteq exists' /\ todo' \subseteq tagged'
      /\ tagged \subseteq tagged' /\ os \subseteq tagged' \cup {Null}
  BY <1>1, <1>2, <1>3, Tagging
<1>5. o \in tagged'
  BY <1>2, <1>4 DEF os
<1>6. Existing'
  BY <1>1, <1>2, <1>4 DEF IInv, Existing
<1>7. NoHooks => NoHooks'
  BY <1>1 DEF NoHooks
<1>8. Gated'
  BY <1>1, <1>7 DEF IInv, Gated, Before
<1>9. Met'
  BY <1>1, <1>4, <1>5 DEF IInv, Met, Before
<1> QED BY <1>4, <1>6, <1>8, <1>9 DEF IInv

\* What the hooks leave as it is, and where they leave the thread.
LEMMA NativeFacts ==
  ASSUME NEW t \in Threads, Native(t)
  PROVE  /\ op[t].at = "native"
         /\ UNCHANGED <<engageCallbacks, gates, main, vm, todo, toScan, toRead, staticsScanned,
                        born>>
         /\ \/ UNCHANGED <<op, agent, gap, astray>>
            \/ /\ \E x \in {Idle, [op[t] EXCEPT !.at = "store"],
                            [op[t] EXCEPT !.at = "store", !.told = Excuse]} :
                      op' = [op EXCEPT ![t] = x]
               /\ UNCHANGED fatal
<1>1. CASE NativeStore(t)
  BY <1>1 DEF NativeStore
<1>2. CASE Assertion(t)
  BY <1>2 DEF Assertion
<1>3. CASE NativeUse(t)
  BY <1>3 DEF NativeUse, ThreadStep
<1>4. CASE TurnedAway(t)
  BY <1>4 DEF TurnedAway, ThreadStep
<1> QED BY <1>1, <1>2, <1>3, <1>4 DEF Native

LEMMA NativeStep ==
  ASSUME IInv, NEW t \in Threads, Native(t)
  PROVE  IInv'
<1> DEFINE o == op[t]
<1>1. /\ o.at = "native" /\ o \in Ops
      /\ UNCHANGED <<engageCallbacks, gates, main, vm, todo, toScan, toRead, staticsScanned, born>>
      /\ o.value \in exists \cup {Null} /\ (o.place # Null => o.place[1] \in exists)
  BY NativeFacts DEF IInv, Existing
<1>2. /\ exists \subseteq Classes \cup Objects /\ Null \notin Classes \cup Objects
      /\ op \in [Threads -> Ops]
  BY PhasesAssumption DEF IInv, Existing
<1>3. ~NoHooks /\ ~Before /\ main \notin {"scan", "scanned"} /\ engageCallbacks
  BY <1>1 DEF IInv, Gated, NoHooks
<1>4. /\ op' \in [Threads -> Ops]
      /\ \A u \in Threads : /\ op'[u].value \in exists \cup {Null}
                            /\ op'[u].place # Null => op'[u].place[1] \in exists
  <2>1. CASE UNCHANGED op
    BY <1>2, <2>1 DEF IInv, Existing
  <2>2. ASSUME NEW x \in {Idle, [o EXCEPT !.at = "store"],
                          [o EXCEPT !.at = "store", !.told = Excuse]},
               op' = [op EXCEPT ![t] = x]
        PROVE  /\ op' \in [Threads -> Ops]
               /\ \A u \in Threads : /\ op'[u].value \in exists \cup {Null}
                                     /\ op'[u].place # Null => op'[u].place[1] \in exists
    <3>1. Excuse \in {"yes", "no", "excused"}
      BY DEF Excuse
    <3>2. /\ x \in Ops /\ x.value \in exists \cup {Null}
          /\ x.place # Null => x.place[1] \in exists
      <4>1. CASE x = Idle
        BY <4>1, IdleIsOp
      <4>2. CASE x = [o EXCEPT !.at = "store"]
        <5>1. x \in Ops /\ x.value = o.value /\ x.place = o.place
          BY <1>1, <4>2 DEF Ops
        <5> QED BY <1>1, <5>1
      <4>3. CASE x = [o EXCEPT !.at = "store", !.told = Excuse]
        <5>1. x \in Ops /\ x.value = o.value /\ x.place = o.place
          BY <1>1, <3>1, <4>3 DEF Ops
        <5> QED BY <1>1, <5>1
      <4> QED BY <4>1, <4>2, <4>3
    <3>3. \A u \in Threads : op'[u] = IF u = t THEN x ELSE op[u]
      BY <1>2, <2>2
    <3> HIDE DEF o
    <3> QED BY <1>2, <2>2, <3>2, <3>3 DEF IInv, Existing
  <2> QED BY <2>1, <2>2, NativeFacts
<1>5. Recorded' /\ tagged' \subseteq exists' /\ todo' \subseteq tagged'
  <2>1. CASE UNCHANGED <<tagged, allocations>>
    BY <1>1, <2>1 DEF IInv, Recorded, Existing
  <2>2. ASSUME NEW os \in SUBSET (exists \cup {Null}), TagIfNeeded(os)
        PROVE  Recorded' /\ tagged' \subseteq exists' /\ todo' \subseteq tagged'
    BY <1>1, <1>2, <2>2, Tagging
  <2>3. CASE NativeStore(t)
    <3>1. TagIfNeeded({o.value} \cup Named(o.via, o.place)) /\ o.place # Null
      BY <2>3 DEF NativeStore
    <3>2. {o.value} \cup Named(o.via, o.place) \in SUBSET (exists \cup {Null})
      BY <1>1, <3>1 DEF Named
    <3> QED BY <2>2, <3>1, <3>2
  <2>4. CASE NativeUse(t)
    <3>1. TagIfNeeded({o.value})
      BY <2>4 DEF NativeUse
    <3> QED BY <1>1, <2>2, <3>1
  <2>5. CASE Assertion(t) \/ TurnedAway(t)
    BY <2>1, <2>5 DEF Assertion, TurnedAway
  <2> QED BY <2>3, <2>4, <2>5 DEF Native
<1>6. Existing'
  BY <1>1, <1>2, <1>4, <1>5 DEF IInv, Existing
<1>7. Gated' /\ Met'
  BY <1>1, <1>3 DEF IInv, Gated, Met, Before
<1> QED BY <1>5, <1>6, <1>7 DEF IInv

LEMMA StoreStep ==
  ASSUME IInv, NEW t \in Threads, Store(t)
  PROVE  IInv'
<1> DEFINE x == IF op[t].told = "later" THEN [op[t] EXCEPT !.at = "native"] ELSE Idle
<1>1. /\ heap' = [heap EXCEPT ![op[t].place] = op[t].value] /\ op' = [op EXCEPT ![t] = x]
      /\ UNCHANGED <<engageCallbacks, gates, main, scan, exists, agent, born>>
  BY DEF Store, ThreadStep
<1>2. op[t].value \in exists \cup {Null} /\ heap \in [Places -> exists \cup {Null}]
      /\ op \in [Threads -> Ops]
  BY DEF IInv, Existing
<1>3. heap' \in [Places -> exists \cup {Null}]
  BY <1>1, <1>2
<1>4. /\ x \in Ops /\ x.value \in {op[t].value, Null} /\ x.place \in {op[t].place, Null}
      /\ op[t].told # "later" => x.at # "native" /\ x.told # "later"
  BY <1>2, IdleIsOp DEF Ops
<1> HIDE DEF x
<1>5. /\ op' \in [Threads -> Ops]
      /\ \A u \in Threads : op'[u] = IF u = t THEN x ELSE op[u]
  BY <1>1, <1>2, <1>4
<1>9. Existing'
  BY <1>1, <1>3, <1>4, <1>5 DEF IInv, Existing
<1>6. NoHooks => NoHooks'
  BY <1>1, <1>4, <1>5 DEF NoHooks
<1>7. Gated'
  BY <1>1, <1>6 DEF IInv, Gated, Before
<1>8. Recorded' /\ Met'
  BY <1>1 DEF IInv, Recorded, Met, Before
<1> QED BY <1>9, <1>7, <1>8 DEF IInv

LEMMA PrepareStep ==
  ASSUME IInv, NEW t \in Threads, NEW c, Prepare(t, c)
  PROVE  IInv'
<1>1. UNCHANGED <<engageCallbacks, gates, main, scan, exists, heap, agent, op, born>>
  BY DEF Prepare, ThreadStep
<1> QED BY <1>1 DEF IInv, Existing, Gated, Recorded, Met, Before, NoHooks

LEMMA NextIInv == IInv /\ [Next]_vars => IInv'
<1> SUFFICES ASSUME IInv, [Next]_vars PROVE IInv'
  OBVIOUS
<1>1. CASE UNCHANGED vars
  BY <1>1 DEF vars, IInv, Existing, Gated, Recorded, Met, Before, NoHooks
<1>2. CASE Main
  BY <1>2, GateStep, TagHeapStep, ScanningStep DEF Main
<1>3. ASSUME NEW t \in Threads, Thread(t)
      PROVE  IInv'
  <2>1. CASE Begin(t)
    <3> QED BY <2>1, NewObjStep, VMAllocStep, UseStep, StoreBegins, PrepareStep DEF Begin
  <2> QED BY <1>3, <2>1, NativeStep, StoreStep DEF Thread
<1> QED BY <1>1, <1>2, <1>3 DEF Next

(* No object has two allocation records; once the initial scan is over, an *)
(* object has one just when it has a tag; the scan ends the process only   *)
(* if another thread made an object meanwhile; and with engageCallbacks    *)
(* off no object is ever told of (handleInitialObject, nativeNewObj,       *)
(* getTagAndTagIfNeeded).                                                  *)
THEOREM InitialAndNewObjectsTracedOnce == Spec => []TracedOnce
<1>1. IInv => TracedOnce
  BY DEF IInv, Existing, Gated, Recorded, Met, TracedOnce, Before
<1> QED BY <1>1, InitIInv, NextIInv, PTL DEF Spec
-----------------------------------------------------------------------------
(***************************************************************************)
(* The shadow heap after the scan.  A place is pending while the scan has  *)
(* still to read it.  Every other place that nobody stores into, and that  *)
(* was not stored into without a hook, or with one that went astray, has   *)
(* the same pointer in both heaps.                                         *)
(***************************************************************************)

Early == main \in {"onload", "start", "scan", "scanned"}

Types ==
  /\ engageCallbacks \in BOOLEAN
  /\ prepared \subseteq Classes /\ staticsScanned \subseteq Classes
  /\ className2classId \in [Classes -> {"none", "id", "zero"}]
  /\ shadow \in [Places -> exists \cup {Null}]
  /\ toScan \in Seq(staticsScanned)
  /\ gap \subseteq Places /\ astray \subseteq Places /\ born \subseteq exists

\* What the gates are when.
GatesInOrder ==
  /\ vmInitialized = CASE main \in {"open", "program"} -> LIVE
                       [] main \in {"shut", "disengaged", "ended"} -> DEAD
                       [] OTHER -> ONLOAD
  /\ engaged \in {ONLOAD, START, LIVE, DEAD}
  /\ engageCallbacks /\ main \in {"ready", "open", "program"} => jniTable
  /\ engageCallbacks /\ main = "program" => engaged = LIVE

\* A store that was told of is in the shadow heap before it is in the heap, unless the
\* hook went astray; one that was not told of began when the program could not have a hook.
ToldOf(o) == \/ o.told = "excused"
             \/ o.told = "later" /\ ~Early
             \/ o.told = "yes" /\ ~Early /\ (o.place \in astray \/ shadow[o.place] = o.value)
InFlight ==
  \A t \in Threads :
    /\ op[t].at = "idle" => op[t] = Idle
    /\ op[t].at = "store" => op[t].place # Null
    /\ op[t].place # Null /\ op[t].at = "native" => op[t].via \in {"gated", "inherited", "ungated", "jni"}
    /\ op[t].told = "later" => op[t].via = "jni"
    /\ op[t].at = "native" =>
         \/ op[t].told = "yes"
         \/ op[t].told = "later" /\ op[t].place # Null /\ heap[op[t].place] = op[t].value
    /\ engageCallbacks /\ op[t].at = "store" => ToldOf(op[t])

\* Two threads are not at one place.
Exclusive == \A s, t \in Threads : s # t /\ op[s].place # Null => op[s].place # op[t].place

\* What does not exist yet holds nothing, nor does a class before it is prepared.
Unmade ==
  /\ \A p \in Places : p[1] \notin exists => heap[p] = Null
  /\ \A p \in Places : IsStatic(p) /\ p[1] \notin prepared =>
        /\ heap[p] = Null /\ (Early => shadow[p] = Null)
        /\ \A t \in Threads : op[t].place # p

Fresh ==
  main \in {"onload", "start"} =>
    /\ toRead = {} /\ toScan = <<>> /\ staticsScanned = {}
    /\ \A p \in Places : shadow[p] = Null

\* What a place holds that was not stored into in the course of the scan has a tag.
Excused == main = "scan" => \A p \in Places : p \notin gap => heap[p] \in tagged \cup {Null}

Queued(c) == \E i \in DOMAIN toScan : toScan[i] = c
Pending(p) ==
  /\ main = "scan"
  /\ \/ p \in toRead
     \/ ~IsStatic(p) /\ p[1] \in todo
     \/ IsStatic(p) /\ (p[1] \in todo \ staticsScanned \/ Queued(p[1]))

Agreed ==
  engageCallbacks /\ main \notin {"onload", "start"} =>
    \A p \in Places : Free(p) /\ p \notin gap \cup astray /\ Tracked(p) /\ ~Pending(p) =>
      shadow[p] = heap[p]

OpsInv == InFlight /\ Exclusive
ShadowInv == Types /\ GatesInOrder /\ OpsInv /\ Unmade /\ Fresh /\ Excused /\ Agreed

-----------------------------------------------------------------------------
(* Classes and places.                                                     *)

LEMMA ChainFacts == \A c \in Classes : c \in Chain[c] /\ Chain[c] \subseteq Classes
BY DEF Chain

LEMMA PlaceKinds ==
  /\ Null \notin Places
  /\ \A p \in Places :
       /\ IsStatic(p) => p = <<p[1], p[1]>> /\ p[1] \in Classes
       /\ ~IsStatic(p) /\ p[1] \in Arrays => p \in Elements(p[1])
       /\ ~IsStatic(p) /\ p[1] \notin Arrays =>
            /\ p \in FieldsOf(p[1]) /\ p[1] \in Objects /\ ClassOf[p[1]] \in Classes
            /\ p[2] \in Chain[ClassOf[p[1]]] /\ p[2] \in Classes
<1>1. Null \notin Places
  BY HeapsAssumption
<1>2. ASSUME NEW p \in Places, IsStatic(p) PROVE p = <<p[1], p[1]>> /\ p[1] \in Classes
  <2>1. CASE p \in {<<c, c>> : c \in HasStatic}
    BY <2>1, <1>2 DEF IsStatic
  <2>2. ASSUME NEW o \in Objects, p \in (IF o \in Arrays THEN Elements(o) ELSE FieldsOf(o))
        PROVE  FALSE
    <3>1. p[1] = o
      BY <2>2 DEF Elements, FieldsOf
    <3> QED BY <1>2, <3>1, PhasesAssumption DEF IsStatic
  <2> QED BY <2>1, <2>2 DEF Places
<1>3. ASSUME NEW p \in Places, ~IsStatic(p)
      PROVE  /\ p[1] \in Arrays => p \in Elements(p[1])
             /\ p[1] \notin Arrays => p \in FieldsOf(p[1]) /\ p[1] \in Objects
  <2>1. CASE p \in {<<c, c>> : c \in HasStatic}
    BY <2>1, <1>3, PhasesAssumption DEF IsStatic
  <2>2. ASSUME NEW o \in Objects, p \in (IF o \in Arrays THEN Elements(o) ELSE FieldsOf(o))
        PROVE  /\ p[1] = o
               /\ p[1] \in Arrays => p \in Elements(p[1])
               /\ p[1] \notin Arrays => p \in FieldsOf(p[1])
    BY <2>2 DEF Elements, FieldsOf
  <2> QED BY <2>1, <2>2 DEF Places
<1>4. ASSUME NEW p \in Places, ~IsStatic(p), p[1] \notin Arrays
      PROVE  /\ ClassOf[p[1]] \in Classes
             /\ p[2] \in Chain[ClassOf[p[1]]] /\ p[2] \in Classes
  <2>1. p \in FieldsOf(p[1]) /\ p[1] \in Objects
    BY <1>3, <1>4
  <2>2. ClassOf[p[1]] \in Classes
    BY <1>4, <2>1, PhasesAssumption DEF Arrays
  <2> QED BY <2>1, <2>2, ChainFacts DEF FieldsOf
<1> QED BY <1>1, <1>2, <1>3, <1>4

\* A hook writes the slot of a place, or of none.
LEMMA HitsPlaces ==
  ASSUME NEW p \in Places, NEW via PROVE Hits(via, p) \subseteq Places \cup {Null}
<1>1. IsStatic(p) => p[1] \notin Arrays
  BY PhasesAssumption DEF IsStatic, Arrays
<1>2. p[1] \in Arrays => Elements(p[1]) \subseteq Places
  BY PlaceOwners
<1>3. ~IsStatic(p) /\ p[1] \notin Arrays => FieldsOf(p[1]) \subseteq Places
  BY PlaceKinds, PlaceOwners
<1>4. FirstStatic \in Places \cup {Null}
  BY HeapsAssumption
<1> QED BY <1>1, <1>2, <1>3, <1>4 DEF Hits

\* The agent makes entries, and keeps those it has.
LEMMA ClassifiedFacts ==
  ASSUME className2classId \in [Classes -> {"none", "id", "zero"}], NEW os,
         NEW new, new = Classified(className2classId, os)
  PROVE  /\ new \in [Classes -> {"none", "id", "zero"}]
         /\ \A c \in Classes : className2classId[c] # "none" => new[c] = className2classId[c]
         /\ \A c \in Classes : new[c] = "zero" => className2classId[c] = "zero"
         /\ \A o \in Scalars(os), c \in Classes : c \in Chain[ClassOf[o]] => new[c] # "none"
BY DEF Classified

\* No place is tracked that was not tracked before.
LEMMA TrackedBefore ==
  ASSUME \A c \in Classes : className2classId[c] = "zero" => className2classId'[c] = "zero",
         NEW p \in Places, Tracked(p)'
  PROVE  Tracked(p)
BY PlaceKinds, ChainFacts DEF Tracked, IsStatic

LEMMA SetToSeqFacts ==
  ASSUME NEW S, IsFiniteSet(S)
  PROVE  /\ SetToSeq(S) \in Seq(S)
         /\ \A x \in S : \E i \in DOMAIN SetToSeq(S) : SetToSeq(S)[i] = x
<1> DEFINE n == Cardinality(S)
<1>1. n \in Nat /\ ExistsBijection(1 .. n, S)
  BY FS_CardinalityType
<1>2. PICK f \in Bijection(1 .. n, S) : TRUE
  BY <1>1 DEF ExistsBijection
<1>3. f \in [1 .. n -> S] /\ IsInjective(f)
  BY <1>2 DEF Bijection, Injection
<1>4. SetToSeq(S) \in [1 .. n -> S] /\ IsInjective(SetToSeq(S))
  BY <1>3 DEF SetToSeq
<1>5. SetToSeq(S) \in Injection(1 .. n, S)
  BY <1>4 DEF Injection
<1>6. Cardinality(1 .. n) = n
  BY <1>1, FS_Interval
<1>7. SetToSeq(S) \in Surjection(1 .. n, S)
  BY <1>5, <1>6, FS_Injection
<1> QED BY <1>1, <1>4, <1>7 DEF Surjection

LEMMA SetsApart == Null \notin Classes /\ Null \notin Objects /\ Classes \cap Objects = {}
BY PhasesAssumption

LEMMA InitShadowInv == Init => ShadowInv
<1> SUFFICES ASSUME Init PROVE ShadowInv
  OBVIOUS
<1>1. PICK init \in InitialHeaps :
        LET at == {p[1] : p \in DOMAIN init.heap}
        IN  /\ heap = [p \in Places |-> IF p \in DOMAIN init.heap THEN init.heap[p] ELSE Null]
            /\ exists = init.loaded \cup at
            /\ prepared = UNION {Chain[IF o \in Classes THEN o ELSE ClassOf[o]] :
                                   o \in at \ Arrays}
  BY DEF Init
<1> DEFINE at == {p[1] : p \in DOMAIN init.heap}
<1>2. /\ main = "onload" /\ vmInitialized = ONLOAD /\ engaged = ONLOAD
      /\ engageCallbacks \in BOOLEAN
      /\ className2classId = [c \in Classes |-> IF c \in Told THEN "id" ELSE "none"]
      /\ toScan = <<>> /\ toRead = {} /\ staticsScanned = {}
      /\ shadow = [p \in Places |-> Null] /\ gap = {} /\ astray = {} /\ born = {}
      /\ op = [t \in Threads |-> Idle]
  BY DEF Init
<1>3. at \subseteq Classes \cup Objects
  BY HeapsAssumption, PlaceOwners
<1>4. prepared \subseteq Classes
  <2>1. ASSUME NEW o \in at \ Arrays
        PROVE  Chain[IF o \in Classes THEN o ELSE ClassOf[o]] \subseteq Classes
    <3>1. (IF o \in Classes THEN o ELSE ClassOf[o]) \in Classes
      BY <1>3, PhasesAssumption DEF Arrays
    <3> QED BY <3>1, ChainFacts
  <2> QED BY <1>1, <2>1
<1>5. Types
  BY <1>2, <1>4 DEF Types
<1>6. GatesInOrder
  BY <1>2 DEF GatesInOrder
<1>7. \A t \in Threads : op[t] = Idle
  BY <1>2
<1>8. OpsInv
  BY <1>7, IdleIsOp DEF OpsInv, InFlight, Exclusive
<1>9. ASSUME NEW p \in Places, p \in DOMAIN init.heap, IsStatic(p) PROVE p[1] \in prepared
  <2>1. p[1] \in at \ Arrays /\ p[1] \in Classes
    BY <1>9, SetsApart, PhasesAssumption DEF IsStatic, Arrays
  <2> QED BY <1>1, <2>1, ChainFacts
<1>10. \A p \in Places : p \in DOMAIN init.heap => p[1] \in exists
  BY <1>1
<1>11. \A p \in Places : p \notin DOMAIN init.heap => heap[p] = Null
  BY <1>1
<1>12. Unmade
  BY <1>2, <1>7, <1>9, <1>10, <1>11, IdleIsOp, PlaceKinds DEF Unmade
<1>13. Fresh /\ Excused /\ Agreed
  BY <1>2 DEF Fresh, Excused, Agreed
<1> QED BY <1>5, <1>6, <1>8, <1>12, <1>13 DEF ShadowInv

-----------------------------------------------------------------------------
(* The phases and the scan.                                                *)

LEMMA GateShadow ==
  ASSUME IInv, ShadowInv, VMStart \/ NoScan \/ ScanEnds \/ VMInit \/ OpenGate \/ Engage
                          \/ ShutGate \/ Disengage \/ ClearCallbacks
  PROVE  ShadowInv'
<1> USE DEF GoesTo
<1>1. UNCHANGED <<engageCallbacks, vm, scan, agent, op, gap, astray, born>>
  BY DEF VMStart, NoScan, ScanEnds, VMInit, OpenGate, Engage, ShutGate, Disengage,
         ClearCallbacks
<1>2. /\ Early' => Early
      /\ main' \in {"onload", "start"} => main \in {"onload", "start"}
      /\ main' # "scan"
  BY DEF VMStart, NoScan, ScanEnds, VMInit, OpenGate, Engage, ShutGate, Disengage,
         ClearCallbacks, Early, Scanning
<1>3. Types' /\ Unmade' /\ Excused'
  BY <1>1, <1>2 DEF ShadowInv, Types, Unmade, Excused, Early
<1>4. Fresh'
  BY <1>1, <1>2 DEF ShadowInv, Fresh
<1>5. GatesInOrder'
  BY DEF VMStart, NoScan, ScanEnds, VMInit, OpenGate, Engage, ShutGate, Disengage,
         ClearCallbacks, Scanning, ShadowInv, GatesInOrder, LIVE, START, DEAD, ONLOAD
<1>6. OpsInv'
  BY <1>1, <1>2 DEF ShadowInv, OpsInv, InFlight, Exclusive, ToldOf
<1>7. \/ main' \in {"onload", "start"} \/ ~engageCallbacks
      \/ main \notin {"onload", "start"} /\ \A p \in Places : ~Pending(p)
  BY DEF VMStart, NoScan, ScanEnds, VMInit, OpenGate, Engage, ShutGate, Disengage,
         ClearCallbacks, Scanning, Pending, Queued
<1>8. Agreed'
  BY <1>1, <1>7 DEF ShadowInv, Agreed, Free, Tracked, IsStatic
<1> QED BY <1>3, <1>4, <1>5, <1>6, <1>8 DEF ShadowInv

LEMMA TagHeapShadow ==
  ASSUME IInv, ShadowInv, TagHeap
  PROVE  ShadowInv'
<1>1. /\ main = "start" /\ main' = "scan" /\ todo' = exists /\ tagged' = exists
      /\ UNCHANGED <<engageCallbacks, gates, vm, toScan, toRead, staticsScanned,
                     className2classId, shadow, op, gap, astray, born>>
  BY DEF TagHeap, GoesTo, IInv, Gated, Before
<1>2. Types' /\ Unmade'
  BY <1>1 DEF ShadowInv, Types, Unmade, Early
<1>3. GatesInOrder' /\ Fresh'
  BY <1>1 DEF ShadowInv, GatesInOrder, Fresh
<1>4. OpsInv'
  BY <1>1 DEF ShadowInv, OpsInv, InFlight, Exclusive, ToldOf, Early
<1>5. Excused'
  BY <1>1 DEF IInv, Existing, Excused
<1>6. ASSUME NEW p \in Places, ~Pending(p)' PROVE shadow'[p] = heap'[p]
  <2>1. p[1] \notin exists
    BY <1>1, <1>6 DEF Pending, IsStatic, ShadowInv, Fresh
  <2> QED BY <1>1, <2>1 DEF ShadowInv, Unmade, Fresh
<1>7. Agreed'
  BY <1>6 DEF Agreed
<1> QED BY <1>2, <1>3, <1>4, <1>5, <1>7 DEF ShadowInv

\* A step of the scan.
LEMMA ScanShadow ==
  ASSUME IInv, ShadowInv, main = "scan",
         UNCHANGED <<engageCallbacks, gates, main, vm, tagged, op, astray>>, Types',
         \A p \in Places : p \notin gap' => heap[p] \in tagged \cup {Null},
         \A p \in Places : IsStatic(p) /\ p[1] \notin prepared => shadow'[p] = Null,
         \A p \in Places : Free(p) /\ p \notin gap' \cup astray /\ Tracked(p)' /\ ~Pending(p)' =>
                             shadow'[p] = heap[p]
  PROVE  ShadowInv'
<1>1. GatesInOrder' /\ Fresh'
  BY DEF ShadowInv, GatesInOrder, Fresh
<1>2. OpsInv'
  BY DEF ShadowInv, OpsInv, InFlight, Exclusive, ToldOf, Early
<1>3. Unmade'
  BY DEF ShadowInv, Unmade, IsStatic, Early
<1>4. Excused' /\ Agreed'
  BY DEF Excused, Agreed, Free
<1> QED BY <1>1, <1>2, <1>3, <1>4 DEF ShadowInv

\* A step of the scan that reads nothing: what is no longer pending needs no reading.
LEMMA ScanMovesOn ==
  ASSUME IInv, ShadowInv, main = "scan",
         UNCHANGED <<engageCallbacks, gates, main, vm, tagged, op, shadow, gap, astray>>, Types',
         \A c \in Classes : className2classId[c] = "zero" => className2classId'[c] = "zero",
         \A p \in Places : Pending(p) /\ Tracked(p)' => Pending(p)' \/ shadow[p] = heap[p]
  PROVE  ShadowInv'
<1>1. \A p \in Places : Tracked(p)' => Tracked(p)
  BY TrackedBefore
<1>2. engageCallbacks
  BY DEF IInv, Gated
<1>3. \A p \in Places : Free(p) /\ p \notin gap' \cup astray /\ Tracked(p)' /\ ~Pending(p)' =>
                          shadow'[p] = heap[p]
  BY <1>1, <1>2 DEF ShadowInv, Agreed
<1> QED BY <1>3, ScanShadow DEF ShadowInv, Excused, Unmade, Early

LEMMA ScanArrayShadow ==
  ASSUME IInv, ShadowInv, NEW a \in todo, ScanArray(a)
  PROVE  ShadowInv'
<1>1. /\ main = "scan" /\ toRead = {} /\ toScan = <<>> /\ a \in Arrays
      /\ toRead' = Elements(a) /\ todo' = todo \ {a}
      /\ UNCHANGED <<engageCallbacks, gates, main, vm, toScan, staticsScanned, tagged,
                     className2classId, shadow, op, gap, astray, born>>
  BY DEF ScanArray, NextObject, Scanning
<1>2. Types'
  BY <1>1 DEF ShadowInv, Types
<1>3. a \notin Classes
  BY <1>1, SetsApart, PhasesAssumption DEF Arrays
<1>4. \A p \in Places : Pending(p) => Pending(p)'
  BY <1>1, <1>3, PlaceKinds DEF Pending, IsStatic, Queued
<1> QED BY <1>1, <1>2, <1>4, ScanMovesOn

LEMMA ScanClassObjectShadow ==
  ASSUME IInv, ShadowInv, NEW c \in todo, ScanClassObject(c)
  PROVE  ShadowInv'
<1>1. /\ main = "scan" /\ toRead = {} /\ toScan = <<>> /\ c \in Classes
      /\ staticsScanned' = staticsScanned \cup {c} /\ toScan' = <<c>>
      /\ UNCHANGED <<engageCallbacks, gates, main, vm, todo, toRead, tagged,
                     className2classId, shadow, op, gap, astray, born>>
  BY DEF ScanClassObject, NextObject, Scanning
<1>2. Types'
  BY <1>1 DEF ShadowInv, Types
<1>3. Queued(c)'
  BY <1>1 DEF Queued
<1>4. \A p \in Places : Pending(p) => Pending(p)'
  BY <1>1, <1>3 DEF Pending, IsStatic, Queued
<1> QED BY <1>1, <1>2, <1>4, ScanMovesOn

LEMMA ScanScalarShadow ==
  ASSUME IInv, ShadowInv, NEW o \in todo, ScanScalar(o)
  PROVE  ShadowInv'
<1>1. /\ main = "scan" /\ toRead = {} /\ toScan = <<>> /\ o \notin Arrays
      /\ o \in Classes => o \in staticsScanned
      /\ className2classId' = Classified(className2classId, {o})
      /\ toRead' = IF o \in Classes THEN {} ELSE InstanceFields(className2classId', o)
      /\ todo' = todo \ {o}
      /\ UNCHANGED <<engageCallbacks, gates, main, vm, toScan, staticsScanned, tagged,
                     shadow, op, gap, astray, born>>
  BY DEF ScanScalar, NextObject, Scanning
<1>2. className2classId \in [Classes -> {"none", "id", "zero"}]
  BY DEF ShadowInv, Types
<1>3. /\ className2classId' \in [Classes -> {"none", "id", "zero"}]
      /\ \A c \in Classes : className2classId[c] # "none" =>
                              className2classId'[c] = className2classId[c]
      /\ \A x \in Scalars({o}), c \in Classes :
           c \in Chain[ClassOf[x]] => className2classId'[c] # "none"
  BY <1>1, <1>2 DEF Classified
<1>4. Types'
  BY <1>1, <1>3 DEF ShadowInv, Types
<1>5. ASSUME NEW p \in Places, Pending(p), Tracked(p)' PROVE Pending(p)'
  <2>1. CASE IsStatic(p) \/ p[1] # o
    BY <1>1, <1>5, <2>1 DEF Pending, IsStatic, Queued
  <2>2. CASE ~IsStatic(p) /\ p[1] = o
    <3>1. o \notin Classes /\ p \in FieldsOf(o) /\ p[2] \in Chain[ClassOf[o]] /\ p[2] \in Classes
      BY <1>1, <2>2, PlaceKinds DEF IsStatic
    <3>2. className2classId'[p[2]] # "none"
      BY <1>1, <1>3, <3>1 DEF Scalars
    <3>3. className2classId'[p[2]] # "zero"
      BY <1>1, <1>5, <2>2, <3>1 DEF Tracked, IsStatic
    <3>4. p \in toRead'
      BY <1>1, <1>3, <3>1, <3>2, <3>3 DEF InstanceFields, Known
    <3> QED BY <1>1, <3>4 DEF Pending
  <2> QED BY <2>1, <2>2
<1> QED BY <1>1, <1>3, <1>4, <1>5, ScanMovesOn

LEMMA ScanStaticsShadow ==
  ASSUME IInv, ShadowInv, scanStaticsOf
  PROVE  ShadowInv'
<1> DEFINE c == Head(toScan)
           more == SetToSeq(Pushes(c) \ staticsScanned)
<1>1. /\ main = "scan" /\ toRead = {} /\ toScan # <<>>
      /\ staticsScanned' = staticsScanned \cup Pushes(c)
      /\ toScan' = Tail(toScan) \o more
      /\ className2classId' =
           IF c \in prepared /\ className2classId[c] = "none"
           THEN [className2classId EXCEPT ![c] = "zero"] ELSE className2classId
      /\ toRead' = {p \in {<<c, c>>} \cap Places :
                      c \in prepared /\ Known(className2classId', c)}
      /\ UNCHANGED <<engageCallbacks, gates, main, vm, todo, tagged, shadow, op, gap, astray,
                     born>>
  BY DEF scanStaticsOf, Scanning, NowScanned
<1>2. /\ toScan \in Seq(staticsScanned) /\ staticsScanned \subseteq Classes
      /\ className2classId \in [Classes -> {"none", "id", "zero"}]
  BY DEF ShadowInv, Types
<1>3. c \in staticsScanned /\ c \in Classes
  BY <1>1, <1>2
<1>4. Pushes(c) \subseteq Classes
  BY <1>3, PhasesAssumption DEF Pushes
<1>5. IsFiniteSet(Pushes(c) \ staticsScanned)
  BY <1>4, PhasesAssumption, FS_Subset
<1>6. /\ more \in Seq(Pushes(c) \ staticsScanned)
      /\ \A x \in Pushes(c) \ staticsScanned : \E i \in DOMAIN more : more[i] = x
  BY <1>5, SetToSeqFacts
<1> HIDE DEF more
<1>7. staticsScanned \subseteq staticsScanned' /\ staticsScanned' \subseteq Classes
  BY <1>1, <1>2, <1>4
<1>8. toScan' \in Seq(staticsScanned')
  <2>1. Tail(toScan) \in Seq(staticsScanned')
    BY <1>1, <1>2, <1>7
  <2>2. more \in Seq(staticsScanned')
    BY <1>1, <1>6
  <2> QED BY <1>1, <2>1, <2>2
<1>9. /\ className2classId' \in [Classes -> {"none", "id", "zero"}]
      /\ \A d \in Classes : className2classId[d] = "zero" => className2classId'[d] = "zero"
      /\ c \in prepared /\ className2classId'[c] # "zero" => className2classId'[c] = "id"
  BY <1>1, <1>2, <1>3
<1>10. Types'
  BY <1>1, <1>7, <1>8, <1>9 DEF ShadowInv, Types
<1>11. \A x \in Pushes(c) \ staticsScanned : Queued(x)'
  <2> SUFFICES ASSUME NEW x \in Pushes(c) \ staticsScanned PROVE Queued(x)'
    OBVIOUS
  <2>1. PICK i \in DOMAIN more : more[i] = x
    BY <1>6
  <2>2. Tail(toScan) \in Seq(staticsScanned) /\ i \in 1 .. Len(more) /\ Len(more) \in Nat
    BY <1>1, <1>2, <1>6, <2>1
  <2>3. /\ Len(Tail(toScan)) + i \in DOMAIN (Tail(toScan) \o more)
        /\ (Tail(toScan) \o more)[Len(Tail(toScan)) + i] = x
    BY <1>6, <2>1, <2>2
  <2> QED BY <1>1, <2>3 DEF Queued
<1>12. \A x : Queued(x) /\ x # c => Queued(x)'
  <2> SUFFICES ASSUME NEW x, Queued(x), x # c PROVE Queued(x)'
    OBVIOUS
  <2>1. PICK i \in DOMAIN toScan : toScan[i] = x
    BY DEF Queued
  <2>2. i \in 2 .. Len(toScan)
    BY <1>1, <1>2, <2>1
  <2>3. /\ Tail(toScan) \in Seq(staticsScanned) /\ i - 1 \in 1 .. Len(Tail(toScan))
        /\ Tail(toScan)[i - 1] = x
    BY <1>1, <1>2, <2>1, <2>2
  <2>4. i - 1 \in DOMAIN (Tail(toScan) \o more) /\ (Tail(toScan) \o more)[i - 1] = x
    BY <1>6, <2>3
  <2> QED BY <1>1, <2>4 DEF Queued
<1>13. ASSUME NEW p \in Places, Pending(p), Tracked(p)'
       PROVE  Pending(p)' \/ shadow[p] = heap[p]
  <2>1. CASE ~IsStatic(p)
    BY <1>1, <1>13, <2>1 DEF Pending, IsStatic
  <2>2. CASE IsStatic(p) /\ p[1] \in todo \ staticsScanned
    BY <1>1, <1>11, <2>2 DEF Pending, IsStatic
  <2>3. CASE IsStatic(p) /\ Queued(p[1]) /\ p[1] # c
    BY <1>1, <1>12, <2>3 DEF Pending, IsStatic
  <2>4. CASE IsStatic(p) /\ p[1] = c /\ c \in prepared
    <3>1. p = <<c, c>>
      BY <2>4, PlaceKinds
    <3>2. className2classId'[c] # "zero"
      BY <1>13, <2>4 DEF Tracked, IsStatic
    <3> QED BY <1>1, <1>9, <2>4, <3>1, <3>2 DEF Pending, Known
  <2>5. CASE IsStatic(p) /\ p[1] = c /\ c \notin prepared
    BY <1>1, <2>5 DEF ShadowInv, Unmade, Early
  <2> QED BY <1>1, <1>13, <2>1, <2>2, <2>3, <2>4, <2>5 DEF Pending
<1> QED BY <1>1, <1>9, <1>10, <1>13, ScanMovesOn

\* What has no tag was stored into in the course of the scan.
LEMMA ReadFieldShadow ==
  ASSUME IInv, ShadowInv, ReadField
  PROVE  ShadowInv'
<1>1. PICK p \in toRead :
        /\ toRead' = toRead \ {p}
        /\ shadow' = [shadow EXCEPT ![p] = IF Untagged(p) THEN Null ELSE heap[p]]
        /\ gap' = IF Untagged(p) THEN gap ELSE gap \ {p}
  BY HeapsAssumption DEF ReadField, updateHeapAt, IInv, Existing
<1>2. /\ main = "scan"
      /\ UNCHANGED <<engageCallbacks, gates, main, vm, todo, toScan, staticsScanned, tagged,
                     className2classId, op, astray, born>>
  BY DEF ReadField, Scanning
<1>3. p \in Places /\ heap \in [Places -> exists \cup {Null}] /\ engageCallbacks
  BY <1>2 DEF IInv, Existing, Gated
<1>4. /\ shadow \in [Places -> exists \cup {Null}] /\ gap \subseteq Places
      /\ \A q \in Places : q \notin gap => heap[q] \in tagged \cup {Null}
  BY <1>2 DEF ShadowInv, Types, Excused
<1>5. shadow' \in [Places -> exists \cup {Null}]
  BY <1>1, <1>3, <1>4
<1>6. Types'
  BY <1>1, <1>2, <1>4, <1>5 DEF ShadowInv, Types
<1>7. \A q \in Places : q \notin gap' => heap[q] \in tagged \cup {Null}
  BY <1>1, <1>3, <1>4 DEF Untagged
<1>8. \A q \in Places : IsStatic(q) /\ q[1] \notin prepared => shadow'[q] = Null
  BY <1>1, <1>2, <1>3, <1>4 DEF ShadowInv, Unmade, Early
<1>9. ASSUME NEW q \in Places, Free(q), q \notin gap' \cup astray, Tracked(q)', ~Pending(q)'
      PROVE  shadow'[q] = heap[q]
  <2>1. CASE q = p
    BY <1>1, <1>3, <1>4, <1>9, <2>1 DEF Untagged
  <2>2. CASE q # p
    <3>1. q \notin gap \cup astray /\ Tracked(q) /\ ~Pending(q)
      BY <1>1, <1>2, <1>9, <2>2 DEF Tracked, Pending, IsStatic, Queued
    <3>2. shadow[q] = heap[q]
      BY <1>2, <1>3, <1>9, <3>1 DEF ShadowInv, Agreed
    <3> QED BY <1>1, <1>4, <2>2, <3>2
  <2> QED BY <2>1, <2>2
<1> QED BY <1>2, <1>6, <1>7, <1>8, <1>9, ScanShadow

-----------------------------------------------------------------------------
(* The other threads and the shadow heap.                                  *)

\* A thread begins something, and what it will not be told of is excused.
LEMMA BeginShadow ==
  ASSUME IInv, IInv', ShadowInv, NEW t \in Threads, op[t] = Idle, NEW o \in Ops,
         op' = [op EXCEPT ![t] = o],
         o.at = "idle" => o = Idle,
         o.at = "store" => o.place # Null /\ (engageCallbacks =>
                             o.told = "excused" \/ (o.told = "later" /\ ~Early)),
         o.at = "native" => o.told = "yes", o.told = "later" => o.via = "jni",
         o.place # Null => Storable(o.place) /\ o.via \in {"gated", "inherited", "ungated", "jni"},
         UNCHANGED <<engageCallbacks, gates, main, heap, prepared, scan, agent, gap, astray>>,
         exists \subseteq exists', born' \subseteq exists'
  PROVE  ShadowInv'
<1>1. \A u \in Threads : op'[u] = IF u = t THEN o ELSE op[u]
  BY DEF IInv, Existing
<1>2. shadow' \in [Places -> exists' \cup {Null}]
  BY DEF ShadowInv, Types
<1>3. Types'
  BY <1>2 DEF ShadowInv, Types
<1>4. GatesInOrder' /\ Fresh' /\ Excused'
  BY DEF ShadowInv, GatesInOrder, Fresh, Excused
<1>5. InFlight'
  <2>1. ASSUME NEW u \in Threads, op'[u].at = "store", engageCallbacks
        PROVE  ToldOf(op[u])'
    <3>1. CASE u = t
      <4>1. op'[u] = o /\ (op'[u].told = "excused" \/ (op'[u].told = "later" /\ ~Early'))
        BY <1>1, <2>1, <3>1 DEF Early
      <4> QED BY <4>1 DEF ToldOf
    <3>2. CASE u # t
      BY <1>1, <2>1, <3>2 DEF ShadowInv, OpsInv, InFlight, ToldOf, Early
    <3> QED BY <3>1, <3>2
  <2>2. \A u \in Threads :
          /\ op'[u].at = "idle" => op'[u] = Idle
          /\ op'[u].at = "store" => op'[u].place # Null
          /\ op'[u].place # Null /\ op'[u].at = "native" =>
               op'[u].via \in {"gated", "inherited", "ungated", "jni"}
          /\ op'[u].told = "later" => op'[u].via = "jni"
          /\ op'[u].at = "native" =>
               \/ op'[u].told = "yes"
               \/ op'[u].told = "later" /\ op'[u].place # Null /\ heap[op'[u].place] = op'[u].value
    BY <1>1 DEF ShadowInv, OpsInv, InFlight
  <2> QED BY <2>1, <2>2 DEF InFlight
<1>6. o.place # Null => \A u \in Threads : op[u].place # o.place
  BY DEF Storable, Free
<1>7. Exclusive'
  BY <1>1, <1>6 DEF ShadowInv, OpsInv, Exclusive
<1>8. Unmade'
  <2>1. \A p \in Places : p[1] \notin exists' => heap'[p] = Null
    BY DEF ShadowInv, Unmade
  <2>2. ASSUME NEW p \in Places, IsStatic(p), p[1] \notin prepared, NEW u \in Threads
        PROVE  op'[u].place # p
    BY <1>1, <2>2, PlaceKinds DEF ShadowInv, Unmade, Storable
  <2> QED BY <2>1, <2>2 DEF ShadowInv, Unmade, IsStatic, Early
<1>9. \A p \in Places : Free(p)' => Free(p)
  BY <1>1, IdleIsOp, PlaceKinds DEF Free
<1>10. Agreed'
  BY <1>9 DEF ShadowInv, Agreed, Tracked, Pending, IsStatic, Queued
<1> QED BY <1>3, <1>4, <1>5, <1>7, <1>8, <1>10 DEF ShadowInv, OpsInv

LEMMA UseShadow ==
  ASSUME IInv, IInv', ShadowInv, NEW t \in Threads, op[t] = Idle, NEW o \in Values,
         NEW via \in Gates, Use(t, o, via)
  PROVE  ShadowInv'
<1> DEFINE x == [at |-> "native", via |-> via, place |-> Null, value |-> o, told |-> "yes"]
<1>1. op' = [op EXCEPT ![t] = x]
      /\ UNCHANGED <<engageCallbacks, gates, main, vm, scan, agent, gap, astray, born>>
  BY DEF Use, Begins, ThreadStep
<1>2. o \in exists /\ exists \subseteq Classes \cup Objects
  BY DEF Values, IInv, Existing
<1>3. x \in Ops
  BY <1>2 DEF Ops, Gates
<1>4. x.at = "native" /\ x.told = "yes" /\ x.place = Null
  OBVIOUS
<1>5. born \subseteq exists
  BY DEF ShadowInv, Types
<1> HIDE DEF x
<1> QED BY <1>1, <1>3, <1>4, <1>5, BeginShadow

LEMMA StoreBeginsShadow ==
  ASSUME IInv, IInv', ShadowInv, NEW t \in Threads, op[t] = Idle, NEW p \in Places,
         Storable(p), NEW y \in Values \cup {Null}, NEW via \in {"gated", "ungated", "inherited"},
         JniStore(t, p, y) \/ JavaStore(t, p, y, via)
  PROVE  ShadowInv'
<1> DEFINE rec(a, v, h) == [at |-> a, via |-> v, place |-> p, value |-> y, told |-> h]
<1>1. Excuse \in {"no", "excused"} /\ (main # "program" => Excuse = "excused")
  BY DEF Excuse
<1>2. PICK a \in {"native", "store"}, v \in {"gated", "inherited", "ungated", "jni"},
           h \in {"yes", "no", "excused", "later"} :
        /\ op' = [op EXCEPT ![t] = rec(a, v, h)]
        /\ a = "native" => h = "yes"
        /\ h = "later" => v = "jni"
        /\ a = "store" /\ engageCallbacks => h = "excused" \/ (h = "later" /\ ~Early)
  <2>1. CASE JniStore(t, p, y)
    <3>1. CASE jniTable
      <4>1. ~Early
        BY <3>1 DEF IInv, Gated, NoHooks, Before, Early
      <4>2. CASE p[1] \in Arrays
        BY <2>1, <3>1, <4>1, <4>2 DEF JniStore, Begins
      <4>3. CASE p[1] \notin Arrays
        BY <2>1, <3>1, <4>3 DEF JniStore, Begins
      <4> QED BY <4>2, <4>3
    <3>2. CASE ~jniTable
      <4>1. engageCallbacks => main # "program"
        BY <3>2 DEF ShadowInv, GatesInOrder
      <4> QED BY <1>1, <2>1, <3>2, <4>1 DEF JniStore, Begins
    <3> QED BY <3>1, <3>2
  <2>2. CASE JavaStore(t, p, y, via)
    <3>1. CASE engagedInJava
      BY <2>2, <3>1 DEF JavaStore, Begins
    <3>2. CASE ~engagedInJava
      <4>1. engageCallbacks => main # "program"
        BY <3>2 DEF ShadowInv, GatesInOrder, engagedInJava
      <4> QED BY <1>1, <2>2, <3>2, <4>1 DEF JavaStore, Begins
    <3> QED BY <3>1, <3>2
  <2> QED BY <2>1, <2>2
<1> DEFINE x == rec(a, v, h)
<1>3. UNCHANGED <<engageCallbacks, gates, main, vm, scan, agent, gap, astray, born>>
  BY DEF JniStore, JavaStore, ThreadStep
<1>4. y \in exists \cup {Null} /\ exists \subseteq Classes \cup Objects
  BY DEF Values, IInv, Existing
<1>5. x \in Ops /\ x.at = a /\ x.place = p /\ x.told = h /\ x.via = v
  BY <1>2, <1>4 DEF Ops
<1>6. born \subseteq exists /\ p # Null
  BY PlaceKinds DEF ShadowInv, Types
<1> HIDE DEF rec
<1>7. op' = [op EXCEPT ![t] = x]
  BY <1>2
<1> HIDE DEF x
<1> QED BY <1>2, <1>3, <1>5, <1>6, <1>7, BeginShadow

LEMMA NewObjShadow ==
  ASSUME IInv, IInv', ShadowInv, NEW t \in Threads, op[t] = Idle, NEW o \in Objects,
         NewObj(t, o)
  PROVE  ShadowInv'
<1> DEFINE x == IF engagedInJava
                THEN [at |-> "native", via |-> "ungated", place |-> Null, value |-> o,
                      told |-> "yes"]
                ELSE Idle
<1>1. /\ op' = [op EXCEPT ![t] = x] /\ exists' = exists \cup {o}
      /\ born' = IF main = "scan" THEN born \cup {o} ELSE born
      /\ UNCHANGED <<engageCallbacks, gates, main, heap, prepared, scan, agent, gap, astray>>
  BY DEF NewObj, Begins, ThreadStep, Made
<1>2. x \in Ops
  BY IdleIsOp DEF Ops
<1>3. /\ x.place = Null /\ x.at # "store" /\ (x.at = "idle" => x = Idle)
      /\ x.told = "yes"
  BY IdleIsOp
<1>4. born' \subseteq exists'
  BY <1>1 DEF ShadowInv, Types
<1> HIDE DEF x
<1> QED BY <1>1, <1>2, <1>3, <1>4, BeginShadow

\* What tags and classifies leaves the shadow heap as right as it was.
LEMMA VMAllocShadow ==
  ASSUME IInv, IInv', ShadowInv, NEW t \in Threads, NEW o \in Objects, VMAlloc(t, o)
  PROVE  ShadowInv'
<1> DEFINE os == ({o} \cup IF o \in Arrays THEN {} ELSE {ClassOf[o]}) \ (tagged \cup {Null})
<1>1. /\ op' = op /\ exists' = exists \cup {o} /\ tagged \subseteq tagged'
      /\ className2classId' = Classified(className2classId, os)
      /\ main \notin {"onload", "start"}
      /\ UNCHANGED <<engageCallbacks, gates, main, heap, prepared, scan, shadow, gap, astray, born>>
  BY DEF VMAlloc, ThreadStep, TagIfNeeded, Tag
<1> HIDE DEF os
<1>2. /\ className2classId' \in [Classes -> {"none", "id", "zero"}]
      /\ \A c \in Classes : className2classId[c] = "zero" => className2classId'[c] = "zero"
  BY <1>1 DEF Classified, ShadowInv, Types
<1>3. shadow' \in [Places -> exists' \cup {Null}]
  BY <1>1 DEF ShadowInv, Types
<1>4. Types'
  BY <1>1, <1>2, <1>3 DEF ShadowInv, Types
<1>5. GatesInOrder' /\ Fresh' /\ Excused'
  BY <1>1 DEF ShadowInv, GatesInOrder, Fresh, Excused
<1>6. OpsInv'
  BY <1>1 DEF ShadowInv, OpsInv, InFlight, Exclusive, ToldOf, Early
<1>7. Unmade'
  BY <1>1 DEF ShadowInv, Unmade, Early
<1>8. \A p \in Places : Tracked(p)' => Tracked(p)
  BY <1>2, TrackedBefore
<1>9. Agreed'
  BY <1>1, <1>8 DEF ShadowInv, Agreed, Free, Pending, IsStatic, Queued
<1> QED BY <1>4, <1>5, <1>6, <1>7, <1>9 DEF ShadowInv

LEMMA PrepareShadow ==
  ASSUME IInv, ShadowInv, NEW t \in Threads, NEW c \in Classes \cap exists, Prepare(t, c)
  PROVE  ShadowInv'
<1>1. /\ prepared' = prepared \cup {c}
      /\ UNCHANGED <<engageCallbacks, gates, main, scan, exists, heap, agent, op, gap, astray, born>>
  BY DEF Prepare, ThreadStep
<1>2. Types' /\ Unmade'
  BY <1>1 DEF ShadowInv, Types, Unmade, Early
<1>3. GatesInOrder' /\ Fresh' /\ Excused' /\ OpsInv'
  BY <1>1 DEF ShadowInv, GatesInOrder, Fresh, Excused, OpsInv, InFlight, Exclusive, ToldOf,
              Early
<1>4. Agreed'
  BY <1>1 DEF ShadowInv, Agreed, Free, Tracked, Pending, IsStatic, Queued
<1> QED BY <1>2, <1>3, <1>4 DEF ShadowInv

\* The hook writes into the shadow heap what the instruction then writes into the heap, or
\* wrote, if it does not go astray; a gate turns a hook away only when the program is not
\* to have one.
LEMMA NativeStoreShadow ==
  ASSUME IInv, IInv', ShadowInv, NEW t \in Threads, NativeStore(t)
  PROVE  ShadowInv'
<1> DEFINE p == op[t].place
           new == IF op[t].told = "later" THEN Idle ELSE [op[t] EXCEPT !.at = "store"]
           os == ({op[t].value} \cup Named(op[t].via, p)) \ (tagged \cup {Null})
<1>1. /\ op[t].at = "native" /\ p # Null /\ op' = [op EXCEPT ![t] = new]
      /\ gap' = IF op[t].told = "later" THEN gap \ {p} ELSE gap
      /\ UNCHANGED <<engageCallbacks, gates, main, vm, scan, born>>
      /\ className2classId' = Classified(className2classId, os)
  BY DEF NativeStore, TagIfNeeded, Tag
<1>2. /\ op[t] \in Ops /\ op \in [Threads -> Ops] /\ op[t].value \in exists \cup {Null}
      /\ op[t].via \in {"gated", "inherited", "ungated", "jni"}
      /\ op[t].told = "yes" \/ (op[t].told = "later" /\ heap[p] = op[t].value)
      /\ p \in Places
  BY <1>1 DEF IInv, Existing, ShadowInv, OpsInv, InFlight, Ops
<1>3. ~Early /\ engageCallbacks
  BY <1>1 DEF IInv, Gated, NoHooks, Before, Early
<1> HIDE DEF os
<1>4. /\ className2classId' \in [Classes -> {"none", "id", "zero"}]
      /\ \A c \in Classes : className2classId[c] = "zero" => className2classId'[c] = "zero"
  BY <1>1 DEF Classified, ShadowInv, Types
<1>5. PICK q \in Hits(op[t].via, p) :
        updateHeapAt(q, op[t].value) /\ astray' = Strays(p, q)
  BY DEF NativeStore
<1>6. q \in Places \cup {Null}
  BY <1>2, HitsPlaces
<1>7. /\ shadow' \in [Places -> exists \cup {Null}]
      /\ \A r \in Places : shadow'[r] = IF r = q THEN op[t].value ELSE shadow[r]
      /\ astray' = IF q = p THEN astray \ {p} ELSE astray \cup ({p, q} \ {Null})
      /\ astray' \subseteq Places
  BY <1>2, <1>5, <1>6, HeapsAssumption DEF ShadowInv, Types, updateHeapAt, Strays
<1>8. \A r \in Places : r # p /\ r \notin astray' => r \notin astray /\ shadow'[r] = shadow[r]
  BY <1>6, <1>7, HeapsAssumption
<1>9. p \in astray' \/ shadow'[p] = op[t].value
  BY <1>2, <1>6, <1>7, HeapsAssumption
<1>10. /\ new.place \in {p, Null} /\ new.at # "native"
       /\ new.at = "idle" => new = Idle
       /\ new.at = "store" => new.told = "yes" /\ new.value = op[t].value /\ new.place = p
       /\ op[t].told # "later" => new.place = p
       /\ new.told # "later"
       /\ op[t].told = "later" => new = Idle
  BY <1>2, IdleIsOp DEF Ops
<1> HIDE DEF new
<1>11. \A u \in Threads : op'[u] = IF u = t THEN new ELSE op[u]
  BY <1>1, <1>2
<1>12. \A u \in Threads : op'[u].place \in {op[u].place, Null}
  BY <1>10, <1>11
<1>13. \A u \in Threads : u # t /\ op[u].place # Null =>
                            op[u].place # p /\ op[u].place \in Places
  BY <1>1 DEF ShadowInv, OpsInv, Exclusive, IInv, Existing, Ops
<1>14. Types'
  BY <1>1, <1>4, <1>7 DEF ShadowInv, Types
<1>15. GatesInOrder' /\ Fresh' /\ Excused'
  BY <1>1, <1>3 DEF ShadowInv, GatesInOrder, Fresh, Excused, Early
<1>16. Exclusive'
  BY <1>12 DEF ShadowInv, OpsInv, Exclusive
<1>17. InFlight'
  <2>1. ASSUME NEW u \in Threads, op'[u].at = "store" PROVE ToldOf(op[u])'
    <3>1. CASE u = t
      BY <1>1, <1>3, <1>9, <1>10, <1>11, <2>1, <3>1 DEF ToldOf, Early
    <3>2. CASE u # t
      <4>1. op'[u] = op[u] /\ ToldOf(op[u]) /\ op[u].place # Null
        BY <1>3, <1>11, <2>1, <3>2 DEF ShadowInv, OpsInv, InFlight
      <4>2. op[u].place # p /\ op[u].place \in Places
        BY <1>13, <3>2, <4>1
      <4>3. op[u].place \notin astray' =>
              op[u].place \notin astray /\ shadow'[op[u].place] = shadow[op[u].place]
        BY <1>8, <4>2
      <4> QED BY <1>1, <4>1, <4>3 DEF ToldOf, Early
    <3> QED BY <3>1, <3>2
  <2>2. \A u \in Threads :
          /\ op'[u].at = "idle" => op'[u] = Idle
          /\ op'[u].at = "store" => op'[u].place # Null
          /\ op'[u].place # Null /\ op'[u].at = "native" =>
               op'[u].via \in {"gated", "inherited", "ungated", "jni"}
          /\ op'[u].told = "later" => op'[u].via = "jni"
          /\ op'[u].at = "native" =>
               \/ op'[u].told = "yes"
               \/ /\ op'[u].told = "later" /\ op'[u].place # Null
                  /\ heap[op'[u].place] = op'[u].value
    BY <1>1, <1>10, <1>11 DEF ShadowInv, OpsInv, InFlight
  <2>3. heap' = heap
    BY <1>1
  <2> QED BY <2>1, <2>2, <2>3 DEF InFlight
<1>18. Unmade'
  <2>1. \A r \in Places : r[1] \notin exists' => heap'[r] = Null
    BY <1>1 DEF ShadowInv, Unmade
  <2>2. ASSUME NEW r \in Places, IsStatic(r), r[1] \notin prepared
        PROVE  heap'[r] = Null /\ \A u \in Threads : op'[u].place # r
    BY <1>1, <1>12, <2>2, HeapsAssumption DEF ShadowInv, Unmade
  <2>3. ~Early'
    BY <1>1, <1>3 DEF Early
  <2> QED BY <1>1, <2>1, <2>2, <2>3 DEF Unmade, IsStatic
<1>19. \A r \in Places : Tracked(r)' => Tracked(r)
  BY <1>4, TrackedBefore
<1>20. ASSUME NEW r \in Places, Free(r)', r \notin gap' \cup astray', Tracked(r)'
       PROVE  shadow'[r] = heap'[r]
  <2>1. CASE r = p
    <3>1. op[t].told = "later"
      BY <1>10, <1>11, <1>20, <2>1 DEF Free
    <3> QED BY <1>1, <1>2, <1>9, <1>20, <2>1, <3>1
  <2>2. CASE r # p
    <3>1. Free(r) /\ r \notin gap \cup astray /\ shadow'[r] = shadow[r]
      BY <1>1, <1>8, <1>11, <1>20, <2>2 DEF Free
    <3>2. shadow[r] = heap[r]
      BY <1>3, <1>19, <1>20, <3>1 DEF ShadowInv, Agreed, Pending, Early
    <3> QED BY <1>1, <3>1, <3>2
  <2> QED BY <2>1, <2>2
<1>21. Agreed'
  BY <1>20 DEF Agreed
<1> QED BY <1>14, <1>15, <1>16, <1>17, <1>18, <1>21 DEF ShadowInv, OpsInv

\* A hook that stores nothing, or that is turned away.
LEMMA NativeOtherShadow ==
  ASSUME IInv, IInv', ShadowInv, NEW t \in Threads, NativeUse(t) \/ TurnedAway(t)
  PROVE  ShadowInv'
<1> DEFINE p == op[t].place
           new == IF p = Null THEN Idle ELSE [op[t] EXCEPT !.at = "store", !.told = Excuse]
           os == {op[t].value} \ (tagged \cup {Null})
<1>1. /\ op[t].at = "native" /\ op' = [op EXCEPT ![t] = new]
      /\ UNCHANGED <<engageCallbacks, gates, main, vm, scan, shadow, gap, astray, born>>
      /\ className2classId' \in {className2classId, Classified(className2classId, os)}
      /\ p # Null => ~Admits(op[t].via)
  BY DEF NativeUse, TurnedAway, ThreadStep, TagIfNeeded, Tag
<1>2. /\ op[t] \in Ops /\ op \in [Threads -> Ops]
      /\ p # Null => op[t].via \in {"gated", "inherited", "ungated", "jni"}
  BY <1>1 DEF IInv, Existing, ShadowInv, OpsInv, InFlight
<1>3. ~Early /\ engageCallbacks
  BY <1>1 DEF IInv, Gated, NoHooks, Before, Early
<1>4. p # Null => Excuse = "excused"
  <2> SUFFICES ASSUME p # Null PROVE Excuse = "excused"
    OBVIOUS
  <2>1. vmInitialized # LIVE
    BY <1>1, <1>2 DEF Admits
  <2>2. main # "program"
    BY <2>1 DEF ShadowInv, GatesInOrder
  <2> QED BY <2>2 DEF Excuse
<1> HIDE DEF os
<1>5. /\ className2classId' \in [Classes -> {"none", "id", "zero"}]
      /\ \A c \in Classes : className2classId[c] = "zero" => className2classId'[c] = "zero"
  BY <1>1 DEF Classified, ShadowInv, Types
<1>6. /\ new.place = p /\ new.at # "native"
      /\ p = Null => new = Idle
      /\ p # Null => new.at = "store" /\ new.told = "excused"
  BY <1>2, <1>4, IdleIsOp DEF Ops
<1> HIDE DEF new
<1>7. \A u \in Threads : op'[u] = IF u = t THEN new ELSE op[u]
  BY <1>1, <1>2
<1>8. \A u \in Threads : op'[u].place = op[u].place
  BY <1>6, <1>7
<1>9. shadow' \in [Places -> exists' \cup {Null}]
  BY <1>1 DEF ShadowInv, Types
<1>10. Types'
  BY <1>1, <1>5, <1>9 DEF ShadowInv, Types
<1>11. GatesInOrder' /\ Fresh' /\ Excused'
  BY <1>1, <1>3 DEF ShadowInv, GatesInOrder, Fresh, Excused, Early
<1>12. Exclusive'
  BY <1>8 DEF ShadowInv, OpsInv, Exclusive
<1>13. InFlight'
  <2>1. ASSUME NEW u \in Threads, op'[u].at = "store" PROVE ToldOf(op[u])'
    <3>1. CASE u = t
      BY <1>6, <1>7, <2>1, <3>1, IdleIsOp DEF ToldOf
    <3>2. CASE u # t
      <4>1. op'[u] = op[u] /\ ToldOf(op[u])
        BY <1>3, <1>7, <2>1, <3>2 DEF ShadowInv, OpsInv, InFlight
      <4> QED BY <1>1, <4>1 DEF ToldOf, Early
    <3> QED BY <3>1, <3>2
  <2>2. \A u \in Threads :
          /\ op'[u].at = "idle" => op'[u] = Idle
          /\ op'[u].at = "store" => op'[u].place # Null
          /\ op'[u].place # Null /\ op'[u].at = "native" =>
               op'[u].via \in {"gated", "inherited", "ungated", "jni"}
          /\ op'[u].told = "later" => op'[u].via = "jni"
          /\ op'[u].at = "native" =>
               \/ op'[u].told = "yes"
               \/ /\ op'[u].told = "later" /\ op'[u].place # Null
                  /\ heap[op'[u].place] = op'[u].value
    BY <1>6, <1>7, IdleIsOp DEF ShadowInv, OpsInv, InFlight
  <2>3. heap' = heap
    BY <1>1
  <2> QED BY <2>1, <2>2, <2>3 DEF InFlight
<1>14. Unmade'
  BY <1>1, <1>8 DEF ShadowInv, Unmade, IsStatic, Early
<1>15. \A r \in Places : Tracked(r)' => Tracked(r)
  BY <1>5, TrackedBefore
<1>16. Agreed'
  BY <1>1, <1>8, <1>15 DEF ShadowInv, Agreed, Free, Pending, IsStatic, Queued
<1> QED BY <1>10, <1>11, <1>12, <1>13, <1>14, <1>16 DEF ShadowInv, OpsInv

\* A failed assertion ends the process and touches nothing.
LEMMA AssertionShadow ==
  ASSUME ShadowInv, NEW t \in Threads, Assertion(t)
  PROVE  ShadowInv'
<1>1. UNCHANGED <<engageCallbacks, gates, main, vm, todo, toScan, toRead, staticsScanned,
                  agent, op, gap, astray, born>>
  BY DEF Assertion
<1> QED BY <1>1 DEF ShadowInv, Types, GatesInOrder, OpsInv, InFlight, Exclusive, ToldOf, Early,
              Unmade, Fresh, Excused, Agreed, Free, Tracked, Pending, IsStatic, Queued

LEMMA StoreShadow ==
  ASSUME IInv, IInv', ShadowInv, NEW t \in Threads, Store(t)
  PROVE  ShadowInv'
<1> DEFINE p == op[t].place
           new == IF op[t].told = "later" THEN [op[t] EXCEPT !.at = "native"] ELSE Idle
<1>1. /\ op[t].at = "store" /\ op' = [op EXCEPT ![t] = new]
      /\ heap' = [heap EXCEPT ![p] = op[t].value]
      /\ op[t].told = "excused" => gap' = gap \cup {p}
      /\ op[t].told = "later" => gap' = gap
      /\ op[t].told \notin {"excused", "later"} => gap' = gap \ {p}
      /\ UNCHANGED <<engageCallbacks, gates, main, scan, exists, prepared, agent, astray, born>>
  BY DEF Store, ThreadStep
<1>2. /\ p # Null /\ p \in Places /\ p[1] \in exists /\ (engageCallbacks => ToldOf(op[t]))
      /\ heap \in [Places -> exists \cup {Null}] /\ op[t] \in Ops
  BY <1>1 DEF IInv, Existing, Ops, ShadowInv, OpsInv, InFlight
<1>3. /\ new.place \in {p, Null} /\ new.at # "store"
      /\ new.at = "idle" => new = Idle
      /\ new.told = "later" => new.at = "native" /\ op[t].told = "later"
      /\ new.at = "native" => op[t].told = "later"
      /\ new.at = "native" => new.told = "later" /\ new.place = p /\ new.value = op[t].value
                              /\ new.via = op[t].via
      /\ op[t].told = "later" => new.at = "native"
      /\ op[t].told # "later" => new = Idle
  BY <1>2, IdleIsOp DEF Ops
<1> HIDE DEF new
<1>4. \A u \in Threads : op'[u] = IF u = t THEN new ELSE op[u]
  BY <1>1 DEF IInv, Existing
<1>5. \A q \in Places : heap'[q] = IF q = p THEN op[t].value ELSE heap[q]
  BY <1>1, <1>2
<1>6. Types'
  BY <1>1, <1>2 DEF ShadowInv, Types
<1>7. GatesInOrder' /\ Fresh'
  BY <1>1 DEF ShadowInv, GatesInOrder, Fresh
<1>8. \A u \in Threads : op'[u].place \in {op[u].place, Null}
  BY <1>3, <1>4
<1>9. Exclusive'
  BY <1>8 DEF ShadowInv, OpsInv, Exclusive
<1>10. InFlight'
  <2>1. ASSUME NEW u \in Threads, u # t, op[u].place # Null
        PROVE  op[u].place # p /\ heap'[op[u].place] = heap[op[u].place]
    BY <1>5, <2>1 DEF ShadowInv, OpsInv, Exclusive, IInv, Existing, Ops
  <2>2. ASSUME NEW u \in Threads, engageCallbacks, op'[u].at = "store" PROVE ToldOf(op[u])'
    <3>1. u # t /\ op'[u] = op[u] /\ ToldOf(op[u])
      BY <1>3, <1>4, <2>2 DEF ShadowInv, OpsInv, InFlight
    <3> QED BY <1>1, <3>1 DEF ToldOf, Early
  <2>3. ASSUME NEW u \in Threads
        PROVE  /\ op'[u].at = "idle" => op'[u] = Idle
               /\ op'[u].at = "store" => op'[u].place # Null
               /\ op'[u].place # Null /\ op'[u].at = "native" =>
                    op'[u].via \in {"gated", "inherited", "ungated", "jni"}
               /\ op'[u].told = "later" => op'[u].via = "jni"
               /\ op'[u].at = "native" =>
                    \/ op'[u].told = "yes"
                    \/ /\ op'[u].told = "later" /\ op'[u].place # Null
                       /\ heap'[op'[u].place] = op'[u].value
    <3>1. CASE u = t
      <4>1. new.at = "native" => new.via = "jni"
        BY <1>1, <1>3 DEF ShadowInv, OpsInv, InFlight
      <4> QED BY <1>2, <1>3, <1>4, <1>5, <3>1, <4>1
    <3>2. CASE u # t
      BY <1>4, <2>1, <3>2 DEF ShadowInv, OpsInv, InFlight
    <3> QED BY <3>1, <3>2
  <2> QED BY <1>1, <2>2, <2>3 DEF InFlight
<1>11. Unmade'
  BY <1>1, <1>2, <1>5, <1>8, PlaceKinds DEF ShadowInv, Unmade, IsStatic, Early
<1>12. ASSUME main = "scan", NEW q \in Places, q \notin gap'
       PROVE  heap'[q] \in tagged \cup {Null}
  <2>1. engageCallbacks
    BY <1>12 DEF IInv, Gated
  <2>2. op[t].told = "excused"
    BY <1>2, <1>12, <2>1 DEF ToldOf, Early
  <2> QED BY <1>1, <1>5, <1>12, <2>2 DEF ShadowInv, Excused
<1>13. Excused'
  BY <1>1, <1>12 DEF Excused
<1>14. ASSUME engageCallbacks, main \notin {"onload", "start"}, NEW q \in Places, Free(q)',
              q \notin gap' \cup astray, Tracked(q), ~Pending(q)
       PROVE  shadow[q] = heap'[q]
  <2>1. CASE q = p
    <3>1. op[t].told # "later"
      BY <1>3, <1>4, <1>14, <2>1 DEF Free
    <3>2. op[t].told # "excused"
      BY <1>1, <1>14, <2>1
    <3> QED BY <1>2, <1>5, <1>14, <2>1, <3>1, <3>2 DEF ToldOf
  <2>2. CASE q # p
    <3>1. Free(q) /\ q \notin gap \cup astray
      BY <1>1, <1>2, <1>4, <1>14, <2>2 DEF Free, Ops
    <3> QED BY <1>5, <1>14, <2>2, <3>1 DEF ShadowInv, Agreed
  <2> QED BY <2>1, <2>2
<1>15. Agreed'
  BY <1>1, <1>14 DEF Agreed, Tracked, Pending, IsStatic, Queued
<1> QED BY <1>6, <1>7, <1>9, <1>10, <1>11, <1>13, <1>15 DEF ShadowInv, OpsInv

LEMMA NextShadowInv == IInv /\ IInv' /\ ShadowInv /\ [Next]_vars => ShadowInv'
<1> SUFFICES ASSUME IInv, IInv', ShadowInv, [Next]_vars PROVE ShadowInv'
  OBVIOUS
<1>1. CASE UNCHANGED vars
  BY <1>1 DEF vars, ShadowInv, Types, GatesInOrder, OpsInv, InFlight, Exclusive, ToldOf, Early,
              Unmade, Fresh, Excused, Agreed, Free, Tracked, Pending, IsStatic, Queued
<1>2. CASE Main
  BY <1>2, GateShadow, TagHeapShadow, ScanArrayShadow, ScanClassObjectShadow,
     ScanScalarShadow, ScanStaticsShadow, ReadFieldShadow DEF Main, handleInitialObject
<1>3. ASSUME NEW t \in Threads, Thread(t)
      PROVE  ShadowInv'
  <2>1. CASE Ready(t) /\ Begin(t)
    <3>1. op[t] = Idle
      BY <2>1 DEF Ready
    <3> QED BY <2>1, <3>1, NewObjShadow, VMAllocShadow, UseShadow, StoreBeginsShadow,
               PrepareShadow DEF Begin
  <2> QED BY <1>3, <2>1, NativeStoreShadow, NativeOtherShadow, AssertionShadow, StoreShadow
             DEF Thread, Native
<1> QED BY <1>1, <1>2, <1>3 DEF Next

LEMMA BothInvariants == Spec => [](IInv /\ ShadowInv)
BY InitIInv, InitShadowInv, NextIInv, NextShadowInv, PTL DEF Spec

(* From the moment the gate of the agent opens, the shadow heap has the    *)
(* pointers of the heap, but for the stores that could not have a hook,    *)
(* the places whose hook wrote another's slot and those it wrote, and the  *)
(* fields of classes with id 0 (handleInitialObject, scanStaticsOf,        *)
(* JNIPointerUpdated, nativePointerUpdated, cbVMInit, cbVMDeath).          *)
THEOREM ShadowHeapMatchesHeap == Spec => []ShadowRight
<1>1. IInv /\ ShadowInv => ShadowRight
  <2> SUFFICES ASSUME IInv, ShadowInv, engageCallbacks, vmInitialized >= LIVE
               PROVE  \A p \in Places : Free(p) /\ p \notin gap \cup astray /\ Tracked(p) =>
                                          shadow[p] = heap[p]
    BY DEF ShadowRight
  <2>1. main \notin {"onload", "start", "scan"}
    BY DEF ShadowInv, GatesInOrder, ONLOAD, LIVE
  <2> QED BY <2>1 DEF ShadowInv, Agreed, Pending
<1> QED BY <1>1, BothInvariants, PTL

(* The variables stay in their types.                                      *)
THEOREM PhasesTypesHold == Spec => []TypeOK
<1>1. IInv /\ ShadowInv => TypeOK
  <2> SUFFICES ASSUME IInv, ShadowInv PROVE TypeOK
    OBVIOUS
  <2>1. {vmInitialized, engaged} \subseteq ONLOAD .. DEAD
    BY DEF ShadowInv, GatesInOrder, ONLOAD, START, LIVE, DEAD
  <2>2. Range(toScan) \subseteq staticsScanned
    BY DEF ShadowInv, Types, Range
  <2>3. \A p \in Places : {heap[p], shadow[p]} \subseteq exists \cup {Null}
    BY DEF IInv, Existing, ShadowInv, Types
  <2>4. engageCallbacks \in BOOLEAN
    BY DEF ShadowInv, Types
  <2> QED BY <2>1, <2>2, <2>3, <2>4 DEF TypeOK, IInv, Existing, ShadowInv, Types
<1> QED BY <1>1, BothInvariants, PTL
=============================================================================
