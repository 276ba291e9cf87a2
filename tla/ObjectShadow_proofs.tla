------------------------ MODULE ObjectShadow_proofs ------------------------
(***************************************************************************)
(* Proofs about the shadow heap, and about the deaths found with it at the *)
(* end.  Between the updates of an object, the slot of its node            *)
(* (HashGraph) says what its real slot refers to, for any number of        *)
(* threads that call hooks and store.  The invariant follows one update    *)
(* through its hook: what the hook knows of the tags, what it has put into *)
(* the node, and, where the store comes first, what is in the real slot.   *)
(***************************************************************************)
EXTENDS ObjectTracking_proofs

Updates == {"update", "arrayStore", "jniStore"}
KnowsTags == {"stampOrigin", "updateEdge", "stampOld", "stampOldAgain", "recordUpdate"}

\* The hook has changed the node and is not over.
EdgeDone(t) ==
  \/ pc[t] \in {"stampOld", "stampOldAgain", "recordUpdate"}
  \/ pc[t] = "store" /\ op[t].kind # "jniStore"

KindsFit(t) ==
  /\ pc[t] # "idle" => op[t].kind \in Updates \cup {"use", "new"}
  /\ pc[t] \in KnowsTags \cup {"store"} => op[t].kind \in Updates
  /\ pc[t] \in {"stampUse", "recordUse"} => op[t].kind \in {"use", "new"}

\* The target has a tag, or is on the list of the objects still to tag.
TargetKnown(t) ==
  /\ pc[t] \in Tagging /\ op[t].target # Null =>
       \/ tag[op[t].target] # 0
       \/ op[t].untagged \in {<<op[t].origin, op[t].target>>, <<op[t].target>>}
  /\ pc[t] \in KnowsTags \/ EdgeDone(t) => op[t].target = Null \/ tag[op[t].target] # 0
  /\ EdgeDone(t) => tag[op[t].origin] # 0

EdgeRight(t) ==
  EdgeDone(t) /\ deaths[tag[op[t].origin]] = 0 =>
    tag[op[t].origin] \in nodes /\ edge[tag[op[t].origin]] = TagOf(op[t].target)

StoredFirst(t) ==
  pc[t] \notin {"idle", "store"} /\ op[t].kind = "jniStore" =>
    field[op[t].origin] = op[t].target

UpdateKnows(t) == KindsFit(t) /\ TargetKnown(t) /\ EdgeRight(t) /\ StoredFirst(t)

\* Two threads do not update the same object.
Exclusive == \A o \in Objects : \A t, u \in Threads : Updating(t, o) /\ Updating(u, o) => t = u

\* The slot of o refers to a tagged object or to nothing, and the node says the same.
Agrees(o) ==
  /\ field[o] = Null \/ tag[field[o]] # 0
  /\ (tag[o] = 0 \/ deaths[tag[o]] = 0) =>
       TagOf(field[o]) = IF tag[o] \in nodes THEN edge[tag[o]] ELSE 0

Quiet(o) == \A t \in Threads : ~Updating(t, o)

ShadowInv ==
  /\ nodes \subseteq Given
  /\ \A t \in Threads : UpdateKnows(t)
  /\ Exclusive
  /\ \A o \in Objects : Quiet(o) => Agrees(o)

-----------------------------------------------------------------------------
LEMMA InitShadow == Init => ShadowInv
<1> SUFFICES ASSUME Init PROVE ShadowInv
  OBVIOUS
<1>1. \A t \in Threads : pc[t] = "idle"
  BY DEF Init
<1>2. \A t \in Threads : UpdateKnows(t)
  BY <1>1 DEF UpdateKnows, KindsFit, TargetKnown, EdgeRight, StoredFirst, EdgeDone, Tagging,
              KnowsTags
<1>3. Exclusive
  BY <1>1 DEF Exclusive, Updating
<1>4. nodes \subseteq Given /\ \A o \in Objects : Agrees(o)
  BY DEF Init, Given, Agrees, TagOf
<1> QED BY <1>2, <1>3, <1>4 DEF ShadowInv

-----------------------------------------------------------------------------
(* A hook and what it knows.                                               *)

\* A hook updates the same object from its call to its end.
LEMMA SameUpdating ==
  ASSUME NEW u \in Threads, NEW o, op'[u] = op[u], pc'[u] = pc[u]
  PROVE  Updating(u, o)' <=> Updating(u, o)
BY DEF Updating

\* A thread that takes no step knows what it knew, as long as its tags and its node are
\* left alone.
LEMMA KnowsStill ==
  ASSUME TypeOK, HooksKnow, TagsKept, NEW u \in Threads, UpdateKnows(u),
         op'[u] = op[u], pc'[u] = pc[u],
         op[u].kind \in Updates /\ pc[u] # "idle" => field'[op[u].origin] = field[op[u].origin],
         EdgeDone(u) =>
           \/ deaths'[tag[op[u].origin]] # 0
           \/ /\ deaths'[tag[op[u].origin]] = deaths[tag[op[u].origin]]
              /\ tag[op[u].origin] \in nodes => tag[op[u].origin] \in nodes'
              /\ tag[op[u].origin] \in nodes =>
                   edge'[tag[op[u].origin]] = edge[tag[op[u].origin]]
  PROVE  UpdateKnows(u)'
<1>1. pc[u] # "idle" => op[u].origin \in Objects /\ op[u].target \in Objects \cup {Null}
  BY TrackingAssumption DEF HooksKnow, UsableIn, Usable, TypeOK
<1>2. pc[u] # "idle" /\ op[u].target # Null /\ tag[op[u].target] # 0 =>
        tag'[op[u].target] = tag[op[u].target]
  BY <1>1 DEF TagsKept
<1>3. EdgeDone(u) => pc[u] # "idle" /\ tag'[op[u].origin] = tag[op[u].origin]
  BY <1>1 DEF TagsKept, EdgeDone, UpdateKnows, TargetKnown
<1>4. EdgeDone(u)' <=> EdgeDone(u)
  BY DEF EdgeDone
<1>5. KindsFit(u)' /\ StoredFirst(u)'
  BY DEF UpdateKnows, KindsFit, StoredFirst, Updates
<1>6. TargetKnown(u)'
  BY <1>2, <1>3, <1>4 DEF UpdateKnows, TargetKnown, Tagging, KnowsTags
<1>7. EdgeDone(u) => TagOf(op[u].target)' = TagOf(op[u].target)
  BY <1>2, <1>3 DEF TagOf, UpdateKnows, TargetKnown
<1>8. EdgeRight(u)'
  BY <1>3, <1>4, <1>7 DEF EdgeRight, UpdateKnows
<1> QED BY <1>5, <1>6, <1>8 DEF UpdateKnows

LEMMA NextKnowsTarget ==
  ASSUME TypeOK, HooksKnow, TagsKept, NEW t \in Threads, pc[t] \in Tagging, UpdateKnows(t),
         NextObject(t), tag'[Subject(t)] # 0
  PROVE  /\ KindsFit(t)' /\ TargetKnown(t)' /\ ~EdgeDone(t)'
         /\ op'[t].kind = op[t].kind /\ op'[t].origin = op[t].origin
         /\ op'[t].target = op[t].target /\ pc'[t] \notin {"idle", "store"}
<1>1. /\ op'[t].kind = op[t].kind /\ op'[t].origin = op[t].origin
      /\ op'[t].target = op[t].target /\ op'[t].untagged = Tail(op[t].untagged)
  BY DEF NextObject, TypeOK, Ops
<1>2. pc'[t] = IF Len(op[t].untagged) > 1 THEN "getTag" ELSE TagsKnown(op[t].kind)
  BY DEF NextObject, Goto, TypeOK
<1>3. op[t].kind \in Updates \cup {"use", "new"}
  BY DEF UpdateKnows, KindsFit, Tagging
<1>4. TagsKnown(op[t].kind) \in {"stampUse", "updateEdge", "stampOrigin"}
      /\ (TagsKnown(op[t].kind) = "stampUse" <=> op[t].kind \in {"use", "new"})
  BY <1>3 DEF TagsKnown, Updates
<1>5. KindsFit(t)' /\ ~EdgeDone(t)' /\ pc'[t] \notin {"idle", "store"}
  BY <1>1, <1>2, <1>3, <1>4 DEF KindsFit, EdgeDone, Updates, KnowsTags
<1>6. op[t].target \in Objects \cup {Null}
  BY DEF HooksKnow, UsableIn, Usable, TypeOK, Ops
<1>7. ASSUME Len(op[t].untagged) > 1
      PROVE  op'[t].untagged = <<op[t].target>>
  BY <1>1, <1>7, ListFacts DEF HooksKnow
<1>8. ASSUME ~(Len(op[t].untagged) > 1), op[t].target # Null
      PROVE  tag'[op[t].target] # 0
  <2>1. CASE tag[op[t].target] # 0
    BY <1>6, <1>8, <2>1 DEF TagsKept
  <2>2. CASE op[t].untagged = <<op[t].target>>
    <3>1. Subject(t) = op[t].target
      BY <2>2 DEF Subject
    <3> QED BY <3>1
  <2>3. ASSUME op[t].untagged = <<op[t].origin, op[t].target>> PROVE FALSE
    <3>1. Len(op[t].untagged) = 2
      BY <2>3
    <3> QED BY <1>8, <3>1
  <2> QED BY <1>8, <2>1, <2>2, <2>3 DEF UpdateKnows, TargetKnown
<1>9. TargetKnown(t)'
  <2>1. CASE Len(op[t].untagged) > 1
    BY <1>1, <1>2, <1>5, <1>7, <2>1 DEF TargetKnown, KnowsTags
  <2>2. CASE ~(Len(op[t].untagged) > 1)
    BY <1>1, <1>2, <1>4, <1>5, <1>8, <2>2 DEF TargetKnown, Tagging
  <2> QED BY <2>1, <2>2
<1> QED BY <1>1, <1>5, <1>9

\* The ways a step of a hook may take it.
LEMMA HookPath ==
  ASSUME TypeOK, HooksKnow, TagsKept, NEW t \in Threads, Hook(t), UpdateKnows(t)
  PROVE  \/ pc[t] \in Tagging /\ NextObject(t) /\ tag'[Subject(t)] # 0
         \/ /\ pc[t] \in Tagging /\ pc'[t] \in Tagging
            /\ op'[t].untagged = op[t].untagged
         \/ /\ pc'[t] = "idle"
            /\ \/ pc[t] \in {"stampUse", "recordUse"}
               \/ pc[t] = "recordUpdate" /\ op[t].kind = "jniStore"
         \/ pc[t] = "stampUse" /\ pc'[t] = "recordUse" /\ op'[t] = op[t]
         \/ pc[t] = "stampOrigin" /\ pc'[t] = "updateEdge" /\ op'[t] = op[t]
         \/ updateEdge(t)
         \/ /\ EdgeDone(t) /\ op'[t] = op[t] /\ UNCHANGED <<nodes, edge>>
            /\ \/ pc'[t] \in {"stampOldAgain", "recordUpdate"}
               \/ pc'[t] = "store" /\ op[t].kind # "jniStore"
<1>0. pc \in [Threads -> Labels] /\ op \in [Threads -> Ops]
  BY DEF TypeOK
<1>1. pc[t] \in Tagging => Subject(t) \in Objects
  BY ListFacts DEF HooksKnow
<1>2. pc[t] \in Tagging /\ tag[Subject(t)] # 0 => tag'[Subject(t)] # 0
  BY <1>1 DEF TagsKept
<1>3. CASE GetTag(t)
  BY <1>0, <1>2, <1>3 DEF GetTag, Goto, Tagging
<1>4. CASE tagObject(t)
  <2>1. tag'[Subject(t)] # 0 /\ pc[t] = "tagObject"
    <3>1. pc[t] = "tagObject" /\ Subject(t) \in Objects
      BY <1>1, <1>4 DEF tagObject, Tagging
    <3> QED BY <1>2, <1>4, <3>1 DEF tagObject, NeedsTag, Tags, Tagging, TypeOK
  <2>2. CASE NextObject(t)
    BY <2>1, <2>2 DEF Tagging
  <2>3. CASE op' = [op EXCEPT ![t].isNew = NeedsTag(Subject(t))] /\ Goto(t, "allocate")
    <3>1. op'[t].untagged = op[t].untagged
      BY <1>0, <2>3 DEF Ops
    <3> QED BY <1>0, <2>1, <2>3, <3>1 DEF Goto, Tagging
  <2> QED BY <1>4, <2>2, <2>3 DEF tagObject
<1>5. CASE Allocate(t)
  <2>1. pc[t] = "allocate" /\ tag[Subject(t)] # 0
    BY <1>5 DEF Allocate, HooksKnow, HasTagIn
  <2> QED BY <1>0, <1>2, <1>5, <2>1 DEF Allocate, Goto, AfterAllocation, Tagging
<1>6. CASE StampNew(t)
  BY <1>0, <1>6 DEF StampNew, Goto, Tagging
<1>7. CASE addObjectToHeap(t)
  BY <1>2, <1>7 DEF addObjectToHeap, HooksKnow, HasTagIn, Tagging
<1>8. CASE StampUse(t) \/ RecordUse(t)
  <2>1. Return(t) => pc'[t] = "idle"
    BY <1>0 DEF Return, Goto
  <2>2. CASE StampUse(t)
    BY <1>0, <2>1, <2>2 DEF StampUse, Goto
  <2>3. CASE RecordUse(t)
    BY <2>1, <2>3 DEF RecordUse
  <2> QED BY <1>8, <2>2, <2>3
<1>9. CASE StampOrigin(t)
  BY <1>0, <1>9 DEF StampOrigin, Goto
<1>10. CASE StampOld(t)
  BY <1>0, <1>10 DEF StampOld, Goto, EdgeDone, shadow
<1>11. CASE RecordUpdate(t)
  BY <1>0, <1>11 DEF RecordUpdate, Return, Goto, EdgeDone, shadow
<1> QED BY <1>3, <1>4, <1>5, <1>6, <1>7, <1>8, <1>9, <1>10, <1>11 DEF Hook

\* A step of the hook keeps what it knows true.
LEMMA HookKnowsOn ==
  ASSUME TypeOK, HooksKnow, TagsKept, NEW t \in Threads, Hook(t), UpdateKnows(t)
  PROVE  UpdateKnows(t)'
<1>1. field' = field /\ deaths' = deaths
  BY HookFrame
<1>2. \/ pc'[t] = "idle"
      \/ /\ op'[t].kind = op[t].kind
         /\ op'[t].origin = op[t].origin /\ op'[t].target = op[t].target
  BY HookKeepsKind
<1>3. op[t].origin \in Objects /\ op[t].target \in Objects \cup {Null} /\ pc[t] # "idle"
  <2>1. pc[t] # "idle"
    BY HookOps
  <2> QED BY <2>1, TrackingAssumption DEF HooksKnow, UsableIn, Usable, TypeOK
<1>4. op[t].target # Null /\ tag[op[t].target] # 0 => tag'[op[t].target] = tag[op[t].target]
  BY <1>3 DEF TagsKept
<1>5. StoredFirst(t)'
  <2>1. pc[t] # "store" \/ pc'[t] = "idle"
    BY DEF Hook, GetTag, tagObject, Allocate, StampNew, addObjectToHeap, StampUse, RecordUse,
           StampOrigin, updateEdge, StampOld, RecordUpdate
  <2> QED BY <1>1, <1>2, <1>3, <2>1 DEF StoredFirst, UpdateKnows
<1>6. CASE pc'[t] = "idle"
  BY <1>5, <1>6 DEF UpdateKnows, KindsFit, TargetKnown, EdgeRight, EdgeDone, Tagging, KnowsTags
<1>7. CASE pc[t] \in Tagging /\ NextObject(t) /\ tag'[Subject(t)] # 0
  BY <1>5, <1>7, NextKnowsTarget DEF UpdateKnows, EdgeRight
<1>8. CASE pc[t] \in Tagging /\ pc'[t] \in Tagging /\ op'[t].untagged = op[t].untagged
  BY <1>2, <1>4, <1>5, <1>8
     DEF UpdateKnows, KindsFit, TargetKnown, EdgeRight, EdgeDone, Tagging, KnowsTags
<1>9. CASE pc[t] = "stampUse" /\ pc'[t] = "recordUse" /\ op'[t] = op[t]
  BY <1>5, <1>9 DEF UpdateKnows, KindsFit, TargetKnown, EdgeRight, EdgeDone, Tagging, KnowsTags
<1>10. CASE pc[t] = "stampOrigin" /\ pc'[t] = "updateEdge" /\ op'[t] = op[t]
  BY <1>4, <1>5, <1>10
     DEF UpdateKnows, KindsFit, TargetKnown, EdgeRight, EdgeDone, Tagging, KnowsTags
<1>11. CASE updateEdge(t)
  <2>1. /\ pc[t] = "updateEdge" /\ pc'[t] = "stampOld" /\ tag' = tag
        /\ tag[op[t].origin] \in nodes'
        /\ edge' = [edge EXCEPT ![tag[op[t].origin]] = TagOf(op[t].target)]
    BY <1>11 DEF updateEdge, Goto, TypeOK, tagVars
  <2>2. tag[op[t].origin] \in Tags
    BY <1>3, <2>1 DEF HooksKnow, HasTagIn, UsesTag, TypeOK
  <2>3. edge'[tag[op[t].origin]] = TagOf(op[t].target)
    BY <2>1, <2>2 DEF TypeOK
  <2>4. /\ op'[t].kind = op[t].kind
        /\ op'[t].origin = op[t].origin /\ op'[t].target = op[t].target
    BY <1>2, <2>1
  <2>5. KindsFit(t)'
    BY <2>1, <2>4 DEF KindsFit, UpdateKnows, KnowsTags
  <2>6. TargetKnown(t)'
    BY <2>1, <2>2, <2>4, TrackingAssumption
       DEF TargetKnown, UpdateKnows, KnowsTags, EdgeDone, Tagging, Tags
  <2>7. EdgeRight(t)'
    BY <2>1, <2>3, <2>4 DEF EdgeRight, TagOf
  <2> QED BY <1>5, <2>5, <2>6, <2>7 DEF UpdateKnows
<1>12. CASE /\ EdgeDone(t) /\ op'[t] = op[t] /\ UNCHANGED <<nodes, edge>>
            /\ \/ pc'[t] \in {"stampOldAgain", "recordUpdate"}
               \/ pc'[t] = "store" /\ op[t].kind # "jniStore"
  <2>1. tag'[op[t].origin] = tag[op[t].origin] /\ tag[op[t].origin] # 0
    BY <1>3, <1>12 DEF UpdateKnows, TargetKnown, TagsKept
  <2>2. TagOf(op[t].target)' = TagOf(op[t].target)
    BY <1>4, <1>12 DEF TagOf, UpdateKnows, TargetKnown
  <2>3. KindsFit(t)'
    BY <1>12 DEF KindsFit, UpdateKnows, KnowsTags, EdgeDone
  <2>4. TargetKnown(t)'
    BY <1>4, <1>12, <2>1 DEF TargetKnown, UpdateKnows, KnowsTags, EdgeDone, Tagging
  <2>5. EdgeRight(t)'
    BY <1>1, <1>12, <2>1, <2>2 DEF EdgeRight, UpdateKnows
  <2> QED BY <1>5, <2>3, <2>4, <2>5 DEF UpdateKnows
<1> QED BY <1>6, <1>7, <1>8, <1>9, <1>10, <1>11, <1>12, HookPath

-----------------------------------------------------------------------------
(* Steps of the hooks.                                                     *)

\* A hook changes the node of the object it updates; to others it adds at most an empty one.
LEMMA HookNodes ==
  ASSUME TypeOK, NEW t \in Threads, Hook(t), NEW x \in Tags
  PROVE  \/ pc[t] = "updateEdge" /\ x = tag[op[t].origin]
         \/ /\ x \in nodes => x \in nodes' /\ edge'[x] = edge[x]
            /\ x \in nodes' /\ x \notin nodes => edge'[x] = 0
<1>1. edge \in [Tags -> Tags \cup {0}]
  BY DEF TypeOK
<1>2. CASE addObjectToHeap(t)
  BY <1>1, <1>2 DEF addObjectToHeap, addNode
<1>3. CASE updateEdge(t)
  BY <1>1, <1>3 DEF updateEdge
<1>4. CASE ~addObjectToHeap(t) /\ ~updateEdge(t)
  <2>1. UNCHANGED <<nodes, edge>>
    BY <1>4 DEF Hook, GetTag, tagObject, Allocate, StampNew, StampUse, RecordUse, StampOrigin,
                StampOld, RecordUpdate, shadow
  <2> QED BY <2>1
<1> QED BY <1>2, <1>3, <1>4

LEMMA HookNodesGiven ==
  ASSUME TypeOK, HooksKnow, TagsGiven, nodes \subseteq Given, Given \subseteq Given',
         NEW t \in Threads, Hook(t)
  PROVE  nodes' \subseteq Given'
<1>1. CASE addObjectToHeap(t)
  <2>1. pc[t] = "addNode" /\ nodes' = nodes \cup {tag[Subject(t)]}
    BY <1>1 DEF addObjectToHeap, addNode
  <2>2. Subject(t) \in Objects /\ tag[Subject(t)] # 0
    BY <2>1, ListFacts DEF HooksKnow, HasTagIn, Tagging
  <2> QED BY <2>1, <2>2 DEF TagsGiven
<1>2. CASE updateEdge(t)
  <2>1. pc[t] = "updateEdge" /\ nodes' = nodes \cup {tag[op[t].origin]}
    BY <1>2 DEF updateEdge
  <2>2. op[t].origin \in Objects /\ tag[op[t].origin] # 0
    BY <2>1, TrackingAssumption DEF HooksKnow, HasTagIn, UsesTag, UsableIn, Usable, TypeOK
  <2> QED BY <2>1, <2>2 DEF TagsGiven
<1>3. CASE ~addObjectToHeap(t) /\ ~updateEdge(t)
  <2>1. nodes' = nodes
    BY <1>3 DEF Hook, GetTag, tagObject, Allocate, StampNew, StampUse, RecordUse, StampOrigin,
                StampOld, RecordUpdate, shadow
  <2> QED BY <2>1
<1> QED BY <1>1, <1>2, <1>3

\* The thread t updates its origin, and nobody else does.
LEMMA UpdatesOwn ==
  ASSUME TypeOK, HooksKnow, TagsGiven, Exclusive, NEW t \in Threads, pc[t] = "updateEdge",
         UpdateKnows(t)
  PROVE  /\ Updating(t, op[t].origin) /\ op[t].origin \in Objects
         /\ \A u \in Threads \ {t} : ~Updating(u, op[t].origin)
         /\ \A p \in Objects : p # op[t].origin => tag[p] # tag[op[t].origin]
<1>1. op[t].origin \in Objects /\ tag[op[t].origin] # 0
  BY TrackingAssumption DEF HooksKnow, HasTagIn, UsesTag, UsableIn, Usable, TypeOK
<1>2. op[t].kind \in Updates
  BY DEF UpdateKnows, KindsFit, KnowsTags
<1>3. Updating(t, op[t].origin)
  BY <1>2 DEF Updating, Updates
<1>4. \A u \in Threads \ {t} : ~Updating(u, op[t].origin)
  BY <1>1, <1>3 DEF Exclusive
<1>5. \A p \in Objects : p # op[t].origin => tag[p] # tag[op[t].origin]
  BY <1>1 DEF TagsGiven
<1> QED BY <1>1, <1>3, <1>4, <1>5

LEMMA EdgeDoneUpdates ==
  ASSUME TypeOK, HooksKnow, NEW u \in Threads, EdgeDone(u), UpdateKnows(u)
  PROVE  /\ Updating(u, op[u].origin) /\ op[u].origin \in Objects
         /\ tag[op[u].origin] \in Tags
<1>1. pc[u] # "idle" /\ op[u].kind \in Updates
  BY DEF EdgeDone, UpdateKnows, KindsFit, KnowsTags
<1>2. op[u].origin \in Objects
  BY <1>1, TrackingAssumption DEF HooksKnow, UsableIn, Usable, TypeOK
<1> QED BY <1>1, <1>2 DEF Updating, Updates, UpdateKnows, TargetKnown, TypeOK

LEMMA HookOthersKnow ==
  ASSUME TypeOK, HooksKnow, TagsGiven, TagsKept, ShadowInv, NEW t \in Threads, Hook(t),
         NEW u \in Threads \ {t}
  PROVE  UpdateKnows(u)'
<1>1. /\ op'[u] = op[u] /\ pc'[u] = pc[u]
      /\ UpdateKnows(u) /\ UpdateKnows(t) /\ Exclusive
  BY HookOps DEF ShadowInv
<1>2. field' = field /\ deaths' = deaths
  BY HookFrame
<1>3. ASSUME EdgeDone(u)
      PROVE  tag[op[u].origin] \in nodes =>
               /\ tag[op[u].origin] \in nodes'
               /\ edge'[tag[op[u].origin]] = edge[tag[op[u].origin]]
  <2>1. /\ Updating(u, op[u].origin) /\ op[u].origin \in Objects
        /\ tag[op[u].origin] \in Tags
    BY <1>1, <1>3, EdgeDoneUpdates
  <2>2. ~(pc[t] = "updateEdge" /\ tag[op[u].origin] = tag[op[t].origin])
    BY <1>1, <2>1, UpdatesOwn
  <2> QED BY <2>1, <2>2, HookNodes
<1> QED BY <1>1, <1>2, <1>3, KnowsStill

\* The slot and the node of an object that nobody updates agree after the step of a hook.
LEMMA HookAgrees ==
  ASSUME TypeOK, TypeOK', HooksKnow, TagsGiven, TagsKept, ShadowInv,
         NEW t \in Threads, Hook(t), NEW o \in Objects, Quiet(o)
  PROVE  Agrees(o)'
<1>1. field' = field /\ deaths' = deaths /\ Agrees(o) /\ UpdateKnows(t) /\ Exclusive
      /\ nodes \subseteq Given
  BY HookFrame DEF ShadowInv
<1>2. field[o] \in Objects \cup {Null} /\ tag[o] \in Tags \cup {0}
  BY DEF TypeOK
<1>3. field[o] = Null \/ (tag'[field[o]] = tag[field[o]] /\ tag[field[o]] # 0)
  <2>1. field[o] = Null \/ tag[field[o]] # 0
    BY <1>1 DEF Agrees
  <2> QED BY <1>2, <2>1 DEF TagsKept
<1>4. TagOf(field[o])' = TagOf(field[o]) /\ (field'[o] = Null \/ tag'[field'[o]] # 0)
  BY <1>1, <1>3 DEF TagOf
<1>5. CASE tag[o] # 0
  <2>1. tag'[o] = tag[o] /\ tag[o] \in Tags
    BY <1>2, <1>5 DEF TagsKept
  <2>2. ~(pc[t] = "updateEdge" /\ tag[o] = tag[op[t].origin])
    BY <1>1, UpdatesOwn DEF Quiet
  <2>3. /\ tag[o] \in nodes => tag[o] \in nodes' /\ edge'[tag[o]] = edge[tag[o]]
        /\ tag[o] \in nodes' /\ tag[o] \notin nodes => edge'[tag[o]] = 0
    BY <2>1, <2>2, HookNodes
  <2> QED BY <1>1, <1>4, <1>5, <2>1, <2>3 DEF Agrees
<1>6. CASE tag[o] = 0
  <2>1. TagOf(field[o]) = 0
    <3>1. 0 \notin nodes
      BY DEF TypeOK, Tags
    <3> QED BY <1>1, <1>6, <3>1 DEF Agrees
  <2>2. CASE tag'[o] = 0
    <3>1. 0 \notin nodes'
      BY DEF TypeOK, Tags
    <3> QED BY <1>4, <2>1, <2>2, <3>1 DEF Agrees
  <2>3. CASE tag'[o] # 0
    <3>1. tagObject(t)
      BY <1>6, <2>3, HookTags
    <3>2. tag'[o] = nextTag /\ nodes' = nodes
      BY <1>6, <2>3, <3>1 DEF tagObject, shadow, TypeOK
    <3>3. nextTag \notin nodes'
      BY <1>1, <3>2 DEF Given, TypeOK
    <3> QED BY <1>4, <2>1, <3>2, <3>3 DEF Agrees
  <2> QED BY <2>2, <2>3
<1> QED BY <1>5, <1>6

\* An update that has been made in both leaves them equal.
LEMMA MadeAgrees ==
  ASSUME TypeOK, TypeOK', HooksKnow, TagsKept, NEW t \in Threads, EdgeDone(t), UpdateKnows(t),
         NEW o, o = op[t].origin,
         UNCHANGED <<tag, nodes, edge, deaths>>, field'[o] = op[t].target
  PROVE  Agrees(o)'
<1>1. op[t].target = Null \/ tag[op[t].target] # 0
  BY DEF UpdateKnows, TargetKnown
<1>2. tag[op[t].origin] # 0
  BY DEF UpdateKnows, TargetKnown
<1>3. deaths[tag[op[t].origin]] = 0 =>
        tag[op[t].origin] \in nodes /\ edge[tag[op[t].origin]] = TagOf(op[t].target)
  BY DEF UpdateKnows, EdgeRight
<1> QED BY <1>1, <1>2, <1>3 DEF Agrees, TagOf

LEMMA HookShadow ==
  ASSUME TypeOK, TypeOK', HooksKnow, TagsGiven, TagsKept, Given \subseteq Given', ShadowInv,
         NEW t \in Threads, Hook(t)
  PROVE  ShadowInv'
<1>1. nodes' \subseteq Given'
  BY HookNodesGiven DEF ShadowInv
<1>2. \A u \in Threads : UpdateKnows(u)'
  BY HookKnowsOn, HookOthersKnow DEF ShadowInv
<1>3. \A u \in Threads \ {t}, o \in Objects : Updating(u, o)' <=> Updating(u, o)
  BY HookOps, SameUpdating
<1>4. \A o \in Objects : Updating(t, o)' => Updating(t, o)
  BY HookOps, HookKeepsKind DEF Updating
<1>5. Exclusive'
  BY <1>3, <1>4 DEF Exclusive, ShadowInv
<1>6. ASSUME NEW o \in Objects, Quiet(o)'
      PROVE  Agrees(o)'
  <2>1. CASE Quiet(o)
    BY <2>1, HookAgrees
  <2>2. CASE ~Quiet(o)
    <3>1. Updating(t, o) /\ ~Updating(t, o)'
      BY <1>3, <1>6, <2>2 DEF Quiet
    <3>2. pc'[t] = "idle" /\ op[t].origin = o /\ op[t].kind \notin {"use", "new"}
      BY <3>1, HookKeepsKind DEF Updating
    <3>3. UpdateKnows(t)
      BY DEF ShadowInv
    <3>4. pc[t] = "recordUpdate" /\ op[t].kind = "jniStore"
      <4>1. pc[t] \notin {"stampUse", "recordUse"}
        BY <3>2, <3>3 DEF UpdateKnows, KindsFit
      <4>2. pc[t] \in Tagging /\ NextObject(t) => pc'[t] # "idle"
        BY DEF NextObject, Goto, TagsKnown, TypeOK
      <4> QED BY <3>2, <3>3, <4>1, <4>2, HookPath DEF Tagging, updateEdge, Goto, TypeOK
    <3>5. RecordUpdate(t)
      BY <3>4 DEF Hook, GetTag, tagObject, Allocate, StampNew, addObjectToHeap, StampUse,
                  RecordUse, StampOrigin, updateEdge, StampOld
    <3>6. UNCHANGED <<tag, nodes, edge, deaths, field>>
      BY <3>5 DEF RecordUpdate, tagVars, shadow, history, heapVars
    <3>7. field'[op[t].origin] = op[t].target
      BY <3>3, <3>4, <3>6 DEF UpdateKnows, StoredFirst
    <3>8. EdgeDone(t)
      BY <3>4 DEF EdgeDone
    <3> QED BY <3>2, <3>3, <3>6, <3>7, <3>8, MadeAgrees
  <2> QED BY <2>1, <2>2
<1> QED BY <1>1, <1>2, <1>5, <1>6 DEF ShadowInv

-----------------------------------------------------------------------------
(* Steps of the program and of the collector.                              *)

\* What no hook and no store does leaves everything as it was, but for the dead.
LEMMA ElseShadow ==
  ASSUME TypeOK, TypeOK', HooksKnow, TagsKept, ShadowInv,
         UNCHANGED <<field, tag, nextTag, op, pc>>, nodes' \subseteq nodes,
         \A x \in Tags : \/ deaths'[x] # 0
                         \/ /\ deaths'[x] = deaths[x] /\ edge'[x] = edge[x]
                            /\ x \in nodes => x \in nodes'
  PROVE  ShadowInv'
<1>1. nodes' \subseteq Given'
  BY DEF ShadowInv, Given
<1>2. ASSUME NEW u \in Threads
      PROVE  UpdateKnows(u)'
  <2>1. UpdateKnows(u)
    BY DEF ShadowInv
  <2>2. EdgeDone(u) => tag[op[u].origin] \in Tags
    BY <2>1, EdgeDoneUpdates
  <2> QED BY <2>1, <2>2, KnowsStill
<1>3. \A u \in Threads, o \in Objects : Updating(u, o)' <=> Updating(u, o)
  BY DEF Updating
<1>4. Exclusive'
  BY <1>3 DEF Exclusive, ShadowInv
<1>5. ASSUME NEW o \in Objects, Quiet(o)'
      PROVE  Agrees(o)'
  <2>1. Agrees(o)
    BY <1>3, <1>5 DEF Quiet, ShadowInv
  <2>2. tag[o] \in Tags \cup {0} /\ 0 \notin nodes /\ 0 \notin nodes'
    BY DEF TypeOK, Tags
  <2>3. CASE tag[o] = 0
    BY <2>1, <2>2, <2>3 DEF Agrees, TagOf
  <2>4. CASE tag[o] # 0
    BY <2>1, <2>2, <2>4 DEF Agrees, TagOf
  <2> QED BY <2>3, <2>4
<1> QED BY <1>1, <1>2, <1>4, <1>5 DEF ShadowInv

LEMMA CallShadow ==
  ASSUME TypeOK, TypeOK', HooksKnow, TagsKept, ShadowInv, NEW t \in Threads,
         NEW kind \in Updates \cup {"use", "new"}, NEW o \in Objects,
         NEW x \in Objects \cup {Null}, NEW first \in {"getTag", "store"},
         first = "store" <=> kind = "jniStore",
         kind \in Updates => \A u \in Threads : ~Updating(u, o),
         Call(t, kind, o, x, first)
  PROVE  ShadowInv'
<1>1. /\ pc[t] = "idle" /\ pc'[t] = first
      /\ \A u \in Threads \ {t} : op'[u] = op[u] /\ pc'[u] = pc[u]
      /\ UNCHANGED <<field, tag, nextTag, nodes, edge, deaths>>
  BY DEF Call, Goto, TypeOK, tagVars, shadow, history
<1>2. op'[t] = [NoOp EXCEPT !.kind = kind, !.origin = o, !.target = x,
                            !.untagged = IF x = Null THEN <<o>> ELSE <<o, x>>]
  BY DEF Call, TypeOK
<1>3. /\ op'[t].kind = kind /\ op'[t].origin = o /\ op'[t].target = x
      /\ x # Null => op'[t].untagged = <<o, x>>
  BY <1>2 DEF NoOp
<1>4. UpdateKnows(t)'
  <2>1. KindsFit(t)'
    BY <1>1, <1>3 DEF KindsFit, Updates, KnowsTags
  <2>2. ~EdgeDone(t)'
    BY <1>1, <1>3 DEF EdgeDone
  <2>3. TargetKnown(t)'
    BY <1>1, <1>3, <2>2 DEF TargetKnown, Tagging, KnowsTags
  <2>4. EdgeRight(t)' /\ StoredFirst(t)'
    BY <1>1, <1>3, <2>2 DEF EdgeRight, StoredFirst
  <2> QED BY <2>1, <2>3, <2>4 DEF UpdateKnows
<1>5. ASSUME NEW u \in Threads \ {t}
      PROVE  UpdateKnows(u)'
  BY <1>1, KnowsStill DEF ShadowInv
<1>6. \A u \in Threads \ {t}, p \in Objects : Updating(u, p)' <=> Updating(u, p)
  BY <1>1, SameUpdating
<1>7. \A p \in Objects : Updating(t, p)' => p = o /\ kind \in Updates
  BY <1>1, <1>3 DEF Updating
<1>8. Exclusive'
  BY <1>6, <1>7 DEF Exclusive, ShadowInv
<1>9. ASSUME NEW p \in Objects, Quiet(p)'
      PROVE  Agrees(p)'
  <2>1. ~Updating(t, p)
    BY <1>1 DEF Updating
  <2>2. Agrees(p)
    BY <1>6, <1>9, <2>1 DEF Quiet, ShadowInv
  <2> QED BY <1>1, <2>2 DEF Agrees, TagOf
<1> QED BY <1>1, <1>4, <1>5, <1>8, <1>9 DEF ShadowInv, Given

LEMMA StoreShadow ==
  ASSUME TypeOK, TypeOK', HooksKnow, TagsKept, ShadowInv, NEW t \in Threads, Store(t)
  PROVE  ShadowInv'
<1> DEFINE o == op[t].origin
<1>1. /\ pc[t] = "store" /\ field' = [field EXCEPT ![o] = op[t].target]
      /\ UNCHANGED <<tag, nextTag, nodes, edge, deaths>>
      /\ \A u \in Threads \ {t} : op'[u] = op[u] /\ pc'[u] = pc[u]
      /\ UpdateKnows(t)
  BY DEF Store, Return, Goto, TypeOK, tagVars, shadow, ShadowInv
<1>2. o \in Objects /\ op[t].kind \in Updates /\ Updating(t, o)
  <2>1. op[t].kind \in Updates
    BY <1>1 DEF UpdateKnows, KindsFit
  <2> QED BY <1>1, <2>1, TrackingAssumption
          DEF Updating, Updates, HooksKnow, UsableIn, Usable, TypeOK
<1>3. field'[o] = op[t].target /\ \A p \in Objects \ {o} : field'[p] = field[p]
  BY <1>1, <1>2 DEF TypeOK
<1>4. \/ op[t].kind = "jniStore" /\ pc'[t] = "getTag" /\ op'[t] = op[t]
      \/ op[t].kind # "jniStore" /\ pc'[t] = "idle"
  BY DEF Store, Return, Goto, TypeOK
<1>5. \A u \in Threads \ {t} : ~Updating(u, o)
  BY <1>2 DEF ShadowInv, Exclusive
<1> HIDE DEF o
<1>6. UpdateKnows(t)'
  <2>1. CASE pc'[t] = "idle"
    BY <2>1 DEF UpdateKnows, KindsFit, TargetKnown, EdgeRight, StoredFirst, EdgeDone, Tagging,
                KnowsTags
  <2>2. CASE op[t].kind = "jniStore" /\ pc'[t] = "getTag" /\ op'[t] = op[t]
    <3>1. op[t].target # Null => op[t].untagged = <<op[t].origin, op[t].target>>
      BY <1>1, <2>2 DEF HooksKnow, StoresIn
    <3>2. KindsFit(t)'
      BY <2>2 DEF KindsFit, Updates, KnowsTags
    <3>3. ~EdgeDone(t)'
      BY <2>2 DEF EdgeDone
    <3>4. TargetKnown(t)'
      BY <2>2, <3>1, <3>3 DEF TargetKnown, Tagging, KnowsTags
    <3>5. StoredFirst(t)' /\ EdgeRight(t)'
      BY <1>3, <2>2, <3>3 DEF StoredFirst, EdgeRight, o
    <3> QED BY <3>2, <3>4, <3>5 DEF UpdateKnows
  <2> QED BY <1>4, <2>1, <2>2
<1>7. ASSUME NEW u \in Threads \ {t}
      PROVE  UpdateKnows(u)'
  <2>1. op[u].kind \in Updates /\ pc[u] # "idle" =>
          op[u].origin \in Objects \ {o}
    <3> SUFFICES ASSUME op[u].kind \in Updates, pc[u] # "idle"
                 PROVE  op[u].origin \in Objects \ {o}
      OBVIOUS
    <3>1. op[u].origin \in Objects
      BY TrackingAssumption DEF HooksKnow, UsableIn, Usable, TypeOK
    <3>2. Updating(u, op[u].origin)
      BY DEF Updating, Updates
    <3> QED BY <1>5, <3>1, <3>2
  <2>2. UpdateKnows(u)
    BY DEF ShadowInv
  <2> QED BY <1>1, <1>3, <2>1, <2>2, KnowsStill
<1>8. \A u \in Threads \ {t}, p \in Objects : Updating(u, p)' <=> Updating(u, p)
  BY <1>1, SameUpdating
<1>9. \A p \in Objects : /\ Updating(t, p)' => Updating(t, p)
                         /\ p # o => ~Updating(t, p)
  BY <1>1, <1>4 DEF Updating, o
<1>10. Exclusive'
  BY <1>8, <1>9 DEF Exclusive, ShadowInv
<1>11. ASSUME NEW p \in Objects, Quiet(p)'
       PROVE  Agrees(p)'
  <2>1. CASE p = o
    <3>1. op[t].kind # "jniStore"
      BY <1>2, <1>4, <1>11, <2>1 DEF Quiet, Updating, Updates, o
    <3>2. EdgeDone(t)
      BY <1>1, <3>1 DEF EdgeDone
    <3> QED BY <1>1, <1>3, <2>1, <3>2, MadeAgrees DEF o
  <2>2. CASE p # o
    <3>1. Agrees(p)
      BY <1>8, <1>9, <1>11, <2>2 DEF Quiet, ShadowInv
    <3> QED BY <1>1, <1>3, <2>2, <3>1 DEF Agrees, TagOf
  <2> QED BY <2>1, <2>2
<1> QED BY <1>1, <1>6, <1>7, <1>10, <1>11 DEF ShadowInv, Given

LEMMA ProgramShadow ==
  ASSUME TypeOK, TypeOK', HooksKnow, TagsKept, ShadowInv, NEW t \in Threads, Program(t)
  PROVE  ShadowInv'
<1>1. ASSUME NEW o, NEW owes, Make(t, o, owes) PROVE ShadowInv'
  BY <1>1, ElseShadow DEF Make, history, shadow, tagVars
<1>2. ASSUME NEW x, Read(t, x) PROVE ShadowInv'
  BY <1>2, ElseShadow DEF Read, history, shadow, tagVars
<1>3. ASSUME NEW o \in Objects, CallUse(t, o) PROVE ShadowInv'
  <2>1. Call(t, "use", o, Null, "getTag")
    BY <1>3 DEF CallUse
  <2> QED BY <2>1, CallShadow DEF Updates
<1>4. ASSUME CallNew(t) PROVE ShadowInv'
  <2>1. Call(t, "new", owed[t], Null, "getTag") /\ owed[t] \in Objects
    BY <1>4 DEF CallNew, TypeOK
  <2> QED BY <2>1, CallShadow DEF Updates
<1>5. ASSUME NEW kind \in {"update", "arrayStore", "jniStore"}, NEW o \in Objects,
             NEW x \in Objects \cup {Null}, CallUpdate(t, kind, o, x)
      PROVE  ShadowInv'
  <2>1. CASE kind = "jniStore"
    <3>1. Call(t, kind, o, x, "store") /\ \A u \in Threads : ~Updating(u, o)
      BY <1>5, <2>1 DEF CallUpdate
    <3> QED BY <2>1, <3>1, CallShadow DEF Updates
  <2>2. CASE kind # "jniStore"
    <3>1. Call(t, kind, o, x, "getTag") /\ \A u \in Threads : ~Updating(u, o)
      BY <1>5, <2>2 DEF CallUpdate
    <3> QED BY <2>2, <3>1, CallShadow DEF Updates
  <2> QED BY <2>1, <2>2
<1> QED BY <1>1, <1>2, <1>3, <1>4, <1>5, StoreShadow DEF Program

LEMMA CollectorShadow ==
  ASSUME TypeOK, TypeOK', HooksKnow, TagsKept, ShadowInv, fakeAGC
  PROVE  ShadowInv'
<1>1. UNCHANGED <<field, tag, nextTag, op, pc>>
  BY CollectorFrame
<1>2. CASE Report
  <2>1. /\ deaths' = [x \in Tags |-> IF x \in deadSet THEN deaths[x] + 1 ELSE deaths[x]]
        /\ nodes' = nodes \ deadSet
        /\ edge' = [x \in Tags |-> IF x \in deadSet THEN 0 ELSE edge[x]]
    BY <1>2 DEF Report
  <2>2. ASSUME NEW x \in Tags
        PROVE  \/ deaths'[x] # 0
               \/ /\ deaths'[x] = deaths[x] /\ edge'[x] = edge[x]
                  /\ x \in nodes => x \in nodes'
    <3>1. deaths[x] \in Nat
      BY DEF TypeOK
    <3> QED BY <2>1, <3>1
  <2> QED BY <1>1, <2>1, <2>2, ElseShadow
<1>3. CASE ~Report
  <2>1. UNCHANGED <<nodes, edge, deaths>>
    BY <1>3 DEF fakeAGC, ForceGarbageCollection, IterateThroughHeap, ScanTagTimeMap,
                computeObjectDeathTimes, shadow, history
  <2> QED BY <1>1, <2>1, ElseShadow
<1> QED BY <1>2, <1>3

LEMMA StepShadow == IInv /\ ShadowInv /\ [Next]_vars => ShadowInv'
<1> SUFFICES ASSUME IInv, ShadowInv, [Next]_vars PROVE ShadowInv'
  OBVIOUS
<1>1. IInv' /\ TagsKept
  BY StepInv
<1> USE DEF IInv, HookInv
<1>2. \A t \in Threads : pc[t] \in Tagging => Subject(t) \in made
  BY SubjectMade
<1>3. Given \subseteq Given'
  BY <1>2, StepTags DEF TypeOK
<1>4. ASSUME NEW t \in Threads, Hook(t) PROVE ShadowInv'
  BY <1>1, <1>3, <1>4, HookShadow
<1>5. ASSUME NEW t \in Threads, Program(t) PROVE ShadowInv'
  BY <1>1, <1>5, ProgramShadow
<1>6. CASE fakeAGC
  BY <1>1, <1>6, CollectorShadow
<1>7. CASE UNCHANGED vars
  BY <1>1, <1>7, ElseShadow DEF vars, heapVars, tagVars, shadow, history
<1> QED BY <1>4, <1>5, <1>6, <1>7 DEF Next

(* However the hooks of any number of threads, their stores and the        *)
(* collections interleave, the shadow heap says of the slot of every       *)
(* object that nobody is updating, and that was not reported dead, what    *)
(* the heap says (updateHeapAtAndStamp, HashGraph::updateEdge).            *)
THEOREM ShadowFollowsHeap == Spec => []ShadowMatchesHeap
<1>1. ShadowInv /\ TypeOK => ShadowMatchesHeap
  <2> SUFFICES ASSUME ShadowInv, TypeOK, NEW o \in made \ collected,
                      tag[o] = 0 \/ deaths[tag[o]] = 0,
                      \A t \in Threads : ~Updating(t, o)
               PROVE  TagOf(field[o]) = IF tag[o] \in nodes THEN edge[tag[o]] ELSE 0
    BY DEF ShadowMatchesHeap
  <2>1. o \in Objects /\ Quiet(o)
    BY DEF TypeOK, Quiet
  <2>2. Agrees(o)
    BY <2>1 DEF ShadowInv
  <2> QED BY <2>2 DEF Agrees
<1>2. Init => ShadowInv
  BY InitShadow
<1>3. IInv => TypeOK
  BY DEF IInv, HookInv
<1> QED BY <1>1, <1>2, <1>3, InitInv, StepInv, StepShadow, PTL DEF Spec

-----------------------------------------------------------------------------
(***************************************************************************)
(* The deaths.  A collection finds the dead by their missing weak          *)
(* references, and what they referred to by the shadow heap.  While it     *)
(* works, nobody records an object; what is alive and yet taken for dead   *)
(* has just got its tag.  Nothing alive refers to what was collected.      *)
(***************************************************************************)

\* What the shadow heap says of the slot of o.
OutEdge(o) == IF tag[o] \in nodes THEN edge[tag[o]] ELSE 0

JniStored(t) == pc[t] \notin {"idle", "store"} /\ op[t].kind = "jniStore"
Ahead(t) == EdgeDone(t) \/ JniStored(t)

\* Alive or dead, an object has no edge to anything but what its slot refers to, what it
\* is about to refer to, or what a JNI store took from it.
EdgesKnown ==
  /\ \A o \in Objects : (\A t \in Threads : Updating(t, o) => ~Ahead(t)) =>
       OutEdge(o) \in {0, TagOf(field[o])}
  /\ \A t \in Threads : EdgeDone(t) => OutEdge(op[t].origin) \in {0, TagOf(op[t].target)}
  /\ \A t \in Threads : JniStored(t) /\ ~EdgeDone(t) =>
       OutEdge(op[t].origin) \in {0} \cup contested

\* The old target a hook is about to stamp is still in the slot, but after a JNI store.
OldKnown ==
  \A t \in Threads : pc[t] \in {"stampOld", "stampOldAgain"} =>
    \/ op[t].old \in {0} \cup contested
    \/ op[t].kind # "jniStore" /\ op[t].old = TagOf(field[op[t].origin])

-----------------------------------------------------------------------------
(* The edges, of the dead as well.                                         *)

LEMMA InitEdges == Init => EdgesKnown /\ OldKnown
BY DEF Init, EdgesKnown, OldKnown, OutEdge, EdgeDone, JniStored

\* What an edge refers to keeps its tag.
LEMMA TagOfKept ==
  ASSUME TypeOK, TagsKept, NEW x \in Objects \cup {Null}
  PROVE  TagOf(x) # 0 => tag'[x] = TagOf(x) /\ x # Null /\ tag[x] = TagOf(x)
BY DEF TagOf, TagsKept

LEMMA HookOutEdge ==
  ASSUME TypeOK, TypeOK', HooksKnow, TagsGiven, TagsKept, ShadowInv,
         NEW t \in Threads, Hook(t), NEW o \in Objects
  PROVE  \/ OutEdge(o)' \in {0, OutEdge(o)}
         \/ /\ updateEdge(t) /\ o = op[t].origin
            /\ OutEdge(o)' = TagOf(op[t].target)
<1>1. tag[o] \in Tags \cup {0} /\ 0 \notin nodes /\ 0 \notin nodes'
  BY DEF TypeOK, Tags
<1>2. CASE tag[o] = 0
  <2>1. CASE tag'[o] = 0
    BY <1>1, <2>1 DEF OutEdge
  <2>2. CASE tag'[o] # 0
    <3>1. tagObject(t)
      BY <1>2, <2>2, HookTags
    <3>2. tag'[o] = nextTag /\ nodes' = nodes
      BY <1>2, <2>2, <3>1 DEF tagObject, shadow, TypeOK
    <3>3. nextTag \notin nodes'
      BY <3>2 DEF Given, TypeOK, ShadowInv
    <3> QED BY <3>2, <3>3 DEF OutEdge
  <2> QED BY <2>1, <2>2
<1>3. CASE tag[o] # 0
  <2>1. tag'[o] = tag[o] /\ tag[o] \in Tags
    BY <1>1, <1>3 DEF TagsKept
  <2>2. CASE pc[t] = "updateEdge" /\ tag[o] = tag[op[t].origin]
    <3>1. o = op[t].origin
      BY <2>2, UpdatesOwn DEF ShadowInv
    <3>2. updateEdge(t)
      BY <2>2 DEF Hook, GetTag, tagObject, Allocate, StampNew, addObjectToHeap, StampUse,
                  RecordUse, StampOrigin, StampOld, RecordUpdate
    <3>3. tag[o] \in nodes' /\ edge' = [edge EXCEPT ![tag[o]] = TagOf(op[t].target)]
      BY <3>1, <3>2 DEF updateEdge
    <3>4. edge'[tag[o]] = TagOf(op[t].target)
      BY <2>1, <3>3 DEF TypeOK
    <3> QED BY <2>1, <3>1, <3>2, <3>3, <3>4 DEF OutEdge
  <2>3. CASE ~(pc[t] = "updateEdge" /\ tag[o] = tag[op[t].origin])
    <3>1. /\ tag[o] \in nodes => tag[o] \in nodes' /\ edge'[tag[o]] = edge[tag[o]]
          /\ tag[o] \in nodes' /\ tag[o] \notin nodes => edge'[tag[o]] = 0
      BY <2>1, <2>3, HookNodes
    <3> QED BY <2>1, <3>1 DEF OutEdge
  <2> QED BY <2>2, <2>3
<1> QED BY <1>2, <1>3

\* A hook that is ahead of the slot, or of the edge, stays so to its end.
LEMMA HookStaysAhead ==
  ASSUME TypeOK, HooksKnow, TagsKept, NEW t \in Threads, Hook(t), UpdateKnows(t)
  PROVE  /\ EdgeDone(t) => EdgeDone(t)' \/ pc'[t] = "idle"
         /\ EdgeDone(t)' /\ ~EdgeDone(t) => updateEdge(t)
         /\ updateEdge(t) => EdgeDone(t)' /\ ~EdgeDone(t)
         /\ JniStored(t) => JniStored(t)' \/ (pc'[t] = "idle" /\ EdgeDone(t))
         /\ JniStored(t)' => JniStored(t)
<1>1. \/ pc'[t] = "idle"
      \/ /\ op'[t].kind = op[t].kind
         /\ op'[t].origin = op[t].origin /\ op'[t].target = op[t].target
  BY HookKeepsKind
<1>2. pc[t] \notin {"idle", "store"}
  BY DEF Hook, GetTag, tagObject, Allocate, StampNew, addObjectToHeap, StampUse, RecordUse,
         StampOrigin, updateEdge, StampOld, RecordUpdate
<1>3. CASE pc[t] \in Tagging
  <2>1. ~EdgeDone(t) /\ ~updateEdge(t)
    BY <1>3 DEF EdgeDone, Tagging, updateEdge
  <2>2. CASE NextObject(t) /\ tag'[Subject(t)] # 0
    <3>1. ~EdgeDone(t)' /\ pc'[t] \notin {"idle", "store"}
      BY <1>3, <2>2, NextKnowsTarget
    <3> QED BY <1>1, <1>2, <2>1, <3>1 DEF JniStored
  <2>3. CASE pc'[t] \in Tagging
    BY <1>1, <1>2, <2>1, <2>3 DEF JniStored, EdgeDone, Tagging
  <2> QED BY <1>3, <2>1, <2>2, <2>3, HookPath DEF Tagging, EdgeDone
<1>4. CASE updateEdge(t)
  <2>1. pc[t] = "updateEdge" /\ pc'[t] = "stampOld"
    BY <1>4 DEF updateEdge, Goto, TypeOK
  <2> QED BY <1>1, <1>4, <2>1 DEF EdgeDone, JniStored
<1>5. CASE EdgeDone(t) /\ op'[t] = op[t]
           /\ (pc'[t] \in {"stampOldAgain", "recordUpdate"}
               \/ (pc'[t] = "store" /\ op[t].kind # "jniStore"))
  <2>1. ~updateEdge(t)
    BY <1>5 DEF updateEdge, EdgeDone
  <2> QED BY <1>2, <1>5, <2>1 DEF EdgeDone, JniStored
<1>6. CASE pc'[t] = "idle" /\ (pc[t] \in {"stampUse", "recordUse"}
                               \/ (pc[t] = "recordUpdate" /\ op[t].kind = "jniStore"))
  <2>1. JniStored(t) => EdgeDone(t)
    BY <1>6 DEF JniStored, EdgeDone, UpdateKnows, KindsFit
  <2> QED BY <1>6, <2>1 DEF EdgeDone, JniStored, updateEdge
<1>7. CASE \/ pc[t] = "stampUse" /\ pc'[t] = "recordUse" /\ op'[t] = op[t]
           \/ pc[t] = "stampOrigin" /\ pc'[t] = "updateEdge" /\ op'[t] = op[t]
  BY <1>7 DEF EdgeDone, JniStored, updateEdge
<1> QED BY <1>3, <1>4, <1>5, <1>6, <1>7, HookPath

\* Nothing but an update makes an edge.
LEMMA HookEdges ==
  ASSUME TypeOK, TypeOK', HooksKnow, TagsGiven, TagsKept, ShadowInv, EdgesKnown,
         contested \subseteq contested', NEW t \in Threads, Hook(t)
  PROVE  EdgesKnown'
<1>1. field' = field
  BY HookFrame
<1>2. \A u \in Threads \ {t} : op'[u] = op[u] /\ pc'[u] = pc[u]
  BY HookOps
<1>3. \/ pc'[t] = "idle"
      \/ /\ op'[t].kind = op[t].kind
         /\ op'[t].origin = op[t].origin /\ op'[t].target = op[t].target
  BY HookKeepsKind
<1>4. \A u \in Threads \ {t} : /\ EdgeDone(u)' <=> EdgeDone(u)
                               /\ JniStored(u)' <=> JniStored(u)
  BY <1>2 DEF EdgeDone, JniStored
<1>5. \A u \in Threads \ {t}, o \in Objects : Updating(u, o)' <=> Updating(u, o)
  BY <1>2, SameUpdating
<1>6. UpdateKnows(t) /\ Exclusive /\ \A u \in Threads : UpdateKnows(u)
  BY DEF ShadowInv
<1>7. /\ EdgeDone(t) => EdgeDone(t)' \/ pc'[t] = "idle"
      /\ EdgeDone(t)' /\ ~EdgeDone(t) => updateEdge(t)
      /\ updateEdge(t) => EdgeDone(t)' /\ ~EdgeDone(t)
      /\ JniStored(t) => JniStored(t)' \/ (pc'[t] = "idle" /\ EdgeDone(t))
      /\ JniStored(t)' => JniStored(t)
  BY <1>6, HookStaysAhead
<1>8. EdgeDone(t)' \/ JniStored(t)' => pc'[t] # "idle"
  BY DEF EdgeDone, JniStored
<1>9. \A u \in Threads : pc[u] # "idle" =>
        op[u].origin \in Objects /\ op[u].target \in Objects \cup {Null}
  BY TrackingAssumption DEF HooksKnow, UsableIn, Usable, TypeOK
<1>10. updateEdge(t) => /\ pc[t] = "updateEdge" /\ Updating(t, op[t].origin)
                        /\ \A u \in Threads \ {t} : ~Updating(u, op[t].origin)
  BY <1>6, UpdatesOwn DEF updateEdge
<1>11. ASSUME NEW o \in Objects, \A u \in Threads : Updating(u, o)' => ~Ahead(u)'
       PROVE  OutEdge(o)' \in {0, TagOf(field[o])'}
  <2>1. TagOf(field[o]) # 0 => TagOf(field[o])' = TagOf(field[o])
    BY <1>1, TagOfKept DEF TagOf, TypeOK
  <2>2. ~(updateEdge(t) /\ o = op[t].origin)
    BY <1>3, <1>7, <1>8, <1>10, <1>11 DEF Ahead, Updating
  <2>3. OutEdge(o)' \in {0, OutEdge(o)}
    BY <2>2, HookOutEdge
  <2>4. CASE \A u \in Threads : Updating(u, o) => ~Ahead(u)
    <3>1. OutEdge(o) \in {0, TagOf(field[o])}
      BY <2>4 DEF EdgesKnown
    <3> QED BY <2>1, <2>3, <3>1
  <2>5. CASE ~(\A u \in Threads : Updating(u, o) => ~Ahead(u))
    <3>1. PICK u \in Threads : Updating(u, o) /\ Ahead(u)
      BY <2>5
    <3>2. u = t
      BY <1>4, <1>5, <1>11, <3>1 DEF Ahead
    <3>3. pc'[t] = "idle" /\ EdgeDone(t) /\ op[t].origin = o
      <4>1. ~(Updating(t, o)' /\ Ahead(t)')
        BY <1>11
      <4>2. op[t].origin = o /\ op[t].kind \notin {"use", "new"}
        BY <3>1, <3>2 DEF Updating
      <4>3. Ahead(t)' => Updating(t, o)'
        BY <1>3, <1>8, <4>2 DEF Ahead, Updating
      <4> QED BY <1>7, <3>1, <3>2, <4>1, <4>2, <4>3 DEF Ahead
    <3>4. field[o] = op[t].target
      <4>1. pc[t] = "recordUpdate" /\ op[t].kind = "jniStore"
        BY <1>6, <3>3, HookPath, <1>8 DEF EdgeDone, Tagging, updateEdge
      <4> QED BY <1>6, <3>3, <4>1 DEF UpdateKnows, StoredFirst
    <3>5. OutEdge(o) \in {0, TagOf(field[o])}
      BY <3>3, <3>4 DEF EdgesKnown
    <3> QED BY <2>1, <2>3, <3>5
  <2> QED BY <2>4, <2>5
<1>12. ASSUME NEW u \in Threads, EdgeDone(u)'
       PROVE  OutEdge(op[u].origin)' \in {0, TagOf(op[u].target)'}
  <2>1. /\ op'[u].origin = op[u].origin /\ op'[u].target = op[u].target
        /\ op[u].origin \in Objects /\ op[u].target \in Objects \cup {Null}
    <3>1. CASE u = t
      <4>1. pc[t] # "idle"
        BY HookOps
      <4> QED BY <1>3, <1>8, <1>9, <1>12, <3>1, <4>1
    <3>2. CASE u # t
      BY <1>2, <1>4, <1>9, <1>12, <3>2 DEF EdgeDone
    <3> QED BY <3>1, <3>2
  <2> DEFINE o == op[u].origin
  <2> DEFINE x == op[u].target
  <2>2. TagOf(x) # 0 => tag'[x] = TagOf(x) /\ x # Null
    BY <2>1, TagOfKept
  <2> HIDE DEF o, x
  <2>3. \/ (IF tag'[o] \in nodes' THEN edge'[tag'[o]] ELSE 0) \in {0, OutEdge(o)}
        \/ updateEdge(t) /\ o = op[t].origin
           /\ (IF tag'[o] \in nodes' THEN edge'[tag'[o]] ELSE 0) = TagOf(op[t].target)
    BY <2>1, HookOutEdge DEF OutEdge, o
  <2>4. CASE EdgeDone(u)
    <3>1. OutEdge(o) \in {0, TagOf(x)}
      BY <2>4 DEF EdgesKnown, o, x
    <3>2. ~(updateEdge(t) /\ o = op[t].origin)
      <4>1. CASE u = t
        BY <1>7, <2>4, <4>1
      <4>2. CASE u # t
        BY <1>6, <1>10, <2>4, <4>2, EdgeDoneUpdates DEF o
      <4> QED BY <4>1, <4>2
    <3> QED BY <2>1, <2>2, <2>3, <3>1, <3>2 DEF OutEdge, TagOf, o, x
  <2>5. CASE ~EdgeDone(u)
    <3>1. u = t
      BY <1>4, <1>12, <2>5
    <3>2. UNCHANGED tag /\ updateEdge(t)
      BY <1>7, <1>12, <2>5, <3>1 DEF updateEdge, tagVars
    <3>3. (IF tag'[o] \in nodes' THEN edge'[tag'[o]] ELSE 0) \in {0, TagOf(x)}
      <4>1. /\ tag[o] \in nodes'
            /\ edge' = [edge EXCEPT ![tag[o]] = TagOf(x)]
        BY <3>1, <3>2 DEF updateEdge, o, x
      <4>2. tag[o] \in Tags
        BY <4>1 DEF TypeOK
      <4> QED BY <3>2, <4>1, <4>2 DEF TypeOK
    <3> QED BY <2>1, <3>2, <3>3 DEF OutEdge, TagOf, o, x
  <2> QED BY <2>4, <2>5
<1>13. ASSUME NEW u \in Threads, JniStored(u)', ~EdgeDone(u)'
       PROVE  OutEdge(op[u].origin)' \in {0} \cup contested'
  <2>1. JniStored(u) /\ ~EdgeDone(u) /\ op'[u].origin = op[u].origin
    BY <1>2, <1>3, <1>4, <1>7, <1>8, <1>13
  <2>2. op[u].origin \in Objects
    BY <1>9, <2>1 DEF JniStored
  <2> DEFINE o == op[u].origin
  <2>3. OutEdge(o) \in {0} \cup contested
    BY <2>1 DEF EdgesKnown
  <2> HIDE DEF o
  <2>4. ~(updateEdge(t) /\ o = op[t].origin)
    <3>1. CASE u = t
      BY <1>7, <1>13, <3>1
    <3>2. CASE u # t
      BY <1>10, <2>1, <3>2 DEF o, JniStored, Updating
    <3> QED BY <3>1, <3>2
  <2>5. (IF tag'[o] \in nodes' THEN edge'[tag'[o]] ELSE 0) \in {0, OutEdge(o)}
    BY <2>2, <2>4, HookOutEdge DEF OutEdge, o
  <2> QED BY <2>1, <2>3, <2>5 DEF OutEdge, o
<1> QED BY <1>11, <1>12, <1>13 DEF EdgesKnown

LEMMA HookOld ==
  ASSUME TypeOK, TypeOK', HooksKnow, TagsGiven, TagsKept, ShadowInv, EdgesKnown, OldKnown,
         contested \subseteq contested', NEW t \in Threads, Hook(t)
  PROVE  OldKnown'
<1>1. field' = field
  BY HookFrame
<1>2. \A u \in Threads \ {t} : op'[u] = op[u] /\ pc'[u] = pc[u]
  BY HookOps
<1>3. \A u \in Threads : pc[u] # "idle" => op[u].origin \in Objects
  BY TrackingAssumption DEF HooksKnow, UsableIn, Usable, TypeOK
<1>4. \A o \in Objects : TagOf(field[o]) # 0 => TagOf(field[o])' = TagOf(field[o])
  BY <1>1, TagOfKept DEF TagOf, TypeOK
<1>5. ASSUME NEW u \in Threads, pc[u] \in {"stampOld", "stampOldAgain"},
             op'[u] = op[u]
      PROVE  \/ op'[u].old \in {0} \cup contested'
             \/ op'[u].kind # "jniStore" /\ op'[u].old = TagOf(field[op[u].origin])'
  <2> DEFINE o == op[u].origin
  <2>1. o \in Objects /\ op'[u].origin = o
    BY <1>3, <1>5
  <2>2. \/ op[u].old \in {0} \cup contested
        \/ op[u].kind # "jniStore" /\ op[u].old = TagOf(field[o])
    BY <1>5 DEF OldKnown
  <2> HIDE DEF o
  <2>3. op[u].old = TagOf(field[o]) =>
          op[u].old = 0 \/ op[u].old = IF field'[o] = Null THEN 0 ELSE tag'[field'[o]]
    BY <1>4, <2>1 DEF TagOf
  <2> QED BY <1>5, <2>1, <2>2, <2>3 DEF TagOf
<1>6. CASE updateEdge(t)
  <2> DEFINE o == op[t].origin
  <2>1. /\ pc[t] = "updateEdge" /\ tag' = tag
        /\ op' = [op EXCEPT ![t].old = OutEdge(o)]
    BY <1>6 DEF updateEdge, tagVars, OutEdge
  <2>2. /\ op'[t].old = OutEdge(o) /\ op'[t].kind = op[t].kind /\ op'[t].origin = o
    BY <2>1 DEF TypeOK, Ops
  <2>3. \/ OutEdge(o) \in {0} \cup contested
        \/ op[t].kind # "jniStore" /\ OutEdge(o) = TagOf(field[o])
    <3>1. ~EdgeDone(t) /\ UpdateKnows(t)
      BY <2>1 DEF EdgeDone, ShadowInv
    <3>2. CASE op[t].kind = "jniStore"
      BY <2>1, <3>1, <3>2 DEF JniStored, EdgesKnown
    <3>3. CASE op[t].kind # "jniStore"
      <4>1. \A u \in Threads : Updating(u, o) => u = t
        BY <2>1, <3>1, UpdatesOwn DEF ShadowInv
      <4>2. o \in Objects /\ ~Ahead(t)
        BY <1>3, <2>1, <3>1, <3>3 DEF Ahead, JniStored
      <4> QED BY <3>3, <4>1, <4>2 DEF EdgesKnown
    <3> QED BY <3>2, <3>3
  <2> HIDE DEF o
  <2>4. ASSUME NEW u \in Threads, pc'[u] \in {"stampOld", "stampOldAgain"}
        PROVE  \/ op'[u].old \in {0} \cup contested'
               \/ op'[u].kind # "jniStore" /\ op'[u].old = TagOf(field[op[u].origin])'
    <3>1. CASE u = t
      BY <1>1, <2>1, <2>2, <2>3, <3>1 DEF TagOf
    <3>2. CASE u # t
      BY <1>2, <1>5, <2>4, <3>2
    <3> QED BY <3>1, <3>2
  <2> QED BY <2>4 DEF OldKnown
<1>7. CASE ~updateEdge(t)
  <2>1. pc'[t] \in {"stampOld", "stampOldAgain"} =>
          pc[t] \in {"stampOld", "stampOldAgain"} /\ op'[t] = op[t]
    <3>1. UpdateKnows(t)
      BY DEF ShadowInv
    <3>2. NextObject(t) /\ pc[t] \in Tagging => pc'[t] \notin {"stampOld", "stampOldAgain"}
      BY DEF NextObject, Goto, TagsKnown, TypeOK
    <3>3. StampOld(t) => pc[t] \in {"stampOld", "stampOldAgain"} /\ op' = op
      BY DEF StampOld
    <3>4. CASE /\ EdgeDone(t) /\ op'[t] = op[t] /\ UNCHANGED <<nodes, edge>>
               /\ \/ pc'[t] \in {"stampOldAgain", "recordUpdate"}
                  \/ pc'[t] = "store" /\ op[t].kind # "jniStore"
      <4>1. StampOld(t) \/ RecordUpdate(t)
        BY <3>4 DEF EdgeDone, Hook, GetTag, tagObject, Allocate, StampNew, addObjectToHeap,
                    StampUse, RecordUse, StampOrigin, updateEdge
      <4>2. RecordUpdate(t) => pc'[t] \in {"idle", "store"}
        BY DEF RecordUpdate, Return, Goto, TypeOK
      <4> QED BY <3>3, <4>1, <4>2
    <3> QED BY <1>7, <3>1, <3>2, <3>4, HookPath DEF Tagging
  <2> QED BY <1>2, <1>5, <2>1 DEF OldKnown
<1> QED BY <1>6, <1>7

\* Where the shadow heap is left alone or nodes are dropped, and no store is made.
LEMMA ElseEdges ==
  ASSUME TypeOK, EdgesKnown, OldKnown, contested \subseteq contested',
         UNCHANGED <<field, tag>>, \A o \in Objects : OutEdge(o)' \in {0, OutEdge(o)},
         \A u \in Threads : \/ op'[u] = op[u] /\ pc'[u] = pc[u]
                            \/ pc[u] = "idle" /\ ~Ahead(u)'
                               /\ pc'[u] \notin {"stampOld", "stampOldAgain"},
         HooksKnow
  PROVE  EdgesKnown' /\ OldKnown'
<1>1. ASSUME NEW o \in Objects, \A u \in Threads : Updating(u, o)' => ~Ahead(u)'
      PROVE  OutEdge(o)' \in {0, TagOf(field[o])'}
  <2>1. \A u \in Threads : Updating(u, o) => ~Ahead(u)
    BY <1>1 DEF Updating, Ahead, EdgeDone, JniStored
  <2>2. OutEdge(o) \in {0, TagOf(field[o])}
    BY <2>1 DEF EdgesKnown
  <2> QED BY <2>2 DEF TagOf
<1>2. \A u \in Threads : pc[u] # "idle" => op[u].origin \in Objects
  BY TrackingAssumption DEF HooksKnow, UsableIn, Usable, TypeOK
<1>3. ASSUME NEW u \in Threads, EdgeDone(u)'
      PROVE  OutEdge(op[u].origin)' \in {0, TagOf(op[u].target)'}
  <2>1. op'[u] = op[u] /\ EdgeDone(u) /\ op[u].origin \in Objects
    BY <1>2, <1>3 DEF EdgeDone, Ahead
  <2>2. OutEdge(op[u].origin) \in {0, TagOf(op[u].target)}
    BY <2>1 DEF EdgesKnown
  <2> DEFINE o == op[u].origin
  <2>3. OutEdge(o)' \in {0, OutEdge(o)} /\ op'[u].origin = o
    BY <2>1 DEF OutEdge
  <2> QED BY <2>1, <2>2, <2>3 DEF TagOf, OutEdge
<1>4. ASSUME NEW u \in Threads, JniStored(u)', ~EdgeDone(u)'
      PROVE  OutEdge(op[u].origin)' \in {0} \cup contested'
  <2>1. op'[u] = op[u] /\ JniStored(u) /\ ~EdgeDone(u) /\ op[u].origin \in Objects
    BY <1>2, <1>4 DEF EdgeDone, Ahead, JniStored
  <2>2. OutEdge(op[u].origin) \in {0} \cup contested
    BY <2>1 DEF EdgesKnown
  <2> QED BY <2>1, <2>2 DEF OutEdge
<1>5. OldKnown'
  BY DEF OldKnown, TagOf
<1> QED BY <1>1, <1>3, <1>4, <1>5 DEF EdgesKnown

LEMMA StoreEdges ==
  ASSUME TypeOK, TypeOK', HooksKnow, TagsKept, ShadowInv, EdgesKnown, OldKnown,
         NEW t \in Threads, Store(t)
  PROVE  EdgesKnown' /\ OldKnown'
<1> DEFINE o == op[t].origin
<1>1. /\ pc[t] = "store" /\ field' = [field EXCEPT ![o] = op[t].target]
      /\ UNCHANGED <<tag, nodes, edge>> /\ contested \subseteq contested'
      /\ op[t].kind = "jniStore" => TagOf(field[o]) \in contested'
      /\ \A u \in Threads \ {t} : op'[u] = op[u] /\ pc'[u] = pc[u]
      /\ UpdateKnows(t) /\ Exclusive
  BY DEF Store, Return, Goto, TypeOK, tagVars, shadow, ShadowInv
<1>2. o \in Objects /\ op[t].kind \in Updates /\ Updating(t, o)
  <2>1. op[t].kind \in Updates
    BY <1>1 DEF UpdateKnows, KindsFit
  <2> QED BY <1>1, <2>1, TrackingAssumption
          DEF Updating, Updates, HooksKnow, UsableIn, Usable, TypeOK
<1>3. field'[o] = op[t].target /\ \A p \in Objects \ {o} : field'[p] = field[p]
  BY <1>1, <1>2 DEF TypeOK
<1>4. \/ op[t].kind = "jniStore" /\ pc'[t] = "getTag" /\ op'[t] = op[t]
      \/ op[t].kind # "jniStore" /\ pc'[t] = "idle"
  BY DEF Store, Return, Goto, TypeOK
<1>5. \A u \in Threads \ {t} : ~Updating(u, o)
  BY <1>1, <1>2 DEF Exclusive
<1>6. \A p \in Objects : OutEdge(p)' = OutEdge(p)
  BY <1>1 DEF OutEdge
<1>7. \A u \in Threads \ {t} : pc[u] # "idle" /\ op[u].kind \in Updates =>
        op[u].origin \in Objects \ {o}
  <2> SUFFICES ASSUME NEW u \in Threads \ {t}, pc[u] # "idle", op[u].kind \in Updates
               PROVE  op[u].origin \in Objects \ {o}
    OBVIOUS
  <2>1. op[u].origin \in Objects
    BY TrackingAssumption DEF HooksKnow, UsableIn, Usable, TypeOK
  <2>2. Updating(u, op[u].origin)
    BY DEF Updating, Updates
  <2> QED BY <1>5, <2>1, <2>2
<1>8. /\ OutEdge(o) \in {0} \cup contested' \/ op[t].kind # "jniStore"
      /\ OutEdge(o) \in {0, TagOf(op[t].target)} \/ op[t].kind = "jniStore"
  <2>1. CASE op[t].kind = "jniStore"
    <3>1. ~Ahead(t)
      BY <1>1, <2>1 DEF Ahead, EdgeDone, JniStored
    <3>2. OutEdge(o) \in {0, TagOf(field[o])}
      BY <1>2, <1>5, <3>1 DEF EdgesKnown
    <3> QED BY <1>1, <2>1, <3>2
  <2>2. CASE op[t].kind # "jniStore"
    <3>1. EdgeDone(t)
      BY <1>1, <2>2 DEF EdgeDone
    <3> QED BY <2>2, <3>1 DEF EdgesKnown
  <2> QED BY <2>1, <2>2
<1> HIDE DEF o
<1>9. ASSUME NEW p \in Objects, \A u \in Threads : Updating(u, p)' => ~Ahead(u)'
      PROVE  OutEdge(p)' \in {0, TagOf(field[p])'}
  <2>1. CASE p = o
    <3>1. op[t].kind # "jniStore"
      <4>1. ~(Updating(t, p)' /\ Ahead(t)')
        BY <1>9
      <4> QED BY <1>4, <2>1, <4>1 DEF Updating, Ahead, JniStored, o
    <3> QED BY <1>1, <1>3, <1>6, <1>8, <2>1, <3>1 DEF TagOf
  <2>2. CASE p # o
    <3>1. ~Updating(t, p)
      BY <2>2 DEF Updating, o
    <3>2. \A u \in Threads : Updating(u, p) => ~Ahead(u)
      BY <1>1, <1>9, <3>1 DEF Updating, Ahead, EdgeDone, JniStored
    <3>3. OutEdge(p) \in {0, TagOf(field[p])}
      BY <3>2 DEF EdgesKnown
    <3> QED BY <1>1, <1>3, <1>6, <2>2, <3>3 DEF TagOf
  <2> QED BY <2>1, <2>2
<1>10. ASSUME NEW u \in Threads, EdgeDone(u)'
       PROVE  OutEdge(op[u].origin)' \in {0, TagOf(op[u].target)'}
  <2>1. u # t
    BY <1>4, <1>10 DEF EdgeDone
  <2>2. EdgeDone(u) /\ op'[u] = op[u]
    BY <1>1, <1>10, <2>1 DEF EdgeDone
  <2>3. OutEdge(op[u].origin) \in {0, TagOf(op[u].target)}
    BY <2>2 DEF EdgesKnown
  <2> QED BY <1>1, <2>2, <2>3 DEF OutEdge, TagOf
<1>11. ASSUME NEW u \in Threads, JniStored(u)', ~EdgeDone(u)'
       PROVE  OutEdge(op[u].origin)' \in {0} \cup contested'
  <2>1. CASE u = t
    <3>1. op[t].kind = "jniStore" /\ op'[t] = op[t]
      BY <1>4, <1>11, <2>1 DEF JniStored
    <3>2. op'[t].origin = o
      BY <3>1 DEF o
    <3> QED BY <1>1, <1>8, <2>1, <3>1, <3>2 DEF OutEdge
  <2>2. CASE u # t
    <3>1. JniStored(u) /\ ~EdgeDone(u) /\ op'[u] = op[u]
      BY <1>1, <1>11, <2>2 DEF EdgeDone, JniStored
    <3>2. OutEdge(op[u].origin) \in {0} \cup contested
      BY <3>1 DEF EdgesKnown
    <3> QED BY <1>1, <3>1, <3>2 DEF OutEdge
  <2> QED BY <2>1, <2>2
<1>12. ASSUME NEW u \in Threads, pc'[u] \in {"stampOld", "stampOldAgain"}
       PROVE  \/ op'[u].old \in {0} \cup contested'
              \/ op'[u].kind # "jniStore" /\ op'[u].old = TagOf(field[op[u].origin])'
  <2>1. u # t
    BY <1>4, <1>12
  <2>2. op'[u] = op[u] /\ pc[u] \in {"stampOld", "stampOldAgain"}
    BY <1>1, <1>12, <2>1
  <2>3. op[u].kind \in Updates
    BY <2>2 DEF ShadowInv, UpdateKnows, KindsFit, KnowsTags
  <2>4. field'[op[u].origin] = field[op[u].origin]
    BY <1>3, <1>7, <2>1, <2>2, <2>3
  <2> QED BY <1>1, <2>2, <2>4 DEF OldKnown, TagOf
<1> QED BY <1>9, <1>10, <1>11, <1>12 DEF EdgesKnown, OldKnown

LEMMA CallEdges ==
  ASSUME TypeOK, HooksKnow, EdgesKnown, OldKnown, NEW t \in Threads, NEW kind, NEW o, NEW x,
         NEW first \in {"getTag", "store"}, first = "store" <=> kind = "jniStore",
         Call(t, kind, o, x, first)
  PROVE  EdgesKnown' /\ OldKnown'
<1>1. /\ pc[t] = "idle" /\ pc'[t] = first
      /\ \A u \in Threads \ {t} : op'[u] = op[u] /\ pc'[u] = pc[u]
      /\ UNCHANGED <<field, tag, nodes, edge, contested>>
  BY DEF Call, Goto, TypeOK, tagVars, shadow, history
<1>2. op'[t].kind = kind
  BY DEF Call, TypeOK, NoOp
<1>3. ~Ahead(t)' /\ pc'[t] \notin {"stampOld", "stampOldAgain"}
  BY <1>1, <1>2 DEF Ahead, EdgeDone, JniStored
<1>4. \A p \in Objects : OutEdge(p)' = OutEdge(p)
  BY <1>1 DEF OutEdge
<1>5. \A u \in Threads : \/ op'[u] = op[u] /\ pc'[u] = pc[u]
                         \/ pc[u] = "idle" /\ ~Ahead(u)'
                            /\ pc'[u] \notin {"stampOld", "stampOldAgain"}
  BY <1>1, <1>3
<1> QED BY <1>1, <1>4, <1>5, ElseEdges

LEMMA ProgramEdges ==
  ASSUME TypeOK, TypeOK', HooksKnow, TagsKept, ShadowInv, EdgesKnown, OldKnown,
         NEW t \in Threads, Program(t)
  PROVE  EdgesKnown' /\ OldKnown'
<1>1. ASSUME UNCHANGED <<field, tag, nodes, edge, contested, op, pc>>
      PROVE  EdgesKnown' /\ OldKnown'
  <2>1. \A p \in Objects : OutEdge(p)' = OutEdge(p)
    BY <1>1 DEF OutEdge
  <2> QED BY <1>1, <2>1, ElseEdges
<1>2. ASSUME NEW o, NEW owes, Make(t, o, owes) PROVE EdgesKnown' /\ OldKnown'
  BY <1>1, <1>2 DEF Make, history, shadow, tagVars
<1>3. ASSUME NEW x, Read(t, x) PROVE EdgesKnown' /\ OldKnown'
  BY <1>1, <1>3 DEF Read, history, shadow, tagVars
<1>4. ASSUME NEW o, CallUse(t, o) PROVE EdgesKnown' /\ OldKnown'
  <2>1. Call(t, "use", o, Null, "getTag")
    BY <1>4 DEF CallUse
  <2> QED BY <2>1, CallEdges
<1>5. ASSUME CallNew(t) PROVE EdgesKnown' /\ OldKnown'
  <2>1. Call(t, "new", owed[t], Null, "getTag")
    BY <1>5 DEF CallNew
  <2> QED BY <2>1, CallEdges
<1>6. ASSUME NEW kind, NEW o, NEW x, CallUpdate(t, kind, o, x)
      PROVE  EdgesKnown' /\ OldKnown'
  <2>1. CASE kind = "jniStore"
    BY <1>6, <2>1, CallEdges DEF CallUpdate
  <2>2. CASE kind # "jniStore"
    BY <1>6, <2>2, CallEdges DEF CallUpdate
  <2> QED BY <2>1, <2>2
<1> QED BY <1>2, <1>3, <1>4, <1>5, <1>6, StoreEdges DEF Program

LEMMA CollectorEdges ==
  ASSUME TypeOK, HooksKnow, EdgesKnown, OldKnown, fakeAGC
  PROVE  EdgesKnown' /\ OldKnown'
<1>1. UNCHANGED <<field, tag, op, pc, contested>>
  BY CollectorFrame
<1>2. ASSUME NEW o \in Objects
      PROVE  OutEdge(o)' \in {0, OutEdge(o)}
  <2>1. CASE Report
    <3>1. /\ nodes' = nodes \ deadSet
          /\ edge' = [x \in Tags |-> IF x \in deadSet THEN 0 ELSE edge[x]]
      BY <2>1 DEF Report
    <3>2. tag[o] \in nodes => tag[o] \in Tags
      BY DEF TypeOK
    <3> QED BY <1>1, <3>1, <3>2 DEF OutEdge
  <2>2. CASE ~Report
    <3>1. UNCHANGED <<nodes, edge>>
      BY <2>2 DEF fakeAGC, ForceGarbageCollection, IterateThroughHeap, ScanTagTimeMap,
                  computeObjectDeathTimes, shadow
    <3> QED BY <1>1, <3>1 DEF OutEdge
  <2> QED BY <2>1, <2>2
<1> QED BY <1>1, <1>2, ElseEdges

LEMMA StepEdges ==
  ASSUME IInv, ShadowInv, EdgesKnown, OldKnown, [Next]_vars
  PROVE  EdgesKnown' /\ OldKnown'
<1>1. IInv' /\ TagsKept
  BY StepInv
<1> USE DEF IInv, HookInv
<1>2. ASSUME NEW t \in Threads, Hook(t) PROVE EdgesKnown' /\ OldKnown'
  <2>1. contested \subseteq contested'
    BY TagsChange
  <2> QED BY <1>1, <1>2, <2>1, HookEdges, HookOld
<1>3. ASSUME NEW t \in Threads, Program(t) PROVE EdgesKnown' /\ OldKnown'
  BY <1>1, <1>3, ProgramEdges
<1>4. CASE fakeAGC
  BY <1>4, CollectorEdges
<1>5. CASE UNCHANGED vars
  <2>1. UNCHANGED <<field, tag, nodes, edge, contested, op, pc>>
    BY <1>5 DEF vars, heapVars, tagVars, shadow, history
  <2>2. \A o \in Objects : OutEdge(o)' = OutEdge(o)
    BY <2>1 DEF OutEdge
  <2> QED BY <2>1, <2>2, ElseEdges
<1> QED BY <1>2, <1>3, <1>4, <1>5 DEF Next

-----------------------------------------------------------------------------
(* The window between the walk and the scan.                               *)

\* As long as fakeAGC runs, no record is added.
NoRoom == gc # "idle" => room = 0

\* The tagged objects are in tagTimeMap and in the shadow heap, or a hook is about to
\* put them there; also those that were reported dead and are not.
Kept(o) ==
  /\ tag[o] \in keys \/ \E t \in Threads : WillStamp(t, o)
  /\ tag[o] \in nodes \/ \E t \in Threads : WillAddNode(t, o)

\* What is there and is taken for dead has just got its tag.
WindowHeld ==
  /\ gc = "walked" => \A o \in made : tag[o] \notin liveObjects \cup {0} =>
       o \in collected \/ \E t \in Threads : WillRecord(t, o)
  /\ gc = "walked" => \A o \in collected : tag[o] \notin liveObjects
  /\ gc # "walked" => liveObjects = {}
  /\ gc \in {"idle", "forced", "walked"} => deadSet = {}
  /\ \A o \in made \ collected : tag[o] \in deadSet => \E t \in Threads : WillRecord(t, o)
  /\ liveObjects \cup deadSet \subseteq Given

WindowInv ==
  /\ NoRoom /\ WindowHeld
  /\ \A o \in made \ collected : tag[o] # 0 => Kept(o)

LEMMA InitWindow == Init => WindowInv
<1> SUFFICES ASSUME Init PROVE WindowInv
  OBVIOUS
<1>1. \A o \in made : tag[o] = 0
  BY TrackingAssumption DEF Init
<1>2. gc = "idle" /\ deadSet = {} /\ liveObjects = {}
  BY DEF Init
<1>3. WindowHeld
  BY <1>2 DEF WindowHeld
<1> QED BY <1>1, <1>2, <1>3 DEF WindowInv, NoRoom

\* A hook works on objects that are not collected.
LEMMA HookObjectsLive ==
  ASSUME TypeOK, HooksKnow, OutOfReach, NEW t \in Threads, pc[t] # "idle"
  PROVE  /\ op[t].origin \in made \ collected /\ op[t].origin \in Reachable
         /\ op[t].target \in (made \ collected) \cup {Null}
         /\ pc[t] \in Tagging => Subject(t) \in made \ collected /\ Subject(t) \in Reachable
<1>1. /\ op[t].origin \in Usable(t) /\ op[t].target \in Usable(t) \cup {Null}
      /\ Usable(t) \subseteq Reachable
  BY UsableReachable DEF HooksKnow, UsableIn
<1>2. pc[t] \in Tagging => Subject(t) \in {op[t].origin, op[t].target} \ {Null}
  <2> SUFFICES ASSUME pc[t] \in Tagging
               PROVE  Subject(t) \in {op[t].origin, op[t].target} \ {Null}
    OBVIOUS
  <2>1. UntaggedIn(t) /\ op[t].origin # Null
    BY <1>1 DEF HooksKnow, Usable
  <2>2. CASE op[t].untagged = <<op[t].origin>>
    BY <2>1, <2>2 DEF Subject
  <2>3. CASE op[t].untagged = <<op[t].origin, op[t].target>> /\ op[t].target # Null
    BY <2>1, <2>3 DEF Subject
  <2>4. CASE op[t].untagged = <<op[t].target>> /\ op[t].target # Null
    BY <2>4 DEF Subject
  <2> QED BY <2>1, <2>2, <2>3, <2>4 DEF UntaggedIn
<1> QED BY <1>1, <1>2 DEF OutOfReach

\* Who is about to record an allocation waits for room.
LEMMA WaitsForRoom ==
  ASSUME TypeOK, NEW t \in Threads, Hook(t), room = 0
  PROVE  pc[t] # "allocate" /\ room' = room
BY DEF Hook, GetTag, tagObject, Allocate, StampNew, addObjectToHeap, StampUse, RecordUse,
       StampOrigin, updateEdge, StampOld, RecordUpdate

LEMMA HookWindow ==
  ASSUME TypeOK, TypeOK', HooksKnow, TagsGiven, TagsKept, OutOfReach, NewAlone,
         Given \subseteq Given', WindowInv, NEW t \in Threads, Hook(t)
  PROVE  WindowInv'
<1>1. UNCHANGED <<made, collected, liveObjects, deadSet, gc>>
  BY HookFrame
<1>2. \A u \in Threads \ {t} : op'[u] = op[u] /\ pc'[u] = pc[u]
  BY HookOps
<1>3. NoRoom'
  BY <1>1, WaitsForRoom DEF NoRoom, WindowInv
<1>4. ASSUME NEW o \in Objects, tag[o] = 0, tag'[o] # 0
      PROVE  WillRecord(t, o)' /\ tag'[o] \notin Given /\ o \in made \ collected
  <2>1. tagObject(t)
    BY <1>4, HookTags
  <2>2. tag'[o] = nextTag /\ o = Subject(t) /\ pc[t] = "tagObject"
    BY <1>4, <2>1 DEF tagObject, TypeOK
  <2>3. nextTag \notin Given
    BY DEF Given, TypeOK
  <2> QED BY <1>4, <2>1, <2>2, <2>3, TagStartsRecords, HookObjectsLive DEF Tagging
<1>5. ASSUME gc # "idle", NEW o \in Objects, NEW u \in Threads, WillRecord(u, o)
      PROVE  WillRecord(u, o)'
  <2>1. u # t
    BY <1>5, WaitsForRoom DEF NoRoom, WindowInv, WillRecord
  <2> QED BY <1>2, <1>5, <2>1, StillWill
<1>6. WindowHeld'
  <2>1. ASSUME gc = "walked", NEW o \in made, tag'[o] \notin liveObjects \cup {0}, o \notin collected
        PROVE  \E u \in Threads : WillRecord(u, o)'
    <3>1. o \in Objects
      BY DEF TypeOK
    <3>2. CASE tag[o] = 0
      BY <1>4, <2>1, <3>1, <3>2
    <3>3. CASE tag[o] # 0
      <4>1. tag'[o] = tag[o]
        BY <3>1, <3>3 DEF TagsKept
      <4>2. \E u \in Threads : WillRecord(u, o)
        BY <2>1, <3>3, <4>1 DEF WindowInv, WindowHeld
      <4> QED BY <1>5, <2>1, <3>1, <4>2
    <3> QED BY <3>2, <3>3
  <2>2. ASSUME gc = "walked", NEW o \in collected
        PROVE  tag'[o] \notin liveObjects
    <3>1. o \in Objects
      BY DEF TypeOK
    <3>2. tag'[o] = tag[o]
      <4>1. tag[o] = 0 => tag'[o] = 0
        BY <1>4, <2>2, <3>1
      <4> QED BY <3>1, <4>1 DEF TagsKept
    <3> QED BY <2>2, <3>2 DEF WindowInv, WindowHeld
  <2>3. ASSUME NEW o \in made \ collected, tag'[o] \in deadSet
        PROVE  \E u \in Threads : WillRecord(u, o)'
    <3>1. o \in Objects
      BY DEF TypeOK
    <3>2. tag[o] # 0
      <4>1. tag'[o] # 0 /\ tag'[o] \in Given
        BY <2>3 DEF TypeOK, Tags, WindowInv, WindowHeld
      <4> QED BY <1>4, <3>1, <4>1
    <3>3. tag'[o] = tag[o]
      BY <3>1, <3>2 DEF TagsKept
    <3>4. gc # "idle" /\ \E u \in Threads : WillRecord(u, o)
      BY <2>3, <3>3 DEF WindowInv, WindowHeld
    <3> QED BY <1>5, <3>1, <3>4
  <2> QED BY <1>1, <2>1, <2>2, <2>3 DEF WindowInv, WindowHeld
<1>7. ASSUME NEW o \in made \ collected, tag'[o] # 0
      PROVE  Kept(o)'
  <2>1. o \in Objects
    BY DEF TypeOK
  <2>2. CASE tag[o] = 0
    <3>1. WillRecord(t, o)'
      BY <1>4, <1>7, <2>1, <2>2
    <3> QED BY <3>1 DEF Kept, WillStamp, WillAddNode
  <2>3. CASE tag[o] # 0
    <3>1. tag'[o] = tag[o] /\ Kept(o)
      BY <1>7, <2>1, <2>3 DEF TagsKept, WindowInv
    <3>2. /\ keys \subseteq keys' /\ nodes \subseteq nodes'
          /\ WillStamp(t, o) => WillStamp(t, o)' \/ tag[o] \in keys'
          /\ WillAddNode(t, o) => WillAddNode(t, o)' \/ tag[o] \in nodes'
      BY <2>1, <2>3, HookAdds
    <3>3. \A u \in Threads \ {t} : /\ WillStamp(u, o) => WillStamp(u, o)'
                                   /\ WillAddNode(u, o) => WillAddNode(u, o)'
      BY <1>2, StillWill
    <3> QED BY <3>1, <3>2, <3>3 DEF Kept
  <2> QED BY <2>2, <2>3
<1> QED BY <1>1, <1>3, <1>6, <1>7 DEF WindowInv

LEMMA ProgramWindow ==
  ASSUME TypeOK, TagsGiven, WindowInv, NEW t \in Threads, Program(t)
  PROVE  WindowInv'
<1>1. UNCHANGED <<tag, nextTag, keys, nodes, liveObjects, deadSet, gc, collected>>
      /\ made \subseteq made' /\ made' \subseteq Objects
  <2>1. made' \subseteq Objects
    BY DEF Program, Make, Read, CallUse, CallNew, CallUpdate, Call, Store, TypeOK
  <2> QED BY <2>1, ProgramFrame
<1>2. room' = room
  <2>1. ASSUME NEW kind, NEW o, NEW x, NEW first, Call(t, kind, o, x, first) PROVE room' = room
    BY <2>1 DEF Call
  <2> QED BY <2>1 DEF Program, Make, Read, CallUse, CallNew, CallUpdate, Store
<1>3. \A u \in Threads : \/ op'[u] = op[u] /\ pc'[u] = pc[u]
                         \/ pc[u] \in {"idle", "store"}
  BY ProgramAllocates
<1>4. \A u \in Threads, o \in Objects : /\ WillRecord(u, o) => WillRecord(u, o)'
                                        /\ WillStamp(u, o) => WillStamp(u, o)'
                                        /\ WillAddNode(u, o) => WillAddNode(u, o)'
  <2> TAKE u \in Threads, o \in Objects
  <2>1. CASE op'[u] = op[u] /\ pc'[u] = pc[u]
    BY <2>1, StillWill
  <2>2. CASE pc[u] \in {"idle", "store"}
    BY <2>2 DEF WillRecord, WillStamp, WillAddNode
  <2> QED BY <1>3, <2>1, <2>2
<1>5. \A o \in made' : tag[o] # 0 => o \in made
  BY <1>1 DEF TagsGiven
<1>6. WindowHeld'
  <2>1. ASSUME NEW o \in made', tag'[o] \in deadSet, o \notin collected
        PROVE  \E u \in Threads : WillRecord(u, o)'
    <3>1. o \in Objects /\ tag[o] # 0
      BY <1>1, <2>1 DEF TypeOK, Tags
    <3> QED BY <1>1, <1>4, <1>5, <2>1, <3>1 DEF WindowInv, WindowHeld
  <2>2. ASSUME gc = "walked", NEW o \in made', tag'[o] \notin liveObjects \cup {0},
               o \notin collected
        PROVE  \E u \in Threads : WillRecord(u, o)'
    BY <1>1, <1>4, <1>5, <2>2 DEF WindowInv, WindowHeld
  <2> QED BY <1>1, <2>1, <2>2 DEF WindowInv, WindowHeld, Given
<1>7. ASSUME NEW o \in made' \ collected, tag'[o] # 0
      PROVE  Kept(o)'
  BY <1>1, <1>4, <1>5, <1>7 DEF WindowInv, Kept
<1> QED BY <1>1, <1>2, <1>6, <1>7 DEF WindowInv, NoRoom

LEMMA CollectorWindow ==
  ASSUME TypeOK, TagsGiven, TablesGiven, OutOfReach, WindowInv, fakeAGC
  PROVE  WindowInv'
<1>1. UNCHANGED <<made, tag, nextTag, op, pc>> /\ collected \subseteq collected'
  BY CollectorFrame, StepCollected DEF Next
<1>2. \A u \in Threads, o \in Objects : /\ WillRecord(u, o)' <=> WillRecord(u, o)
                                        /\ WillStamp(u, o)' <=> WillStamp(u, o)
                                        /\ WillAddNode(u, o)' <=> WillAddNode(u, o)
  BY <1>1 DEF WillRecord, WillStamp, WillAddNode, Subject
<1>3. Given' = Given /\ made \subseteq Objects
  BY <1>1 DEF Given, TypeOK
<1>4. ASSUME keys \subseteq keys', nodes \subseteq nodes'
      PROVE  \A o \in made' \ collected' : tag'[o] # 0 => Kept(o)'
  <2> SUFFICES ASSUME NEW o \in made' \ collected', tag'[o] # 0 PROVE Kept(o)'
    OBVIOUS
  <2>1. o \in Objects /\ Kept(o)
    BY <1>1, <1>3 DEF WindowInv
  <2> QED BY <1>1, <1>2, <1>4, <2>1 DEF Kept
<1>5. CASE ForceGarbageCollection
  <2>1. /\ gc = "idle" /\ gc' = "forced" /\ room = 0
        /\ UNCHANGED <<keys, nodes, room, liveObjects, deadSet>>
    BY <1>5 DEF ForceGarbageCollection, BufferIsFull, shadow
  <2>2. WindowHeld'
    BY <1>3, <2>1 DEF WindowHeld, WindowInv
  <2> QED BY <1>4, <2>1, <2>2 DEF WindowInv, NoRoom
<1>6. CASE IterateThroughHeap
  <2>1. /\ gc = "forced" /\ gc' = "walked" /\ liveObjects' = liveObjects \cup TagsInHeap
        /\ UNCHANGED <<keys, nodes, room, deadSet, collected>>
    BY <1>6 DEF IterateThroughHeap, shadow, heapVars
  <2>2. liveObjects' = {tag[o] : o \in made \ collected} \ {0} /\ deadSet = {}
    BY <2>1 DEF WindowInv, WindowHeld, TagsInHeap
  <2>3. \A o \in made : tag[o] \notin liveObjects' \cup {0} => o \in collected
    BY <2>2
  <2>4. \A o \in collected : tag[o] \notin liveObjects'
    BY <1>3, <2>2 DEF TagsGiven, TypeOK
  <2>5. liveObjects' \subseteq Given
    BY <1>3, <2>2 DEF TagsGiven
  <2>6. WindowHeld'
    BY <1>1, <1>3, <2>1, <2>2, <2>3, <2>4, <2>5 DEF WindowHeld
  <2> QED BY <1>4, <2>1, <2>6 DEF WindowInv, NoRoom
<1>7. CASE ScanTagTimeMap
  <2>1. /\ gc = "walked" /\ gc' = "scanned" /\ liveObjects' = {}
        /\ deadSet' = deadSet \cup ((keys \ liveObjects) \ {0})
        /\ UNCHANGED <<keys, nodes, room, collected>>
    BY <1>7 DEF ScanTagTimeMap, ObjectFree, LiveCleared, shadow, heapVars
  <2>2. deadSet' = (keys \ liveObjects) \ {0}
    BY <2>1 DEF WindowInv, WindowHeld
  <2>3. ASSUME NEW o \in made \ collected, tag[o] \in deadSet'
        PROVE  \E u \in Threads : WillRecord(u, o)'
    <3>1. o \in Objects /\ tag[o] \notin liveObjects \cup {0}
      BY <1>3, <2>2, <2>3 DEF TypeOK, Tags
    <3> QED BY <1>2, <2>1, <2>3, <3>1 DEF WindowInv, WindowHeld
  <2>4. WindowHeld'
    BY <1>1, <1>3, <2>1, <2>2, <2>3 DEF WindowHeld, TablesGiven
  <2> QED BY <1>4, <2>1, <2>4 DEF WindowInv, NoRoom
<1>8. CASE computeObjectDeathTimes
  <2>1. /\ gc = "scanned" /\ gc' = "timed" /\ keys \subseteq keys'
        /\ UNCHANGED <<nodes, room, liveObjects, deadSet, collected>>
    BY <1>8 DEF computeObjectDeathTimes, shadow, heapVars
  <2>2. WindowHeld'
    BY <1>1, <1>2, <1>3, <2>1 DEF WindowHeld, WindowInv
  <2> QED BY <1>4, <2>1, <2>2 DEF WindowInv, NoRoom
<1>9. CASE Report
  <2>1. /\ gc = "timed" /\ gc' = "idle" /\ deadSet' = {} /\ UNCHANGED <<liveObjects, collected>>
        /\ keys' = keys \ deadSet /\ nodes' = nodes \ deadSet
    BY <1>9 DEF Report, Forgotten, heapVars
  <2>2. WindowHeld'
    BY <1>3, <2>1 DEF WindowHeld, WindowInv
  <2>3. ASSUME NEW o \in made' \ collected', tag'[o] # 0
        PROVE  Kept(o)'
    <3>1. o \in Objects /\ Kept(o)
      BY <1>1, <1>3, <2>3 DEF WindowInv
    <3>2. CASE tag[o] \in deadSet
      <4>1. \E u \in Threads : WillRecord(u, o)
        BY <1>1, <2>3, <3>2 DEF WindowInv, WindowHeld
      <4> QED BY <1>2, <3>1, <4>1 DEF Kept, WillStamp, WillAddNode
    <3>3. CASE tag[o] \notin deadSet
      BY <1>1, <1>2, <2>1, <3>1, <3>3 DEF Kept
    <3> QED BY <3>2, <3>3
  <2> QED BY <2>1, <2>2, <2>3 DEF WindowInv, NoRoom
<1> QED BY <1>5, <1>6, <1>7, <1>8, <1>9 DEF fakeAGC

LEMMA StepWindow ==
  ASSUME IInv, RecordInv, WindowInv, [Next]_vars
  PROVE  WindowInv'
<1>1. IInv' /\ TagsKept
  BY StepInv
<1> USE DEF IInv, HookInv
<1>2. Given \subseteq Given'
  <2>1. \A t \in Threads : pc[t] \in Tagging => Subject(t) \in made
    BY SubjectMade
  <2> QED BY <2>1, StepTags DEF TypeOK
<1>3. ASSUME NEW t \in Threads, Hook(t) PROVE WindowInv'
  BY <1>1, <1>2, <1>3, HookWindow DEF RecordInv
<1>4. ASSUME NEW t \in Threads, Program(t) PROVE WindowInv'
  BY <1>4, ProgramWindow
<1>5. CASE fakeAGC
  BY <1>5, CollectorWindow
<1>6. CASE UNCHANGED vars
  BY <1>6 DEF vars, heapVars, tagVars, shadow, WindowInv, NoRoom, WindowHeld, Kept, Given,
              WillRecord, WillStamp, WillAddNode, Subject
<1> QED BY <1>3, <1>4, <1>5, <1>6 DEF Next

-----------------------------------------------------------------------------
(* The dead.                                                               *)

\* What was collected and is not yet reported is on the way to the report.
Marked(o) ==
  \/ gc \in {"forced", "walked"} /\ tag[o] \in keys
  \/ gc \in {"scanned", "timed"} /\ tag[o] \in deadSet

Forgot(o) ==
  /\ deaths[tag[o]] > 0 /\ tag[o] \notin nodes
  /\ tag[o] \notin contested \cup revived => tag[o] \notin keys

\* A slot of an object that was not collected refers to no object that was.
SlotsLive == \A o \in made \ collected : field[o] \notin collected

CollectedKnown ==
  \A o \in collected : tag[o] # 0 =>
    /\ Marked(o) \/ Forgot(o)
    /\ tag[o] \in nodes /\ field[o] \in collected /\ tag[field[o]] # 0 => Marked(field[o])

ReportedOnce ==
  \A x \in Tags \ (contested \cup revived) :
    /\ x \in keys \cup deadSet => deaths[x] = 0
    /\ deaths[x] <= 1

DeadInv == SlotsLive /\ CollectedKnown /\ ReportedOnce

LEMMA InitDead == Init => DeadInv
BY DEF Init, DeadInv, SlotsLive, CollectedKnown, ReportedOnce

\* Only what is collected itself can have an edge to something that was collected.
LEMMA EdgeToCollected ==
  ASSUME TypeOK, HooksKnow, TagsGiven, OutOfReach, EdgesKnown, SlotsLive,
         NEW p \in Objects, NEW o \in collected, tag[o] # 0, tag[o] \notin contested,
         OutEdge(p) = tag[o]
  PROVE  p \in collected /\ field[p] = o
<1>1. o \in Objects /\ o # Null
  BY TrackingAssumption DEF TypeOK
<1>2. \A q \in Objects \cup {Null} : TagOf(q) = tag[o] => q = o
  BY <1>1 DEF TagOf, TagsGiven
<1>3. CASE \A t \in Threads : Updating(t, p) => ~Ahead(t)
  <2>1. TagOf(field[p]) = tag[o] /\ field[p] \in Objects \cup {Null}
    BY <1>3 DEF EdgesKnown, TypeOK
  <2>2. field[p] = o
    BY <1>2, <2>1
  <2> QED BY <1>1, <2>2 DEF SlotsLive, OutOfReach
<1>4. ASSUME NEW t \in Threads, Updating(t, p), Ahead(t)
      PROVE  FALSE
  <2>1. op[t].origin = p /\ pc[t] # "idle"
    BY <1>4 DEF Updating
  <2>2. CASE EdgeDone(t)
    <3>1. TagOf(op[t].target) = tag[o]
      BY <2>1, <2>2 DEF EdgesKnown
    <3>2. op[t].target \in (made \ collected) \cup {Null}
      BY <2>1, HookObjectsLive
    <3>3. op[t].target \in Objects \cup {Null}
      BY <3>2 DEF TypeOK
    <3>4. op[t].target = o
      BY <1>2, <3>1, <3>3
    <3> QED BY <1>1, <3>2, <3>4
  <2>3. CASE JniStored(t) /\ ~EdgeDone(t)
    BY <2>1, <2>3 DEF EdgesKnown
  <2> QED BY <1>4, <2>2, <2>3 DEF Ahead
<1> QED BY <1>3, <1>4

\* A hook stamps what is not collected, or the contested old target of a JNI store, and
\* gives nodes to what is not collected.
LEMMA HookStamps ==
  ASSUME TypeOK, HooksKnow, OutOfReach, SlotsLive, OldKnown, NEW t \in Threads, Hook(t)
  PROVE  /\ \A x \in keys' \ keys : x \in contested \/ \E p \in made \ collected : tag[p] = x
         /\ \A x \in nodes' \ nodes : \E p \in made \ collected : tag[p] = x
<1>1. /\ pc[t] # "idle" /\ op[t].origin \in made \ collected /\ op[t].origin \in Reachable
      /\ pc[t] \in Tagging => Subject(t) \in made \ collected
  BY HookOps, HookObjectsLive
<1>2. CASE StampNew(t)
  <2>1. pc[t] \in Tagging /\ keys' \subseteq keys \cup {tag[Subject(t)]} /\ nodes' = nodes
    BY <1>2 DEF StampNew, timeStampTag, Tagging, shadow
  <2> QED BY <1>1, <2>1
<1>3. CASE addObjectToHeap(t)
  <2>1. pc[t] \in Tagging /\ nodes' = nodes \cup {tag[Subject(t)]} /\ keys' = keys
    BY <1>3 DEF addObjectToHeap, addNode, Tagging
  <2> QED BY <1>1, <2>1
<1>4. CASE StampUse(t) \/ StampOrigin(t)
  <2>1. keys' \subseteq keys \cup {tag[op[t].origin]} /\ nodes' = nodes
    BY <1>4 DEF StampUse, StampOrigin, timeStampTag, shadow
  <2> QED BY <1>1, <2>1
<1>5. CASE updateEdge(t)
  <2>1. nodes' = nodes \cup {tag[op[t].origin]} /\ keys' = keys
    BY <1>5 DEF updateEdge
  <2> QED BY <1>1, <2>1
<1>6. CASE StampOld(t)
  <2>1. /\ pc[t] \in {"stampOld", "stampOldAgain"} /\ nodes' = nodes
        /\ \A x \in keys' \ keys : x = op[t].old /\ x # 0
    BY <1>6 DEF StampOld, timeStampTag, shadow
  <2>2. \/ op[t].old \in {0} \cup contested
        \/ op[t].old = TagOf(field[op[t].origin])
    BY <2>1 DEF OldKnown
  <2>3. field[op[t].origin] # Null => field[op[t].origin] \in made \ collected
    BY <1>1, ReachableClosed DEF OutOfReach, SlotsLive
  <2> QED BY <2>1, <2>2, <2>3 DEF TagOf
<1>7. CASE GetTag(t) \/ tagObject(t) \/ Allocate(t) \/ RecordUse(t) \/ RecordUpdate(t)
  <2>1. keys' = keys /\ nodes' = nodes
    BY <1>7 DEF GetTag, tagObject, Allocate, RecordUse, RecordUpdate, shadow
  <2> QED BY <2>1
<1> QED BY <1>2, <1>3, <1>4, <1>5, <1>6, <1>7 DEF Hook

LEMMA HookDead ==
  ASSUME TypeOK, TypeOK', HooksKnow, TagsGiven, TagsKept, OutOfReach, DeathsTrue, OldKnown,
         DeadInv, contested \subseteq contested', NEW t \in Threads, Hook(t)
  PROVE  DeadInv'
<1>1. UNCHANGED <<field, made, collected, deadSet, gc, deaths, revived>>
  BY HookFrame
<1>2. /\ \A x \in keys' \ keys : x \in contested \/ \E p \in made \ collected : tag[p] = x
      /\ \A x \in nodes' \ nodes : \E p \in made \ collected : tag[p] = x
  BY HookStamps DEF DeadInv
<1>3. keys \subseteq keys'
  BY DEF Hook, GetTag, tagObject, Allocate, StampNew, addObjectToHeap, StampUse, RecordUse,
         StampOrigin, updateEdge, StampOld, RecordUpdate, timeStampTag
<1>4. made \subseteq Objects /\ collected \subseteq Objects /\ keys' \subseteq Tags \cup {0}
  BY DEF TypeOK
<1>5. \A o \in collected : tag'[o] = tag[o]
  <2> SUFFICES ASSUME NEW o \in collected, tag[o] = 0 PROVE tag'[o] = 0
    BY <1>4 DEF TagsKept
  <2>1. ~tagObject(t) => tag' = tag
    BY HookTags
  <2>2. tagObject(t) => Subject(t) # o
    BY HookObjectsLive DEF tagObject, Tagging
  <2>3. tagObject(t) => tag'[o] = tag[o]
    BY <1>4, <2>2 DEF tagObject, TypeOK
  <2> QED BY <2>1, <2>3
<1>6. \A o \in collected, p \in made \ collected : tag[o] # 0 => tag[p] # tag[o]
  BY <1>4 DEF TagsGiven
<1>7. SlotsLive'
  BY <1>1 DEF DeadInv, SlotsLive
<1>8. \A o \in collected : Marked(o) => Marked(o)'
  BY <1>1, <1>3, <1>5 DEF Marked
<1>9. ASSUME NEW o \in collected, tag[o] # 0
      PROVE  /\ Forgot(o) => Forgot(o)'
             /\ tag[o] \in nodes' => tag[o] \in nodes
  BY <1>1, <1>2, <1>5, <1>6, <1>9 DEF Forgot
<1>10. CollectedKnown'
  <2> SUFFICES ASSUME NEW o \in collected, tag[o] # 0
               PROVE  /\ Marked(o)' \/ Forgot(o)'
                      /\ tag[o] \in nodes' /\ field[o] \in collected /\ tag'[field[o]] # 0
                           => Marked(field[o])'
    BY <1>1, <1>5 DEF CollectedKnown
  <2>1. Marked(o)' \/ Forgot(o)'
    BY <1>8, <1>9 DEF DeadInv, CollectedKnown
  <2>2. ASSUME tag[o] \in nodes', field[o] \in collected, tag'[field[o]] # 0
        PROVE  Marked(field[o])'
    <3>1. Marked(field[o])
      BY <1>5, <1>9, <2>2 DEF DeadInv, CollectedKnown
    <3> QED BY <1>1, <1>3, <1>5, <2>2, <3>1 DEF Marked
  <2> QED BY <2>1, <2>2
<1>11. ReportedOnce'
  <2> SUFFICES ASSUME NEW x \in Tags \ (contested \cup revived), x \in keys' \ keys
               PROVE  deaths[x] = 0
    BY <1>1 DEF DeadInv, ReportedOnce
  <2>1. PICK p \in made \ collected : tag[p] = x
    BY <1>2
  <2>2. deaths[x] \in Nat /\ x # 0
    <3>1. x \in Tags
      OBVIOUS
    <3>2. deaths[x] \in Nat
      BY <3>1 DEF TypeOK
    <3> QED BY <3>1, <3>2 DEF Tags
  <2>3. ~(deaths[x] > 0)
    BY <1>6, <2>1, <2>2 DEF DeathsTrue
  <2> QED BY <2>2, <2>3
<1> QED BY <1>7, <1>10, <1>11 DEF DeadInv

LEMMA ProgramDead ==
  ASSUME TypeOK, HooksKnow, OutOfReach, DeadInv, NEW t \in Threads, Program(t)
  PROVE  DeadInv'
<1>1. /\ UNCHANGED <<tag, nextTag, keys, nodes, liveObjects, deadSet, gc, deaths, collected,
                     revived>>
      /\ made \subseteq made' /\ contested \subseteq contested' /\ made' \subseteq Objects
  <2>1. made' \subseteq Objects
    BY DEF Program, Make, Read, CallUse, CallNew, CallUpdate, Call, Store, TypeOK
  <2> QED BY <2>1, ProgramFrame
<1>2. Null \notin collected /\ collected \subseteq Objects
  BY TrackingAssumption DEF TypeOK
<1>3. \A o \in Objects : \/ field'[o] = field[o]
                         \/ o \notin collected /\ field'[o] \notin collected
  <2>1. CASE Store(t)
    <3>1. pc[t] # "idle" /\ field' = [field EXCEPT ![op[t].origin] = op[t].target]
      BY <2>1 DEF Store
    <3>2. op[t].origin \notin collected /\ op[t].target \notin collected
      BY <1>2, <3>1, HookObjectsLive
    <3> QED BY <3>1, <3>2 DEF TypeOK
  <2>2. CASE ~Store(t)
    <3>1. ASSUME NEW kind, NEW o, NEW x, NEW first, Call(t, kind, o, x, first)
          PROVE  field' = field
      BY <3>1 DEF Call
    <3>2. field' = field
      BY <2>2, <3>1 DEF Program, Make, Read, CallUse, CallNew, CallUpdate
    <3> QED BY <3>2
  <2> QED BY <2>1, <2>2
<1>4. SlotsLive'
  <2> SUFFICES ASSUME NEW o \in made' \ collected PROVE field'[o] \notin collected
    BY <1>1 DEF SlotsLive
  <2>1. field[o] \notin collected
    BY <1>1, <1>2 DEF DeadInv, SlotsLive, OutOfReach
  <2> QED BY <1>1, <1>3, <2>1
<1>5. CollectedKnown'
  <2>1. \A o \in collected : field'[o] = field[o]
    BY <1>2, <1>3
  <2> QED BY <1>1, <2>1 DEF DeadInv, CollectedKnown, Marked, Forgot
<1>6. ReportedOnce'
  BY <1>1 DEF DeadInv, ReportedOnce
<1> QED BY <1>4, <1>5, <1>6 DEF DeadInv

\* The search gives no default stamp to what was reported before, unless it follows an
\* outdated nullList.
LEMMA SearchDead ==
  ASSUME TypeOK, HooksKnow, TagsGiven, TablesGiven, OutOfReach, DeathsTrue, ShadowInv, EdgesKnown,
         DeadInv, computeObjectDeathTimes
  PROVE  DeadInv'
<1>1. /\ gc = "scanned" /\ gc' = "timed"
      /\ keys \subseteq keys' /\ revived \subseteq revived'
      /\ \A x \in keys' \ keys : x \in revived' \/ \E y \in deadSet \cap nodes : edge[y] = x
      /\ UNCHANGED <<field, made, collected, tag, nodes, deadSet, deaths, contested>>
  BY DEF computeObjectDeathTimes, neighbors, heapVars, tagVars, shadow, history, search
<1>2. ASSUME NEW x \in keys' \ keys, x \notin contested \cup revived', x # 0
      PROVE  \E o \in Objects : tag[o] = x /\ x # 0 /\ (o \in collected => x \in deadSet)
  <2>1. PICK y \in deadSet \cap nodes : edge[y] = x /\ x # 0
    BY <1>1, <1>2
  <2>2. PICK p \in Objects : tag[p] = y
    BY <2>1 DEF ShadowInv, TagsGiven
  <2>3. OutEdge(p) = x
    BY <2>1, <2>2 DEF OutEdge
  <2>4. x \in Given
    BY <2>1 DEF TablesGiven, TypeOK
  <2>5. PICK o \in Objects : tag[o] = x
    BY <2>4 DEF TagsGiven
  <2>6. ASSUME o \in collected PROVE x \in deadSet
    <3>1. p \in collected /\ field[p] = o
      BY <1>2, <2>1, <2>3, <2>5, <2>6, EdgeToCollected DEF DeadInv
    <3>2. tag[p] # 0
      BY <2>1, <2>2 DEF TypeOK, Tags
    <3>3. Marked(o)
      BY <2>1, <2>2, <2>5, <2>6, <3>1, <3>2 DEF DeadInv, CollectedKnown
    <3> QED BY <1>1, <2>5, <3>3 DEF Marked
  <2> QED BY <2>1, <2>5, <2>6
<1>3. collected \subseteq Objects
  BY DEF TypeOK
<1>4. SlotsLive'
  BY <1>1 DEF DeadInv, SlotsLive
<1>5. \A o \in collected : Marked(o) => Marked(o)'
  BY <1>1 DEF Marked
<1>6. CollectedKnown'
  <2>1. ASSUME NEW o \in collected, tag[o] # 0, Forgot(o)
        PROVE  Marked(o)' \/ Forgot(o)'
    <3>1. CASE tag[o] \in keys' \ keys /\ tag[o] \notin contested \cup revived'
      <4>1. PICK q \in Objects : tag[q] = tag[o] /\ (q \in collected => tag[o] \in deadSet)
        BY <1>2, <2>1, <3>1
      <4>2. q = o
        BY <1>3, <2>1, <4>1 DEF TagsGiven
      <4> QED BY <1>1, <4>1, <4>2 DEF Marked
    <3>2. CASE ~(tag[o] \in keys' \ keys /\ tag[o] \notin contested \cup revived')
      BY <1>1, <2>1, <3>2 DEF Forgot
    <3> QED BY <3>1, <3>2
  <2>2. ASSUME NEW o \in collected, tag[o] # 0
        PROVE  /\ Marked(o)' \/ Forgot(o)'
               /\ tag[o] \in nodes /\ field[o] \in collected /\ tag[field[o]] # 0
                    => Marked(field[o])'
    <3>1. tag[o] \in nodes /\ field[o] \in collected /\ tag[field[o]] # 0 => Marked(field[o])
      BY <2>2 DEF DeadInv, CollectedKnown
    <3>2. tag[o] \in nodes /\ field[o] \in collected /\ tag[field[o]] # 0 => Marked(field[o])'
      BY <1>1, <3>1 DEF Marked
    <3> QED BY <1>5, <2>1, <2>2, <3>2 DEF DeadInv, CollectedKnown
  <2> QED BY <1>1, <2>2 DEF CollectedKnown
<1>7. ReportedOnce'
  <2>1. ASSUME NEW x \in Tags \ (contested \cup revived'), x \in keys' \ keys
        PROVE  deaths[x] = 0
    <3>1. PICK o \in Objects : tag[o] = x /\ x # 0 /\ (o \in collected => x \in deadSet)
      BY <1>2, <2>1 DEF Tags
    <3>2. CASE x \in deadSet
      BY <1>1, <2>1, <3>2 DEF DeadInv, ReportedOnce
    <3>3. CASE x \notin deadSet
      <4>1. deaths[x] > 0 => \E q \in collected : tag[q] = x
        BY DEF DeathsTrue
      <4>2. ~(deaths[x] > 0)
        BY <1>3, <3>1, <3>3, <4>1 DEF TagsGiven
      <4>3. deaths[x] \in Nat
        BY DEF TypeOK
      <4> QED BY <4>2, <4>3
    <3> QED BY <3>2, <3>3
  <2> QED BY <1>1, <2>1 DEF DeadInv, ReportedOnce
<1> QED BY <1>4, <1>6, <1>7 DEF DeadInv

\* The other steps of a collection.
LEMMA ForceDead ==
  ASSUME TypeOK, HooksKnow, OutOfReach, WindowInv, DeadInv, ForceGarbageCollection
  PROVE  DeadInv'
<1>1. /\ gc = "idle" /\ gc' = "forced" /\ collected' = made \ Reachable
      /\ UNCHANGED <<field, made, tag, keys, nodes, deadSet, deaths, contested, revived>>
  BY DEF ForceGarbageCollection, tagVars, shadow, history, search
<1>2. Null \notin collected' /\ made \subseteq Objects /\ collected \subseteq collected'
  BY <1>1, TrackingAssumption DEF TypeOK, OutOfReach
<1>3. SlotsLive'
  <2> SUFFICES ASSUME NEW o \in made \ collected' PROVE field[o] \notin collected'
    BY <1>1 DEF SlotsLive
  <2>1. o \in Reachable
    BY <1>1
  <2> QED BY <1>1, <1>2, <2>1, ReachableClosed
<1>4. ASSUME NEW o \in collected' \ collected, tag[o] # 0
      PROVE  tag[o] \in keys
  <2>1. o \in made \ collected /\ o \notin Reachable
    BY <1>1, <1>4
  <2>2. ASSUME NEW t \in Threads, WillStamp(t, o) PROVE FALSE
    <3>1. pc[t] # "idle" /\ (op[t].origin = o \/ (pc[t] \in Tagging /\ Subject(t) = o))
      BY <2>2 DEF WillStamp, WillRecord, Tagging
    <3> QED BY <2>1, <3>1, HookObjectsLive
  <2> QED BY <1>4, <2>1, <2>2 DEF WindowInv, Kept
<1>5. ASSUME NEW o \in collected, tag[o] # 0
      PROVE  Forgot(o)
  BY <1>1, <1>5 DEF DeadInv, CollectedKnown, Marked
<1>6. CollectedKnown'
  <2> SUFFICES ASSUME NEW o \in collected', tag[o] # 0
               PROVE  /\ Marked(o)' \/ Forgot(o)'
                      /\ tag[o] \in nodes /\ field[o] \in collected' /\ tag[field[o]] # 0
                           => Marked(field[o])'
    BY <1>1 DEF CollectedKnown
  <2>1. CASE o \in collected
    <3>1. Forgot(o)
      BY <1>5, <2>1
    <3>2. Forgot(o)' /\ tag[o] \notin nodes
      BY <1>1, <3>1 DEF Forgot
    <3> QED BY <3>2
  <2>2. CASE o \notin collected
    <3>1. field[o] \notin collected
      BY <1>1, <2>2 DEF DeadInv, SlotsLive
    <3> QED BY <1>1, <1>4, <2>2, <3>1 DEF Marked
  <2> QED BY <2>1, <2>2
<1>7. ReportedOnce'
  BY <1>1 DEF DeadInv, ReportedOnce
<1> QED BY <1>3, <1>6, <1>7 DEF DeadInv

LEMMA ScanDead ==
  ASSUME TypeOK, WindowInv, DeadInv, IterateThroughHeap \/ ScanTagTimeMap
  PROVE  DeadInv'
<1>1. UNCHANGED <<field, made, collected, tag, keys, nodes, deaths, contested, revived>>
  BY DEF IterateThroughHeap, ScanTagTimeMap, heapVars, tagVars, shadow, history, search
<1>2. \/ gc = "forced" /\ gc' = "walked" /\ deadSet' = deadSet
      \/ /\ gc = "walked" /\ gc' = "scanned"
         /\ deadSet' = deadSet \cup ((keys \ liveObjects) \ {0})
  BY DEF IterateThroughHeap, ScanTagTimeMap, ObjectFree
<1>3. \A o \in collected : tag[o] # 0 /\ Marked(o) => Marked(o)'
  BY <1>1, <1>2 DEF Marked, WindowInv, WindowHeld
<1>4. SlotsLive'
  BY <1>1 DEF DeadInv, SlotsLive
<1>5. CollectedKnown'
  <2> SUFFICES ASSUME NEW o \in collected, tag[o] # 0
               PROVE  /\ Marked(o)' \/ Forgot(o)'
                      /\ tag[o] \in nodes /\ field[o] \in collected /\ tag[field[o]] # 0
                           => Marked(field[o])'
    BY <1>1 DEF CollectedKnown
  <2>1. Marked(o)' \/ Forgot(o)'
    BY <1>1, <1>3 DEF DeadInv, CollectedKnown, Forgot
  <2>2. ASSUME tag[o] \in nodes, field[o] \in collected, tag[field[o]] # 0
        PROVE  Marked(field[o])'
    <3>1. Marked(field[o])
      BY <2>2 DEF DeadInv, CollectedKnown
    <3> QED BY <1>1, <1>2, <2>2, <3>1 DEF Marked, WindowInv, WindowHeld
  <2> QED BY <2>1, <2>2
<1>6. ReportedOnce'
  BY <1>1, <1>2 DEF DeadInv, ReportedOnce
<1> QED BY <1>4, <1>5, <1>6 DEF DeadInv

LEMMA ReportDead ==
  ASSUME TypeOK, DeadInv, Report
  PROVE  DeadInv'
<1>1. /\ gc = "timed" /\ gc' = "idle" /\ UNCHANGED <<field, made, collected, tag, contested, revived>>
      /\ deaths' = [x \in Tags |-> IF x \in deadSet THEN deaths[x] + 1 ELSE deaths[x]]
      /\ nodes' = nodes \ deadSet /\ keys' = keys \ deadSet /\ deadSet' = {}
  BY DEF Report, Forgotten, heapVars, tagVars, search
<1>2. \A x \in Tags : /\ deaths'[x] = IF x \in deadSet THEN deaths[x] + 1 ELSE deaths[x]
                      /\ deaths[x] \in Nat
  BY <1>1 DEF TypeOK
<1>3. SlotsLive'
  BY <1>1 DEF DeadInv, SlotsLive
<1>4. ASSUME NEW o \in collected, tag[o] # 0
      PROVE  Forgot(o)'
  <2>1. tag[o] \in Tags
    BY <1>4 DEF TypeOK
  <2>2. tag[o] \in deadSet \/ Forgot(o)
    BY <1>1, <1>4 DEF DeadInv, CollectedKnown, Marked
  <2> QED BY <1>1, <1>2, <2>1, <2>2 DEF Forgot
<1>5. CollectedKnown'
  BY <1>1, <1>4 DEF CollectedKnown, Forgot
<1>6. ReportedOnce'
  BY <1>1, <1>2 DEF DeadInv, ReportedOnce
<1> QED BY <1>3, <1>5, <1>6 DEF DeadInv

LEMMA StepReported ==
  ASSUME IInv, ShadowInv, EdgesKnown, OldKnown, WindowInv, DeadInv, [Next]_vars
  PROVE  DeadInv'
<1>1. IInv' /\ TagsKept
  BY StepInv
<1> USE DEF IInv, HookInv
<1>2. ASSUME NEW t \in Threads, Hook(t) PROVE DeadInv'
  <2>1. contested \subseteq contested'
    BY TagsChange
  <2> QED BY <1>1, <1>2, <2>1, HookDead
<1>3. ASSUME NEW t \in Threads, Program(t) PROVE DeadInv'
  BY <1>3, ProgramDead
<1>4. CASE fakeAGC
  BY <1>4, ForceDead, ScanDead, SearchDead, ReportDead DEF fakeAGC
<1>5. CASE UNCHANGED vars
  BY <1>5 DEF vars, heapVars, tagVars, shadow, history, search, DeadInv, SlotsLive, CollectedKnown,
              ReportedOnce, Marked, Forgot
<1> QED BY <1>2, <1>3, <1>4, <1>5 DEF Next

DeathInv == EdgesKnown /\ OldKnown /\ WindowInv /\ DeadInv

LEMMA DeathsInductive == Spec => [](IInv /\ RecordInv /\ ShadowInv /\ DeathInv)
<1>1. Init => IInv /\ RecordInv /\ ShadowInv /\ DeathInv
  BY InitInv, InitRecords, InitShadow, InitEdges, InitWindow, InitDead DEF DeathInv
<1>2. IInv /\ RecordInv /\ ShadowInv /\ DeathInv /\ [Next]_vars
        => IInv' /\ RecordInv' /\ ShadowInv' /\ DeathInv'
  BY StepInv, StepRecords, StepShadow, StepEdges, StepWindow, StepReported DEF DeathInv
<1> QED BY <1>1, <1>2, PTL DEF Spec

(* No death is reported twice, over any number of collections and with any *)
(* number of hooks running at the same time, unless a tag was raced for or *)
(* was put back by the list that HashGraph::neighbors left over from the   *)
(* search before: nothing else that was forgotten gets a stamp again,      *)
(* neither from a hook nor from the search (shadowGCEnd,                   *)
(* computeObjectDeathTimes).                                               *)
THEOREM DeathReportedOnce == Spec => []DiesOnce
<1>1. IInv /\ RecordInv /\ ShadowInv /\ DeathInv => DiesOnce
  BY DEF DeathInv, DeadInv, ReportedOnce, DiesOnce
<1> QED BY <1>1, DeathsInductive, PTL

(* A collection reports every tagged object that the JVM collected, and    *)
(* removes its node; no stamp of it is left either, unless its tag was     *)
(* raced for or an outdated list of neighbors put it back (fakeAGC,        *)
(* shadowGCEnd).                                                           *)
THEOREM EveryDeathReported == Spec => []DeadAreReported
<1>1. IInv /\ RecordInv /\ ShadowInv /\ DeathInv => DeadAreReported
  <2> SUFFICES ASSUME DeathInv, gc = "idle", NEW o \in collected, tag[o] # 0
               PROVE  /\ deaths[tag[o]] > 0
                      /\ tag[o] \notin contested =>
                           tag[o] \notin nodes /\ (tag[o] \in keys => tag[o] \in revived)
    BY DEF DeadAreReported
  <2>1. Forgot(o)
    BY DEF DeathInv, DeadInv, CollectedKnown, Marked
  <2> QED BY <2>1 DEF Forgot
<1> QED BY <1>1, DeathsInductive, PTL
=============================================================================
