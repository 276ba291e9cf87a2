------------------------- MODULE ObjectTrackingInv -------------------------
(* The inductive invariant behind the theorems about ObjectTracking.       *)
EXTENDS ObjectTracking

Tagging == {"getTag", "tagObject", "allocate", "stampNew", "addNode"}
UsesTag == {"stampUse", "recordUse", "stampOrigin", "updateEdge", "stampOld",
            "stampOldAgain", "recordUpdate"}

\* The objects a hook has still to tag: the origin and the target, or the target only.
UntaggedIn(t) ==
  pc[t] \in Tagging =>
    \/ op[t].untagged = <<op[t].origin>>
    \/ op[t].untagged = <<op[t].origin, op[t].target>> /\ op[t].target # Null
    \/ /\ op[t].untagged = <<op[t].target>> /\ op[t].target # Null
       /\ tag[op[t].origin] # 0

\* A hook that runs after its store has all of them to tag.
StoresIn(t) ==
  pc[t] = "store" /\ op[t].kind = "jniStore" =>
    op[t].untagged = IF op[t].target = Null THEN <<op[t].origin>>
                     ELSE <<op[t].origin, op[t].target>>

\* A hook knows the tag of what it is about to stamp, or to give a node.
HasTagIn(t) ==
  /\ pc[t] \in {"allocate", "stampNew", "addNode"} => tag[Subject(t)] # 0
  /\ pc[t] \in UsesTag => tag[op[t].origin] # 0

\* The objects a hook works on are those its thread may use.
UsableIn(t) ==
  /\ owed[t] \in {Null, held[t]}
  /\ pc[t] # "idle" => /\ op[t].origin \in Usable(t)
                       /\ op[t].target \in Usable(t) \cup {Null}

HooksKnow == \A t \in Threads : UntaggedIn(t) /\ StoresIn(t) /\ HasTagIn(t) /\ UsableIn(t)

Given == 1 .. nextTag - 1

\* The tags below nextTag are given, each to one object that exists.
TagsGiven ==
  /\ \A o \in Objects : tag[o] # 0 => tag[o] \in Given /\ o \in made
  /\ \A o, p \in Objects : tag[o] # 0 /\ tag[o] = tag[p] => o = p
  /\ \A x \in Given : \E o \in Objects : tag[o] = x

\* The agent's tables hold given tags.
TablesGiven ==
  /\ keys \subseteq Given \cup {0} /\ nullList \subseteq Given \cup {0}
  /\ \A x \in Tags : edge[x] \in Given \cup {0}
  /\ \A t \in Threads : op[t].old \in Given \cup {0}

\* What was collected stays out of reach.
OutOfReach ==
  /\ collected \subseteq made /\ collected \cap Reachable = {}
  /\ Reachable \subseteq made
  /\ \A o \in Objects \ made : field[o] = Null

\* After the walk, what is not live is dead or contested.
WalkedLive ==
  gc = "walked" => \A o \in made \ collected :
    tag[o] # 0 /\ tag[o] \notin contested => tag[o] \in liveObjects

DeadCollected == \A x \in deadSet \ contested : \E o \in collected : tag[o] = x

HookInv == TypeOK /\ HooksKnow /\ TagsGiven /\ TablesGiven
IInv == HookInv /\ OutOfReach /\ WalkedLive /\ DeadCollected /\ DeathsTrue
=============================================================================
