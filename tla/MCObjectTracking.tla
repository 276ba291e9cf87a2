-------------------------- MODULE MCObjectTracking --------------------------
(* Bounds for TLC: what each of two threads calls, each hook once.  The    *)
(* objects the program makes are interchangeable.                          *)
EXTENDS ObjectTracking, TLC

CONSTANTS t1, t2

Calls(kinds1, kinds2) ==
  t1 :> [kind \in Kinds |-> IF kind \in kinds1 THEN 1 ELSE 0] @@
  t2 :> [kind \in Kinds |-> IF kind \in kinds2 THEN 1 ELSE 0]

MCPrograms ==
  {\* an array loses an object in a JNI store while the other thread's objects die
   Calls({"update", "arrayStore", "use"}, {"jniStore"}),
   Calls({"new", "use"}, {"jniStore"}),
   \* one thread's new object is published while the other thread uses it
   Calls({"new", "arrayStore"}, {"update"})}

Symmetry == Permutations(Objects \ {Shared})
=============================================================================
