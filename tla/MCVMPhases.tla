----------------------------- MODULE MCVMPhases -----------------------------
(* A class A with a subclass B; a subclass U that the load hook was not    *)
(* called for; an interface I of A; all with a static field.               *)
EXTENDS VMPhases, TLC

CONSTANTS A, B, U, I, b1, u1, arr, new, t1, t2

Symmetry == Permutations(Threads)
MCSuper == [c \in Classes |-> IF c \in {B, U} THEN A ELSE Null]
MCInterfaces == [c \in Classes |-> IF c = A THEN {I} ELSE {}]
MCClassOf == [o \in Objects |-> CASE o = b1 -> B [] o = u1 -> U [] OTHER -> A]
MCFirstStatic == <<A, A>>
MCLength == [a \in {arr} |-> 2]
MCInitialHeaps ==
  {[loaded |-> {A, B, I},
    heap |-> <<A, A>> :> b1 @@ <<I, I>> :> b1 @@ <<b1, A>> :> b1 @@ <<b1, B>> :> Null],
   [loaded |-> {A, B, I}, heap |-> <<A, A>> :> arr @@ <<arr, 1>> :> arr],   \* B is not prepared
   [loaded |-> {A, I, U}, heap |-> <<U, U>> :> u1 @@ <<u1, A>> :> u1 @@ <<u1, U>> :> u1]}
=============================================================================
