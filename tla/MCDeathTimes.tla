---------------------------- MODULE MCDeathTimes ----------------------------
(***************************************************************************)
(* DeathTimes on a small instance: every graph over three objects, which   *)
(* has the chains, cycles and shared targets that reorder the stack, with  *)
(* every order of three stamps and one stamp later than INT_MAX; the list  *)
(* of neighbors starts out with all the objects.                           *)
(***************************************************************************)
EXTENDS DeathTimesInv, TLC

AllObjects == {Tags}
=============================================================================
